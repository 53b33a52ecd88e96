----------------------------- MODULE MCInstaller -----------------------------
(***************************************************************************)
(* Values of the constants of Installer for model checking: the second     *)
(* version drops one role, adds one, and keeps one.                        *)
(***************************************************************************)
EXTENDS Installer

CONSTANTS Kept, Dropped, Added

TwoReleases == <<{Kept, Dropped}, {Kept, Added}>>
=============================================================================
