--------------------------- MODULE MCLeafSupervisor ---------------------------
(***************************************************************************)
(* The instance of LeafSupervisor that TLC checks; supervisor.cfg gives    *)
(* the constants their values.                                             *)
(***************************************************************************)
EXTENDS LeafSupervisor
=============================================================================
