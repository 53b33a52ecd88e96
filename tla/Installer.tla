------------------------------ MODULE Installer ------------------------------
(***************************************************************************)
(* The installer (scripts/install.py): one run cleans what older releases  *)
(* left, replaces the package directory by two renames, and then copies    *)
(* the dispatcher and the roles and removes the roles that the package it  *)
(* found had declared.  A run can fail at any step, be interrupted, or die.*)
(*                                                                         *)
(* One run of the installer at a time: the code takes no lock, and two     *)
(* runs side by side are left out.                                         *)
(***************************************************************************)
EXTENDS Naturals, FiniteSets

CONSTANTS
  Versions,    \* package versions: positive naturals in release order
  Roles,       \* names of managed roles
  Declared,    \* Declared[v]: the roles the policy of v declares
  MaxRuns,     \* bound: runs of the installer
  Breaks       \* how runs can end early: a subset of AllBreaks

VARIABLES
  package,     \* version of the installed package, or Absent
  backup,      \* version of the package moved aside, or Absent
  dispatcher,  \* version of the installed dispatcher, or Absent
  agents,      \* for each role, the version of its installed file, or Absent
  legacy,      \* what older releases left: a subset of LegacyEntries
  installer,   \* the running installer, or Idle
  runs,        \* runs started so far
  last,        \* how the last run ended
  broken       \* how and where runs ended that did not complete

files == <<package, backup, dispatcher, agents, legacy>>
history == <<runs, last, broken>>
vars == <<package, backup, dispatcher, agents, legacy, installer, runs, last,
          broken>>

Absent == 0

\* A registered controller hook, the trust made for it (a block that the old
\* installer marked as its own, and a table that is known by the hook's key
\* only), and the rule that allowed its command.
LegacyEntries == {"hook", "block", "trust", "rule"}

\* An error raised in a step; an error in putting the old package back as
\* well; Ctrl-C; a process that dies.
AllBreaks == {"failed", "unrestored", "interrupted", "crashed"}

ASSUME InstallerAssumption ==
  /\ Versions \subseteq Nat \ {Absent}
  /\ Declared \in [Versions -> SUBSET Roles]
  /\ MaxRuns \in Nat /\ Breaks \subseteq AllBreaks

Idle == [pc |-> "idle"]

At(pc) == installer.pc = pc

Goto(pc) == installer' = [installer EXCEPT !.pc = pc]

-----------------------------------------------------------------------------
(* The steps of a run.                                                     *)

\* Mutant: the roles of the package that was replaced are not looked up.
NoPreviousRoles == {}

\* _previous_managed_role_names.
PreviousRoles == IF package = Absent THEN {} ELSE Declared[package]

\* _controller_trust_keys and _remove_controller_trust: the marked block goes
\* in any case, the table only through the hook it was made for.
RemovableTrust == {"block"} \union (IF "hook" \in legacy THEN {"trust"} ELSE {})

\* Everything is read and decided here: the roles that the installed package
\* declares, and the trust that is to go.
Plan ==
  /\ installer = Idle /\ runs < MaxRuns
  /\ \E v \in Versions :
       installer' = [pc |-> "clean_hooks", version |-> v,
                     obsolete |-> PreviousRoles \ Declared[v],
                     stale |-> legacy \cap RemovableTrust,
                     todo |-> Declared[v]]
  /\ runs' = runs + 1
  /\ UNCHANGED <<files, last, broken>>

Clean(pc, entries, next) ==
  /\ At(pc)
  /\ legacy' = legacy \ entries
  /\ Goto(next)
  /\ UNCHANGED <<package, backup, dispatcher, agents, history>>

CleanHooks == Clean("clean_hooks", {"hook"}, "clean_config")
CleanConfig == At("clean_config") /\ Clean("clean_config", installer.stale, "clean_rules")
CleanRules == Clean("clean_rules", {"rule"}, "stage")

\* The new package is staged and validated; the old one is moved aside.
MoveOld ==
  /\ At("stage")
  /\ backup' = package /\ package' = Absent
  /\ Goto("move_new")
  /\ UNCHANGED <<dispatcher, agents, legacy, history>>

MoveNew ==
  /\ At("move_new")
  /\ package' = installer.version
  /\ Goto("drop_backup")
  /\ UNCHANGED <<backup, dispatcher, agents, legacy, history>>

\* Mutant: the backup is left to a later run.
KeepBackup ==
  /\ At("drop_backup")
  /\ Goto("dispatcher")
  /\ UNCHANGED <<files, history>>

\* The end of _atomic_package.
DropBackup ==
  /\ At("drop_backup")
  /\ backup' = Absent
  /\ Goto("dispatcher")
  /\ UNCHANGED <<package, dispatcher, agents, legacy, history>>

\* The dispatcher and the roles are copied from the package in place.
CopyDispatcher ==
  /\ At("dispatcher")
  /\ dispatcher' = package
  /\ Goto("roles")
  /\ UNCHANGED <<package, backup, agents, legacy, history>>

\* Mutant: a role that is installed already is not copied again.
CopyMissingRole ==
  /\ At("roles")
  /\ \E r \in installer.todo :
       /\ agents' = [agents EXCEPT ![r] = IF @ = Absent THEN package ELSE @]
       /\ installer' = [installer EXCEPT !.todo = @ \ {r}]
  /\ UNCHANGED <<package, backup, dispatcher, legacy, history>>

CopyRole ==
  /\ At("roles")
  /\ \E r \in installer.todo :
       /\ agents' = [agents EXCEPT ![r] = package]
       /\ installer' = [installer EXCEPT !.todo = @ \ {r}]
  /\ UNCHANGED <<package, backup, dispatcher, legacy, history>>

RemoveObsolete ==
  /\ At("roles") /\ installer.todo = {}
  /\ \E r \in installer.obsolete :
       /\ agents' = [agents EXCEPT ![r] = Absent]
       /\ installer' = [installer EXCEPT !.obsolete = @ \ {r}]
  /\ UNCHANGED <<package, backup, dispatcher, legacy, history>>

Complete ==
  /\ At("roles") /\ installer.todo = {} /\ installer.obsolete = {}
  /\ installer' = Idle /\ last' = "done"
  /\ UNCHANGED <<files, runs, broken>>

-----------------------------------------------------------------------------
(* Ends of a run that is not complete.                                     *)

End(how) ==
  /\ how \in Breaks
  /\ installer' = Idle /\ last' = how
  /\ broken' = broken \union {[how |-> how, at |-> installer.pc]}
  /\ UNCHANGED <<dispatcher, agents, legacy, runs>>

\* Mutant: the old package is not put back.
FailWithoutRestore ==
  /\ installer # Idle
  /\ End("failed")
  /\ backup' = IF At("move_new") THEN Absent ELSE backup
  /\ UNCHANGED package

\* A step raises an error.  The old package is put back if it was moved aside
\* and nothing took its place.
Fail ==
  /\ installer # Idle
  /\ End("failed")
  /\ backup' = IF At("move_new") THEN Absent ELSE backup
  /\ package' = IF At("move_new") THEN backup ELSE package

\* Putting it back fails too: the backup is removed all the same.
FailTwice ==
  /\ At("move_new") /\ backup # Absent
  /\ End("unrestored")
  /\ backup' = Absent
  /\ UNCHANGED package

\* An interrupt is no Exception: nothing is put back, the backup is removed.
Interrupt ==
  /\ installer # Idle
  /\ End("interrupted")
  /\ backup' \in IF At("move_new") THEN {Absent}
                ELSE IF At("drop_backup") THEN {Absent, backup} ELSE {backup}
  /\ UNCHANGED package

\* The process dies: everything stays as it is.
Crash ==
  /\ installer # Idle
  /\ End("crashed")
  /\ UNCHANGED <<package, backup>>

-----------------------------------------------------------------------------
\* Nothing is installed, or a release is, with or without what it left of an
\* older one.
Init ==
  /\ package \in {Absent} \union Versions
  /\ backup = Absent /\ dispatcher = package
  /\ agents = [r \in Roles |->
                 IF package # Absent /\ r \in Declared[package] THEN package ELSE Absent]
  /\ legacy \in IF package = Absent THEN {{}} ELSE {{}, LegacyEntries}
  /\ installer = Idle /\ runs = 0 /\ last = "done" /\ broken = {}

Install ==
  \/ Plan \/ CleanHooks \/ CleanConfig \/ CleanRules \/ MoveOld \/ MoveNew
  \/ DropBackup \/ CopyDispatcher \/ CopyRole \/ RemoveObsolete \/ Complete

Break == Fail \/ FailTwice \/ Interrupt \/ Crash

Next == Install \/ Break

Spec == Init /\ [][Next]_vars

-----------------------------------------------------------------------------
(* version_status.compare: what it says of source v beside the installed   *)
(* package.  Files changed by hand are left out.                           *)

Status(v) ==
  IF package = Absent THEN "not_installed"
  ELSE IF v = package THEN "current"
  ELSE IF v > package THEN "update_available" ELSE "source_older"

-----------------------------------------------------------------------------
(* Properties.                                                             *)

InstallTypeOK ==
  /\ {package, backup, dispatcher} \subseteq {Absent} \union Versions
  /\ agents \in [Roles -> {Absent} \union Versions]
  /\ legacy \subseteq LegacyEntries
  /\ runs <= MaxRuns
  /\ installer = Idle /\ broken = {} => backup = Absent

\* An installed package does not get lost: however often runs fail, there is
\* a package afterwards, unless an interrupt, a second error or the death of
\* the process hit the moment between the two renames.
PackageSurvives ==
  installer = Idle /\ package = Absent /\ dispatcher # Absent
  => \E b \in broken : b.at = "move_new" /\ b.how # "failed"

\* A run that ended here had replaced the package, or lost it, and what the
\* replaced one declared is found by no later run.
Forgets(b) ==
  \/ b.at \in {"drop_backup", "dispatcher", "roles"}
  \/ b.at = "move_new" /\ b.how # "failed"

\* "Rerunning the installer is the supported repair": wherever earlier runs
\* broke, after a run that completes the dispatcher and every declared role
\* are of the version of the package and no hook, marked block or rule is left.
\* Two things a rerun cannot repair: the trust table of a hook that a broken
\* run removed just before, and the roles of a package whose replacement a
\* run did not survive.
RerunRepairs ==
  installer = Idle /\ runs > 0 /\ last = "done" =>
    /\ package # Absent /\ dispatcher = package
    /\ \A r \in Declared[package] : agents[r] = package
    /\ legacy \subseteq {"trust"}
    /\ "trust" \in legacy => \E b \in broken : b.at = "clean_config"
    /\ (\E r \in Roles \ Declared[package] : agents[r] # Absent)
       => \E b \in broken : Forgets(b)

\* "current" can be relied on as long as no run broke after it had replaced
\* the package: version_status looks at the package only, and the dispatcher
\* and the roles are then of the same version, through any sequence of
\* updates, rollbacks and earlier failures.
CurrentIsWhole ==
  \A v \in Versions :
    installer = Idle /\ Status(v) = "current" /\ (\A b \in broken : ~Forgets(b)) =>
      /\ dispatcher = v
      /\ \A r \in Roles : agents[r] = IF r \in Declared[v] THEN v ELSE Absent
=============================================================================
