--------------------------- MODULE Installer_proofs ---------------------------
(***************************************************************************)
(* The properties of module Installer for every set of versions and roles, *)
(* every way in which runs can break and any number of runs.               *)
(*                                                                         *)
(* Each property is about the moments when no run is in progress; the      *)
(* inductive invariant says what a run owes to it from each of its steps   *)
(* on.  TypeInv comes first; the other parts use it and each other.        *)
(***************************************************************************)
EXTENDS Installer, TLAPS

Cleaning == {"clean_hooks", "clean_config", "clean_rules", "stage"}
Replaced == {"drop_backup", "dispatcher", "roles"}

Running ==
  [pc : Cleaning \union {"move_new"} \union Replaced, version : Versions,
   obsolete : SUBSET Roles, stale : SUBSET {"block", "trust"}, todo : SUBSET Roles]

TypeInv ==
  /\ package \in {Absent} \union Versions
  /\ backup \in {Absent} \union Versions
  /\ dispatcher \in {Absent} \union Versions
  /\ agents \in [Roles -> {Absent} \union Versions]
  /\ legacy \subseteq LegacyEntries
  /\ runs \in 0 .. MaxRuns
  /\ installer = Idle \/ installer \in Running
  /\ installer # Idle =>
       /\ installer.obsolete \cap Declared[installer.version] = {}
       /\ installer.todo \subseteq Declared[installer.version]

\* Where a run stands: what the package and the backup are then.
PackageInv ==
  /\ broken = {} => backup = Absent \/ installer.pc \in {"move_new", "drop_backup"}
  /\ installer.pc = "move_new" => package = Absent
  /\ installer.pc \in Replaced => package = installer.version

Lost == \E b \in broken : b.at = "move_new" /\ b.how # "failed"

\* A package that is gone is in the backup of the running run, or was lost.
SurvivalInv ==
  package = Absent /\ dispatcher # Absent
  => Lost \/ (installer.pc = "move_new" /\ backup # Absent)

Forgotten == \E b \in broken : Forgets(b)

Whole(v) ==
  /\ dispatcher = v
  /\ \A r \in Roles : agents[r] = IF v # Absent /\ r \in Declared[v] THEN v ELSE Absent

\* As long as nothing was forgotten the installation is whole until a run has
\* replaced the package, and a run knows every role it has to remove.
WholeInv ==
  ~Forgotten =>
    /\ installer.pc \in {"idle"} \union Cleaning => Whole(package)
    /\ installer.pc = "move_new" => Whole(backup)
    /\ installer # Idle =>
         \A r \in Roles \ Declared[installer.version] :
           agents[r] # Absent => r \in installer.obsolete

\* What a run that is copying has copied, and a completed run has.
CopiedInv ==
  /\ installer # Idle /\ installer.pc # "roles" =>
       installer.todo = Declared[installer.version]
  /\ installer.pc = "roles" =>
       /\ dispatcher = package
       /\ \A r \in Declared[installer.version] \ installer.todo : agents[r] = package
  /\ installer = Idle /\ runs > 0 /\ last = "done" =>
       /\ package # Absent /\ dispatcher = package
       /\ \A r \in Declared[package] : agents[r] = package

\* The trust table goes with its hook, unless a run broke between the two.
LegacyInv ==
  /\ installer.pc \in {"clean_config", "clean_rules", "stage", "move_new"} \union Replaced
     => "hook" \notin legacy
  /\ installer.pc \in {"clean_hooks", "clean_config"} /\ "block" \in legacy
     => "block" \in installer.stale
  /\ installer.pc \in {"clean_rules", "stage", "move_new"} \union Replaced
     => "block" \notin legacy
  /\ installer.pc \in {"stage", "move_new"} \union Replaced => "rule" \notin legacy
  /\ installer = Idle /\ runs > 0 /\ last = "done" => legacy \subseteq {"trust"}
  /\ "trust" \in legacy /\ (\A b \in broken : b.at # "clean_config") =>
       \/ installer = Idle /\ "hook" \in legacy
       \/ installer.pc = "clean_hooks" /\ "hook" \in legacy /\ "trust" \in installer.stale
       \/ installer.pc = "clean_config" /\ "trust" \in installer.stale

Inv ==
  TypeInv /\ PackageInv /\ SurvivalInv /\ WholeInv /\ CopiedInv /\ LegacyInv

USE InstallerAssumption DEF Absent, Idle

-----------------------------------------------------------------------------
\* The invariant holds before the first installation.
LEMMA InitInv == Init => Inv
<1> SUFFICES ASSUME Init PROVE Inv
  OBVIOUS
<1> USE DEF Init
<1>1. TypeInv
  BY DEF TypeInv, LegacyEntries
<1>2. PackageInv /\ SurvivalInv
  BY DEF PackageInv, SurvivalInv, Replaced
<1>3. WholeInv
  BY DEF WholeInv, Whole, Cleaning
<1>4. CopiedInv /\ LegacyInv
  BY DEF CopiedInv, LegacyInv, LegacyEntries, Replaced
<1> QED BY <1>1, <1>2, <1>3, <1>4 DEF Inv

\* A run that ends early leaves a note of it.
LEMMA EndIsNoted ==
  ASSUME NEW how, End(how)
  PROVE  /\ broken \subseteq broken' /\ broken' # {}
         /\ \E b \in broken' : b.how = how /\ b.at = installer.pc
         /\ \A b \in broken' : b \in broken \/ (b.how = how /\ b.at = installer.pc)
         /\ how \in AllBreaks
<1>1. [how |-> how, at |-> installer.pc] \in broken'
  BY DEF End
<1>2. broken \subseteq broken' /\ how \in AllBreaks
  BY DEF End
<1>3. \A b \in broken' : b \in broken \/ (b.how = how /\ b.at = installer.pc)
  BY DEF End
<1> QED BY <1>1, <1>2, <1>3

\* Every step keeps the types.
LEMMA TypeStep == ASSUME TypeInv, [Next]_vars PROVE TypeInv'
<1> USE DEF TypeInv, Running, Cleaning, Replaced, At, Goto, files, history, LegacyEntries
<1>1. CASE Plan
  <2>1. PICK v \in Versions :
          installer' = [pc |-> "clean_hooks", version |-> v,
                        obsolete |-> PreviousRoles \ Declared[v],
                        stale |-> legacy \cap RemovableTrust,
                        todo |-> Declared[v]]
    BY <1>1 DEF Plan
  <2>2. PreviousRoles \subseteq Roles /\ Declared[v] \subseteq Roles
    BY DEF PreviousRoles
  <2>3. installer' \in Running
    BY <2>1, <2>2 DEF RemovableTrust
  <2> QED BY <1>1, <2>1, <2>3 DEF Plan
<1>2. CASE CleanHooks \/ CleanConfig \/ CleanRules
  BY <1>2 DEF CleanHooks, CleanConfig, CleanRules, Clean
<1>3. CASE MoveOld \/ MoveNew \/ DropBackup \/ CopyDispatcher
  BY <1>3 DEF MoveOld, MoveNew, DropBackup, CopyDispatcher
<1>4. CASE CopyRole
  BY <1>4 DEF CopyRole
<1>5. CASE RemoveObsolete
  BY <1>5 DEF RemoveObsolete
<1>6. CASE Complete
  BY <1>6 DEF Complete
<1>7. CASE Break
  BY <1>7 DEF Break, Fail, FailTwice, Interrupt, Crash, End
<1>9. CASE UNCHANGED vars
  BY <1>9 DEF vars
<1> QED BY <1>1, <1>2, <1>3, <1>4, <1>5, <1>6, <1>7, <1>9 DEF Next, Install

\* Every step leaves the package and the backup where the run's next step needs them.
LEMMA PackageStep == ASSUME TypeInv, PackageInv, [Next]_vars PROVE PackageInv'
<1> USE DEF TypeInv, PackageInv, Running, Cleaning, Replaced, At, Goto, files, history
<1>1. CASE Plan
  BY <1>1 DEF Plan
<1>2. CASE CleanHooks \/ CleanConfig \/ CleanRules
  BY <1>2 DEF CleanHooks, CleanConfig, CleanRules, Clean
<1>3. CASE MoveOld \/ MoveNew \/ DropBackup \/ CopyDispatcher
  BY <1>3 DEF MoveOld, MoveNew, DropBackup, CopyDispatcher
<1>4. CASE CopyRole \/ RemoveObsolete \/ Complete
  BY <1>4 DEF CopyRole, RemoveObsolete, Complete
<1>5. CASE Break
  <2>1. PICK how : End(how)
    BY <1>5 DEF Break, Fail, FailTwice, Interrupt, Crash
  <2>2. broken' # {} /\ installer' = [pc |-> "idle"]
    BY <2>1, EndIsNoted DEF End
  <2> QED BY <2>2
<1>7. CASE UNCHANGED vars
  BY <1>7 DEF vars
<1> QED BY <1>1, <1>2, <1>3, <1>4, <1>5, <1>7 DEF Next, Install

\* A package that is gone stays in the backup of its run, or was lost.
LEMMA SurvivalStep ==
  ASSUME TypeInv, PackageInv, SurvivalInv, [Next]_vars PROVE SurvivalInv'
<1> USE DEF TypeInv, PackageInv, SurvivalInv, Running, Cleaning, Replaced, At, Goto,
            files, history
<1>0. (broken' = broken => Lost' = Lost) /\ (broken \subseteq broken' /\ Lost => Lost')
  BY DEF Lost
<1>b. ASSUME NEW how, End(how), installer.pc = "move_new", how # "failed" PROVE Lost'
  BY <1>b, EndIsNoted DEF Lost
<1>1. CASE Plan
  BY <1>0, <1>1 DEF Plan
<1>2. CASE CleanHooks \/ CleanConfig \/ CleanRules
  BY <1>0, <1>2 DEF CleanHooks, CleanConfig, CleanRules, Clean
<1>3. CASE MoveOld \/ MoveNew \/ DropBackup \/ CopyDispatcher
  <2>1. CASE MoveOld
    BY <1>0, <2>1 DEF MoveOld
  <2>2. CASE MoveNew
    <3>1. installer \in Running
      BY <2>2 DEF MoveNew
    <3>2. package' \in Versions
      BY <2>2, <3>1 DEF MoveNew
    <3>3. package' # Absent
      BY <3>2
    <3> QED BY <3>3
  <2>3. CASE DropBackup
    BY <1>0, <2>3 DEF DropBackup
  <2>4. CASE CopyDispatcher
    BY <1>0, <2>4 DEF CopyDispatcher
  <2> QED BY <1>3, <2>1, <2>2, <2>3, <2>4
<1>4. CASE CopyRole \/ RemoveObsolete \/ Complete
  BY <1>0, <1>4 DEF CopyRole, RemoveObsolete, Complete
<1>5. CASE Break
  <2>1. CASE Fail
    BY <1>0, <2>1, EndIsNoted DEF Fail, End
  <2>2. CASE FailTwice
    BY <1>0, <2>2, <1>b, EndIsNoted DEF FailTwice, End
  <2>3. CASE Interrupt
    BY <1>0, <2>3, <1>b, EndIsNoted DEF Interrupt, End
  <2>4. CASE Crash
    BY <1>0, <2>4, <1>b, EndIsNoted DEF Crash, End
  <2> QED BY <1>5, <2>1, <2>2, <2>3, <2>4 DEF Break
<1>7. CASE UNCHANGED vars
  BY <1>0, <1>7 DEF vars
<1> QED BY <1>1, <1>2, <1>3, <1>4, <1>5, <1>7 DEF Next, Install

\* Every step keeps what the installer has copied so far.
LEMMA CopiedStep ==
  ASSUME TypeInv, PackageInv, CopiedInv, [Next]_vars PROVE CopiedInv'
<1> USE DEF TypeInv, PackageInv, CopiedInv, Running, Cleaning, Replaced, At, Goto,
            files, history
<1>1. CASE Plan
  BY <1>1 DEF Plan
<1>2. CASE CleanHooks \/ CleanConfig \/ CleanRules
  BY <1>2 DEF CleanHooks, CleanConfig, CleanRules, Clean
<1>3. CASE MoveOld \/ MoveNew \/ DropBackup
  BY <1>3 DEF MoveOld, MoveNew, DropBackup
<1>4. CASE CopyDispatcher
  BY <1>4 DEF CopyDispatcher
<1>5. CASE CopyRole
  BY <1>5 DEF CopyRole
<1>6. CASE RemoveObsolete
  BY <1>6 DEF RemoveObsolete
<1>7. CASE Complete
  BY <1>7 DEF Complete
<1>8. CASE Break
  BY <1>8 DEF Break, Fail, FailTwice, Interrupt, Crash, End, AllBreaks
<1>10. CASE UNCHANGED vars
  BY <1>10 DEF vars
<1> QED BY <1>1, <1>2, <1>3, <1>4, <1>5, <1>6, <1>7, <1>8, <1>10 DEF Next, Install

\* Every step keeps the installation whole where nothing was forgotten.
LEMMA WholeStep ==
  ASSUME TypeInv, PackageInv, CopiedInv, WholeInv, [Next]_vars PROVE WholeInv'
<1> USE DEF TypeInv, PackageInv, WholeInv, Running, Cleaning, Replaced, At, Goto,
            files, history
<1>0. Forgotten => Forgotten' \/ ~(broken \subseteq broken')
  BY DEF Forgotten, Forgets
<1>1. CASE Plan
  <2>1. PICK v \in Versions :
          installer' = [pc |-> "clean_hooks", version |-> v,
                        obsolete |-> PreviousRoles \ Declared[v],
                        stale |-> legacy \cap RemovableTrust,
                        todo |-> Declared[v]]
    BY <1>1 DEF Plan
  <2> QED BY <1>0, <1>1, <2>1 DEF Plan, PreviousRoles, Whole
<1>2. CASE CleanHooks \/ CleanConfig \/ CleanRules
  BY <1>0, <1>2 DEF CleanHooks, CleanConfig, CleanRules, Clean, Whole
<1>3. CASE MoveOld \/ MoveNew \/ DropBackup \/ CopyDispatcher
  <2>1. CASE MoveOld
    BY <1>0, <2>1 DEF MoveOld, Whole
  <2>2. CASE MoveNew
    BY <1>0, <2>2 DEF MoveNew
  <2>3. CASE DropBackup
    BY <1>0, <2>3 DEF DropBackup
  <2>4. CASE CopyDispatcher
    BY <1>0, <2>4 DEF CopyDispatcher
  <2> QED BY <1>3, <2>1, <2>2, <2>3, <2>4
<1>4. CASE CopyRole
  BY <1>0, <1>4 DEF CopyRole
<1>5. CASE RemoveObsolete
  BY <1>0, <1>5 DEF RemoveObsolete
<1>9. CASE Complete
  BY <1>0, <1>9 DEF Complete, CopiedInv, Whole
<1>6. CASE Break
  <2>1. PICK how : End(how)
    BY <1>6 DEF Break, Fail, FailTwice, Interrupt, Crash
  <2>2. SUFFICES ASSUME ~Forgotten' PROVE WholeInv'
    BY DEF WholeInv
  <2>3. ~Forgotten
    BY <1>0, <2>1, <2>2, EndIsNoted
  <2>4. PICK b \in broken' : b.how = how /\ b.at = installer.pc
    BY <2>1, EndIsNoted
  <2>5. ~Forgets(b)
    BY <2>2, <2>4 DEF Forgotten, Forgets
  <2>6. installer.pc \in Cleaning \/ (installer.pc = "move_new" /\ how = "failed")
    BY <1>6, <2>4, <2>5 DEF Forgets, Break, Fail, FailTwice, Interrupt, Crash
  <2>7. /\ package' = IF installer.pc = "move_new" THEN backup ELSE package
        /\ installer' = [pc |-> "idle"] /\ UNCHANGED <<dispatcher, agents>>
    <3>1. CASE Fail
      BY <3>1 DEF Fail, End
    <3>2. CASE FailTwice
      BY <2>1, <2>4, <2>6, <3>2, EndIsNoted DEF FailTwice, End
    <3>3. CASE Interrupt
      BY <2>1, <2>6, <3>3 DEF Interrupt, End
    <3>4. CASE Crash
      BY <2>1, <2>6, <3>4 DEF Crash, End
    <3> QED BY <1>6, <3>1, <3>2, <3>3, <3>4 DEF Break
  <2> QED BY <2>3, <2>6, <2>7 DEF Whole
<1>8. CASE UNCHANGED vars
  BY <1>0, <1>8 DEF vars, Whole
<1> QED BY <1>1, <1>2, <1>3, <1>4, <1>5, <1>6, <1>8, <1>9 DEF Next, Install

\* Every step keeps the trust table with its hook where no run broke between them.
LEMMA LegacyStep ==
  ASSUME TypeInv, LegacyInv, [Next]_vars PROVE LegacyInv'
<1> USE DEF TypeInv, LegacyInv, Running, Cleaning, Replaced, At, Goto, files, history,
            LegacyEntries
<1>1. CASE Plan
  BY <1>1 DEF Plan, RemovableTrust
<1>2. CASE CleanHooks
  BY <1>2 DEF CleanHooks, Clean
<1>3. CASE CleanConfig
  BY <1>3 DEF CleanConfig, Clean
<1>4. CASE CleanRules
  BY <1>4 DEF CleanRules, Clean
<1>5. CASE MoveOld \/ MoveNew \/ DropBackup \/ CopyDispatcher
  BY <1>5 DEF MoveOld, MoveNew, DropBackup, CopyDispatcher
<1>6. CASE CopyRole \/ RemoveObsolete
  BY <1>6 DEF CopyRole, RemoveObsolete
<1>7. CASE Complete
  BY <1>7 DEF Complete
<1>8. CASE Break
  <2>1. PICK how : End(how) /\ installer # Idle
    BY <1>8 DEF Break, Fail, FailTwice, Interrupt, Crash
  <2>2. installer' = [pc |-> "idle"] /\ last' # "done" /\ legacy' = legacy
    BY <2>1 DEF End, AllBreaks
  <2>3. ASSUME "trust" \in legacy', \A b \in broken' : b.at # "clean_config"
        PROVE "hook" \in legacy'
    BY <2>1, <2>2, <2>3, EndIsNoted
  <2> QED BY <2>2, <2>3
<1>10. CASE UNCHANGED vars
  BY <1>10 DEF vars
<1> QED BY <1>1, <1>2, <1>3, <1>4, <1>5, <1>6, <1>7, <1>8, <1>10 DEF Next, Install

\* Every step of the installer keeps the invariant.
THEOREM InvStep == Inv /\ [Next]_vars => Inv'
<1> SUFFICES ASSUME Inv, [Next]_vars PROVE Inv'
  OBVIOUS
<1> QED
  BY TypeStep, PackageStep, SurvivalStep, CopiedStep, WholeStep, LegacyStep
  DEF Inv

\* The invariant holds in every state.
THEOREM Invariant == Spec => []Inv
<1> QED BY InitInv, InvStep, PTL DEF Spec

-----------------------------------------------------------------------------
\* Types: versions, roles and leftovers stay what they are, and no run breaks
\* without a note of it while a backup is around.
THEOREM TypeCorrect == Spec => []InstallTypeOK
<1>1. Inv => InstallTypeOK
  BY DEF Inv, TypeInv, PackageInv, InstallTypeOK
<1> QED BY <1>1, Invariant, PTL

\* An installed package is lost only between the two renames, and never by a
\* failing step alone.
THEOREM PackageIsKept == Spec => []PackageSurvives
<1>1. Inv => PackageSurvives
  BY DEF Inv, SurvivalInv, PackageSurvives, Lost
<1> QED BY <1>1, Invariant, PTL

\* A run that completes repairs what earlier ones left, up to the two
\* exceptions that the property names.
THEOREM CompletionRepairs == Spec => []RerunRepairs
<1>1. ASSUME Inv PROVE RerunRepairs
  <2>1. SUFFICES ASSUME installer = Idle, runs > 0, last = "done" PROVE
          /\ package # Absent /\ dispatcher = package
          /\ \A r \in Declared[package] : agents[r] = package
          /\ legacy \subseteq {"trust"}
          /\ "trust" \in legacy => \E b \in broken : b.at = "clean_config"
          /\ (\E r \in Roles \ Declared[package] : agents[r] # Absent)
             => \E b \in broken : Forgets(b)
    BY DEF RerunRepairs
  <2>2. /\ package # Absent /\ dispatcher = package
        /\ \A r \in Declared[package] : agents[r] = package
    BY <1>1, <2>1 DEF Inv, CopiedInv
  <2>3. /\ legacy \subseteq {"trust"}
        /\ "trust" \in legacy => \E b \in broken : b.at = "clean_config"
    BY <1>1, <2>1 DEF Inv, LegacyInv
  <2>4. ASSUME NEW r \in Roles \ Declared[package], agents[r] # Absent
        PROVE \E b \in broken : Forgets(b)
    BY <1>1, <2>1, <2>4 DEF Inv, WholeInv, Whole, Forgotten
  <2> QED BY <2>2, <2>3, <2>4
<1> QED BY <1>1, Invariant, PTL

\* "current" tells of the whole installation until a run breaks after it has
\* replaced the package.
THEOREM CurrentTellsAll == Spec => []CurrentIsWhole
<1>1. ASSUME Inv PROVE CurrentIsWhole
  <2>1. SUFFICES ASSUME NEW v \in Versions, installer = Idle, Status(v) = "current",
                        \A b \in broken : ~Forgets(b)
                 PROVE /\ dispatcher = v
                       /\ \A r \in Roles : agents[r] = IF r \in Declared[v] THEN v ELSE Absent
    BY DEF CurrentIsWhole
  <2>2. package = v
    BY <1>1, <2>1 DEF Status, Inv, TypeInv
  <2>3. Whole(package)
    BY <1>1, <2>1 DEF Inv, WholeInv, Forgotten
  <2> QED BY <2>2, <2>3 DEF Whole
<1> QED BY <1>1, Invariant, PTL

=============================================================================
