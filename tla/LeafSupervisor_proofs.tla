------------------------ MODULE LeafSupervisor_proofs ------------------------
(***************************************************************************)
(* The safety properties of module LeafSupervisor, for rollouts and        *)
(* outputs of any length, and that the supervision implements module       *)
(* LeafRun.                                                                *)
(***************************************************************************)
EXTENDS LeafSupervisor, LeafOutcome_proofs, TLAPS

Record == [kind : RecordKinds, by : {"leader", "helper"}, whole : BOOLEAN]

Watching == {"take", "watch", "killThenWatch", "killThenTake"}
Judging == {"exited", "polled", "judged"}

Supervisor ==
  [pc : Watching \union Judging \union {"returned"}, closed : BOOLEAN,
   session : {"none", "session", "foreign"}, conflict : BOOLEAN, monitor : BOOLEAN,
   violation : {"none", "child_stdout_bytes_exceeded", "token_budget_exceeded",
                "repo_wide_search_forbidden"},
   forbidden : BOOLEAN, evidence : {"unread", "trusted", "missing", "mismatched"}]

TypeInv ==
  /\ leader \in {"running", "killed", "ok", "failed"}
  /\ helper \in {"gone", "attached", "detached"}
  /\ rollout \in Seq(Record) /\ Len(rollout) <= MaxRecords
  /\ \A i \in DOMAIN rollout : i < Len(rollout) => rollout[i].whole
  /\ output \in Seq(LineKinds) /\ spoken \in 0 .. MaxLines /\ Len(output) <= spoken
  /\ sup \in Supervisor

\* When there is a report, and what the supervisor knows of the child then.
ReportInv ==
  /\ (sup.pc = "returned") = (report # NoReport)
  /\ sup.pc \in Judging => Exited
  /\ sup.pc = "judged" => sup.evidence # "unread"
  /\ report # NoReport /\ report # Lost => Exited

\* A forbidden call is seen through the monitor, which only a conflict of
\* session ids takes away.
SeenInv ==
  /\ sup.forbidden => sup.monitor \/ sup.conflict
  /\ SeenIsReported

HelperWrote == \E i \in DOMAIN rollout : rollout[i].by = "helper"

\* The records the child itself left are read at the last poll, and those it
\* left incomplete stay so.
LeaderPolled ==
  \A i \in DOMAIN rollout :
    rollout[i].by = "leader" /\ rollout[i].whole =>
      /\ rollout[i].kind \in {"tokens", "search"} => sup.violation # "none"
      /\ rollout[i].kind = "collaboration" => sup.forbidden

LeaderComplete ==
  \A i \in DOMAIN rollout : rollout[i].by = "leader" => rollout[i].whole

CleanInv ==
  /\ sup.pc \in {"polled", "judged"} /\ sup.monitor => LeaderPolled
  /\ sup.pc = "polled" /\ ~sup.monitor => ~CanAttach(sup) \/ HelperWrote
  /\ sup.pc = "judged" /\ sup.evidence = "trusted" =>
       LeaderComplete /\ (sup.monitor \/ HelperWrote)
  /\ CleanVerdictIsClean

Inv == TypeInv /\ ReportInv /\ SeenInv /\ CleanInv

USE SupervisorAssumption

-----------------------------------------------------------------------------
(* What the reading of a rollout does to the supervisor.                   *)

\* An element of a sequence is in the set of its elements.
LEMMA ElementOf == ASSUME NEW S, NEW s \in Seq(S), NEW i \in DOMAIN s PROVE s[i] \in S
OBVIOUS

\* A poll of the rollout raises flags, and clears none.
LEMMA ObservedType ==
  ASSUME NEW s \in Supervisor
  PROVE  /\ Observed(s) \in Supervisor
         /\ Observed(s).monitor = s.monitor /\ Observed(s).conflict = s.conflict
         /\ Observed(s).session = s.session /\ Observed(s).evidence = s.evidence
         /\ s.violation # "none" => Observed(s).violation = s.violation
         /\ s.forbidden => Observed(s).forbidden
         /\ Observed(s).forbidden => s.forbidden \/ s.monitor
         /\ s.monitor =>
              /\ "tokens" \in WholeKinds \/ "search" \in WholeKinds
                 => Observed(s).violation # "none"
              /\ "collaboration" \in WholeKinds => Observed(s).forbidden
<1> DEFINE kinds == IF s.monitor THEN WholeKinds ELSE {}
           v == IF s.violation # "none" THEN s.violation
                ELSE IF "tokens" \in kinds THEN "token_budget_exceeded"
                ELSE IF "search" \in kinds THEN "repo_wide_search_forbidden" ELSE "none"
           f == s.forbidden \/ "collaboration" \in kinds
<1>1. Observed(s) = [s EXCEPT !.violation = v, !.forbidden = f]
  BY DEF Observed
<1>2. /\ v \in {s.violation, "token_budget_exceeded", "repo_wide_search_forbidden", "none"}
      /\ s.violation # "none" => v = s.violation
      /\ "tokens" \in kinds \/ "search" \in kinds => v # "none"
  OBVIOUS
<1>3. f \in BOOLEAN /\ s.forbidden \in BOOLEAN
      /\ (s.forbidden => f) /\ (f => s.forbidden \/ s.monitor)
      /\ ("collaboration" \in kinds => f)
  BY DEF Supervisor
<1>4. s.monitor => kinds = WholeKinds
  OBVIOUS
<1> HIDE DEF kinds, v, f
<1>5. Observed(s).violation = v /\ Observed(s).forbidden = f
  BY <1>1 DEF Supervisor
<1>6. Observed(s) \in Supervisor
  BY <1>1, <1>2, <1>3 DEF Supervisor
<1>7. /\ Observed(s).monitor = s.monitor /\ Observed(s).conflict = s.conflict
      /\ Observed(s).session = s.session /\ Observed(s).evidence = s.evidence
  BY <1>1 DEF Supervisor
<1> QED BY <1>2, <1>3, <1>4, <1>5, <1>6, <1>7

\* Attaching a rollout starts the monitor and changes nothing else.
LEMMA AttachedType ==
  ASSUME NEW s \in Supervisor
  PROVE  /\ Attached(s) \in Supervisor
         /\ Attached(s) = [s EXCEPT !.monitor = Attached(s).monitor]
         /\ s.monitor /\ ~s.conflict => Attached(s).monitor
BY DEF Attached, CanAttach, Trusted, Complete, Supervisor

\* A violation is one of those listed, and none means that nothing was seen.
LEMMA ViolationType ==
  ASSUME NEW s \in Supervisor
  PROVE  /\ Violation(s) \in {"none"} \union Violations
         /\ s.violation # "none" =>
              Violation(s) \in {"context_ceiling", "scope_or_retrieval_overbreadth"}
         /\ s.violation = "none" /\ s.forbidden /\ s.monitor =>
              Violation(s) = "forbidden_leaf_tool_call"
         /\ Violation(s) = "none" =>
              s.violation = "none" /\ ~(s.forbidden /\ s.monitor)
<1>1. s.violation \in {"none", "child_stdout_bytes_exceeded", "token_budget_exceeded",
                       "repo_wide_search_forbidden"}
      /\ s.forbidden \in BOOLEAN /\ s.monitor \in BOOLEAN
  BY DEF Supervisor
<1>2. CASE s.violation # "none"
  <2>1. Violation(s) = PolicyClass(s.violation)
    BY <1>2 DEF Violation
  <2>2. PolicyClass(s.violation) \in {"context_ceiling", "scope_or_retrieval_overbreadth"}
    BY DEF PolicyClass
  <2> QED BY <1>2, <2>1, <2>2 DEF Violations
<1>3. CASE s.violation = "none"
  BY <1>1, <1>3 DEF Violation, Violations
<1> QED BY <1>2, <1>3

-----------------------------------------------------------------------------
\* The invariant holds when the child is started.
LEMMA InitInv == Init => Inv
BY DEF Init, Inv, TypeInv, ReportInv, SeenInv, CleanInv, SeenIsReported, CleanVerdictIsClean,
       NoReport, Lost, Supervisor, Watching, Judging, Record

\* Every step keeps the types.
LEMMA TypeStep == ASSUME TypeInv, [Next]_vars PROVE TypeInv'
<1> USE DEF TypeInv, Record
<1>1. ASSUME NEW process \in {"leader", "helper"}, WriteRecord(process) PROVE TypeInv'
  <2>1. PICK kind \in RecordKinds, whole \in BOOLEAN :
          rollout' = Append(rollout, [kind |-> kind, by |-> process, whole |-> whole])
    BY <1>1 DEF WriteRecord
  <2>2. rollout' \in Seq(Record) /\ Len(rollout') = Len(rollout) + 1
    BY <2>1
  <2>3. Len(rollout') <= MaxRecords
    BY <1>1, <2>2 DEF WriteRecord
  <2>4. \A i \in DOMAIN rollout' : i < Len(rollout') => rollout'[i].whole
    BY <1>1, <2>1, <2>2 DEF WriteRecord, Complete
  <2> QED BY <1>1, <2>2, <2>3, <2>4 DEF WriteRecord, group
<1>2. ASSUME NEW process \in {"leader", "helper"}, CompleteRecord(process) PROVE TypeInv'
  <2>1. rollout' = [rollout EXCEPT ![Len(rollout)].whole = TRUE]
    BY <1>2 DEF CompleteRecord
  <2>0. Len(rollout) \in DOMAIN rollout
    BY <1>2 DEF CompleteRecord, Complete
  <2>2. rollout' \in Seq(Record) /\ Len(rollout') = Len(rollout)
    <3>1. rollout[Len(rollout)] \in Record
      BY <2>0, ElementOf
    <3>2. [rollout[Len(rollout)] EXCEPT !.whole = TRUE] \in Record
      BY <3>1
    <3> QED BY <2>0, <2>1, <3>2
  <2>3. \A i \in DOMAIN rollout' : i < Len(rollout') => rollout'[i].whole
    BY <2>1, <2>2
  <2> QED BY <1>2, <2>2, <2>3 DEF CompleteRecord, group
<1>3. ASSUME NEW process \in {"leader", "helper"}, WriteLine(process) PROVE TypeInv'
  BY <1>3 DEF WriteLine, group
<1>4. CASE LeaderExits \/ KillTakesEffect \/ StartHelper \/ HelperLeaves
  BY <1>4 DEF LeaderExits, KillTakesEffect, StartHelper, HelperLeaves, written
<1>5. CASE TakeLine
  <2>1. UNCHANGED <<leader, helper, rollout, spoken>>
    BY <1>5 DEF TakeLine, group
  <2>2. sup' \in Supervisor
    <3> DEFINE line == Head(output)
    <3>1. CASE sup.closed \/ output = << >>
      BY <1>5, <3>1 DEF TakeLine, Go, OutputEnds, Supervisor, Watching
    <3>2. CASE ~(sup.closed \/ output = << >>)
      <4>1. CASE line = "undecodable"
        BY <1>5, <3>2, <4>1 DEF TakeLine, Go, Supervisor, Watching
      <4>2. CASE line = "excess" /\ sup.violation = "none"
        BY <1>5, <3>2, <4>2 DEF TakeLine, Go, Supervisor, Watching
      <4>3. CASE line \in {"session", "foreign"}
        <5>1. PICK conflict \in BOOLEAN, session \in {"none", "session", "foreign"} :
                sup' = [sup EXCEPT !.conflict = conflict, !.session = session, !.pc = "watch"]
          BY <1>5, <3>2, <4>3 DEF TakeLine, Go, Supervisor
        <5> QED BY <5>1 DEF Supervisor, Watching
      <4>4. CASE /\ line \notin {"undecodable", "session", "foreign"}
                 /\ ~(line = "excess" /\ sup.violation = "none")
        <5>1. sup' = [sup EXCEPT !.pc = "watch"]
          BY <1>5, <3>2, <4>4 DEF TakeLine, Go
        <5> QED BY <5>1 DEF Supervisor, Watching
      <4> QED BY <4>1, <4>2, <4>3, <4>4
    <3> QED BY <3>1, <3>2
  <2>3. output' \in Seq(LineKinds) /\ Len(output') <= Len(output)
    <3>1. CASE output = << >>
      BY <1>5, <3>1 DEF TakeLine
    <3>2. CASE output # << >>
      <4>1. Tail(output) \in Seq(LineKinds) /\ Len(Tail(output)) <= Len(output)
        BY <3>2
      <4>2. output' = output \/ output' = Tail(output)
        BY <1>5 DEF TakeLine
      <4>3. output \in Seq(LineKinds) /\ Len(output) \in Nat
        OBVIOUS
      <4> QED BY ONLY <4>1, <4>2, <4>3
    <3> QED BY <3>1, <3>2
  <2> QED BY <2>1, <2>2, <2>3
<1>6. CASE CallerGone \/ LoopEnds
  BY <1>6 DEF CallerGone, LoopEnds, Go, group, written, Supervisor, Watching, Judging
<1>7. CASE Watch
  <2>1. Attached(sup) \in Supervisor
    BY AttachedType
  <2>2. Observed(Attached(sup)) \in Supervisor
    BY <2>1, ObservedType
  <2>3. sup' \in Supervisor
    BY <1>7, <2>2 DEF Watch, Go, Supervisor, Watching
  <2> QED BY <1>7, <2>3 DEF Watch, group, written
<1>8. CASE LeaderGone \/ GraceExpires
  BY <1>8 DEF LeaderGone, GraceExpires, AfterKill, Go, group, written, Supervisor, Watching
<1>9. CASE FinalPoll
  <2> DEFINE attached == [sup EXCEPT !.monitor = @ \/ CanAttach(sup)]
  <2>1. attached \in Supervisor
    BY DEF Supervisor, CanAttach, Trusted, Complete
  <2>2. Observed(attached) \in Supervisor
    BY <2>1, ObservedType
  <2>3. sup' = [Observed(attached) EXCEPT !.pc = "polled"]
    BY <1>9 DEF FinalPoll, Go
  <2>4. sup' \in Supervisor
    BY <2>2, <2>3 DEF Supervisor, Judging
  <2> QED BY <1>9, <2>4 DEF FinalPoll, group, written
<1>10. CASE ReadRuntime
  BY <1>10 DEF ReadRuntime, Go, group, written, Supervisor, Judging
<1>11. CASE Attest
  BY <1>11 DEF Attest, Go, group, written, Supervisor
<1>12. CASE UNCHANGED vars
  BY <1>12 DEF vars, group, written
<1> QED
  BY <1>1, <1>2, <1>3, <1>4, <1>5, <1>6, <1>7, <1>8, <1>9, <1>10, <1>11, <1>12
  DEF Next, ChildStep, Supervise

\* Every step keeps the report one of the outcomes of a run.
LEMMA ReportStep == ASSUME TypeInv, ReportInv, [Next]_vars PROVE ReportInv'
<1> USE DEF TypeInv, ReportInv, Judging, NoReport, Lost, Supervisor, Watching, Exited
<1>1. CASE ChildStep
  BY <1>1 DEF ChildStep, WriteRecord, CompleteRecord, WriteLine, LeaderExits,
              KillTakesEffect, StartHelper, HelperLeaves, group, written
<1>2. CASE TakeLine
  BY <1>2 DEF TakeLine, Go, group
<1>3. CASE CallerGone
  BY <1>3 DEF CallerGone, Go, group
<1>4. CASE Watch
  <2>1. Observed(Attached(sup)) \in Supervisor
    BY AttachedType, ObservedType
  <2>2. sup'.pc \in {"killThenTake", "take"}
    BY <1>4, <2>1 DEF Watch, Go
  <2> QED BY <1>4, <2>2 DEF Watch, group
<1>5. CASE LeaderGone \/ GraceExpires \/ LoopEnds
  BY <1>5 DEF LeaderGone, GraceExpires, LoopEnds, Supervising, AfterKill, Go, group
<1>6. CASE FinalPoll
  <2> DEFINE attached == [sup EXCEPT !.monitor = @ \/ CanAttach(sup)]
  <2>1. attached \in Supervisor
    BY DEF CanAttach, Trusted, Complete
  <2>2. Observed(attached) \in Supervisor
    BY <2>1, ObservedType
  <2>3. sup'.pc = "polled"
    BY <1>6, <2>2 DEF FinalPoll, Go
  <2> QED BY <1>6, <2>3 DEF FinalPoll, group
<1>7. CASE ReadRuntime
  BY <1>7 DEF ReadRuntime, Go, group
<1>8. CASE Attest
  <2>1. report'.verdict \notin {"pending", "lost"}
    BY <1>8 DEF Attest, Outcome, Unattested, RunVerdict
  <2> QED BY <1>8, <2>1 DEF Attest, Go, group
<1>9. CASE UNCHANGED vars
  BY <1>9 DEF vars, group
<1> QED
  BY <1>1, <1>2, <1>3, <1>4, <1>5, <1>6, <1>7, <1>8, <1>9 DEF Next, Supervise

\* The report is the last step: it is decided from what the supervisor saw.
LEMMA AttestedRun ==
  ASSUME TypeInv, ReportInv, Attest
  PROVE  /\ Exited /\ UNCHANGED <<leader, helper, rollout>>
         /\ sup' = [sup EXCEPT !.pc = "returned"]
         /\ sup.evidence \in {"trusted", "missing", "mismatched"}
         /\ \/ report' = Unattested(Violation(sup), leader = "ok")
            \/ \E captured \in {FALSE, sup.evidence = "trusted"} :
                 report' = Outcome(Violation(sup), sup.evidence, leader = "ok", captured)
<1>1. Exited /\ sup.evidence \in {"trusted", "missing", "mismatched"}
  BY DEF Attest, TypeInv, ReportInv, Judging, Supervisor
<1> QED BY <1>1 DEF Attest, Go, group, written

\* Every step keeps what was seen reported.
LEMMA SeenStep == ASSUME TypeInv, ReportInv, SeenInv, [Next]_vars PROVE SeenInv'
<1> USE DEF TypeInv, SeenInv, Supervisor
<1>1. ASSUME UNCHANGED report, report.verdict \in {"pending", "lost", "none"},
             sup'.forbidden => sup'.monitor \/ sup'.conflict
      PROVE SeenInv'
  BY <1>1 DEF SeenIsReported
<1>2. sup.pc # "returned" => report.verdict = "pending"
  BY DEF ReportInv, NoReport
<1>3. CASE ChildStep \/ UNCHANGED vars
  BY <1>3 DEF ChildStep, WriteRecord, CompleteRecord, WriteLine, LeaderExits,
              KillTakesEffect, StartHelper, HelperLeaves, group, written, vars, SeenIsReported
<1>4. CASE TakeLine
  BY <1>1, <1>2, <1>4 DEF TakeLine, Go
<1>5. CASE CallerGone
  BY <1>5 DEF CallerGone, Go, SeenIsReported, Lost
<1>6. CASE Watch
  <2> DEFINE attached == Attached(sup)
  <2>1. /\ attached \in Supervisor /\ attached.forbidden = sup.forbidden
        /\ attached.conflict = sup.conflict
        /\ ~sup.conflict /\ sup.monitor => attached.monitor
    BY AttachedType
  <2>2. /\ Observed(attached) \in Supervisor
        /\ Observed(attached).monitor = attached.monitor
        /\ Observed(attached).conflict = attached.conflict
        /\ Observed(attached).forbidden => attached.forbidden \/ attached.monitor
    BY <2>1, ObservedType
  <2>3. sup'.forbidden => sup'.monitor \/ sup'.conflict
    BY <1>6, <2>1, <2>2 DEF Watch, Go
  <2> QED BY <1>1, <1>2, <1>6, <2>3 DEF Watch
<1>7. CASE LeaderGone \/ GraceExpires \/ LoopEnds \/ ReadRuntime
  BY <1>1, <1>2, <1>7 DEF LeaderGone, GraceExpires, LoopEnds, ReadRuntime, Go
<1>8. CASE FinalPoll
  <2> DEFINE attached == [sup EXCEPT !.monitor = @ \/ CanAttach(sup)]
  <2>1. /\ attached \in Supervisor /\ attached.forbidden = sup.forbidden
        /\ attached.conflict = sup.conflict /\ (sup.monitor => attached.monitor)
    BY DEF CanAttach, Trusted, Complete
  <2>2. /\ Observed(attached) \in Supervisor
        /\ Observed(attached).monitor = attached.monitor
        /\ Observed(attached).conflict = attached.conflict
        /\ Observed(attached).forbidden => attached.forbidden \/ attached.monitor
    BY <2>1, ObservedType
  <2>3. sup'.forbidden => sup'.monitor \/ sup'.conflict
    BY <1>8, <2>1, <2>2 DEF FinalPoll, Go
  <2> QED BY <1>1, <1>2, <1>8, <2>3 DEF FinalPoll
<1>9. CASE Attest
  <2>1. sup' = [sup EXCEPT !.pc = "returned"]
    BY <1>9, AttestedRun
  <2>2. ASSUME sup.violation # "none"
        PROVE report'.verdict \in {"execution_policy_violation", "none"}
    BY <1>9, <2>2, AttestedRun, ViolationType DEF Unattested, Outcome, RunVerdict
  <2>3. ASSUME sup.violation = "none", sup.forbidden
        PROVE report'.verdict \in {"forbidden_leaf_tool_call", "none"} \/ sup.conflict
    BY <1>9, <2>3, AttestedRun, ViolationType DEF Unattested, Outcome, RunVerdict
  <2> QED BY <2>1, <2>2, <2>3 DEF SeenIsReported
<1> QED
  BY <1>3, <1>4, <1>5, <1>6, <1>7, <1>8, <1>9 DEF Next, Supervise

-----------------------------------------------------------------------------
(* The records that the child left.                                        *)

\* What the other process of the group does to the rollout once the child has
\* exited: the child's own records stay as they are.
LEMMA AfterExit ==
  ASSUME TypeInv, Exited, ChildStep
  PROVE  /\ UNCHANGED <<leader, sup, report>>
         /\ \A i \in DOMAIN rollout' :
              rollout'[i].by = "leader" => i \in DOMAIN rollout /\ rollout'[i] = rollout[i]
         /\ \A i \in DOMAIN rollout : i \in DOMAIN rollout' /\ rollout'[i].by = rollout[i].by
         /\ rollout' # rollout => HelperWrote'
<1> USE DEF TypeInv, HelperWrote, Exited
<1>1. PICK process \in {"leader", "helper"} :
        \/ WriteRecord(process) \/ CompleteRecord(process)
        \/ UNCHANGED <<leader, rollout, sup, report>>
  BY DEF ChildStep, WriteLine, LeaderExits, KillTakesEffect, StartHelper, HelperLeaves,
         group, written
<1>2. CASE WriteRecord(process)
  <2>1. process = "helper"
    BY <1>2 DEF WriteRecord, Alive
  <2>2. PICK kind \in RecordKinds, whole \in BOOLEAN :
          rollout' = Append(rollout, [kind |-> kind, by |-> "helper", whole |-> whole])
    BY <1>2, <2>1 DEF WriteRecord
  <2>3. /\ DOMAIN rollout' = DOMAIN rollout \union {Len(rollout) + 1}
        /\ rollout'[Len(rollout) + 1].by = "helper"
        /\ \A i \in DOMAIN rollout : rollout'[i] = rollout[i]
    BY <2>2
  <2> QED BY <1>2, <2>3 DEF WriteRecord, group
<1>3. CASE CompleteRecord(process)
  <2> DEFINE n == Len(rollout)
  <2>1. process = "helper" /\ rollout[n].by = "helper"
    BY <1>3 DEF CompleteRecord, Alive
  <2>2. n \in DOMAIN rollout
    BY <1>3 DEF CompleteRecord, Complete
  <2>3. rollout[n] \in Record
    BY <2>2, ElementOf
  <2>4. /\ DOMAIN rollout' = DOMAIN rollout
        /\ rollout'[n].by = "helper"
        /\ \A i \in DOMAIN rollout \ {n} : rollout'[i] = rollout[i]
    BY <1>3, <2>1, <2>2, <2>3 DEF CompleteRecord, Record
  <2> QED BY <1>3, <2>1, <2>2, <2>4 DEF CompleteRecord, group
<1>4. CASE UNCHANGED <<leader, rollout, sup, report>>
  BY <1>4
<1> QED BY <1>1, <1>2, <1>3, <1>4

\* Every step keeps a clean verdict clean.
LEMMA CleanStep == ASSUME TypeInv, ReportInv, CleanInv, [Next]_vars PROVE CleanInv'
<1> USE DEF TypeInv, CleanInv, Supervisor
<1>1. sup.pc # "returned" => report.verdict = "pending"
  BY DEF ReportInv, NoReport
<1>2. CASE ChildStep
  <2>1. CASE ~Exited
    <3>1. sup' = sup /\ report' = report /\ sup.pc \notin Judging
      BY <1>2, <2>1 DEF Exited, ReportInv, ChildStep, WriteRecord, CompleteRecord, WriteLine,
                        LeaderExits, KillTakesEffect, StartHelper,
                        HelperLeaves, group, written
    <3>2. report.verdict \in {"pending", "lost"}
      BY <2>1 DEF ReportInv, NoReport, Lost
    <3> QED BY <3>1, <3>2 DEF CleanVerdictIsClean, Judging
  <2>2. CASE Exited
    <3> USE AfterExit, <1>2, <2>2
    <3>1. LeaderPolled => LeaderPolled'
      BY DEF LeaderPolled
    <3>2. LeaderComplete => LeaderComplete'
      BY DEF LeaderComplete
    <3>3. HelperWrote => HelperWrote'
      BY DEF HelperWrote
    <3>4. CanAttach(sup)' = CanAttach(sup) \/ HelperWrote'
      BY DEF CanAttach, Trusted, Complete, WholeKinds
    <3>5. CleanVerdictIsClean'
      <4>1. \A i \in DOMAIN rollout' : rollout'[i] \in Record
        BY TypeStep, ElementOf
      <4>2. \A i \in DOMAIN rollout' : rollout'[i].by \in {"leader", "helper"}
        BY <4>1 DEF Record
      <4>3. CASE \A i \in DOMAIN rollout :
                   rollout[i].kind \in Violating => rollout[i].by = "helper"
        BY <4>2, <4>3 DEF CleanVerdictIsClean
      <4>4. CASE ~sup.monitor /\ HelperWrote
        BY <3>3, <4>4 DEF CleanVerdictIsClean, HelperWrote
      <4>5. CASE report.verdict \notin {"typed_completed", "typed_failed"}
        BY <4>5 DEF CleanVerdictIsClean
      <4> QED BY <4>3, <4>4, <4>5 DEF CleanVerdictIsClean, HelperWrote
    <3> QED BY <3>1, <3>2, <3>3, <3>4, <3>5
  <2> QED BY <2>1, <2>2
<1>3. CASE TakeLine \/ LeaderGone \/ GraceExpires \/ LoopEnds
  BY <1>1, <1>3 DEF TakeLine, LeaderGone, GraceExpires, LoopEnds, AfterKill, Go,
                    CleanVerdictIsClean
<1>4. CASE CallerGone
  BY <1>4 DEF CallerGone, Go, CleanVerdictIsClean, Lost
<1>5. CASE Watch
  <2>1. Observed(Attached(sup)) \in Supervisor
    BY AttachedType, ObservedType
  <2>2. sup'.pc \in {"killThenTake", "take"}
    BY <1>5, <2>1 DEF Watch, Go
  <2> QED BY <1>1, <1>5, <2>2 DEF Watch, CleanVerdictIsClean
<1>6. CASE FinalPoll
  <2> DEFINE attached == [sup EXCEPT !.monitor = @ \/ CanAttach(sup)]
  <2>1. /\ attached \in Supervisor /\ attached.session = sup.session
        /\ attached.conflict = sup.conflict
        /\ attached.monitor = (sup.monitor \/ CanAttach(sup))
    BY DEF CanAttach, Trusted, Complete
  <2>2. /\ sup' = [Observed(attached) EXCEPT !.pc = "polled"]
        /\ UNCHANGED <<rollout, report>> /\ report.verdict = "pending"
    BY <1>1, <1>6 DEF FinalPoll, Go, written
  <2>3. sup'.monitor => LeaderPolled'
    BY <2>1, <2>2, ObservedType DEF LeaderPolled, WholeKinds
  <2>4. ~sup'.monitor => ~CanAttach(sup')
    BY <2>1, <2>2, ObservedType DEF CanAttach
  <2>5. CanAttach(sup)' = CanAttach(sup')
    BY <2>2 DEF CanAttach, Trusted, Complete, WholeKinds
  <2>6. sup'.pc = "polled"
    BY <2>1, <2>2, ObservedType
  <2> QED BY <2>2, <2>3, <2>4, <2>5, <2>6 DEF CleanVerdictIsClean
<1>7. CASE ReadRuntime
  <2>1. /\ UNCHANGED <<rollout, report>> /\ report.verdict = "pending"
        /\ sup' = [sup EXCEPT !.pc = "judged", !.evidence = sup'.evidence]
        /\ sup'.evidence = "trusted" => CanAttach(sup)
    BY <1>1, <1>7 DEF ReadRuntime, Go, written
  <2>2. sup.monitor => LeaderPolled'
    BY <1>7, <2>1 DEF ReadRuntime, LeaderPolled
  <2>3. CanAttach(sup) => LeaderComplete'
    BY <2>1 DEF CanAttach, Trusted, Complete, LeaderComplete
  <2>4. CanAttach(sup) => sup.monitor \/ HelperWrote'
    BY <1>7, <2>1 DEF ReadRuntime, HelperWrote
  <2> QED BY <2>1, <2>2, <2>3, <2>4 DEF CleanVerdictIsClean
<1>8. CASE Attest
  <2>1. SUFFICES ASSUME report'.verdict \in {"typed_completed", "typed_failed"}
                 PROVE CleanInv'
    BY <1>8, AttestedRun DEF CleanVerdictIsClean
  <2>2. /\ sup.evidence = "trusted" /\ sup.violation = "none"
        /\ ~(sup.forbidden /\ sup.monitor)
    BY <1>8, <2>1, AttestedRun, ViolationType DEF Unattested, Outcome, RunVerdict
  <2>3. LeaderComplete /\ (sup.monitor \/ HelperWrote) /\ (sup.monitor => LeaderPolled)
    BY <1>8, <2>2 DEF Attest
  <2>4. sup'.pc = "returned" /\ sup'.monitor = sup.monitor /\ rollout' = rollout
    BY <1>8, AttestedRun
  <2>5. (\A i \in DOMAIN rollout : rollout[i].kind \in Violating => rollout[i].by = "helper")
        => CleanInv'
    BY ONLY <2>4 DEF CleanInv, CleanVerdictIsClean, Judging
  <2>6. CASE sup.monitor
    <3>1. \A i \in DOMAIN rollout : rollout[i] \in Record
      BY ElementOf
    <3>2. ASSUME NEW i \in DOMAIN rollout, rollout[i].kind \in Violating
          PROVE  rollout[i].by = "helper"
      BY <2>2, <2>3, <2>6, <3>1, <3>2 DEF LeaderComplete, LeaderPolled, Violating, Record
    <3> QED BY <2>5, <3>2
  <2>7. CASE ~sup.monitor
    <3>1. HelperWrote
      BY <2>3, <2>7
    <3> QED BY ONLY <2>4, <2>7, <3>1 DEF HelperWrote, CleanInv, CleanVerdictIsClean
  <2> QED BY <2>6, <2>7
<1>9. CASE UNCHANGED vars
  <2>1. UNCHANGED <<rollout, sup, report>>
    BY <1>9 DEF vars, written
  <2>2. /\ LeaderPolled' = LeaderPolled /\ LeaderComplete' = LeaderComplete
        /\ HelperWrote' = HelperWrote /\ CanAttach(sup)' = CanAttach(sup)
    BY <2>1 DEF LeaderPolled, LeaderComplete, HelperWrote, CanAttach, Trusted, Complete,
                WholeKinds
  <2>3. CleanVerdictIsClean' = CleanVerdictIsClean
    BY <2>1 DEF CleanVerdictIsClean
  <2> QED BY <2>1, <2>2, <2>3
<1> QED BY <1>2, <1>3, <1>4, <1>5, <1>6, <1>7, <1>8, <1>9 DEF Next, Supervise

\* Every step of the supervisor and of its child keeps the invariant.
THEOREM InvStep == Inv /\ [Next]_vars => Inv'
<1> SUFFICES ASSUME Inv, [Next]_vars PROVE Inv'
  OBVIOUS
<1> QED BY TypeStep, ReportStep, SeenStep, CleanStep DEF Inv

\* The invariant holds in every state.
THEOREM Invariant == Spec => []Inv
<1> QED BY InitInv, InvStep, PTL DEF Spec

-----------------------------------------------------------------------------
\* Types; and there is a report exactly when the supervisor has returned.
THEOREM TypeCorrect == Spec => []SupervisorTypeOK
<1>1. Inv => SupervisorTypeOK
  BY DEF Inv, TypeInv, ReportInv, SupervisorTypeOK, Supervisor
<1> QED BY <1>1, Invariant, PTL

\* A clean verdict means that the child itself broke no rule, for rollouts and
\* outputs of any length and any interleaving.
THEOREM CleanIsClean == Spec => []CleanVerdictIsClean
<1>1. Inv => CleanVerdictIsClean
  BY DEF Inv, CleanInv
<1> QED BY <1>1, Invariant, PTL

\* What the supervisor has seen decides the verdict.
THEOREM ReportedAsSeen == Spec => []SeenIsReported
<1>1. Inv => SeenIsReported
  BY DEF Inv, SeenInv
<1> QED BY <1>1, Invariant, PTL

-----------------------------------------------------------------------------
\* The abstract run allows exactly the outcomes that the supervisor reports.
LEMMA SameOutcomes ==
  ASSUME NEW faults PROVE Run!LeafOutcomes(faults) = LeafOutcomes(faults)
BY DEF LeafOutcomes, Outcome, Unattested, RunVerdict, FailureClass, Violations,
       EvidenceFaults, Run!LeafOutcomes, Run!Outcome, Run!Unattested, Run!RunVerdict,
       Run!FailureClass, Run!Violations, Run!EvidenceFaults

\* Every step of the supervision is a step of module LeafRun or leaves it as
\* it is.
THEOREM Refinement == Spec => ImplementsLeafRun
<1> USE DEF Run!NoReport, NoReport, Run!Lost, Lost
<1>1. Init => Run!RunInit
  BY DEF Init, ChildState, Run!RunInit
<1>2. ASSUME Inv, [Next]_vars PROVE [Run!RunNext]_<<ChildState, report>>
  <2> USE <1>2 DEF Inv, TypeInv, ReportInv, Supervisor, Exited, ChildState
  <2>1. CASE ChildStep
    BY <2>1 DEF ChildStep, WriteRecord, CompleteRecord, WriteLine, LeaderExits,
                KillTakesEffect, StartHelper, HelperLeaves, group, written, ChildState, Run!RunNext, Run!ChildExits
  <2>2. CASE TakeLine \/ Watch \/ LeaderGone \/ LoopEnds \/ FinalPoll \/ ReadRuntime
    BY <2>2 DEF TakeLine, Watch, LeaderGone, LoopEnds, FinalPoll, ReadRuntime, group
  <2>3. CASE GraceExpires
    BY <2>3 DEF GraceExpires, Run!RunNext, Run!ChildExits
  <2>4. CASE CallerGone
    BY <2>4 DEF CallerGone, group, Run!RunNext, Run!GiveUp
  <2>5. CASE Attest
    <3> DEFINE faults == Violations \union EvidenceFaults
    <3>1. /\ Exited /\ UNCHANGED leader /\ report = NoReport
          /\ sup.evidence \in {"trusted", "missing", "mismatched"}
          /\ Violation(sup) \in {"none"} \union Violations
      BY <2>5, AttestedRun, ViolationType DEF Attest
    <3>2. report' \in LeafOutcomes(faults) /\ report'.ok = (leader = "ok")
      <4>1. (leader = "ok") \in BOOLEAN
        OBVIOUS
      <4>2. CASE report' = Unattested(Violation(sup), leader = "ok")
        BY <3>1, <4>1, <4>2, AllOutcomes DEF Unattested
      <4>3. ASSUME NEW captured \in {FALSE, sup.evidence = "trusted"},
                   report' = Outcome(Violation(sup), sup.evidence, leader = "ok", captured)
            PROVE  report' \in LeafOutcomes(faults) /\ report'.ok = (leader = "ok")
        BY <3>1, <4>1, <4>3, AllOutcomes DEF Outcome
      <4> QED BY <2>5, <4>2, <4>3, AttestedRun
    <3> QED BY <3>1, <3>2, SameOutcomes DEF Run!RunNext, Run!Report
  <2>6. CASE UNCHANGED vars
    BY <2>6 DEF vars, group
  <2> QED BY <1>2, <2>1, <2>2, <2>3, <2>4, <2>5, <2>6 DEF Next, Supervise
<1> QED BY <1>1, <1>2, Invariant, PTL DEF Spec, ImplementsLeafRun, Run!LeafRunSpec
=============================================================================
