---------------------------- MODULE LeafSupervisor ----------------------------
(***************************************************************************)
(* The supervision of one leaf child by _run_recovery: a loop that takes   *)
(* lines of the child's output from a queue, attaches a monitor to the     *)
(* rollout the child writes, kills the child's process group on a          *)
(* violation, and after the exit polls once more and attests one verdict.  *)
(* Translated from scripts/adaptive_dispatch_attestation.py.               *)
(*                                                                         *)
(* The child is a process (leader) that may start another one in its group *)
(* (helper), which may outlive it, hold its stdout and write the rollout.  *)
(* A step of the supervisor is what happens between two reads of something *)
(* these processes change.                                                 *)
(***************************************************************************)
EXTENDS LeafOutcome, Naturals, Sequences

CONSTANTS
  RecordKinds,  \* what is written to the rollout: a subset of AllRecordKinds
  LineKinds,    \* what is written to stdout: a subset of AllLineKinds
  MaxRecords,   \* bound: records in the rollout
  MaxLines      \* bound: lines of output

VARIABLES
  leader,   \* "running", "killed" but not gone yet, or how the child exited:
            \*   "ok" or "failed"
  helper,   \* "gone", "attached" to stdout, or "detached" from it
  rollout,  \* the records of the rollout; the last may be incomplete
  output,   \* lines of output that the supervisor has not taken
  spoken,   \* lines written so far
  sup,      \* the supervisor
  report    \* what it reported of the run

group == <<leader, helper>>
written == <<rollout, output, spoken>>
vars == <<leader, helper, rollout, output, spoken, sup, report>>

\* Runtime contexts with the model and effort of the role, or with others; and
\* records that exceed the token budget, break the rules for commands, or call
\* a collaboration tool.
AllRecordKinds == {"context", "other_context", "tokens", "search", "collaboration"}

ContextKinds == {"context", "other_context"}

\* The session id of the rollout; another one; text; text that takes the
\* output over its byte limit; bytes that are not text.
AllLineKinds == {"session", "foreign", "text", "excess", "undecodable"}

ASSUME SupervisorAssumption ==
  /\ RecordKinds \subseteq AllRecordKinds /\ LineKinds \subseteq AllLineKinds
  /\ MaxRecords \in Nat /\ MaxLines \in Nat

NoReport == [verdict |-> "pending"]

Lost == [verdict |-> "lost"]

-----------------------------------------------------------------------------
(* The child's process group.                                              *)

\* The exit status of the child can be collected.
Exited == leader \in {"ok", "failed"}

Alive(process) ==
  \/ process = "leader" /\ leader = "running"
  \/ process = "helper" /\ helper # "gone"

Speaks(process) == Alive(process) /\ (process = "helper" => helper = "attached")

Complete == \A i \in DOMAIN rollout : rollout[i].whole

WriteRecord(process) ==
  /\ Alive(process) /\ Complete /\ Len(rollout) < MaxRecords
  /\ \E kind \in RecordKinds, whole \in BOOLEAN :
       rollout' = Append(rollout, [kind |-> kind, by |-> process, whole |-> whole])
  /\ UNCHANGED <<group, output, spoken, sup, report>>

CompleteRecord(process) ==
  /\ Alive(process) /\ ~Complete /\ rollout[Len(rollout)].by = process
  /\ rollout' = [rollout EXCEPT ![Len(rollout)].whole = TRUE]
  /\ UNCHANGED <<group, output, spoken, sup, report>>

WriteLine(process) ==
  /\ Speaks(process) /\ spoken < MaxLines
  /\ \E line \in LineKinds : output' = Append(output, line)
  /\ spoken' = spoken + 1
  /\ UNCHANGED <<group, rollout, sup, report>>

\* The child exits by itself, or on the SIGTERM it was sent.
LeaderExits ==
  /\ leader = "running"
  /\ leader' \in {"ok", "failed"}
  /\ UNCHANGED <<helper, written, sup, report>>

\* SIGKILL takes effect, which may take longer than the supervisor waits.
KillTakesEffect ==
  /\ leader = "killed"
  /\ leader' = "failed"
  /\ UNCHANGED <<helper, written, sup, report>>

StartHelper ==
  /\ leader = "running" /\ helper = "gone"
  /\ helper' = "attached"
  /\ UNCHANGED <<leader, written, sup, report>>

HelperLeaves ==
  /\ helper # "gone"
  /\ helper' \in {"detached", "gone"} \ {helper}
  /\ UNCHANGED <<leader, written, sup, report>>

ChildStep ==
  \/ \E process \in {"leader", "helper"} :
       WriteRecord(process) \/ CompleteRecord(process) \/ WriteLine(process)
  \/ LeaderExits \/ KillTakesEffect \/ StartHelper \/ HelperLeaves

-----------------------------------------------------------------------------
(* What the supervisor can read.                                           *)

\* Records that the monitor has read after a poll: it starts at the first one
\* and reads up to the end of the file.
WholeKinds == {rollout[i].kind : i \in {j \in DOMAIN rollout : rollout[j].whole}}

\* _trusted_rollout: every line parses, and there is a runtime context.
Trusted == Complete /\ WholeKinds \cap ContextKinds # {}

LastContext ==
  rollout[CHOOSE i \in DOMAIN rollout :
            /\ rollout[i].kind \in ContextKinds
            /\ \A j \in DOMAIN rollout : rollout[j].kind \in ContextKinds => j <= i].kind

\* _trusted_leaf_token_monitor: a session id that leads to a trusted rollout.
CanAttach(s) == s.session = "session" /\ ~s.conflict /\ Trusted

\* _execution_policy_failure_class.
PolicyClass(violation) ==
  IF violation \in {"token_budget_exceeded", "child_stdout_bytes_exceeded"}
  THEN "context_ceiling" ELSE "scope_or_retrieval_overbreadth"

\* Mutant: the failure class is kept in place of the violation.
ObservedClass(s) ==
  LET kinds == IF s.monitor THEN WholeKinds ELSE {}
  IN [s EXCEPT
        !.violation = IF s.violation = "none" /\ "tokens" \in kinds
                      THEN PolicyClass("token_budget_exceeded") ELSE s.violation,
        !.forbidden = s.forbidden \/ "collaboration" \in kinds]

\* The first violation is kept; the token budget is looked at first.
Observed(s) ==
  LET kinds == IF s.monitor THEN WholeKinds ELSE {}
  IN [s EXCEPT
        !.violation = IF s.violation # "none" THEN s.violation
                      ELSE IF "tokens" \in kinds THEN "token_budget_exceeded"
                      ELSE IF "search" \in kinds THEN "repo_wide_search_forbidden"
                      ELSE "none",
        !.forbidden = s.forbidden \/ "collaboration" \in kinds]

\* Mutant: any violation counts only while the runtime is known.
ViolationOfKnownRuntime(s) ==
  IF ~s.monitor THEN "none"
  ELSE IF s.violation # "none" THEN PolicyClass(s.violation)
  ELSE IF s.forbidden THEN "forbidden_leaf_tool_call" ELSE "none"

\* What the verdict is decided from.  A forbidden call counts only while the
\* runtime of the monitored rollout is known.
Violation(s) ==
  IF s.violation # "none" THEN PolicyClass(s.violation)
  ELSE IF s.forbidden /\ s.monitor THEN "forbidden_leaf_tool_call" ELSE "none"

-----------------------------------------------------------------------------
(* The supervisor.                                                         *)

Go(pc, s) == sup' = [s EXCEPT !.pc = pc]

\* Mutant: the end of the output is taken for the exit of the child.
SupervisingOutput == ~sup.closed

Supervising == ~Exited \/ ~sup.closed

\* Mutant: the queue closes when the whole group is gone.
GroupEnds == output = << >> /\ Exited /\ helper = "gone"

\* Only the end of the output and of all its writers closes the queue.
OutputEnds == output = << >> /\ Exited /\ helper # "attached"

\* One line, the end of the output, or nothing within the poll interval.  A
\* line that cannot be decoded ends the reader thread: what follows it is
\* never read.
TakeLine ==
  /\ sup.pc = "take" /\ Supervising
  /\ IF sup.closed \/ output = << >>
     THEN /\ Go("watch", [sup EXCEPT !.closed = @ \/ OutputEnds])
          /\ UNCHANGED output
     ELSE LET line == Head(output)
              differs == line \in {"session", "foreign"} /\ sup.session \notin {"none", line}
          IN /\ output' = Tail(output)
             /\ CASE line = "undecodable" -> Go("watch", [sup EXCEPT !.closed = TRUE])
                  [] line = "excess" /\ sup.violation = "none" ->
                       Go("killThenWatch",
                          [sup EXCEPT !.violation = "child_stdout_bytes_exceeded"])
                  [] line \in {"session", "foreign"} ->
                       Go("watch", [sup EXCEPT
                         !.conflict = @ \/ differs,
                         !.session = IF differs \/ sup.conflict THEN @ ELSE line])
                  [] OTHER -> Go("watch", sup)
  /\ UNCHANGED <<group, rollout, spoken, report>>

\* Passing a line on to the caller fails: the exception leaves the child alone.
CallerGone ==
  /\ sup.pc = "take" /\ Supervising
  /\ ~sup.closed /\ output # << >> /\ Head(output) # "undecodable"
  /\ Go("returned", sup)
  /\ report' = Lost
  /\ UNCHANGED <<group, written>>

\* A conflict of session ids drops the monitor; a trusted rollout gets one.
Attached(s) ==
  [s EXCEPT !.monitor = IF s.conflict THEN FALSE ELSE @ \/ CanAttach(s)]

\* Attach, poll, and kill the group on something new.
Watch ==
  LET seen == Observed(Attached(sup))
      new == seen.violation # sup.violation \/ seen.forbidden # sup.forbidden
  IN /\ sup.pc = "watch"
     /\ Go(IF new THEN "killThenTake" ELSE "take", seen)
     /\ UNCHANGED <<group, written, report>>

AfterKill == IF sup.pc = "killThenWatch" THEN "watch" ELSE "take"

\* _terminate_child_group returns once the leader has exited, before a signal
\* or on SIGTERM: it does not look at the rest of the group.
LeaderGone ==
  /\ sup.pc \in {"killThenWatch", "killThenTake"}
  /\ Exited
  /\ Go(AfterKill, sup)
  /\ UNCHANGED <<group, written, report>>

\* Mutant: nothing follows the grace period.
GraceExpiresGently ==
  /\ sup.pc \in {"killThenWatch", "killThenTake"}
  /\ ~Exited
  /\ Go(AfterKill, sup)
  /\ UNCHANGED <<group, written, report>>

\* SIGKILL after the grace period, and a second wait, which the child may
\* outlast; a helper may have left the group.
GraceExpires ==
  /\ sup.pc \in {"killThenWatch", "killThenTake"}
  /\ ~Exited
  /\ leader' \in {"killed", "failed"}
  /\ helper' \in {"gone", helper}
  /\ Go(AfterKill, sup)
  /\ UNCHANGED <<written, report>>

LoopEnds ==
  /\ sup.pc = "take" /\ ~Supervising
  /\ Go("exited", sup)
  /\ UNCHANGED <<group, written, report>>

\* Mutant: the monitor is not polled after the exit.
ExitUnpolled ==
  /\ sup.pc = "exited"
  /\ Go("polled", sup)
  /\ UNCHANGED <<group, written, report>>

\* The last poll, by a monitor attached now if there was none.
FinalPoll ==
  LET attached == [sup EXCEPT !.monitor = @ \/ CanAttach(sup)]
  IN /\ sup.pc = "exited"
     /\ Go("polled", Observed(attached))
     /\ UNCHANGED <<group, written, report>>

\* The rollout is read again, for the evidence of the model that ran.
ReadRuntime ==
  /\ sup.pc = "polled"
  /\ Go("judged", [sup EXCEPT !.evidence =
       IF ~CanAttach(sup) THEN "missing"
       ELSE IF LastContext = "other_context" THEN "mismatched" ELSE "trusted"])
  /\ UNCHANGED <<group, written, report>>

\* The terminal event is captured, if the digests can be taken, and the row
\* written, if the disk takes it.
Attest ==
  LET ok == leader = "ok" IN
  /\ sup.pc = "judged"
  /\ \/ \E captured \in {FALSE, sup.evidence = "trusted"} :
          report' = Outcome(Violation(sup), sup.evidence, ok, captured)
     \/ report' = Unattested(Violation(sup), ok)
  /\ Go("returned", sup)
  /\ UNCHANGED <<group, written>>

Supervise ==
  \/ TakeLine \/ CallerGone \/ Watch \/ LeaderGone \/ GraceExpires
  \/ LoopEnds \/ FinalPoll \/ ReadRuntime \/ Attest

Init ==
  /\ leader = "running" /\ helper = "gone"
  /\ rollout = << >> /\ output = << >> /\ spoken = 0
  /\ sup = [pc |-> "take", closed |-> FALSE, session |-> "none",
            conflict |-> FALSE, monitor |-> FALSE, violation |-> "none",
            forbidden |-> FALSE, evidence |-> "unread"]
  /\ report = NoReport

Next == ChildStep \/ Supervise

\* The supervisor's own steps go on, and a killed process dies; the child may
\* do as it likes.
Spec == Init /\ [][Next]_vars /\ WF_vars(Supervise) /\ WF_vars(KillTakesEffect)

-----------------------------------------------------------------------------
(* Properties.                                                             *)

SupervisorTypeOK ==
  /\ leader \in {"running", "killed", "ok", "failed"}
  /\ helper \in {"gone", "attached", "detached"}
  /\ Len(rollout) <= MaxRecords
  /\ \A i \in DOMAIN rollout : i < Len(rollout) => rollout[i].whole
  /\ spoken <= MaxLines /\ Len(output) <= spoken
  /\ sup.violation \in {"none", "child_stdout_bytes_exceeded",
                        "token_budget_exceeded", "repo_wide_search_forbidden"}
  /\ (sup.pc = "returned") = (report # NoReport)

Violating == {"tokens", "search", "collaboration"}

\* A run is attested as completed or failed, the verdicts that integration can
\* build on, only when the child broke no rule before it exited, whichever way
\* its writing, its output, its exit and the polls interleave.  What was
\* written after the exit is not the child's; and when another process of the
\* group made the rollout readable only after the last poll, nothing of it was
\* ever looked at.
CleanVerdictIsClean ==
  report.verdict \in {"typed_completed", "typed_failed"} =>
    \/ \A i \in DOMAIN rollout :
         rollout[i].kind \in Violating => rollout[i].by = "helper"
    \/ ~sup.monitor /\ \E i \in DOMAIN rollout : rollout[i].by = "helper"

\* What the supervisor has once seen it reports: a violation is never followed
\* by the verdict on evidence or exit code, except a forbidden call in a run
\* whose session ids conflict.
SeenIsReported ==
  report.verdict \notin {"pending", "lost", "none"} =>
    /\ sup.violation # "none" => report.verdict = "execution_policy_violation"
    /\ sup.violation = "none" /\ sup.forbidden =>
         report.verdict = "forbidden_leaf_tool_call" \/ sup.conflict

\* A child that was seen breaking a rule does not keep running.
ViolatorIsStopped ==
  (sup.violation # "none" \/ sup.forbidden) ~> Exited

\* Once the child has exited and nobody else holds its stdout, the supervisor
\* returns, whatever became of the reader thread, the rollout and the rest of
\* the group.
SupervisorReturns ==
  (Exited /\ helper # "attached") ~> sup.pc = "returned"

\* To the dispatcher a killed child runs until it is gone.
ChildState == IF leader = "killed" THEN "running" ELSE leader

\* The supervision implements what the dispatcher relies on.
Run == INSTANCE LeafRun WITH
         Faults <- Violations \union EvidenceFaults,
         child <- ChildState, report <- report

ImplementsLeafRun == Run!LeafRunSpec
=============================================================================
