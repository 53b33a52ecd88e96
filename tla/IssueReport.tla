----------------------------- MODULE IssueReport -----------------------------
(***************************************************************************)
(* Issue reports: reporters prepare a public report of the completed       *)
(* attempts of one task, publish it, and record the issue it became, in    *)
(* the append-only file issue-report-state.jsonl.  Translated from         *)
(* issue_report and record_issue_submission in                             *)
(* scripts/model_routing_audit.py.                                         *)
(*                                                                         *)
(* A reporter reads the routing ledger first and locks the issue state     *)
(* afterwards: a report is made in two steps.                              *)
(***************************************************************************)
EXTENDS Integers, Sequences, FiniteSets

CONSTANTS
  Tasks,
  AnyTask,             \* a call without --task-id
  Reporters,           \* processes that ask for a report
  Urls,                \* canonical issue URLs
  MaxReportAttempts,   \* how many attempts one report may hold
  MaxState,            \* size bound of the readers of the issue state, in events
  ClockSlips,          \* is the system clock ever set back?
  MaxPairs,            \* bound: completed attempts
  MaxTime              \* bound: timestamps

VARIABLES
  pairs,      \* completed attempts, in the order of their results
  state,      \* the events of the issue state file, oldest first
  reporter    \* what each reporter has read

vars == <<pairs, state, reporter>>

-----------------------------------------------------------------------------
(* The issue state.  A report is named by the position of the event that   *)
(* prepared it, which stands for its random id.                            *)

Prepared(S) == {k \in DOMAIN S : S[k].type = "prepared"}

Submissions(S) == {k \in DOMAIN S : S[k].type = "submitted"}

IsSubmitted(S, report) == \E k \in Submissions(S) : S[k].id = report

\* _parse_issue_state, which every reader applies; appending does not look at
\* the size that the file will have.
StateOK(S) ==
  /\ Len(S) <= MaxState
  /\ \A j, k \in Prepared(S) : S[j].attempts = S[k].attempts => j = k
  /\ \A k \in Submissions(S) :
       /\ S[k].id \in Prepared(S) /\ S[k].id < k
       /\ S[S[k].id].at <= S[k].at
  /\ \A j, k \in Submissions(S) : S[j].id = S[k].id \/ S[j].url = S[k].url => j = k

-----------------------------------------------------------------------------
(* issue_report, under the exclusive lock of the issue state.              *)

Idle == [pc |-> "idle"]

\* Mutant: a call without a task sees no pending report.
PendingOfTask(r) ==
  {k \in Prepared(state) : ~IsSubmitted(state, k) /\ reporter[r].task = state[k].task}

\* The reports that the call could return again.
Pending(r) ==
  {k \in Prepared(state) :
     ~IsSubmitted(state, k) /\ reporter[r].task \in {AnyTask, state[k].task}}

\* The latest one; the first of them when the clock stood still.
LatestPending(r) ==
  CHOOSE k \in Pending(r) :
    \A j \in Pending(r) : \/ state[j].at < state[k].at
                          \/ state[j].at = state[k].at /\ k <= j

Seen(r) == 1 .. reporter[r].seen

SubmittedPairs ==
  UNION {state[k].attempts : k \in {i \in Prepared(state) : IsSubmitted(state, i)}}

\* Mutant: what was submitted is reported again.
AvailableAgain(r) == Seen(r)

Available(r) == Seen(r) \ SubmittedPairs

NotBefore(p, q) ==
  \/ pairs[q].at < pairs[p].at
  \/ pairs[q].at = pairs[p].at /\ pairs[q].index <= pairs[p].index

\* The requested task, or else that of the latest available result.
TaskOf(r) ==
  IF reporter[r].task # AnyTask THEN reporter[r].task
  ELSE pairs[CHOOSE p \in Available(r) : \A q \in Available(r) : NotBefore(p, q)].task

\* Mutant: the report of a task takes every attempt there is.
SelectedOfAll(r) == Available(r)

\* Mutant: a report holds the newest attempt only.
SelectedNewest(r) ==
  {p \in Available(r) : /\ pairs[p].task = TaskOf(r)
                        /\ \A q \in Available(r) : pairs[q].task = TaskOf(r) => q <= p}

Selected(r) == {p \in Available(r) : pairs[p].task = TaskOf(r)}

\* What the call comes to.
ReportAnswer(r) ==
  IF ~StateOK(state) THEN "error"
  ELSE IF Pending(r) # {}
  THEN IF state[LatestPending(r)].attempts \subseteq Seen(r) THEN "pending" ELSE "error"
  ELSE IF Available(r) = {} THEN "none_left"
  ELSE IF Selected(r) = {}
  THEN IF \E p \in Seen(r) : pairs[p].task = TaskOf(r) THEN "none_left" ELSE "error"
  ELSE IF Cardinality(Selected(r)) > MaxReportAttempts THEN "error" ELSE "new"

-----------------------------------------------------------------------------
(* record_issue_submission.                                                *)

\* Mutant: a report can be bound to a second issue.
SubmissionAnswerAgain(report, url) ==
  IF StateOK(state) /\ report \in Prepared(state) THEN "recorded" ELSE "error"

SubmissionAnswer(report, url) ==
  IF ~StateOK(state) \/ report \notin Prepared(state) THEN "error"
  ELSE IF ~IsSubmitted(state, report) THEN "recorded"
  ELSE IF \E k \in Submissions(state) : state[k].id = report /\ state[k].url = url
  THEN "idempotent" ELSE "error"

-----------------------------------------------------------------------------
\* What the system clock may read now.
Readings ==
  {t \in 0 .. MaxTime :
     \/ ClockSlips
     \/ /\ \A p \in DOMAIN pairs : pairs[p].at <= t
        /\ \A k \in DOMAIN state : state[k].at <= t}

\* The routing ledger gets the result of an attempt.
CompleteAttempt(t) ==
  /\ Len(pairs) < MaxPairs
  /\ \E now \in Readings : pairs' = Append(pairs,
       [task |-> t, at |-> now,
        index |-> Cardinality({p \in DOMAIN pairs : pairs[p].task = t}) + 1])
  /\ UNCHANGED <<state, reporter>>

\* A ledger without a completed attempt ends the call.
ReadPairs(r) ==
  /\ reporter[r].pc = "idle" /\ pairs # << >>
  /\ \E task \in Tasks \union {AnyTask} :
       reporter' = [reporter EXCEPT ![r] = [pc |-> "read", task |-> task, seen |-> Len(pairs)]]
  /\ UNCHANGED <<pairs, state>>

\* The call fails, finds nothing to report, or returns a pending report.
ReturnReport(r) ==
  /\ reporter[r].pc = "read" /\ ReportAnswer(r) # "new"
  /\ reporter' = [reporter EXCEPT ![r] = Idle]
  /\ UNCHANGED <<pairs, state>>

PrepareReport(r) ==
  /\ reporter[r].pc = "read" /\ ReportAnswer(r) = "new"
  /\ \E now \in Readings :
       state' = Append(state, [type |-> "prepared", task |-> TaskOf(r),
                               attempts |-> Selected(r), at |-> now])
  /\ reporter' = [reporter EXCEPT ![r] = Idle]
  /\ UNCHANGED pairs

RecordSubmission(report, url) ==
  /\ SubmissionAnswer(report, url) = "recorded"
  /\ \E now \in Readings :
       state' = Append(state, [type |-> "submitted", id |-> report, url |-> url, at |-> now])
  /\ UNCHANGED <<pairs, reporter>>

Init ==
  /\ pairs = << >> /\ state = << >>
  /\ reporter = [r \in Reporters |-> Idle]

Next ==
  \/ \E t \in Tasks : CompleteAttempt(t)
  \/ \E r \in Reporters : ReadPairs(r) \/ ReturnReport(r) \/ PrepareReport(r)
  \/ \E report \in DOMAIN state, url \in Urls : RecordSubmission(report, url)

Spec == Init /\ [][Next]_vars

ASSUME ReportAssumption ==
  /\ AnyTask \notin Tasks
  /\ ClockSlips \in BOOLEAN
  /\ MaxReportAttempts \in Nat /\ MaxState \in Nat /\ MaxPairs \in Nat /\ MaxTime \in Nat

-----------------------------------------------------------------------------
(* Properties.                                                             *)

CompletedAttempt == [task : Tasks, at : Nat, index : Nat]

StateEvent ==
  [type : {"prepared"}, task : Tasks, attempts : SUBSET Nat, at : Nat] \union
  [type : {"submitted"}, id : Nat, url : Urls, at : Nat]

Reader == {Idle} \union [pc : {"read"}, task : Tasks \union {AnyTask}, seen : Nat]

\* A report holds completed attempts, all of the task it is about; a reporter
\* has seen a prefix of the completed attempts.
IssueTypeOK ==
  /\ pairs \in Seq(CompletedAttempt) /\ state \in Seq(StateEvent)
  /\ reporter \in [Reporters -> Reader]
  /\ \A k \in Prepared(state) :
       /\ state[k].attempts \subseteq DOMAIN pairs
       /\ \A p \in state[k].attempts : pairs[p].task = state[k].task
  /\ \A r \in Reporters : reporter[r].pc = "read" => reporter[r].seen \in DOMAIN pairs

\* "It never resends fingerprints covered by a submitted receipt", and more:
\* no completed attempt is in two reports, whatever stale view of the ledger
\* the racing reporters have.
DisjointReports ==
  \A j, k \in Prepared(state) :
    j # k => state[j].attempts \cap state[k].attempts = {}

\* "A pending report keeps the same random Report ID across retries": a task
\* never has two reports that wait for their issue.
OneOpenReport ==
  \A j, k \in Prepared(state) :
    /\ ~IsSubmitted(state, j) /\ ~IsSubmitted(state, k)
    /\ state[j].task = state[k].task
    => j = k

\* A report is bound to one issue for good.
OneIssueEach ==
  \A j, k \in Submissions(state) : state[j].id = state[k].id => j = k

\* Reports leave no gap: when an attempt is reported, so are the earlier
\* attempts of its task.
ReportedInOrder ==
  \A k \in Prepared(state) : \A p \in state[k].attempts : \A q \in 1 .. p - 1 :
    pairs[q].task = pairs[p].task => \E j \in Prepared(state) : q \in state[j].attempts

\* "Repeating the exact command is idempotent": a recorded submission can be
\* recorded again.
SubmissionRepeatable ==
  \A k \in Submissions(state) :
    SubmissionAnswer(state[k].id, state[k].url) = "idempotent"

\* "It will return the next pending or unsubmitted history, or report that no
\* unsubmitted completed task remains": a call without a task fails on a sound
\* issue state only when it has seen less of the routing ledger than there is,
\* or when a task has more attempts than a report may hold.
FreshReporterAnswers ==
  \A r \in Reporters :
    /\ reporter[r].pc = "read" /\ reporter[r].task = AnyTask
    /\ reporter[r].seen = Len(pairs) /\ StateOK(state)
    /\ \A t \in Tasks :
         Cardinality({p \in DOMAIN pairs : pairs[p].task = t}) <= MaxReportAttempts
    => ReportAnswer(r) # "error"
=============================================================================
