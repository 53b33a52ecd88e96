-------------------------- MODULE IssueReport_proofs --------------------------
(***************************************************************************)
(* Theorems about IssueReport: for any number of tasks, reporters and      *)
(* completed attempts, no attempt is in two reports or skipped by one, no  *)
(* task has two reports that wait for their issue, no report has two       *)
(* issues, and a reporter with a current view gets an answer.              *)
(*                                                                         *)
(* Neither holds by itself through a step: that a new report is disjoint   *)
(* from the open ones rests on the reports of a task holding attempts of   *)
(* that task only (IssueTypeOK), and on a call without a task finding no   *)
(* open report at all.                                                     *)
(***************************************************************************)
EXTENDS IssueReport, FiniteSetTheorems, WellFoundedInduction, TLAPS

IInv == IssueTypeOK /\ DisjointReports /\ OneOpenReport /\ OneIssueEach /\ ReportedInOrder

-----------------------------------------------------------------------------
\* A call that prepares a report found no open report that it could return,
\* and takes completed attempts of its task that no submitted report holds.
LEMMA NewReport ==
  ASSUME IInv, NEW r \in Reporters, reporter[r].pc = "read", ReportAnswer(r) = "new"
  PROVE  /\ TaskOf(r) \in Tasks
         /\ Selected(r) \subseteq DOMAIN pairs
         /\ \A p \in Selected(r) : pairs[p].task = TaskOf(r)
         /\ \A k \in Prepared(state) : IsSubmitted(state, k) =>
               state[k].attempts \cap Selected(r) = {}
         /\ \A k \in Prepared(state) : ~IsSubmitted(state, k) => state[k].task # TaskOf(r)
         /\ \A p \in Selected(r) : \A q \in 1 .. p - 1 : pairs[q].task = TaskOf(r) =>
               q \in Selected(r) \/ \E j \in Prepared(state) : q \in state[j].attempts
<1>1. /\ StateOK(state) /\ Pending(r) = {} /\ Selected(r) # {}
  BY DEF ReportAnswer
<1>2. Selected(r) \subseteq DOMAIN pairs
  <2>1. reporter[r].seen \in DOMAIN pairs
    BY DEF IInv, IssueTypeOK
  <2>2. pairs \in Seq(CompletedAttempt)
    BY DEF IInv, IssueTypeOK
  <2> QED
    BY <2>1, <2>2 DEF Selected, Available, Seen
<1>3. \A p \in Selected(r) : pairs[p].task = TaskOf(r)
  BY DEF Selected
<1>4. TaskOf(r) \in Tasks
  <2>1. PICK p \in Selected(r) : TRUE
    BY <1>1
  <2>2. pairs[p] \in CompletedAttempt
    BY <1>2, <2>1 DEF IInv, IssueTypeOK
  <2> QED
    BY <1>3, <2>1, <2>2 DEF CompletedAttempt
<1>5. \A k \in Prepared(state) : IsSubmitted(state, k) =>
         state[k].attempts \cap Selected(r) = {}
  BY DEF Selected, Available, SubmittedPairs
<1>6. ASSUME NEW k \in Prepared(state), ~IsSubmitted(state, k), state[k].task = TaskOf(r)
      PROVE  FALSE
  <2>1. reporter[r].task \notin {AnyTask, state[k].task}
    BY <1>1, <1>6 DEF Pending
  <2> QED
    BY <1>6, <2>1 DEF TaskOf
<1>7. ASSUME NEW p \in Selected(r), NEW q \in 1 .. p - 1, pairs[q].task = TaskOf(r)
      PROVE  q \in Selected(r) \/ \E j \in Prepared(state) : q \in state[j].attempts
  <2>1. p \in 1 .. reporter[r].seen /\ reporter[r].seen \in Nat
    BY <1>7 DEF IInv, IssueTypeOK, Selected, Available, Seen
  <2>2. q \in Seen(r)
    BY <2>1 DEF Seen
  <2> QED
    BY <1>7, <2>2 DEF Selected, Available, SubmittedPairs
<1> QED
  BY <1>2, <1>3, <1>4, <1>5, <1>6, <1>7

\* What an append to the issue state leaves as it was.
LEMMA AppendToState ==
  ASSUME NEW S \in Seq(StateEvent), NEW e \in StateEvent
  PROVE  /\ Append(S, e) \in Seq(StateEvent)
         /\ DOMAIN Append(S, e) = DOMAIN S \union {Len(S) + 1}
         /\ Len(S) + 1 \notin DOMAIN S
         /\ \A k \in DOMAIN S : Append(S, e)[k] = S[k]
         /\ Append(S, e)[Len(S) + 1] = e
         /\ Prepared(Append(S, e)) =
              IF e.type = "prepared" THEN Prepared(S) \union {Len(S) + 1} ELSE Prepared(S)
         /\ Submissions(Append(S, e)) =
              IF e.type = "submitted" THEN Submissions(S) \union {Len(S) + 1} ELSE Submissions(S)
         /\ \A k : IsSubmitted(S, k) => IsSubmitted(Append(S, e), k)
<1>1. /\ Append(S, e) \in Seq(StateEvent)
      /\ DOMAIN Append(S, e) = DOMAIN S \union {Len(S) + 1}
      /\ Len(S) + 1 \notin DOMAIN S
      /\ \A k \in DOMAIN S : Append(S, e)[k] = S[k]
      /\ Append(S, e)[Len(S) + 1] = e
  OBVIOUS
<1>2. Prepared(Append(S, e)) =
        IF e.type = "prepared" THEN Prepared(S) \union {Len(S) + 1} ELSE Prepared(S)
  BY <1>1 DEF Prepared
<1>3. Submissions(Append(S, e)) =
        IF e.type = "submitted" THEN Submissions(S) \union {Len(S) + 1} ELSE Submissions(S)
  BY <1>1 DEF Submissions
<1>4. \A k : IsSubmitted(S, k) => IsSubmitted(Append(S, e), k)
  BY <1>1 DEF IsSubmitted, Submissions
<1> QED
  BY <1>1, <1>2, <1>3, <1>4

-----------------------------------------------------------------------------
\* A new report keeps the invariant.
LEMMA PrepareKeepsIInv ==
  ASSUME IInv, NEW r \in Reporters, PrepareReport(r)
  PROVE  IInv'
<1> DEFINE n == Len(state) + 1
<1>1. PICK now \in Readings :
        state' = Append(state, [type |-> "prepared", task |-> TaskOf(r),
                                attempts |-> Selected(r), at |-> now])
  BY DEF PrepareReport
<1> DEFINE e == [type |-> "prepared", task |-> TaskOf(r), attempts |-> Selected(r), at |-> now]
<1>2. /\ reporter[r].pc = "read" /\ ReportAnswer(r) = "new"
      /\ reporter' = [reporter EXCEPT ![r] = Idle] /\ pairs' = pairs
  BY DEF PrepareReport
<1>3. /\ TaskOf(r) \in Tasks
      /\ Selected(r) \subseteq DOMAIN pairs
      /\ \A p \in Selected(r) : pairs[p].task = TaskOf(r)
      /\ \A k \in Prepared(state) : IsSubmitted(state, k) =>
            state[k].attempts \cap Selected(r) = {}
      /\ \A k \in Prepared(state) : ~IsSubmitted(state, k) => state[k].task # TaskOf(r)
      /\ \A p \in Selected(r) : \A q \in 1 .. p - 1 : pairs[q].task = TaskOf(r) =>
            q \in Selected(r) \/ \E j \in Prepared(state) : q \in state[j].attempts
  BY <1>2, NewReport
<1>4. e \in StateEvent
  <2>1. now \in Nat
    BY ReportAssumption DEF Readings
  <2>2. Selected(r) \subseteq Nat
    BY <1>3 DEF IInv, IssueTypeOK
  <2> QED
    BY <1>3, <2>1, <2>2 DEF StateEvent
<1>5. state \in Seq(StateEvent)
  BY DEF IInv, IssueTypeOK
<1>6. /\ state' \in Seq(StateEvent)
      /\ n \notin DOMAIN state
      /\ \A k \in DOMAIN state : state'[k] = state[k]
      /\ state'[n].task = TaskOf(r) /\ state'[n].attempts = Selected(r)
      /\ Prepared(state') = Prepared(state) \union {n}
      /\ Submissions(state') = Submissions(state)
      /\ \A k : IsSubmitted(state, k) => IsSubmitted(state', k)
  BY <1>1, <1>4, <1>5, AppendToState
<1>7. Prepared(state) \subseteq DOMAIN state /\ Submissions(state) \subseteq DOMAIN state
  BY DEF Prepared, Submissions
<1>8. IssueTypeOK'
  <2>1. reporter' \in [Reporters -> Reader]
    BY <1>2 DEF IInv, IssueTypeOK, Reader
  <2>2. \A x \in Reporters :
          reporter'[x].pc = "read" => reporter'[x].seen \in DOMAIN pairs'
    BY <1>2 DEF IInv, IssueTypeOK, Idle
  <2>3. \A k \in Prepared(state') :
          /\ state'[k].attempts \subseteq DOMAIN pairs'
          /\ \A p \in state'[k].attempts : pairs'[p].task = state'[k].task
    BY <1>2, <1>3, <1>6, <1>7 DEF IInv, IssueTypeOK
  <2>4. pairs' \in Seq(CompletedAttempt)
    BY <1>2 DEF IInv, IssueTypeOK
  <2> QED
    BY <1>6, <2>1, <2>2, <2>3, <2>4 DEF IssueTypeOK
<1>9. \A k \in Prepared(state) : state[k].attempts \cap Selected(r) = {}
  BY <1>3 DEF IInv, IssueTypeOK
<1>10. DisjointReports'
  BY <1>6, <1>7, <1>9 DEF IInv, DisjointReports
<1>11. OneOpenReport'
  BY <1>3, <1>6, <1>7 DEF IInv, OneOpenReport
<1>12. OneIssueEach'
  BY <1>6, <1>7 DEF IInv, OneIssueEach
<1>13. ReportedInOrder'
  <2> SUFFICES ASSUME NEW k \in Prepared(state'), NEW p \in state'[k].attempts,
                      NEW q \in 1 .. p - 1, pairs[q].task = pairs[p].task
               PROVE  \E j \in Prepared(state') : q \in state'[j].attempts
    BY <1>2 DEF ReportedInOrder
  <2>1. ASSUME NEW j \in Prepared(state), q \in state[j].attempts
        PROVE  \E i \in Prepared(state') : q \in state'[i].attempts
    BY <1>6, <1>7, <2>1
  <2>2. CASE k \in Prepared(state)
    BY <1>6, <1>7, <2>1, <2>2 DEF IInv, ReportedInOrder
  <2>3. CASE k = n
    BY <1>3, <1>6, <2>1, <2>3
  <2> QED
    BY <1>6, <2>2, <2>3
<1> QED
  BY <1>8, <1>10, <1>11, <1>12, <1>13 DEF IInv

\* A recorded submission closes a report and changes no other.
LEMMA SubmitKeepsIInv ==
  ASSUME IInv, NEW report \in DOMAIN state, NEW url \in Urls, RecordSubmission(report, url)
  PROVE  IInv'
<1>1. PICK now \in Readings :
        state' = Append(state, [type |-> "submitted", id |-> report, url |-> url, at |-> now])
  BY DEF RecordSubmission
<1> DEFINE e == [type |-> "submitted", id |-> report, url |-> url, at |-> now]
<1>2. pairs' = pairs /\ reporter' = reporter
  BY DEF RecordSubmission
<1>3. state \in Seq(StateEvent)
  BY DEF IInv, IssueTypeOK
<1>4. e \in StateEvent
  BY <1>3, ReportAssumption DEF Readings, StateEvent
<1>5. /\ state' \in Seq(StateEvent)
      /\ \A k \in DOMAIN state : state'[k] = state[k]
      /\ state'[Len(state) + 1].id = report
      /\ Prepared(state') = Prepared(state)
      /\ Submissions(state') = Submissions(state) \union {Len(state) + 1}
      /\ \A k : IsSubmitted(state, k) => IsSubmitted(state', k)
  BY <1>1, <1>3, <1>4, AppendToState
<1>6. Prepared(state) \subseteq DOMAIN state /\ Submissions(state) \subseteq DOMAIN state
  BY DEF Prepared, Submissions
<1>7. IssueTypeOK'
  BY <1>2, <1>5, <1>6 DEF IInv, IssueTypeOK
<1>8. DisjointReports' /\ OneOpenReport'
  BY <1>5, <1>6 DEF IInv, DisjointReports, OneOpenReport
<1>9. ~IsSubmitted(state, report)
  BY DEF RecordSubmission, SubmissionAnswer
<1>10. OneIssueEach'
  BY <1>5, <1>6, <1>9 DEF IInv, OneIssueEach, IsSubmitted
<1>11. ReportedInOrder'
  BY <1>2, <1>5, <1>6 DEF IInv, ReportedInOrder
<1> QED
  BY <1>7, <1>8, <1>10, <1>11 DEF IInv

\* The routing ledger grows only.
LEMMA CompleteKeepsIInv ==
  ASSUME IInv, NEW t \in Tasks, CompleteAttempt(t)
  PROVE  IInv'
<1> DEFINE i == Cardinality({p \in DOMAIN pairs : pairs[p].task = t}) + 1
<1>1. PICK now \in Readings :
        pairs' = Append(pairs, [task |-> t, at |-> now, index |-> i])
  BY DEF CompleteAttempt
<1>2. state' = state /\ reporter' = reporter
  BY DEF CompleteAttempt
<1>3. pairs \in Seq(CompletedAttempt)
  BY DEF IInv, IssueTypeOK
<1>4. i \in Nat
  <2>1. IsFiniteSet({p \in DOMAIN pairs : pairs[p].task = t})
    BY <1>3, FS_Interval, FS_Subset
  <2> QED
    BY <2>1, FS_CardinalityType
<1>5. [task |-> t, at |-> now, index |-> i] \in CompletedAttempt
  BY <1>4, ReportAssumption DEF Readings, CompletedAttempt
<1>6. /\ pairs' \in Seq(CompletedAttempt)
      /\ DOMAIN pairs \subseteq DOMAIN pairs'
      /\ \A p \in DOMAIN pairs : pairs'[p] = pairs[p]
  BY <1>1, <1>3, <1>5
<1>7. IssueTypeOK'
  BY <1>2, <1>6 DEF IInv, IssueTypeOK
<1>8. DisjointReports' /\ OneOpenReport' /\ OneIssueEach'
  BY <1>2 DEF IInv, DisjointReports, OneOpenReport, OneIssueEach
<1>9. ReportedInOrder'
  <2> SUFFICES ASSUME NEW k \in Prepared(state), NEW p \in state[k].attempts,
                      NEW q \in 1 .. p - 1, pairs'[q].task = pairs'[p].task
               PROVE  \E j \in Prepared(state) : q \in state[j].attempts
    BY <1>2 DEF ReportedInOrder
  <2>1. p \in DOMAIN pairs
    BY DEF IInv, IssueTypeOK
  <2>2. q \in DOMAIN pairs
    BY <1>3, <2>1
  <2> QED
    BY <1>6, <2>1, <2>2 DEF IInv, ReportedInOrder
<1> QED
  BY <1>7, <1>8, <1>9 DEF IInv

-----------------------------------------------------------------------------
\* The invariant holds at first and through every step.
LEMMA InductiveInvariant == Spec => []IInv
<1>1. Init => IInv
  BY DEF Init, IInv, IssueTypeOK, DisjointReports, OneOpenReport, OneIssueEach, ReportedInOrder,
         Prepared, Submissions, Idle, Reader
<1>2. ASSUME IInv, [Next]_vars PROVE IInv'
  <2>1. ASSUME NEW t \in Tasks, CompleteAttempt(t) PROVE IInv'
    BY <1>2, <2>1, CompleteKeepsIInv
  <2>2. ASSUME NEW r \in Reporters, ReadPairs(r) PROVE IInv'
    <3>1. pairs \in Seq(CompletedAttempt) /\ pairs # << >>
      BY <1>2, <2>2 DEF IInv, IssueTypeOK, ReadPairs
    <3>2. Len(pairs) \in Nat /\ Len(pairs) \in DOMAIN pairs
      BY <3>1
    <3>3. IssueTypeOK'
      BY <1>2, <2>2, <3>2 DEF IInv, IssueTypeOK, ReadPairs, Reader
    <3> QED
      BY <1>2, <2>2, <3>3 DEF IInv, DisjointReports, OneOpenReport, OneIssueEach, ReportedInOrder,
                              ReadPairs
  <2>3. ASSUME NEW r \in Reporters, ReturnReport(r) PROVE IInv'
    <3>1. IssueTypeOK'
      BY <1>2, <2>3 DEF IInv, IssueTypeOK, ReturnReport, Reader, Idle
    <3> QED
      BY <1>2, <2>3, <3>1 DEF IInv, DisjointReports, OneOpenReport, OneIssueEach, ReportedInOrder,
                              ReturnReport
  <2>4. ASSUME NEW r \in Reporters, PrepareReport(r) PROVE IInv'
    BY <1>2, <2>4, PrepareKeepsIInv
  <2>5. ASSUME NEW report \in DOMAIN state, NEW url \in Urls, RecordSubmission(report, url)
        PROVE  IInv'
    BY <1>2, <2>5, SubmitKeepsIInv
  <2>6. CASE UNCHANGED vars
    BY <1>2, <2>6 DEF IInv, IssueTypeOK, DisjointReports, OneOpenReport, OneIssueEach,
                         ReportedInOrder, vars
  <2> QED
    BY <1>2, <2>1, <2>2, <2>3, <2>4, <2>5, <2>6 DEF Next
<1> QED
  BY <1>1, <1>2, PTL DEF Spec

\* Reports hold completed attempts of their task, and reporters have seen a
\* prefix of the completed attempts.
THEOREM ReportsAreTyped == Spec => []IssueTypeOK
BY InductiveInvariant, PTL DEF IInv

\* No completed attempt is in two reports.
THEOREM NeverReportedTwice == Spec => []DisjointReports
BY InductiveInvariant, PTL DEF IInv

\* A task never has two reports that wait for their issue.
THEOREM OneReportAtATime == Spec => []OneOpenReport
BY InductiveInvariant, PTL DEF IInv

\* No report is bound to two issues.
THEOREM OneIssueOnly == Spec => []OneIssueEach
BY InductiveInvariant, PTL DEF IInv

\* Reports skip no completed attempt of their task, however stale the view
\* of the ledger that they were made from.
THEOREM NothingSkipped == Spec => []ReportedInOrder
BY InductiveInvariant, PTL DEF IInv

-----------------------------------------------------------------------------
(* A reporter with a current view gets an answer.                          *)

\* A bounded nonempty set of numbers has a greatest element.
LEMMA GreatestExists ==
  ASSUME NEW n \in Nat, NEW T, T \subseteq 0 .. n, T # {}
  PROVE  \E m \in T : \A k \in T : k <= m
<1> DEFINE D == {d \in Nat : \E k \in T : d = n - k}
<1>1. \A k \in T : k \in Nat /\ n - k \in D
  OBVIOUS
<1>2. D # {} /\ D \subseteq Nat
  BY <1>1
<1> HIDE DEF D
<1>3. PICK d \in D : \A c \in D : ~(<<c, d>> \in OpToRel(<, Nat))
  BY <1>2, NatLessThanWellFounded, WFMin
<1>4. \A c \in D : ~(c < d)
  BY <1>2, <1>3 DEF OpToRel
<1>5. PICK m \in T : d = n - m
  BY DEF D
<1>6. ASSUME NEW k \in T PROVE k <= m
  <2>1. ~(n - k < n - m)
    BY <1>1, <1>4, <1>5
  <2> QED BY <1>1, <2>1
<1> QED BY <1>6

\* The values of f on K are numbers up to n.
BoundedOn(f, K, n) == \A k \in K : f[k] \in 0 .. n

\* Among finitely many, one is the greatest in f and, of those, in g.
LEMMA GreatestOfGreatest ==
  ASSUME NEW K, K # {}, NEW m \in Nat, NEW n \in Nat,
         NEW f, BoundedOn(f, K, m), NEW g, BoundedOn(g, K, n)
  PROVE  \E k \in K : \A j \in K : f[j] < f[k] \/ (f[j] = f[k] /\ g[j] <= g[k])
<1> DEFINE F == {f[k] : k \in K}
<1>1. PICK a \in F : \A b \in F : b <= a
  <2>1. F # {} /\ F \subseteq 0 .. m
    BY DEF BoundedOn
  <2> HIDE DEF F
  <2> QED BY <2>1, GreatestExists
<1> DEFINE G == {g[k] : k \in {j \in K : f[j] = a}}
<1>2. PICK c \in G : \A b \in G : b <= c
  <2>1. G # {} /\ G \subseteq 0 .. n
    BY DEF BoundedOn
  <2> HIDE DEF G
  <2> QED BY <2>1, GreatestExists
<1>3. PICK k \in K : f[k] = a /\ g[k] = c
  OBVIOUS
<1>4. ASSUME NEW j \in K PROVE f[j] < f[k] \/ (f[j] = f[k] /\ g[j] <= g[k])
  <2>1. f[j] \in Nat /\ f[k] \in Nat /\ f[j] <= f[k]
    BY <1>1, <1>3 DEF BoundedOn
  <2>2. f[j] = f[k] => g[j] <= g[k]
    BY <1>2, <1>3
  <2> QED BY <2>1, <2>2
<1> QED BY <1>4

\* What is read off the clock and counted stays within the bounds.
Bounded ==
  /\ \A p \in DOMAIN pairs : pairs[p].at <= MaxTime /\ pairs[p].index <= MaxPairs
  /\ \A k \in DOMAIN state : state[k].at <= MaxTime

\* Every step keeps the bounds.
LEMMA StepKeepsBounded == ASSUME IInv, Bounded, [Next]_vars PROVE Bounded'
<1> USE ReportAssumption
<1>1. pairs \in Seq(CompletedAttempt) /\ state \in Seq(StateEvent)
  BY DEF IInv, IssueTypeOK
<1>2. ASSUME NEW t \in Tasks, CompleteAttempt(t) PROVE Bounded'
  <2> DEFINE index == Cardinality({p \in DOMAIN pairs : pairs[p].task = t}) + 1
  <2>1. PICK now \in Readings : pairs' = Append(pairs, [task |-> t, at |-> now, index |-> index])
    BY <1>2 DEF CompleteAttempt
  <2>2. index \in Nat /\ index <= MaxPairs
    <3>1. /\ IsFiniteSet(1 .. Len(pairs)) /\ Cardinality(1 .. Len(pairs)) = Len(pairs)
      <4>1. Len(pairs) \in Nat
        BY <1>1
      <4>2. ASSUME NEW n \in Nat PROVE IsFiniteSet(1 .. n) /\ Cardinality(1 .. n) = n
        <5>1. /\ IsFiniteSet(1 .. n)
              /\ Cardinality(1 .. n) = IF 1 > n THEN 0 ELSE n - 1 + 1
          BY FS_Interval
        <5> QED BY <5>1
      <4> QED BY <4>1, <4>2
    <3>2. {p \in DOMAIN pairs : pairs[p].task = t} \in SUBSET (1 .. Len(pairs))
      BY <1>1
    <3>3. /\ Cardinality({p \in DOMAIN pairs : pairs[p].task = t}) \in Nat
          /\ Cardinality({p \in DOMAIN pairs : pairs[p].task = t}) <= Len(pairs)
      BY <3>1, <3>2, FS_Subset, FS_CardinalityType
    <3> QED BY <1>1, <1>2, <3>3 DEF CompleteAttempt
  <2> HIDE DEF index
  <2>3. now <= MaxTime
    BY DEF Readings
  <2>4. \A p \in DOMAIN pairs' : \/ p \in DOMAIN pairs /\ pairs'[p] = pairs[p]
                                 \/ pairs'[p] = [task |-> t, at |-> now, index |-> index]
    BY <1>1, <2>1
  <2>5. \A p \in DOMAIN pairs' : pairs'[p].at <= MaxTime /\ pairs'[p].index <= MaxPairs
    BY <2>2, <2>3, <2>4 DEF Bounded
  <2> QED BY <1>2, <2>5 DEF Bounded, CompleteAttempt
<1>3. ASSUME NEW e, NEW now \in Readings, e.at = now, state' = Append(state, e), pairs' = pairs
      PROVE  Bounded'
  <2>1. now <= MaxTime
    BY DEF Readings
  <2>2. \A k \in DOMAIN state' : (k \in DOMAIN state /\ state'[k] = state[k]) \/ state'[k] = e
    BY <1>1, <1>3
  <2> QED BY <1>3, <2>1, <2>2 DEF Bounded
<1>4. ASSUME NEW r \in Reporters, PrepareReport(r) PROVE Bounded'
  BY <1>3, <1>4 DEF PrepareReport
<1>5. ASSUME NEW report \in DOMAIN state, NEW url \in Urls, RecordSubmission(report, url)
      PROVE  Bounded'
  BY <1>3, <1>5 DEF RecordSubmission
<1>6. CASE UNCHANGED <<pairs, state>>
  BY <1>6 DEF Bounded
<1> QED BY <1>2, <1>4, <1>5, <1>6 DEF Next, ReadPairs, ReturnReport, vars

\* A pending report was prepared, and can be chosen.
LEMMA LatestPendingExists ==
  ASSUME IInv, Bounded, NEW r, Pending(r) # {} PROVE LatestPending(r) \in Pending(r)
<1> DEFINE f == [k \in Pending(r) |-> state[k].at]
           g == [k \in Pending(r) |-> Len(state) - k]
<1>1. state \in Seq(StateEvent) /\ Pending(r) \subseteq DOMAIN state
  BY DEF IInv, IssueTypeOK, Pending, Prepared
<1>2. \A k \in DOMAIN state : state[k].at \in 0 .. MaxTime /\ k \in 1 .. Len(state)
  <2>1. \A k \in DOMAIN state : state[k] \in StateEvent
    BY <1>1
  <2> QED BY <1>1, <2>1, ReportAssumption DEF StateEvent, Bounded
<1>4. Len(state) \in Nat /\ MaxTime \in Nat
  BY <1>1, ReportAssumption
<1>5. PICK k \in Pending(r) : \A j \in Pending(r) : f[j] < f[k] \/ (f[j] = f[k] /\ g[j] <= g[k])
  <2>1. /\ BoundedOn(f, Pending(r), MaxTime) /\ BoundedOn(g, Pending(r), Len(state))
    BY <1>1, <1>2 DEF BoundedOn
  <2> HIDE DEF f, g
  <2> QED BY <1>4, <2>1, GreatestOfGreatest
<1>6. \A j \in Pending(r) : \/ state[j].at < state[k].at
                            \/ state[j].at = state[k].at /\ k <= j
  BY <1>1, <1>2, <1>4, <1>5
<1> QED BY <1>6 DEF LatestPending

\* A call without a task takes the task of an available attempt.
LEMMA TaskOfAvailable ==
  ASSUME IInv, Bounded, NEW r \in Reporters, reporter[r].pc = "read",
         reporter[r].task = AnyTask, Available(r) # {}
  PROVE  \E p \in Available(r) : TaskOf(r) = pairs[p].task
<1> DEFINE f == [p \in Available(r) |-> pairs[p].at]
           g == [p \in Available(r) |-> pairs[p].index]
<1>1. pairs \in Seq(CompletedAttempt) /\ Available(r) \subseteq DOMAIN pairs
  BY DEF IInv, IssueTypeOK, Available, Seen
<1>2. \A p \in DOMAIN pairs : pairs[p].at \in 0 .. MaxTime /\ pairs[p].index \in 0 .. MaxPairs
  <2>1. \A p \in DOMAIN pairs : pairs[p] \in CompletedAttempt
    BY <1>1
  <2> QED BY <2>1, ReportAssumption DEF CompletedAttempt, Bounded
<1>3. BoundedOn(f, Available(r), MaxTime) /\ BoundedOn(g, Available(r), MaxPairs)
  BY <1>1, <1>2 DEF BoundedOn
<1>4. PICK p \in Available(r) :
        \A q \in Available(r) : f[q] < f[p] \/ (f[q] = f[p] /\ g[q] <= g[p])
  <2> HIDE DEF f, g
  <2> QED BY <1>3, ReportAssumption, GreatestOfGreatest
<1>5. \A q \in Available(r) : NotBefore(p, q)
  BY <1>4 DEF NotBefore
<1> QED BY <1>5 DEF TaskOf

\* The invariant and the bounds leave a current reporter no reason to fail.
LEMMA FreshAnswer == IInv /\ Bounded => FreshReporterAnswers
<1> SUFFICES ASSUME IInv, Bounded, NEW r \in Reporters,
                    reporter[r].pc = "read", reporter[r].task = AnyTask,
                    reporter[r].seen = Len(pairs), StateOK(state),
                    \A t \in Tasks :
                      Cardinality({p \in DOMAIN pairs : pairs[p].task = t}) <= MaxReportAttempts
             PROVE  ReportAnswer(r) # "error"
  BY DEF FreshReporterAnswers
<1>1. pairs \in Seq(CompletedAttempt) /\ Seen(r) = DOMAIN pairs
  BY DEF IInv, IssueTypeOK, Seen
<1>2. ASSUME Pending(r) # {} PROVE state[LatestPending(r)].attempts \subseteq Seen(r)
  <2>1. LatestPending(r) \in Prepared(state)
    BY <1>2, LatestPendingExists DEF Pending
  <2> QED BY <1>1, <2>1 DEF IInv, IssueTypeOK
<1>3. ASSUME Available(r) # {}
      PROVE  Selected(r) # {} /\ ~(Cardinality(Selected(r)) > MaxReportAttempts)
  <2>1. PICK p \in Available(r) : TaskOf(r) = pairs[p].task
    BY <1>3, TaskOfAvailable
  <2>2. p \in DOMAIN pairs /\ p \in Selected(r)
    BY <1>1, <2>1 DEF Available, Selected
  <2> DEFINE own == {q \in DOMAIN pairs : pairs[q].task = TaskOf(r)}
  <2>3. Cardinality(own) <= MaxReportAttempts
    <3>1. pairs[p] \in CompletedAttempt
      BY <1>1, <2>2
    <3> QED BY <2>1, <3>1 DEF CompletedAttempt
  <2>4. IsFiniteSet(own) /\ Selected(r) \in SUBSET own
    <3>1. IsFiniteSet(1 .. Len(pairs)) /\ own \in SUBSET (1 .. Len(pairs))
      <4>1. Len(pairs) \in Int /\ own \in SUBSET (1 .. Len(pairs))
        BY <1>1
      <4> HIDE DEF own
      <4> QED BY <4>1, FS_Interval
    <3>2. Selected(r) \in SUBSET own
      BY <1>1 DEF Selected, Available
    <3> QED BY <3>1, <3>2, FS_Subset
  <2> HIDE DEF own
  <2>5. /\ IsFiniteSet(Selected(r)) /\ Cardinality(Selected(r)) <= Cardinality(own)
    BY <2>4, FS_Subset
  <2>6. Cardinality(Selected(r)) \in Nat /\ Cardinality(own) \in Nat
    BY <2>4, <2>5, FS_CardinalityType
  <2> QED BY <2>2, <2>3, <2>5, <2>6, ReportAssumption
<1> QED BY <1>2, <1>3 DEF ReportAnswer

\* A call without a task, made with a current view of a ledger in which no
\* task has more attempts than a report may hold, never fails on a sound issue
\* state, whatever other reporters prepared and recorded before it.
THEOREM FreshReporterIsAnswered == Spec => []FreshReporterAnswers
<1>1. Init => Bounded
  BY DEF Init, Bounded
<1>2. IInv /\ Bounded /\ [Next]_vars => Bounded'
  BY StepKeepsBounded
<1> QED BY <1>1, <1>2, InductiveInvariant, FreshAnswer, PTL DEF Spec
=============================================================================
