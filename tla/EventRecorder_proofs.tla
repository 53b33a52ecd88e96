------------------------- MODULE EventRecorder_proofs -------------------------
(***************************************************************************)
(* What a confirmation of module EventRecorder is worth, for any number of *)
(* callers, any cadence and a ledger of any length.                        *)
(***************************************************************************)
EXTENDS EventRecorder, AttemptLedger_proofs

Calling == [pc : {"count", "review"}, event : Submissions, at : Nat]

RecordTypeInv ==
  /\ ledger \in Seq(Submissions)
  /\ torn \in BOOLEAN
  /\ recorder \in [Recorders -> {Idle} \union Calling]

\* Where the event of a call is: at its place, or in the torn line, after which
\* nothing is appended any more.
Recorded(e, at) ==
  \/ at \in DOMAIN ledger /\ ledger[at] = e
  \/ torn /\ at = NowhereInFile

CallInv == \A w \in Recorders :
  recorder[w] # Idle => Recorded(recorder[w].event, recorder[w].at)

RecordInv == RecordTypeInv /\ CallInv /\ ConfirmedIsRecorded

\* The invariant holds of an empty ledger.
LEMMA RecordInitInv == RecorderInit => RecordInv
<1> SUFFICES ASSUME RecorderInit PROVE RecordInv
  OBVIOUS
<1> USE DEF RecorderInit, Init
<1>1. RecordTypeInv
  <2>1. ledger \in Seq(Submissions)
    OBVIOUS
  <2>3. torn \in BOOLEAN
    OBVIOUS
  <2>2. recorder \in [Recorders -> {Idle} \union Calling]
    OBVIOUS
  <2> QED BY <2>1, <2>2, <2>3 DEF RecordTypeInv
<1>2. CallInv /\ ConfirmedIsRecorded
  BY DEF CallInv, ConfirmedIsRecorded
<1> QED BY <1>1, <1>2 DEF RecordInv

\* Appending keeps every place.
LEMMA AppendKeeps ==
  ASSUME NEW S, NEW s \in Seq(S), NEW e \in S
  PROVE  /\ Append(s, e) \in Seq(S) /\ Len(s) + 1 \in DOMAIN Append(s, e)
         /\ Append(s, e)[Len(s) + 1] = e
         /\ \A i \in DOMAIN s : i \in DOMAIN Append(s, e) /\ Append(s, e)[i] = s[i]
OBVIOUS

\* A submission is a decision or a result.
LEMMA SubmissionType == \A e \in Submissions : e.type \in {"pre", "post"}
BY LedgerAssumption DEF IsEvent, IsPre, IsPost

\* Every step of a recorder keeps the invariant.
LEMMA RecordInvStep == RecordInv /\ [RecorderNext]_recordVars => RecordInv'
<1> SUFFICES ASSUME RecordInv, [RecorderNext]_recordVars PROVE RecordInv'
  OBVIOUS
<1> USE DEF RecordInv, RecordTypeInv, Idle
<1>1. ASSUME NEW w \in Recorders, Record(w) PROVE RecordInv'
  <2>1. PICK e \in {s \in Submissions : CanAppend(s)}, whole \in BOOLEAN, auto \in BOOLEAN :
          LET at == IF whole THEN Len(ledger) + 1 ELSE NowhereInFile IN
          /\ ledger' = IF whole THEN Append(ledger, e) ELSE ledger
          /\ torn' = ~whole
          /\ CASE ~auto -> Confirm(w, e, at, "off")
               [] auto /\ e.type = "post" -> Goto(w, "count", e, at)
               [] auto /\ e.type = "pre" /\ IsSol(e.route) -> Goto(w, "review", e, at)
               [] OTHER -> Confirm(w, e, at, "none")
    BY <1>1 DEF Record
  <2> DEFINE at == IF whole THEN Len(ledger) + 1 ELSE NowhereInFile
  <2>2. e \in Submissions /\ at \in Nat /\ recorder[w] = Idle /\ torn = FALSE
    BY <1>1 DEF Record, NowhereInFile, FileReadable
  <2>3. /\ ledger' \in Seq(Submissions) /\ torn' \in BOOLEAN
        /\ \A i \in DOMAIN ledger : i \in DOMAIN ledger' /\ ledger'[i] = ledger[i]
        /\ whole => at \in DOMAIN ledger' /\ ledger'[at] = e
        /\ ~whole => torn' /\ at = NowhereInFile
    <3>1. CASE whole
      BY <2>1, <2>2, <3>1, AppendKeeps
    <3>2. CASE ~whole
      BY <2>1, <2>2, <3>2
    <3> QED BY <3>1, <3>2
  <2>4. \/ Confirm(w, e, at, "off")
        \/ e.type = "post" /\ Goto(w, "count", e, at)
        \/ e.type = "pre" /\ Goto(w, "review", e, at)
        \/ e.type = "pre" /\ Confirm(w, e, at, "none")
    <3> HIDE DEF at
    <3>1. e.type \in {"pre", "post"}
      BY <2>2, SubmissionType
    <3> QED BY <2>1, <3>1 DEF at
  <2> HIDE DEF at
  <2>5. \A v \in Recorders : recorder[v] # Idle =>
          recorder[v].at \in DOMAIN ledger' /\ ledger'[recorder[v].at] = recorder[v].event
    BY <2>2, <2>3 DEF CallInv, Recorded
  <2>6. ASSUME NEW pc \in {"count", "review"}, Goto(w, pc, e, at) PROVE RecordInv'
    <3>1. recorder' = [recorder EXCEPT ![w] = [pc |-> pc, event |-> e, at |-> at]]
          /\ confirmed' = {}
      BY <2>6 DEF Goto
    <3>2. RecordTypeInv'
      BY <2>2, <2>3, <3>1 DEF Calling
    <3>3. CallInv'
      BY <2>2, <2>3, <2>5, <3>1 DEF CallInv, Recorded
    <3> QED BY <3>1, <3>2, <3>3 DEF ConfirmedIsRecorded
  <2>7. ASSUME NEW review, Confirm(w, e, at, review), e.type = "pre" \/ review = "off"
        PROVE RecordInv'
    <3>1. recorder' = [recorder EXCEPT ![w] = Idle]
          /\ confirmed' = {[event |-> e, at |-> at, review |-> review]}
      BY <2>7 DEF Confirm
    <3>2. RecordTypeInv'
      BY <2>2, <2>3, <3>1
    <3>3. CallInv'
      BY <2>5, <3>1 DEF CallInv, Recorded
    <3>4. ConfirmedIsRecorded'
      BY <2>3, <2>7, <3>1 DEF ConfirmedIsRecorded
    <3> QED BY <3>2, <3>3, <3>4
  <2> QED BY <2>4, <2>6, <2>7
<1>2. ASSUME NEW w \in Recorders, Count(w) \/ Review(w) PROVE RecordInv'
  <2> DEFINE call == recorder[w]
  <2>1. /\ call \in Calling /\ call.at \in DOMAIN ledger /\ ledger[call.at] = call.event
        /\ UNCHANGED <<ledger, torn>>
    BY <1>2 DEF Count, Review, CallInv, Recorded, FileReadable, Calling
  <2>2. \/ Goto(w, "review", call.event, call.at)
        \/ \E review : Confirm(w, call.event, call.at, review)
    BY <1>2 DEF Count, Review
  <2> HIDE DEF call
  <2>3. CASE Goto(w, "review", call.event, call.at)
    BY <2>1, <2>3 DEF Goto, Calling, CallInv, Recorded, ConfirmedIsRecorded
  <2>4. ASSUME NEW review, Confirm(w, call.event, call.at, review) PROVE RecordInv'
    BY <2>1, <2>4 DEF Confirm, CallInv, Recorded, ConfirmedIsRecorded
  <2> QED BY <2>2, <2>3, <2>4
<1>3. ASSUME NEW w \in Recorders, GiveUp(w) PROVE RecordInv'
  BY <1>3 DEF GiveUp, CallInv, Recorded, ConfirmedIsRecorded
<1>4. CASE ReviewByHand
  BY <1>4 DEF ReviewByHand, CallInv, Recorded, ConfirmedIsRecorded
<1>5. CASE UNCHANGED recordVars
  BY <1>5 DEF recordVars, CallInv, Recorded, ConfirmedIsRecorded
<1> QED BY <1>1, <1>2, <1>3, <1>4, <1>5 DEF RecorderNext

\* A confirmed result stands in the ledger; a confirmation that is wrong is one
\* of a decision, or without a review, and the file is then unreadable.
THEOREM ConfirmationHolds == RecorderSpec => []ConfirmedIsRecorded
<1>1. RecordInv => ConfirmedIsRecorded
  BY DEF RecordInv
<1> QED BY <1>1, RecordInitInv, RecordInvStep, PTL DEF RecorderSpec

-----------------------------------------------------------------------------
(* The reviews that are due.                                               *)

\* Callers submit what the installed scripts write: events of their policy.
\* Of the others the ledger checks little.
OwnPolicy == \A e \in Submissions : Current(installed, e)

\* The decision that a task starts with.
LEMMA TaskStartsWithDecision ==
  ASSUME NEW L \in Seq(Submissions), NEW policy, SequenceOK(policy, L),
         \A e \in Submissions : Current(policy, e),
         NEW t, NEW j \in DOMAIN L, L[j].task = t,
         \A i \in DOMAIN L : L[i].task = t => j <= i
  PROVE  j \in CurrentPres(policy, L, t)
<1>1. L[j] \in Submissions /\ j \in Nat
  BY ElementOfSeq, LenProperties
<1>2. L[j].type \in {"pre", "post"} /\ Current(policy, L[j])
  BY <1>1, SubmissionType
<1>3. CASE L[j].type = "post"
  <2> DEFINE P == SubSeq(L, 1, j - 1)
  <2>1. KeyOK(policy, P, L[j])
    BY DEF SequenceOK, EventOK
  <2>2. PICK i \in DOMAIN P : PairAgrees(policy, P[i], L[j])
    BY <1>3, <2>1 DEF KeyOK, SameKey
  <2>3. i \in DOMAIN L /\ i < j /\ P[i] = L[i]
    <3>1. j \in 1 .. Len(L) /\ Len(L) \in Nat
      BY LenProperties
    <3> QED BY <3>1, SubSeqProperties, LenProperties
  <2>4. L[i].task = t
    BY <2>2, <2>3 DEF PairAgrees
  <2> QED BY <1>1, <2>3, <2>4, LenProperties
<1>4. CASE L[j].type = "pre"
  BY <1>2, <1>4 DEF CurrentPres
<1> QED BY <1>2, <1>3, <1>4

\* A result whose counters are both 0 is of an attempt on the route that the
\* task started on.
LEMMA UncountedIsFirst ==
  ASSUME ledger \in Seq(Submissions), ReadableOrFull, OwnPolicy,
         NEW at \in DOMAIN ledger, ledger[at].type = "post",
         ledger[at].effort = 0, ledger[at].model = 0
  PROVE  ledger[at].route = FirstRoute(ledger[at].task)
<1> DEFINE t == ledger[at].task
           Starts(j) == /\ j \in DOMAIN ledger /\ ledger[j].task = t
                        /\ \A i \in DOMAIN ledger : ledger[i].task = t => j <= i
           P == SubSeq(ledger, 1, at - 1)
<1>1. SequenceOK(installed, ledger) /\ \A e \in Submissions : Current(installed, e)
  BY DEF ReadableOrFull, OwnPolicy
<1>2. DOMAIN ledger \subseteq Nat /\ at \in 1 .. Len(ledger) /\ Len(ledger) \in Nat
  BY LenProperties
<1>3. \E j \in DOMAIN ledger : Starts(j)
  <2> DEFINE T == {i \in DOMAIN ledger : ledger[i].task = t}
  <2>1. T \subseteq Nat /\ T # {}
    BY <1>2
  <2>2. PICK j \in T : \A i \in T : j <= i
    <3> HIDE DEF T
    <3> QED BY <2>1, LeastExists
  <2> QED BY <2>2
<1> DEFINE f == CHOOSE j \in DOMAIN ledger : ledger[j].task = t
                  /\ \A i \in DOMAIN ledger : ledger[i].task = t => j <= i
<1>4. Starts(f)
  BY <1>3
<1>5. FirstRoute(t) = ledger[f].route
  BY DEF FirstRoute
<1> HIDE DEF f
<1>6. f \in CurrentPres(installed, ledger, t)
  BY <1>1, <1>4, TaskStartsWithDecision
<1>7. PICK i \in DOMAIN P : P[i].type = "pre" /\ PairAgrees(installed, P[i], ledger[at])
  <2>1. KeyOK(installed, P, ledger[at])
    BY <1>1 DEF SequenceOK, EventOK
  <2> QED BY <2>1 DEF KeyOK, SameKey
<1>8. i \in DOMAIN ledger /\ P[i] = ledger[i]
  BY <1>2, SubSeqProperties, LenProperties
<1>9. ledger[i] \in Submissions /\ ledger[at] \in Submissions
  BY <1>8, ElementOfSeq, LenProperties
<1>10. /\ ledger[i].type = "pre" /\ ledger[i].task = t /\ ledger[i].route = ledger[at].route
       /\ ledger[i].effort = 0 /\ ledger[i].model = 0
       /\ Current(installed, ledger[i])
  BY <1>1, <1>7, <1>8, <1>9 DEF PairAgrees
<1>11. i \in CurrentPres(installed, ledger, t) /\ f <= i
  BY <1>4, <1>8, <1>10 DEF CurrentPres
<1>12. ledger[i].route = ledger[f].route
  BY <1>1, <1>6, <1>10, <1>11, LeavingIsCounted
<1> QED BY <1>5, <1>10, <1>12

\* What the reviews need of the calls under way: only results are counted.
ReviewInv ==
  /\ RecordInv /\ ReadableOrFull /\ OwnPolicy
  /\ reviewed \in Nat
  /\ \A w \in Recorders : recorder[w].pc = "count" => recorder[w].event.type = "post"

\* It holds at first.
LEMMA ReviewInitInv == RecorderInit /\ OwnPolicy => ReviewInv
<1> SUFFICES ASSUME RecorderInit, OwnPolicy PROVE ReviewInv
  OBVIOUS
<1>1. RecordInv
  BY RecordInitInv
<1>2. ReadableOrFull
  <2>1. Len(<< >>) = 0 /\ MaxLedger \in Nat
    BY LedgerAssumption
  <2> QED BY <2>1 DEF RecorderInit, Init, ReadableOrFull, SequenceOK
<1>3. reviewed \in Nat /\ \A w \in Recorders : recorder[w].pc # "count"
  BY DEF RecorderInit, Idle
<1> QED BY <1>1, <1>2, <1>3 DEF ReviewInv

\* Every step keeps it.
LEMMA ReviewInvStep == ReviewInv /\ [RecorderNext]_recordVars => ReviewInv'
<1> SUFFICES ASSUME ReviewInv, [RecorderNext]_recordVars PROVE ReviewInv'
  OBVIOUS
<1>1. RecordInv'
  BY RecordInvStep DEF ReviewInv
<1>2. installed' = installed /\ OwnPolicy'
  <2>1. installed' = installed
    BY DEF RecorderNext, recordVars, Record, Count, Review, GiveUp, ReviewByHand
  <2> QED BY <2>1 DEF ReviewInv, OwnPolicy, Current
<1>3. ReadableOrFull'
  <2>1. CASE ledger' = ledger
    BY <1>2, <2>1 DEF ReviewInv, ReadableOrFull
  <2>2. CASE \E e \in Submissions : CanAppend(e) /\ ledger' = Append(ledger, e)
    <3>1. PICK e \in Submissions : CanAppend(e) /\ ledger' = Append(ledger, e)
      BY <2>2
    <3>2. SequenceOK(installed, Append(ledger, e))
      BY <3>1, AppendKeepsSequenceOK DEF CanAppend, LedgerOK, ReviewInv, RecordInv, RecordTypeInv
    <3>3. Len(Append(ledger, e)) = Len(ledger) + 1 /\ Len(ledger) \in Nat /\ Fits(ledger)
      BY <3>1, AppendProperties, LenProperties
      DEF CanAppend, LedgerOK, ReviewInv, RecordInv, RecordTypeInv
    <3> QED BY <1>2, <3>1, <3>2, <3>3, LedgerAssumption DEF ReadableOrFull, Fits
  <2> QED
    BY <2>1, <2>2 DEF RecorderNext, recordVars, Record, Count, Review, GiveUp, ReviewByHand
<1>4. reviewed' \in Nat
  <2>1. Len(ledger) \in Nat /\ reviewed \in Nat
    BY LenProperties DEF ReviewInv, RecordInv, RecordTypeInv
  <2> QED BY <2>1 DEF RecorderNext, recordVars, Record, Count, Review, GiveUp,
                      ReviewByHand, Longest
<1>5. \A w \in Recorders : recorder'[w].pc = "count" => recorder'[w].event.type = "post"
  <2>1. recorder \in [Recorders -> {Idle} \union Calling]
    BY DEF ReviewInv, RecordInv, RecordTypeInv
  <2>2. ASSUME NEW w \in Recorders, NEW e, NEW at, NEW review, Confirm(w, e, at, review)
        PROVE  \A v \in Recorders : recorder'[v].pc = "count" => recorder'[v].event.type = "post"
    BY <2>1, <2>2 DEF Confirm, Idle, ReviewInv
  <2>3. ASSUME NEW w \in Recorders, NEW e, NEW at, NEW pc, Goto(w, pc, e, at),
               pc = "count" => e.type = "post"
        PROVE  \A v \in Recorders : recorder'[v].pc = "count" => recorder'[v].event.type = "post"
    BY <2>1, <2>3 DEF Goto, ReviewInv
  <2>4. ASSUME NEW w \in Recorders, Record(w)
        PROVE  \A v \in Recorders : recorder'[v].pc = "count" => recorder'[v].event.type = "post"
    <3>1. PICK e, at :
            \/ \E review : Confirm(w, e, at, review)
            \/ e.type = "post" /\ Goto(w, "count", e, at)
            \/ Goto(w, "review", e, at)
      BY <2>4 DEF Record
    <3> QED BY <2>2, <2>3, <3>1
  <2>5. ASSUME NEW w \in Recorders, Count(w) \/ Review(w)
        PROVE  \A v \in Recorders : recorder'[v].pc = "count" => recorder'[v].event.type = "post"
    <3>1. \E e, at : Goto(w, "review", e, at) \/ \E review : Confirm(w, e, at, review)
      BY <2>5 DEF Count, Review
    <3> QED BY <2>2, <2>3, <3>1
  <2>6. ASSUME NEW w \in Recorders, GiveUp(w)
        PROVE  \A v \in Recorders : recorder'[v].pc = "count" => recorder'[v].event.type = "post"
    BY <2>1, <2>6 DEF GiveUp, Idle, ReviewInv
  <2>7. CASE ReviewByHand \/ UNCHANGED recordVars
    BY <2>7 DEF ReviewByHand, recordVars, ReviewInv
  <2> QED BY <2>4, <2>5, <2>6, <2>7 DEF RecorderNext
<1> QED BY <1>1, <1>2, <1>3, <1>4, <1>5 DEF ReviewInv

\* A result that was counted and asked for no review needs none.
LEMMA UnaskedIsNotDue ==
  ASSUME ledger \in Seq(Submissions), ReadableOrFull, OwnPolicy,
         NEW at \in DOMAIN ledger, ledger[at].type = "post", ~AsksForReview(ledger[at])
  PROVE  LET e == ledger[at]
             count == Cardinality(AcceptedTasks(at))
         IN /\ e.accepted /\ e.route = FirstRoute(e.task)
            /\ count % Cadence = 0 => Overtaken(at)
<1> DEFINE e == ledger[at]
           Last(n) == {i \in 1 .. n : ledger[i].type = "post" /\ ledger[i].accepted}
<1>1. e \in Submissions /\ at \in 1 .. Len(ledger) /\ Len(ledger) \in Nat
      /\ DOMAIN ledger = 1 .. Len(ledger)
  BY ElementOfSeq, LenProperties
<1>2. e.effort \in Nat /\ e.model \in Nat
  BY <1>1, LedgerAssumption DEF IsEvent
<1>3. /\ e.accepted /\ e.effort = 0 /\ e.model = 0
      /\ ~(AcceptedTasks(Len(ledger)) # {} /\ Cardinality(AcceptedTasks(Len(ledger))) % Cadence = 0)
  <2>1. /\ e.accepted /\ ~(e.effort > 0) /\ ~(e.model > 0)
        /\ ~(AcceptedTasks(Len(ledger)) # {} /\ Cardinality(AcceptedTasks(Len(ledger))) % Cadence = 0)
    BY DEF AsksForReview
  <2> HIDE DEF e
  <2> QED BY <1>2, <2>1
<1>4. e.route = FirstRoute(e.task)
  BY <1>3, UncountedIsFirst
<1>5. ASSUME ~Overtaken(at) PROVE Last(at) = Last(Len(ledger))
  <2>1. \A i \in 1 .. Len(ledger) :
          ledger[i].type = "post" /\ ledger[i].accepted => ~(i > at)
    BY <1>1, <1>5 DEF Overtaken
  <2> QED BY <1>1, <2>1
<1>6. ASSUME ~Overtaken(at) PROVE Cardinality(AcceptedTasks(at)) % Cadence # 0
  <2>1. AcceptedTasks(at) = AcceptedTasks(Len(ledger))
    <3> HIDE DEF Last
    <3>1. \A n : AcceptedTasks(n) = {ledger[j].task : j \in Last(n)}
      BY DEF AcceptedTasks, Last
    <3> QED BY <1>5, <1>6, <3>1
  <2>2. AcceptedTasks(Len(ledger)) # {}
    BY <1>1, <1>3 DEF AcceptedTasks
  <2> QED BY <1>3, <2>1, <2>2
<1> QED BY <1>3, <1>4, <1>6

\* What the promise says of the ledger, of any ledger L.
FirstRouteIn(L, t) ==
  L[CHOOSE i \in DOMAIN L : L[i].task = t
      /\ \A j \in DOMAIN L : L[j].task = t => i <= j].route
AcceptedIn(L, n) == {L[j].task : j \in {i \in 1 .. n : L[i].type = "post" /\ L[i].accepted}}

\* It is the same of the same ledger.
LEMMA SameLedger ==
  ASSUME ledger' = ledger, NEW t, NEW n
  PROVE  /\ FirstRoute(t)' = FirstRoute(t) /\ AcceptedTasks(n)' = AcceptedTasks(n)
         /\ Overtaken(n)' <=> Overtaken(n)
<1>1. FirstRoute(t) = FirstRouteIn(ledger, t) /\ FirstRoute(t)' = FirstRouteIn(ledger', t)
  BY DEF FirstRoute, FirstRouteIn
<1>2. AcceptedTasks(n) = AcceptedIn(ledger, n) /\ AcceptedTasks(n)' = AcceptedIn(ledger', n)
  BY DEF AcceptedTasks, AcceptedIn
<1>3. Overtaken(n)' <=> Overtaken(n)
  BY DEF Overtaken
<1> QED BY <1>1, <1>2, <1>3

\* Every step keeps the promise of the reviews.
LEMMA ReviewsStayMade ==
  ReviewInv /\ DueReviewsAreMade /\ [RecorderNext]_recordVars => DueReviewsAreMade'
<1> SUFFICES ASSUME ReviewInv, DueReviewsAreMade, [RecorderNext]_recordVars
             PROVE  DueReviewsAreMade'
  OBVIOUS
<1> DEFINE Covered(c) == c.at \in 1 .. reviewed'
           Met(c) == /\ \/ c.event.type = "post" /\ ~c.event.accepted
                        \/ c.event.type = "post" /\ c.event.route # FirstRoute(c.event.task)'
                        \/ c.event.type = "pre" /\ IsSol(c.event.route)
                        => Covered(c)
                     /\ /\ c.event.type = "post" /\ c.event.accepted
                        /\ Cardinality(AcceptedTasks(c.at)') % Cadence = 0
                        => Covered(c) \/ Overtaken(c.at)'
           Sound(c) == c.review \notin {"off", "cut"} => Met(c)
<1>1. ASSUME \A c \in confirmed' : Sound(c) PROVE DueReviewsAreMade'
  BY <1>1 DEF DueReviewsAreMade, FirstRoute, AcceptedTasks, Overtaken, IsSol
<1>2. CASE confirmed' = {}
  BY <1>2 DEF DueReviewsAreMade
<1>3. ASSUME NEW w \in Recorders, NEW e, NEW at, NEW review, Confirm(w, e, at, review),
             \/ review \in {"off", "cut"}
             \/ e.type = "pre" /\ ~IsSol(e.route)
             \/ at \in 1 .. reviewed'
             \/ /\ e.type = "post" /\ e.accepted /\ e.route = FirstRoute(e.task)'
                /\ Cardinality(AcceptedTasks(at)') % Cadence = 0 => Overtaken(at)'
      PROVE  DueReviewsAreMade'
  <2> DEFINE c == [event |-> e, at |-> at, review |-> review]
  <2>1. confirmed' = {c}
    BY <1>3 DEF Confirm
  <2>2. Sound(c)
    BY <1>3
  <2> HIDE DEF c, Sound
  <2> QED BY <1>1, <2>1, <2>2
<1>4. ASSUME NEW w \in Recorders, Record(w) PROVE DueReviewsAreMade'
  <2>1. PICK e \in Submissions, whole \in BOOLEAN, auto \in BOOLEAN :
          LET at == IF whole THEN Len(ledger) + 1 ELSE NowhereInFile IN
          CASE ~auto -> Confirm(w, e, at, "off")
            [] auto /\ e.type = "post" -> Goto(w, "count", e, at)
            [] auto /\ e.type = "pre" /\ IsSol(e.route) -> Goto(w, "review", e, at)
            [] OTHER -> Confirm(w, e, at, "none")
    BY <1>4 DEF Record
  <2> DEFINE at == IF whole THEN Len(ledger) + 1 ELSE NowhereInFile
  <2>2. e.type \in {"pre", "post"}
    BY SubmissionType
  <2> HIDE DEF at
  <2>3. \/ Confirm(w, e, at, "off")
        \/ \E pc : Goto(w, pc, e, at)
        \/ e.type = "pre" /\ ~IsSol(e.route) /\ Confirm(w, e, at, "none")
    BY <2>1, <2>2 DEF at
  <2>4. CASE \E pc : Goto(w, pc, e, at)
    BY <1>2, <2>4 DEF Goto
  <2>5. CASE Confirm(w, e, at, "off")
    BY <1>3, <2>5
  <2>6. CASE e.type = "pre" /\ ~IsSol(e.route) /\ Confirm(w, e, at, "none")
    BY <1>3, <2>6
  <2> QED BY <2>3, <2>4, <2>5, <2>6
<1>5. ASSUME NEW w \in Recorders, Count(w) \/ Review(w)
      PROVE  /\ recorder[w].at \in DOMAIN ledger
             /\ ledger[recorder[w].at] = recorder[w].event
             /\ ledger' = ledger
  <2>1. recorder[w].pc \in {"count", "review"} /\ ~torn /\ ledger' = ledger
    BY <1>5 DEF Count, Review, FileReadable
  <2>2. recorder[w] # Idle
    BY <2>1 DEF Idle
  <2> QED BY <2>1, <2>2 DEF ReviewInv, RecordInv, CallInv, Recorded
<1>6. ASSUME NEW w \in Recorders, Count(w) PROVE DueReviewsAreMade'
  <2>4. PICK e, at : e = recorder[w].event /\ at = recorder[w].at
    OBVIOUS
  <2>1. \/ Goto(w, "review", e, at)
        \/ ~AsksForReview(e) /\ Confirm(w, e, at, "none")
    BY <1>6, <2>4 DEF Count
  <2>2. CASE Goto(w, "review", e, at)
    BY <1>2, <2>2 DEF Goto
  <2>3. CASE ~AsksForReview(e) /\ Confirm(w, e, at, "none")
    <3>1. /\ at \in DOMAIN ledger /\ ledger[at] = e /\ ledger' = ledger /\ e.type = "post"
      BY <1>5, <1>6, <2>4 DEF Count, ReviewInv
    <3>2. ledger \in Seq(Submissions) /\ ReadableOrFull /\ OwnPolicy
      BY DEF ReviewInv, RecordInv, RecordTypeInv
    <3>3. /\ e.accepted /\ e.route = FirstRoute(e.task)
          /\ Cardinality(AcceptedTasks(at)) % Cadence = 0 => Overtaken(at)
      BY <2>3, <3>1, <3>2, UnaskedIsNotDue
    <3>4. /\ FirstRoute(e.task)' = FirstRoute(e.task) /\ AcceptedTasks(at)' = AcceptedTasks(at)
          /\ Overtaken(at)' <=> Overtaken(at)
      BY <3>1, SameLedger
    <3> QED BY <1>3, <2>3, <3>1, <3>3, <3>4
  <2> QED BY <2>1, <2>2, <2>3
<1>7. ASSUME NEW w \in Recorders, Review(w) PROVE DueReviewsAreMade'
  <2> DEFINE e == recorder[w].event
             at == recorder[w].at
  <2>1. \/ reviewed' = Longest(Len(ledger)) /\ Confirm(w, e, at, "whole")
        \/ Confirm(w, e, at, "cut")
    BY <1>7 DEF Review
  <2>2. CASE Confirm(w, e, at, "cut")
    BY <1>3, <2>2
  <2>3. CASE reviewed' = Longest(Len(ledger)) /\ Confirm(w, e, at, "whole")
    <3>1. at \in 1 .. Len(ledger) /\ Len(ledger) \in Nat /\ reviewed \in Nat
      BY <1>5, <1>7, LenProperties DEF ReviewInv, RecordInv, RecordTypeInv
    <3>2. at \in 1 .. reviewed'
      <4> HIDE DEF at
      <4> QED BY <2>3, <3>1 DEF Longest
    <3> QED BY <1>3, <2>3, <3>2
  <2> QED BY <2>1, <2>2, <2>3
<1>8. ASSUME NEW w \in Recorders, GiveUp(w) PROVE DueReviewsAreMade'
  BY <1>2, <1>8 DEF GiveUp
<1>9. CASE ReviewByHand
  BY <1>2, <1>9 DEF ReviewByHand
<1>10. CASE UNCHANGED recordVars
  <2>1. ledger' = ledger /\ reviewed' = reviewed /\ confirmed' = confirmed
    BY <1>10 DEF recordVars
  <2>2. \A c \in confirmed' : Sound(c)
    <3> SUFFICES ASSUME NEW c \in confirmed' PROVE Sound(c)
      OBVIOUS
    <3>1. /\ FirstRoute(c.event.task)' = FirstRoute(c.event.task)
          /\ AcceptedTasks(c.at)' = AcceptedTasks(c.at)
          /\ Overtaken(c.at)' <=> Overtaken(c.at)
      BY <2>1, SameLedger
    <3> QED BY <2>1, <3>1 DEF DueReviewsAreMade
  <2> QED BY <1>1, <2>2
<1> QED BY <1>4, <1>6, <1>7, <1>8, <1>9, <1>10 DEF RecorderNext

\* When callers submit events of the installed policy, whoever is told that a
\* failure, an attempt away from the first route of its task, a decision for
\* a Sol route or an acceptance at the cadence is recorded has its review,
\* unless it was switched off, cut short or overtaken by an acceptance.
THEOREM ReviewsAreMade == RecorderSpec /\ OwnPolicy => []DueReviewsAreMade
<1>1. RecorderInit => DueReviewsAreMade
  BY DEF RecorderInit, DueReviewsAreMade
<1> QED BY <1>1, ReviewInitInv, ReviewInvStep, ReviewsStayMade, PTL DEF RecorderSpec
=============================================================================
