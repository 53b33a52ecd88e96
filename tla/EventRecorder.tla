---------------------------- MODULE EventRecorder ----------------------------
(***************************************************************************)
(* Recording an event and reviewing the ledger because of it: record_event *)
(* in scripts/model_routing_audit.py.  The event is appended under the     *)
(* file lock, in one write whose result nobody looks at; the lock is       *)
(* released, and the caller reads the ledger again to count acceptances    *)
(* and a third time to write a review.  Other callers append in between,   *)
(* writes can be cut short, and callers can fail or die after the append.  *)
(***************************************************************************)
EXTENDS AttemptLedger

CONSTANTS
  Recorders,   \* callers of record_event
  Cadence      \* AUTO_REVIEW_ACCEPTED_CADENCE

VARIABLES
  torn,        \* the file ends in an unterminated line
  reviewed,    \* events that the longest complete review covers
  recorder,    \* what each caller is doing
  confirmed    \* the event whose recording was just confirmed to a caller

recordVars == <<ledger, installed, torn, reviewed, recorder, confirmed>>

ASSUME RecorderAssumption == Cadence \in Nat \ {0}

Idle == [pc |-> "idle"]

NowhereInFile == 0

\* What a reader finds.  Complete lines are valid and in order after any
\* appends (ReadableOrFull of module AttemptLedger): only a torn one and the
\* size of the file stop it.
FileReadable == ~torn /\ Fits(ledger)

AcceptedTasks(n) == {ledger[j].task : j \in {i \in 1 .. n : ledger[i].type = "post"
                                                           /\ ledger[i].accepted}}

-----------------------------------------------------------------------------
(* The steps of a call.                                                    *)

\* The call returns: how the review went, if one was asked for at all.
Confirm(w, event, at, review) ==
  /\ confirmed' = {[event |-> event, at |-> at, review |-> review]}
  /\ recorder' = [recorder EXCEPT ![w] = Idle]

Goto(w, pc, event, at) ==
  /\ recorder' = [recorder EXCEPT ![w] = [pc |-> pc, event |-> event, at |-> at]]
  /\ confirmed' = {}

\* _append_event, and what follows it without another look at the ledger.  A
\* refused event, and an exact duplicate in idempotent mode, change nothing:
\* no review is made for either.
Record(w) ==
  /\ recorder[w] = Idle
  /\ FileReadable
  /\ \E e \in {s \in Submissions : CanAppend(s)}, whole \in BOOLEAN, auto \in BOOLEAN :
       LET at == IF whole THEN Len(ledger) + 1 ELSE NowhereInFile IN
       /\ ledger' = IF whole THEN Append(ledger, e) ELSE ledger
       /\ torn' = ~whole
       /\ CASE ~auto -> Confirm(w, e, at, "off")
            [] auto /\ e.type = "post" -> Goto(w, "count", e, at)
            [] auto /\ e.type = "pre" /\ IsSol(e.route) -> Goto(w, "review", e, at)
            [] OTHER -> Confirm(w, e, at, "none")
  /\ UNCHANGED <<installed, reviewed>>

\* Mutant: only a failure or the cadence asks for a review.
AsksForFailure(event) ==
  \/ ~event.accepted
  \/ AcceptedTasks(Len(ledger)) # {} /\ Cardinality(AcceptedTasks(Len(ledger))) % Cadence = 0

\* _automatic_review_reasons of a result.
AsksForReview(event) ==
  \/ ~event.accepted
  \/ event.effort > 0 \/ event.model > 0
  \/ AcceptedTasks(Len(ledger)) # {} /\ Cardinality(AcceptedTasks(Len(ledger))) % Cadence = 0

\* Mutant: the ledger is not read again for an acceptance.
CountFromMemory(w) ==
  LET call == recorder[w] IN
  /\ call.pc = "count"
  /\ \/ Goto(w, "review", call.event, call.at)
     \/ ~AsksForReview(call.event) /\ Confirm(w, call.event, call.at, "none")
  /\ UNCHANGED <<ledger, installed, torn, reviewed>>

\* The ledger is read again.  An observed price change and an assessment other
\* than correct ask for a review as well, whatever else does.
Count(w) ==
  LET call == recorder[w] IN
  /\ call.pc = "count"
  /\ FileReadable
  /\ \/ Goto(w, "review", call.event, call.at)
     \/ ~AsksForReview(call.event) /\ Confirm(w, call.event, call.at, "none")
  /\ UNCHANGED <<ledger, installed, torn, reviewed>>

Longest(n) == IF reviewed < n THEN n ELSE reviewed

\* _review: a snapshot of the ledger as it is now, in a file of its own, which
\* is cut short as silently as a line.
Review(w) ==
  LET call == recorder[w] IN
  /\ call.pc = "review"
  /\ FileReadable
  /\ \/ /\ reviewed' = Longest(Len(ledger))
        /\ Confirm(w, call.event, call.at, "whole")
     \/ /\ UNCHANGED reviewed
        /\ Confirm(w, call.event, call.at, "cut")
  /\ UNCHANGED <<ledger, installed, torn>>

\* The review command.
ReviewByHand ==
  /\ FileReadable
  /\ reviewed' = Longest(Len(ledger))
  /\ confirmed' = {}
  /\ UNCHANGED <<ledger, installed, torn, recorder>>

\* The ledger cannot be read, the review cannot be written, or the process
\* dies: the event stays, and a retry is refused as a duplicate.
GiveUp(w) ==
  /\ recorder[w] # Idle
  /\ recorder' = [recorder EXCEPT ![w] = Idle]
  /\ confirmed' = {}
  /\ UNCHANGED <<ledger, installed, torn, reviewed>>

RecorderInit ==
  /\ Init
  /\ torn = FALSE /\ reviewed = 0
  /\ recorder = [w \in Recorders |-> Idle]
  /\ confirmed = {}

RecorderNext ==
  \/ ReviewByHand
  \/ \E w \in Recorders : Record(w) \/ Count(w) \/ Review(w) \/ GiveUp(w)

RecorderSpec == RecorderInit /\ [][RecorderNext]_recordVars

-----------------------------------------------------------------------------
(* Properties.                                                             *)

\* The route of the first attempt at a task.
FirstRoute(t) ==
  ledger[CHOOSE i \in DOMAIN ledger : ledger[i].task = t
           /\ \A j \in DOMAIN ledger : ledger[j].task = t => i <= j].route

\* A later acceptance is in the ledger.
Overtaken(n) ==
  \E j \in DOMAIN ledger : j > n /\ ledger[j].type = "post" /\ ledger[j].accepted

\* "Review accepted attempts at every 25 accepted attempts.  Review immediately
\* for every failure, escalation, direct-Sol route": when a caller is told that
\* its event is recorded, a review that covers it exists if it is a failure, an
\* attempt away from the first route of its task, or a decision for a Sol
\* route; and if it completed a multiple of the cadence, unless another
\* acceptance was appended before the count.  Reviews that were switched off or
\* cut short are not counted on.
DueReviewsAreMade ==
  \A c \in confirmed :
    LET e == c.event
        count == Cardinality(AcceptedTasks(c.at))
    IN c.review \notin {"off", "cut"} =>
         /\ \/ e.type = "post" /\ ~e.accepted
            \/ e.type = "post" /\ e.route # FirstRoute(e.task)
            \/ e.type = "pre" /\ IsSol(e.route)
            => c.at \in 1 .. reviewed
         /\ e.type = "post" /\ e.accepted /\ count % Cadence = 0
            => c.at \in 1 .. reviewed \/ Overtaken(c.at)

\* A caller that is told that its result is recorded can rely on it: the
\* result stands in the ledger, although the write was not looked at and others
\* have written since.  Decisions, and results recorded without the automatic
\* review, are not read again: of them the confirmation may be wrong, and then
\* the file is unreadable for everybody.
ConfirmedIsRecorded ==
  \A c \in confirmed :
    \/ c.at \in DOMAIN ledger /\ ledger[c.at] = c.event
    \/ torn /\ c.at = NowhereInFile /\ (c.event.type = "pre" \/ c.review = "off")
=============================================================================
