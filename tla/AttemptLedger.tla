---------------------------- MODULE AttemptLedger ----------------------------
(***************************************************************************)
(* The routing ledger attempts.jsonl: an append-only sequence of           *)
(* pre_decision and post_result events, one pair for each attempt at a     *)
(* task.  Every append holds the file lock, parses the whole ledger again  *)
(* and re-checks the whole sequence with the new event at its end, so one  *)
(* append is one action.  Translated from scripts/model_routing_audit.py.  *)
(*                                                                         *)
(* The rules depend on the installed policy, which an installation         *)
(* replaces: it is part of the state.                                      *)
(***************************************************************************)
EXTENDS AttemptRules

CONSTANT
  Submissions        \* the events that callers try to append

VARIABLES
  ledger,            \* the events in the file, oldest first
  installed          \* the policy that the scripts load

vars == <<ledger, installed>>

-----------------------------------------------------------------------------
(* _append_event under the exclusive file lock.                            *)

\* Mutant: only the event and its pair are checked, and not the file.
CanAppendPair(e) == ValidEvent(installed, e) /\ KeyOK(installed, ledger, e)

\* The file is checked as it is, its size included, and the new sequence; the
\* size that the file will have is not.
CanAppend(e) ==
  /\ ValidEvent(installed, e)
  /\ EventOK(installed, ledger, e)
  /\ LedgerOK(installed, ledger)

\* Mutant: the line written is not the event that was checked.
RecordRenumbered(e) ==
  /\ CanAppend(e)
  /\ ledger' = Append(ledger, [e EXCEPT !.index = Len(ledger) + MaxSameRouteRetries + 4])
  /\ UNCHANGED installed

RecordEvent(e) ==
  /\ CanAppend(e)
  /\ ledger' = Append(ledger, e)
  /\ UNCHANGED installed

\* The installer replaces the package, and with it the policy.
InstallPolicy(policy) ==
  /\ installed' = policy
  /\ UNCHANGED ledger

Init == ledger = << >> /\ installed \in Policies

Next == \E e \in Submissions : RecordEvent(e)

UpgradeNext == Next \/ \E policy \in Policies : InstallPolicy(policy)

\* One policy, as between two installations.
Spec == Init /\ [][Next]_vars

\* Policies come and go.
UpgradeSpec == Init /\ [][UpgradeNext]_vars

-----------------------------------------------------------------------------
ASSUME LedgerAssumption ==
  /\ MaxLedger \in Nat
  /\ Policies # {} /\ "none" \notin Policies
  /\ AuthorizedLinks \subseteq Links
  /\ \A e \in Submissions : IsEvent(e)

\* A fact of the shipped policy file, which the code does not enforce: no
\* acceptance asks for an escalation.
ASSUME AcceptanceAssumption ==
  FailureActions["none"] \cap EscalationActions = {}

-----------------------------------------------------------------------------
(* Properties.                                                             *)

\* The ledger holds events that callers submitted, under a known policy.
TypeOK == ledger \in Seq(Submissions) /\ installed \in Policies

\* Under an unchanged policy appends never leave lines that the next reader
\* (_parse_ledger, then _check_sequence) would refuse, whatever the order of
\* the callers.  Only its size can close a ledger: the writer does not look at
\* the size it makes, so one last line may carry the file past the bound, and
\* from then on everybody is refused.
ReadableOrFull ==
  /\ SequenceOK(installed, ledger)
  /\ Len(ledger) <= MaxLedger + 1

\* A task never has two current attempts without a result: the dispatcher's
\* finalization looks for the one decision that is still open.
OnePending ==
  \A t \in Tasks : \A i, j \in Pending(installed, ledger, t) : i = j

\* The current attempts of a task are numbered 1, 2, 3, ... in the order in
\* which the file holds them, whatever order callers submit them in.
NumberedInOrder ==
  \A t \in Tasks : \A k \in CurrentPres(installed, ledger, t) :
    ledger[k].index = Cardinality({i \in CurrentPres(installed, ledger, t) : i <= k})

\* Acceptance ends a task: no current attempt is recorded after an accepted
\* result of the task, at any distance ("an accepted attempt cannot be
\* retried", and stop is terminal).
AcceptedIsFinal ==
  \A t \in Tasks : \A x \in Pairs(ledger, t), k \in CurrentPres(installed, ledger, t) :
    Current(installed, ledger[x[1]]) /\ ledger[x[2]].accepted => k < x[2]

\* Every current attempt of a task carries the digest of the task's first:
\* an objective lock cannot be swapped between attempts.
OneLock ==
  \A t \in Tasks : \A i, j \in CurrentPres(installed, ledger, t) :
    ledger[i].digest = ledger[j].digest

\* A task gets one attempt and one retry on each route, over its whole
\* history: the retry budget counts only the trailing attempts, so this also
\* says that a chain never comes back to a route it left, even when attempts
\* change the task class and with it the ladder.
RouteBudget ==
  \A t \in Tasks, r \in Routes :
    Cardinality({k \in CurrentPres(installed, ledger, t) : ledger[k].route = r})
      <= MaxSameRouteRetries + 1

\* The escalation counters of an attempt are those of the first attempt plus
\* the effort and model changes of the recorded chain up to it.
CountersTellChain ==
  \A t \in Tasks : \A k \in CurrentPres(installed, ledger, t) :
    LET upto == {i \in CurrentPres(installed, ledger, t) : i <= k}
        At(n) == CHOOSE i \in upto : ledger[i].index = n
        Changes(Delta(_, _)) ==
          Cardinality({n \in 1 .. Cardinality(upto) - 1 :
                         Delta(ledger[At(n)].route, ledger[At(n + 1)].route) = 1})
    IN /\ ledger[k].effort = ledger[At(1)].effort + Changes(EffortDelta)
       /\ ledger[k].model = ledger[At(1)].model + Changes(ModelDelta)

\* Whatever policies were installed on the way, a ledger that the installed
\* one can read has sound chains of that policy, and so has one that only its
\* size closes: the lenient reading of other policies' events hides no second
\* pending attempt, gap or swapped lock.
ReadableIsSound ==
  SequenceOK(installed, ledger) =>
    OnePending /\ NumberedInOrder /\ AcceptedIsFinal /\ OneLock

-----------------------------------------------------------------------------
(* What the ledger promises of each task, in terms of the task alone.      *)

\* A result after which the task may continue with another attempt.
Continues(post) ==
  ~post.accepted /\ post.next \in StayActions \union LaneActions \union EscalationActions

Closed(P, t) ==
  \E x \in Pairs(P, t) : Current(installed, P[x[1]]) /\ ~Continues(P[x[2]])

Chains == INSTANCE TaskChains
  WITH count <- [t \in Tasks |-> Cardinality(CurrentPres(installed, ledger, t))],
       open <- {t \in Tasks : Pending(installed, ledger, t) # {}},
       closed <- {t \in Tasks : Closed(ledger, t)}

\* The ledger implements one attempt chain for each task: attempts start only
\* when none is open and none has closed the task, and only an open attempt
\* gets a result.
ImplementsChains == Chains!Spec
=============================================================================
