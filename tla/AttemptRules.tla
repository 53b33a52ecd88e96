---------------------------- MODULE AttemptRules ----------------------------
(***************************************************************************)
(* What the routing ledger attempts.jsonl may hold: pre_decision and       *)
(* post_result events, one pair for each attempt at a task, each event     *)
(* valid on its own and allowed after those before it.  Translated from    *)
(* validate_event and _check_sequence in scripts/model_routing_audit.py.   *)
(*                                                                         *)
(* Every rule takes the installed policy: events of that policy            *)
(* ("current" ones) are checked strictly, all others leniently.            *)
(***************************************************************************)
EXTENDS AttemptTransitions, FiniteSets

CONSTANTS
  Tasks,             \* task identifiers
  Ids,               \* dispatch (attempt) identifiers
  Policies,          \* policy identities: policy_id and fingerprint
  Digests,           \* objective lock digests
  Links,             \* the other fields a linked pair shares: main session,
                     \*   surface, workspace, main model and effort
  AuthorizedLinks,   \* those whose main model and effort the policy allows
  MaxLedger          \* MAX_LEDGER_BYTES, in lines: every line counts as one

-----------------------------------------------------------------------------
(* Events.  A stamp is what decides how strictly an event is read: its     *)
(* schema version, objective lock version and policy identity.             *)

LegacySchema == "0.1.0"
LegacyLinkedSchema == "0.2.0"
LinkedSchema == "0.3.0"
CurrentLockVersion == "3"

Stamp == [schema : {LegacySchema, LegacyLinkedSchema, LinkedSchema},
          lock : {"none", "1", "2", CurrentLockVersion},
          policy : Policies \union {"none"}]

CurrentStamp(policy) ==
  [schema |-> LinkedSchema, lock |-> CurrentLockVersion, policy |-> policy]

NextActions ==
  StayActions \union LaneActions \union EscalationActions \union
  {"lower_effort", "lower_model", "split_task", "collect_more_evidence", "human_review", "stop"}

\* index is attempt_index, prior is rationale.prior_attempts, effort and
\* model are the planned (then the observed) escalation counters, and time is
\* the timestamp: a decision's is its caller's, a result's is the clock's.
IsPre(e) ==
  /\ e.type = "pre"
  /\ e.class \in TaskClasses /\ e.oracle \in Oracles /\ e.risk \in Risks
  /\ e.basis \in SelectionBases
  /\ e.justified \in BOOLEAN
  /\ e.prior \in Nat

\* accepted is integration_accepted: the code demands that they are equal.
IsPost(e) ==
  /\ e.type = "post"
  /\ e.accepted \in BOOLEAN /\ e.executed \in BOOLEAN
  /\ e.failure \in DOMAIN FailureActions
  /\ e.next \in NextActions

IsEvent(e) ==
  /\ e.id \in Ids /\ e.task \in Tasks /\ e.index \in Nat \ {0} /\ e.time \in Nat
  /\ e.stamp \in Stamp /\ e.link \in Links /\ e.digest \in Digests
  /\ e.route \in Routes /\ e.effort \in Nat /\ e.model \in Nat
  /\ IsPre(e) \/ IsPost(e)

Current(policy, e) == e.stamp = CurrentStamp(policy)

Linked(e) == e.stamp.schema # LegacySchema

\* _is_sol: a route of the strongest model.
SolModels == {"gpt-5.6-sol", "gpt-6.1-sol"}

IsSol(route) == Binding[route].model \in SolModels

PairKey(e) == IF Linked(e) THEN <<"linked", e.id>> ELSE <<"legacy", e.id>>

-----------------------------------------------------------------------------
(* validate_event: what one line must satisfy on its own.                  *)

PostOK(policy, e) ==
  /\ e.accepted => e.failure = "none"
  /\ (e.failure = "none" /\ ~e.accepted) => Linked(e) /\ e.executed
  /\ Current(policy, e) =>
       /\ e.accepted \/ e.executed => e.link \in AuthorizedLinks
       /\ e.next \in FailureActions[e.failure]
       /\ e.failure = "none" => e.accepted

ValidEvent(policy, e) ==
  IF e.type = "pre" THEN Current(policy, e) => SelectionOK(e) ELSE PostOK(policy, e)

-----------------------------------------------------------------------------
(* _check_pair: a result belongs to its decision and is not older.         *)

PairAgrees(policy, pre, post) ==
  /\ pre.task = post.task /\ pre.index = post.index
  /\ pre.stamp.schema = post.stamp.schema
  /\ Linked(pre) => pre.stamp = post.stamp /\ pre.link = post.link
  /\ pre.stamp.schema = LinkedSchema => pre.digest = post.digest
  /\ pre.time <= post.time
  /\ Current(policy, pre) /\ Current(policy, post) =>
       /\ post.effort = pre.effort /\ post.model = pre.model
       /\ post.route = pre.route

-----------------------------------------------------------------------------
(* Views of a prefix P of the ledger.                                      *)

SameKey(P, e) == {i \in DOMAIN P : PairKey(P[i]) = PairKey(e)}

Pairs(P, t) ==
  {x \in (DOMAIN P) \X (DOMAIN P) :
     /\ P[x[1]].type = "pre" /\ P[x[2]].type = "post"
     /\ PairKey(P[x[1]]) = PairKey(P[x[2]])
     /\ P[x[1]].task = t}

\* The pair of a task whose result is the newest.
LastPair(P, t) ==
  CHOOSE x \in Pairs(P, t) : \A y \in Pairs(P, t) : y[2] <= x[2]

CurrentPres(policy, P, t) ==
  {i \in DOMAIN P : P[i].type = "pre" /\ P[i].task = t /\ Current(policy, P[i])}

Answered(P, i) ==
  \E j \in DOMAIN P : P[j].type = "post" /\ PairKey(P[j]) = PairKey(P[i])

Pending(policy, P, t) == {i \in CurrentPres(policy, P, t) : ~Answered(P, i)}

\* The current pairs at the end of a task's history whose route is r.
TrailingOn(policy, P, t, r) ==
  LET pairs == {x \in Pairs(P, t) : Current(policy, P[x[1]]) /\ Current(policy, P[x[2]])}
  IN {x \in pairs : \A y \in pairs : x[2] <= y[2] => P[y[1]].route = r}

-----------------------------------------------------------------------------
(* _check_sequence: may event e come after the prefix P?                   *)

MaxSameRouteRetries == 1

\* A key has one decision, then at most one result that agrees with it.
KeyOK(policy, P, e) ==
  IF e.type = "pre"
  THEN SameKey(P, e) = {}
  ELSE \E i \in SameKey(P, e) : /\ SameKey(P, e) = {i}
                                /\ P[i].type = "pre"
                                /\ PairAgrees(policy, P[i], e)

\* Mutant: an open attempt does not stop the next one, nor does its number.
AttemptOpensAnyway(policy, P, e) ==
  Pairs(P, e.task) = {} => e.index = 1 /\ e.prior = 0

\* Mutant: the first attempt of a task may have any number.
AttemptOpensAtAny(policy, P, e) ==
  /\ Pending(policy, P, e.task) = {}
  /\ \A i \in CurrentPres(policy, P, e.task) :
        (\A j \in CurrentPres(policy, P, e.task) : j <= i) => e.index = P[i].index + 1

\* One open current attempt for each task, numbered without gaps from 1.
AttemptOpens(policy, P, e) ==
  /\ Pending(policy, P, e.task) = {}
  /\ \A i \in CurrentPres(policy, P, e.task) :
        (\A j \in CurrentPres(policy, P, e.task) : j <= i) => e.index = P[i].index + 1
  /\ Pairs(P, e.task) = {} => e.index = 1 /\ e.prior = 0

\* Mutant: one retry too many.
RetryBudgetExceeded(policy, P, e) ==
  LET last == LastPair(P, e.task)
  IN P[last[1]].route = e.route =>
       Cardinality(TrailingOn(policy, P, e.task, e.route)) <= MaxSameRouteRetries + 1

\* At most MaxSameRouteRetries consecutive retries of a route.
RetryBudgetOK(policy, P, e) ==
  LET last == LastPair(P, e.task)
  IN P[last[1]].route = e.route =>
       Cardinality(TrailingOn(policy, P, e.task, e.route)) <= MaxSameRouteRetries

\* Mutant: only the formats of two attempts are compared.
HistoryFormatOK(policy, P, e) ==
  Pairs(P, e.task) # {} =>
    LET pre == P[LastPair(P, e.task)[1]]
    IN Linked(pre) /\ Linked(e) => pre.stamp.schema = e.stamp.schema

\* What the history of the task demands of its next decision.
HistoryOK(policy, P, e) ==
  Pairs(P, e.task) # {} =>
    LET last == LastPair(P, e.task)
        pre == P[last[1]]
        post == P[last[2]]
    IN /\ Linked(pre) /\ Linked(e) => pre.stamp.schema = e.stamp.schema
       /\ pre.stamp.schema = LinkedSchema /\ e.stamp.schema = LinkedSchema =>
             pre.stamp.lock = e.stamp.lock
       /\ Current(policy, e) => /\ Current(policy, pre) /\ Current(policy, post)
                        /\ TransitionOK(pre, post, e)
                        /\ RetryBudgetOK(policy, P, e)

EventOK(policy, P, e) ==
  /\ KeyOK(policy, P, e)
  /\ e.type = "pre" => /\ Current(policy, e) => AttemptOpens(policy, P, e)
                       /\ HistoryOK(policy, P, e)

\* Every line is valid and allowed where it stands.
SequenceOK(policy, L) ==
  \A k \in DOMAIN L : ValidEvent(policy, L[k]) /\ EventOK(policy, SubSeq(L, 1, k - 1), L[k])

\* The readers refuse a file over the total-size bound before they parse it.
Fits(L) == Len(L) <= MaxLedger

LedgerOK(policy, L) == Fits(L) /\ SequenceOK(policy, L)
=============================================================================
