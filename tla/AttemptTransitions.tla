-------------------------- MODULE AttemptTransitions --------------------------
(***************************************************************************)
(* How the routing ledger checks that an attempt follows from the last one *)
(* of its task.  Translated from _check_current_transition in              *)
(* scripts/model_routing_audit.py, which does not call the transition      *)
(* function of the route policy but states its own rules; module RouteWalk *)
(* compares the two.                                                       *)
(***************************************************************************)
EXTENDS RoutePolicy

\* pre and post are the last pair of the task, e the next decision.
StepsUp(pre, e) ==
  LET ladder == ApplicableLadder(pre.class, pre.oracle)
  IN /\ e.route \in Steps(ladder)
     /\ Position(ladder, e.route) = Position(ladder, pre.route) + 1

\* Mutant: a weak oracle gets no exception from adjacent steps.
TakesOverAdjacent(pre, post, e) ==
  LET ladder == ApplicableLadder(pre.class, pre.oracle)
      at == Position(ladder, pre.route)
  IN /\ at = Len(ladder) - 1
     /\ e.route = ladder[Len(ladder)]
     /\ Binding[e.route].role = MainAuthorityRoute[1]

TakesOver(pre, post, e) ==
  LET ladder == ApplicableLadder(pre.class, pre.oracle)
      at == Position(ladder, pre.route)
  IN /\ at # Len(ladder)
     /\ post.failure = "weak_oracle" \/ at = Len(ladder) - 1
     /\ e.route = ladder[Len(ladder)]
     /\ Binding[e.route].role = MainAuthorityRoute[1]

\* Mutant: an accepted attempt can be retried.
RetriesAccepted(post) == post.next \in StayActions \union LaneActions

Retries(post) == post.next \in StayActions \union LaneActions /\ ~post.accepted

NextRouteOK(pre, post, e) ==
  /\ post.failure = "tool_or_environment" => post.next \notin EscalationActions
  /\ \/ Retries(post) /\ e.route = pre.route
     \/ /\ post.next = "raise_effort"
        /\ StepsUp(pre, e) /\ SameModel(pre.route, e.route)
     \/ /\ post.next = "raise_model"
        /\ StepsUp(pre, e) /\ ~SameModel(pre.route, e.route)
        /\ Binding[e.route].role # MainAuthorityRoute[1]
     \/ post.next = "main_takeover" /\ TakesOver(pre, post, e)

EffortDelta(r, s) ==
  IF SameModel(r, s) /\ Binding[r].effort # Binding[s].effort THEN 1 ELSE 0

ModelDelta(r, s) == IF SameModel(r, s) THEN 0 ELSE 1

\* Mutant: the lock of the next attempt is not compared.
TransitionOfAnyLock(pre, post, e) ==
  /\ e.index = pre.index + 1
  /\ e.basis \in {"failure_action", "human_override"}
  /\ e.prior = e.index - 1
  /\ NextRouteOK(pre, post, e)
  /\ e.effort = post.effort + EffortDelta(pre.route, e.route)
  /\ e.model = post.model + ModelDelta(pre.route, e.route)

\* Mutant: a model change is not counted.
TransitionUncounted(pre, post, e) ==
  /\ e.index = pre.index + 1
  /\ e.digest = pre.digest
  /\ e.basis \in {"failure_action", "human_override"}
  /\ e.prior = e.index - 1
  /\ NextRouteOK(pre, post, e)
  /\ e.effort = post.effort + EffortDelta(pre.route, e.route)

TransitionOK(pre, post, e) ==
  /\ e.index = pre.index + 1
  /\ e.digest = pre.digest
  /\ e.basis \in {"failure_action", "human_override"}
  /\ e.prior = e.index - 1
  /\ NextRouteOK(pre, post, e)
  /\ e.effort = post.effort + EffortDelta(pre.route, e.route)
  /\ e.model = post.model + ModelDelta(pre.route, e.route)
=============================================================================
