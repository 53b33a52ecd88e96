------------------------------ MODULE RouteWalk ------------------------------
(***************************************************************************)
(* The routes that one task can go through: it starts on a route that the  *)
(* policy lets a first attempt select, and moves on with the transition    *)
(* that an observed failure and an action allowed for it lead to           *)
(* (scripts/dispatch_policy.py).                                           *)
(***************************************************************************)
EXTENDS AttemptTransitions, FiniteSets

VARIABLES
  task,    \* task class and oracle strength
  route,   \* the route of the current attempt
  cause    \* failure class and action that led to it

walkVars == <<task, route, cause>>

Failures == DOMAIN FailureActions

First(class, oracle, r, basis) ==
  [class |-> class, oracle |-> oracle, risk |-> "low", route |-> r,
   basis |-> basis, justified |-> TRUE, index |-> 1]

WalkInit ==
  /\ task \in [class : TaskClasses, oracle : Oracles]
  /\ route \in {r \in Routes : \E basis \in SelectionBases :
                  SelectionOK(First(task.class, task.oracle, r, basis))}
  /\ cause = <<"none", "start">>

Advance ==
  /\ \E failure \in Failures : \E action \in FailureActions[failure] :
       /\ route' \in RouteTransition(task.class, task.oracle, route, action, failure)
       /\ cause' = <<failure, action>>
  /\ UNCHANGED task

WalkSpec == WalkInit /\ [][Advance]_walkVars

-----------------------------------------------------------------------------
(* Properties.                                                             *)

Following(r) ==
  [class |-> task.class, oracle |-> task.oracle, risk |-> "high", route |-> r,
   basis |-> "failure_action", justified |-> TRUE, index |-> 2]

LedgerAllows(failure, action) ==
  {r \in Routes : NextRouteOK([class |-> task.class, oracle |-> task.oracle, route |-> route],
                              [failure |-> failure, next |-> action, accepted |-> FALSE],
                              [route |-> r])}

\* The ledger re-implements the policy's transition function; on every route
\* a task can reach, the two lead to the same routes, except that the ledger
\* also lets a lane continue on its route.
LedgerFollowsPolicy ==
  \A failure \in Failures :
  \A action \in UNION {FailureActions[f] : f \in Failures} \union StayActions :
    LedgerAllows(failure, action) =
      IF action \in LaneActions THEN {route}
      ELSE RouteTransition(task.class, task.oracle, route, action, failure)

\* A transition never leads to a route that the selection rules then refuse
\* to an attempt that gives the failure as its reason, whatever the risk.
SuccessorIsSelectable ==
  \A failure \in Failures : \A action \in FailureActions[failure] :
  \A r \in RouteTransition(task.class, task.oracle, route, action, failure) :
    SelectionOK(Following(r))

\* The dispatcher computes the action of a failed leaf by itself: it is one
\* that the failure class allows and that leads to exactly one next route.
ConfiguredEscalationLeadsOn ==
  ~IsMain(route) =>
    LET action == ConfiguredEscalation(task.class, task.oracle, route)
    IN \A failure \in {"reasoning_insufficiency", "context_ceiling", "capability_ceiling"} :
         /\ action \in FailureActions[failure]
         /\ Cardinality(RouteTransition(task.class, task.oracle, route, action, failure)) = 1

\* The main authority is reached by a takeover only, and what it took over
\* does not come back to a leaf.
MainByTakeoverOnly ==
  [][/\ ~IsMain(route) /\ IsMain(route') => cause'[2] = "main_takeover"
     /\ IsMain(route) => IsMain(route')]_walkVars

\* A failure for which the policy allows escalations leads to another route
\* by one of them.  There is one exception, in every ladder: after a rejected
\* artifact (acceptance_quality_failure) nothing leads on from a route whose
\* next step keeps the model.
FailureLeadsOn ==
  ~IsMain(route) =>
    LET ladder == ApplicableLadder(task.class, task.oracle)
        following == ladder[Position(ladder, route) + 1]
        Stuck(failure) == failure = "acceptance_quality_failure" /\ SameModel(route, following)
    IN \A failure \in Failures :
         FailureActions[failure] \cap EscalationActions # {} =>
           (Stuck(failure) <=>
              \A action \in FailureActions[failure] :
                RouteTransition(task.class, task.oracle, route, action, failure) = {})
=============================================================================
