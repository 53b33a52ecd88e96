--------------------------- MODULE RouteWalk_proofs ---------------------------
(***************************************************************************)
(* Theorems about the walk of a task through its routes, for any policy    *)
(* that validate_policy_routes accepts and, where a theorem says so, that  *)
(* shares a fact with the shipped policy file.  The lemmas about ladders   *)
(* are those of the routing ledger.                                        *)
(***************************************************************************)
EXTENDS RouteWalk, AttemptLedger_proofs

\* A task stays on its ladder.
OnLadder ==
  /\ task \in [class : TaskClasses, oracle : Oracles]
  /\ route \in Steps(ApplicableLadder(task.class, task.oracle))

\* A transition leads from a step of the ladder to a step of the ladder.
LEMMA TransitionOnLadder ==
  ASSUME NEW class \in TaskClasses, NEW oracle, NEW r, NEW action, NEW failure,
         NEW s \in RouteTransition(class, oracle, r, action, failure)
  PROVE  /\ r \in Steps(ApplicableLadder(class, oracle))
         /\ s \in Steps(ApplicableLadder(class, oracle))
<1> DEFINE ladder == ApplicableLadder(class, oracle)
<1>1. r \in Steps(ladder)
  BY DEF RouteTransition
<1>2. /\ Position(ladder, r) \in 1 .. Len(ladder)
      /\ Len(ladder) \in Nat \ {0} /\ DOMAIN ladder = 1 .. Len(ladder)
  BY <1>1, PositionIs, LadderType
<1>3. \A i \in 1 .. Len(ladder) : ladder[i] \in Steps(ladder)
  BY <1>2 DEF Steps
<1> HIDE DEF ladder
<1>4. \/ s = r
      \/ s = ladder[Len(ladder)]
      \/ Position(ladder, r) < Len(ladder) /\ s = ladder[Position(ladder, r) + 1]
  BY DEF RouteTransition, ladder
<1>5. s \in Steps(ladder)
  BY <1>1, <1>2, <1>3, <1>4
<1> QED BY <1>1, <1>5 DEF ladder

\* The first route is selected from the ladder (validate_route_selection).
LEMMA StartsOnLadder == WalkInit => OnLadder
BY DEF WalkInit, OnLadder, SelectionOK, First

LEMMA StaysOnLadder == OnLadder /\ [Advance]_walkVars => OnLadder'
<1> SUFFICES ASSUME OnLadder, [Advance]_walkVars
             PROVE  OnLadder'
  OBVIOUS
<1>1. CASE Advance
  <2>1. PICK failure \in Failures : \E action \in FailureActions[failure] :
          route' \in RouteTransition(task.class, task.oracle, route, action, failure)
    BY <1>1 DEF Advance
  <2>2. task.class \in TaskClasses /\ task' = task
    BY <1>1 DEF OnLadder, Advance
  <2> QED BY <2>1, <2>2, TransitionOnLadder DEF OnLadder
<1>2. CASE UNCHANGED walkVars
  BY <1>2 DEF OnLadder, walkVars
<1> QED BY <1>1, <1>2

\* A task never leaves the ladder of its class and oracle strength, whatever
\* failures it meets (route_transition).
THEOREM AlwaysOnLadder == WalkSpec => []OnLadder
<1>1. WalkInit => OnLadder
  BY StartsOnLadder
<1>2. OnLadder /\ [Advance]_walkVars => OnLadder'
  BY StaysOnLadder
<1> QED BY <1>1, <1>2, PTL DEF WalkSpec

-----------------------------------------------------------------------------
(* The two transition functions.                                           *)

\* What the ledger demands of the next route is what the policy leads to.
LEMMA LedgerAllowsTransitions ==
  ASSUME OnLadder, NEW failure \in Failures, NEW action
  PROVE  LedgerAllows(failure, action) =
           IF action \in LaneActions THEN {route}
           ELSE RouteTransition(task.class, task.oracle, route, action, failure)
<1> DEFINE transition == RouteTransition(task.class, task.oracle, route, action, failure)
           pre == [class |-> task.class, oracle |-> task.oracle, route |-> route]
           post == [failure |-> failure, next |-> action, accepted |-> FALSE]
           Allowed(r) == NextRouteOK(pre, post, [route |-> r])
<1>1. task.class \in TaskClasses /\ route \in Steps(ApplicableLadder(task.class, task.oracle))
  BY DEF OnLadder
<1>2. ASSUME NEW r \in Routes
      PROVE  Allowed(r) <=> IF action \in LaneActions THEN r = route ELSE r \in transition
  <2> DEFINE e == [route |-> r]
  <2>1. /\ pre.class = task.class /\ pre.oracle = task.oracle /\ pre.route = route
        /\ post.failure = failure /\ post.next = action /\ ~post.accepted /\ e.route = r
    OBVIOUS
  <2> HIDE DEF pre, post, e
  <2> QED BY <1>1, <2>1, SameTransitions DEF pre, post, e
<1>3. LedgerAllows(failure, action) = {r \in Routes : Allowed(r)}
  BY DEF LedgerAllows
<1>4. transition \subseteq Routes /\ route \in Routes
  BY <1>1, PositionIs DEF RouteTransition
<1> HIDE DEF Allowed, transition
<1>5. {r \in Routes : Allowed(r)} = IF action \in LaneActions THEN {route} ELSE transition
  BY <1>2, <1>4
<1> QED BY <1>3, <1>5 DEF transition

\* _check_current_transition of the ledger and route_transition of the policy
\* agree wherever a task can be, if only the takeover has the main's role.
THEOREM LedgerAgrees == WalkSpec => []LedgerFollowsPolicy
<1>1. OnLadder => LedgerFollowsPolicy
  BY LedgerAllowsTransitions DEF LedgerFollowsPolicy
<1> QED BY <1>1, AlwaysOnLadder, PTL

-----------------------------------------------------------------------------
(* What follows on the ladder.                                             *)

\* validate_route_selection accepts each route that route_transition gives.
LEMMA SuccessorsOnLadderAreSelectable == OnLadder => SuccessorIsSelectable
<1> SUFFICES ASSUME OnLadder,
                    NEW failure \in Failures, NEW action \in FailureActions[failure],
                    NEW r \in RouteTransition(task.class, task.oracle, route, action, failure)
             PROVE  SelectionOK(Following(r))
  BY DEF SuccessorIsSelectable
<1>1. r \in Steps(ApplicableLadder(task.class, task.oracle))
  BY TransitionOnLadder DEF OnLadder
<1>2. TerraOK(Following(r))
  BY DEF TerraOK, Following
<1> QED BY <1>1, <1>2 DEF SelectionOK, Following

\* The successor of an attempt is never refused, at any risk: the selection
\* rules and the transition function of the policy do not contradict.
THEOREM SuccessorAccepted == WalkSpec => []SuccessorIsSelectable
BY SuccessorsOnLadderAreSelectable, AlwaysOnLadder, PTL

LEMMA EscalationOnLadderLeadsOn == OnLadder => ConfiguredEscalationLeadsOn
<1> SUFFICES ASSUME OnLadder, ~IsMain(route),
                    NEW failure \in {"reasoning_insufficiency", "context_ceiling",
                                     "capability_ceiling"}
             PROVE  LET action == ConfiguredEscalation(task.class, task.oracle, route)
                    IN /\ action \in FailureActions[failure]
                       /\ Cardinality(RouteTransition(task.class, task.oracle, route,
                                                      action, failure)) = 1
  BY DEF ConfiguredEscalationLeadsOn
<1> DEFINE ladder == ApplicableLadder(task.class, task.oracle)
           action == ConfiguredEscalation(task.class, task.oracle, route)
           transition == RouteTransition(task.class, task.oracle, route, action, failure)
<1>1. /\ action \in EscalationActions
      /\ transition = {ladder[Position(ladder, route) + 1]}
  BY EscalationLeadsUp DEF OnLadder
<1>2. action \in FailureActions[failure]
  BY <1>1, ClimbAssumption
<1>3. Cardinality(transition) = 1
  BY <1>1, FS_Singleton
<1> QED BY <1>2, <1>3

\* The escalation that the dispatcher works out for a failed leaf is allowed
\* and has one successor (_configured_escalation_action), if every ladder ends
\* with a takeover and the failure table lets these failures climb.
THEOREM EscalationWorks == WalkSpec => []ConfiguredEscalationLeadsOn
BY EscalationOnLadderLeadsOn, AlwaysOnLadder, PTL

\* A rejected artifact is stuck below a step that keeps the model, and nowhere
\* else.
LEMMA RejectedArtifactLeadsOn ==
  ASSUME OnLadder, ~IsMain(route)
  PROVE  LET ladder == ApplicableLadder(task.class, task.oracle)
             following == ladder[Position(ladder, route) + 1]
             Leads(action) == RouteTransition(task.class, task.oracle, route, action,
                                              "acceptance_quality_failure") # {}
         IN SameModel(route, following) <=> ~Leads("raise_model") /\ ~Leads("main_takeover")
<1> DEFINE ladder == ApplicableLadder(task.class, task.oracle)
           at == Position(ladder, route)
           following == ladder[at + 1]
           Transition(action) == RouteTransition(task.class, task.oracle, route, action,
                                                 "acceptance_quality_failure")
<1>1. task.class \in TaskClasses /\ route \in Steps(ladder)
  BY DEF OnLadder
<1>2. /\ at < Len(ladder)
      /\ ConfiguredEscalation(task.class, task.oracle, route) \in EscalationActions
      /\ Transition(ConfiguredEscalation(task.class, task.oracle, route)) = {following}
  BY <1>1, EscalationLeadsUp
<1>3. /\ at \in 1 .. Len(ladder) /\ at < Len(ladder) /\ Len(ladder) \in Nat
      /\ ladder[at] = route /\ route \in Routes
  BY <1>1, <1>2, PositionIs, LadderType
<1>4. at + 1 \in 1 .. Len(ladder)
  BY <1>3
<1>5. following \in Routes /\ (IsMain(following) <=> at = Len(ladder) - 1)
  <2>1. IsMain(ladder[Len(ladder)])
    BY <1>1, LadderExists, TopAssumption
  <2>2. following \in Routes /\ (IsMain(following) => at + 1 = Len(ladder))
    BY <1>1, <1>4, LadderType
  <2> HIDE DEF ladder, at
  <2> QED BY <2>1, <2>2, <1>3
<1>6. IsMain(following) => ~SameModel(route, following)
  BY <1>3, <1>5, LeafIsNotMain
<1>7. ASSUME SameModel(route, following)
      PROVE  Transition("raise_model") = {} /\ Transition("main_takeover") = {}
  <2>1. at # Len(ladder) - 1
    BY <1>5, <1>6, <1>7
  <2>2. Transition("raise_model") = {}
    BY <1>7 DEF RouteTransition, RaisesModel, StayActions
  <2>3. Transition("main_takeover") = {}
    BY <2>1 DEF RouteTransition, TakeoverOpen, StayActions
  <2> QED BY <2>2, <2>3
<1>8. ASSUME ~SameModel(route, following)
      PROVE  ConfiguredEscalation(task.class, task.oracle, route)
               \in {"raise_model", "main_takeover"}
  BY <1>3, <1>8 DEF ConfiguredEscalation
<1> QED BY <1>2, <1>7, <1>8

LEMMA FailuresOnLadderLeadOn == OnLadder => FailureLeadsOn
<1> DEFINE ladder == ApplicableLadder(task.class, task.oracle)
           following == ladder[Position(ladder, route) + 1]
           climbing == {"reasoning_insufficiency", "context_ceiling", "capability_ceiling"}
           Transition(action, failure) ==
             RouteTransition(task.class, task.oracle, route, action, failure)
<1> SUFFICES ASSUME OnLadder, ~IsMain(route), NEW failure \in Failures,
                    FailureActions[failure] \cap EscalationActions # {}
             PROVE  (failure = "acceptance_quality_failure" /\ SameModel(route, following))
                      <=> \A action \in FailureActions[failure] : Transition(action, failure) = {}
  BY DEF FailureLeadsOn
<1>1. task.class \in TaskClasses /\ route \in Steps(ladder)
  BY DEF OnLadder
<1>2. failure \in climbing \union {"acceptance_quality_failure", "weak_oracle"}
  BY ClimbAssumption DEF Failures
<1>3. CASE failure \in climbing
  <2> DEFINE action == ConfiguredEscalation(task.class, task.oracle, route)
  <2>1. action \in EscalationActions /\ Transition(action, failure) = {following}
    BY <1>1, <1>3, EscalationLeadsUp
  <2>2. action \in FailureActions[failure]
    BY <2>1, <1>3, ClimbAssumption
  <2> HIDE DEF action, Transition, following
  <2> QED BY <2>1, <2>2, <1>3
<1>4. CASE failure = "acceptance_quality_failure"
  <2>1. FailureActions[failure] = {"raise_model", "main_takeover"}
    BY <1>4, ClimbAssumption
  <2>2. SameModel(route, following) <=>
          Transition("raise_model", failure) = {} /\ Transition("main_takeover", failure) = {}
    BY <1>4, RejectedArtifactLeadsOn
  <2> HIDE DEF Transition, following
  <2> QED BY <2>1, <2>2, <1>4
<1>5. CASE failure = "weak_oracle"
  <2> DEFINE last == ladder[Len(ladder)]
  <2>1. Len(ladder) \in 1 .. Len(ladder) /\ last \in Routes
    BY <1>1, LadderType
  <2>2. IsMain(last)
    BY <1>1, LadderExists, TopAssumption
  <2>3. last \in Transition("main_takeover", failure)
    BY <1>1, <1>5, <2>1, <2>2 DEF RouteTransition, TakeoverOpen, EscalationActions
  <2>4. "main_takeover" \in FailureActions[failure]
    BY <1>5, ClimbAssumption
  <2> HIDE DEF Transition, following
  <2> QED BY <2>3, <2>4, <1>5
<1> QED BY <1>2, <1>3, <1>4, <1>5

\* An escalation that the policy allows always leads somewhere, but for the
\* one exception of rejected artifacts, and that one everywhere.
THEOREM FailuresLeadOn == WalkSpec => []FailureLeadsOn
BY FailuresOnLadderLeadOn, AlwaysOnLadder, PTL

-----------------------------------------------------------------------------
(* The step to the main authority.                                         *)

LEMMA MainByTakeover ==
  ASSUME OnLadder, Advance
  PROVE  /\ ~IsMain(route) /\ IsMain(route') => cause'[2] = "main_takeover"
         /\ IsMain(route) => IsMain(route')
<1> DEFINE ladder == ApplicableLadder(task.class, task.oracle)
           at == Position(ladder, route)
<1>1. task.class \in TaskClasses /\ route \in Steps(ladder) /\ route \in Routes
  BY PositionIs DEF OnLadder
<1>2. PICK failure, action :
        /\ route' \in RouteTransition(task.class, task.oracle, route, action, failure)
        /\ cause' = <<failure, action>>
  BY DEF Advance
<1>3. route' \in Routes
  BY <1>2 DEF RouteTransition
<1>4. CASE route' = route
  BY <1>4
<1>5. CASE action = "main_takeover" /\ IsMain(route')
  BY <1>2, <1>5
<1>6. CASE at < Len(ladder) /\ (SameModel(route, route') \/ ~IsMain(route'))
  <2>1. ~IsMain(route)
    BY <1>1, <1>6, PositionIs, LadderType
  <2>2. ~IsMain(route')
    BY <2>1, <1>1, <1>3, <1>6, LeafIsNotMain
  <2> QED BY <2>1, <2>2
<1>7. \/ route' = route
      \/ action = "main_takeover" /\ IsMain(route')
      \/ at < Len(ladder) /\ (SameModel(route, route') \/ ~IsMain(route'))
  <2> HIDE DEF ladder, at
  <2> QED BY <1>2 DEF RouteTransition, RaisesEffort, RaisesModel, ladder, at
<1> QED BY <1>4, <1>5, <1>6, <1>7

\* Under every valid policy a takeover is the only way to the main authority,
\* and no transition leads back from it.
THEOREM MainIsTakenOver == WalkSpec => MainByTakeoverOnly
<1>1. OnLadder /\ [Advance]_walkVars =>
        [/\ ~IsMain(route) /\ IsMain(route') => cause'[2] = "main_takeover"
         /\ IsMain(route) => IsMain(route')]_walkVars
  BY MainByTakeover
<1> QED BY <1>1, AlwaysOnLadder, PTL DEF WalkSpec, MainByTakeoverOnly
=============================================================================
