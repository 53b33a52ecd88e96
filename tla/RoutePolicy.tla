----------------------------- MODULE RoutePolicy -----------------------------
(***************************************************************************)
(* The route policy: which routes exist, the escalation ladder of a task,  *)
(* what an attempt may select, and which route an observed failure leads   *)
(* to.  Translated from scripts/dispatch_policy.py.                        *)
(*                                                                         *)
(* The policy file is data: it is a parameter here, restricted to what     *)
(* validate_policy_routes accepts.  Module DefaultPolicy holds the values  *)
(* the package ships.                                                      *)
(***************************************************************************)
EXTENDS Naturals, Sequences

CONSTANTS
  Routes,          \* route identifiers
  Binding,         \* route -> [authority, role, model, effort]
  Ladders,         \* ladder name -> sequence of routes
  TaskDefaults,    \* task class -> its first route
  FailureActions   \* failure class -> the next actions it allows

-----------------------------------------------------------------------------
(* Vocabulary the code fixes.                                              *)

TerraModel == "gpt-5.6-terra"
MainAuthorityModel == "gpt-6-astra"
MainAuthorityRoute == <<"main-authority", MainAuthorityModel, "max">>

LongHorizon == "latency_insensitive_long_horizon_with_strong_oracle"
BoundedComplex == "bounded_complex_implementation_or_verification"
BoundedStrong == "bounded_complex_with_strong_oracle"
WeakTask == "weak_oracle_ambiguous_high_risk_or_long_contract"

TaskClasses == {"simple_lookup_or_extraction",
                "clear_implementation_or_transformation",
                BoundedComplex, LongHorizon, WeakTask}
Oracles == {"strong", "weak", "ambiguous"}
Risks == {"low", "medium", "high"}
SelectionBases == {"policy_default", "failure_action", "human_override",
                   "direct_latency"}

\* Actions that keep the route.  continue_lane and return_to_main are known
\* to the ledger only: route_transition treats them as terminal.
StayActions == {"retain_route", "retry_same_route", "narrow_scope",
                "environment_retry"}
LaneActions == {"continue_lane", "return_to_main"}
EscalationActions == {"raise_effort", "raise_model", "main_takeover"}

-----------------------------------------------------------------------------
Steps(ladder) == {ladder[i] : i \in DOMAIN ladder}

IsMain(route) == Binding[route].authority = "main"

SameModel(r, s) == Binding[r].model = Binding[s].model

\* A leaf never runs the main-only model nor ultra effort; a main route is
\* exactly the takeover role, model and effort.
BindingOK(route) ==
  LET b == Binding[route] IN
  \/ b.authority = "leaf" /\ b.model # MainAuthorityModel /\ b.effort # "ultra"
  \/ b.authority = "main" /\ <<b.role, b.model, b.effort>> = MainAuthorityRoute

LadderOK(name) ==
  LET ladder == Ladders[name] IN
  /\ ladder \in Seq(Routes) /\ ladder # << >>
  /\ \A i, j \in DOMAIN ladder : ladder[i] = ladder[j] => i = j
  /\ \A i \in 1 .. Len(ladder) - 1 : ~IsMain(ladder[i])
  /\ name \in DOMAIN TaskDefaults => ladder[1] = TaskDefaults[name]

\* What validate_policy_routes demands of a policy file before anything else
\* in the package uses it.
ValidPolicy ==
  /\ \A r \in Routes : BindingOK(r)
  /\ \A c \in DOMAIN TaskDefaults : c \in TaskClasses /\ TaskDefaults[c] \in Routes
  /\ \A name \in DOMAIN Ladders : LadderOK(name)
  /\ Ladders[LongHorizon] = <<"luna_max", "terra_xhigh", "terra_max", "sol_high",
                              "main_takeover_astra_max">>
  /\ \A name \in DOMAIN Ladders \ {LongHorizon} :
        Steps(Ladders[name]) \cap {"terra_xhigh", "terra_max"} = {}

ASSUME PolicyAssumption ==
  /\ ValidPolicy
  /\ TaskClasses \subseteq DOMAIN TaskDefaults
  /\ TaskClasses \union {BoundedStrong} \subseteq DOMAIN Ladders

\* Facts of the shipped policy file, which validate_policy_routes does not
\* demand.  Only the main takeover has the role of the main authority: it is
\* no package role, which a leaf route has to name.
ASSUME RoleAssumption ==
  \A r \in Routes : ~IsMain(r) => Binding[r].role # MainAuthorityRoute[1]

\* Every ladder ends with a takeover by the main authority.
ASSUME TopAssumption ==
  \A name \in DOMAIN Ladders : IsMain(Ladders[name][Len(Ladders[name])])

\* The ladders agree on what is higher: of any routes there is one that no
\* ladder leads on from to another of them, so steps up never come full circle.
ASSUME OrderAssumption ==
  \A C \in SUBSET Routes : C # {} =>
    \E r \in C : \A name \in DOMAIN Ladders : \A i, j \in DOMAIN Ladders[name] :
      i < j /\ Ladders[name][i] = r => Ladders[name][j] \notin C

\* Steps of one ladder differ in their model or in their effort.
ASSUME StepAssumption ==
  \A name \in DOMAIN Ladders : \A i, j \in DOMAIN Ladders[name] :
    LET r == Ladders[name][i]
        s == Ladders[name][j]
    IN SameModel(r, s) /\ Binding[r].effort = Binding[s].effort => i = j

\* The failures of a model too weak for its task allow every escalation, a
\* rejected artifact no more effort, and a weak oracle a takeover.
ASSUME ClimbAssumption ==
  LET climbing == {"reasoning_insufficiency", "context_ceiling", "capability_ceiling"}
      others == {"acceptance_quality_failure", "weak_oracle"}
  IN /\ climbing \union others \subseteq DOMAIN FailureActions
     /\ \A f \in climbing : EscalationActions \subseteq FailureActions[f]
     /\ FailureActions["acceptance_quality_failure"] = {"raise_model", "main_takeover"}
     /\ "main_takeover" \in FailureActions["weak_oracle"]
     /\ \A f \in DOMAIN FailureActions \ (climbing \union others) :
          FailureActions[f] \cap EscalationActions = {}

-----------------------------------------------------------------------------
\* The ladder of a task: bounded work with a strong oracle has its own.
ApplicableLadder(class, oracle) ==
  IF class = BoundedComplex /\ oracle = "strong"
  THEN Ladders[BoundedStrong] ELSE Ladders[class]

Position(ladder, route) == CHOOSE i \in DOMAIN ladder : ladder[i] = route

\* Mutant: the latency predicate is demanded of every Terra attempt.
TerraPredicateAlways(s) ==
  IF Binding[s.route].model = TerraModel
  THEN /\ s.basis \in {"failure_action", "direct_latency"}
       /\ s.justified
       /\ s.oracle = "strong" /\ s.risk # "high" /\ s.class # WeakTask
  ELSE s.basis # "direct_latency"

\* Terra follows an observed failure, or is a first route that the latency
\* predicate justifies; no other model may claim direct latency.
TerraOK(s) ==
  IF Binding[s.route].model = TerraModel
  THEN /\ s.basis \in {"failure_action", "direct_latency"}
       /\ s.justified
       /\ s.basis = "direct_latency" =>
            /\ s.index = 1
            /\ s.oracle = "strong" /\ s.risk # "high" /\ s.class # WeakTask
  ELSE s.basis # "direct_latency"

\* May an attempt select this route?  "justified" stands for the annotations
\* a basis demands: an override reason, a use mode that matches, a latency
\* predicate that holds.
SelectionOK(s) ==
  /\ s.route \in Steps(ApplicableLadder(s.class, s.oracle))
  /\ (s.index = 1 /\ s.basis \notin {"human_override", "direct_latency"}) =>
        s.basis = "policy_default" /\ s.route = TaskDefaults[s.class]
  /\ s.basis = "human_override" => s.justified
  /\ TerraOK(s)

\* What separates the two ways up a ladder.
RaisesEffort(r, s) == SameModel(r, s)

\* Mutant: the main authority is taken for just another model.
RaisesModelToAny(r, s) == ~SameModel(r, s)

RaisesModel(r, s) == ~IsMain(s) /\ ~SameModel(r, s)

\* Mutant: a takeover is the last step of a ladder only.
TakeoverLast(failure, at, ladder) == at = Len(ladder) - 1

\* The main takes over at the last step, or from anywhere a weak oracle.
TakeoverOpen(failure, at, ladder) == failure = "weak_oracle" \/ at = Len(ladder) - 1

\* The route that one classed failure and its next action lead to: a set that
\* is empty when the code raises, and a singleton otherwise.
RouteTransition(class, oracle, previous, action, failure) ==
  LET ladder == ApplicableLadder(class, oracle)
      at == Position(ladder, previous)
      last == ladder[Len(ladder)]
      following == ladder[at + 1]
      escalates == previous \in Steps(ladder) /\ action \in EscalationActions
                   /\ failure # "tool_or_environment"
  IN {r \in Routes :
        \/ previous \in Steps(ladder) /\ action \in StayActions /\ r = previous
        \/ /\ escalates /\ action = "main_takeover"
           /\ r = last /\ r # previous /\ IsMain(r)
           /\ TakeoverOpen(failure, at, ladder)
        \/ /\ escalates /\ action = "raise_effort" /\ at < Len(ladder)
           /\ r = following /\ RaisesEffort(previous, r)
        \/ /\ escalates /\ action = "raise_model" /\ at < Len(ladder)
           /\ r = following /\ RaisesModel(previous, r)}

\* Mutant: the takeover at the end of a ladder is called a model raise.
EscalationWithoutTakeover(class, oracle, route) ==
  LET ladder == ApplicableLadder(class, oracle)
      at == Position(ladder, route)
  IN IF at = Len(ladder) THEN "stop"
     ELSE IF SameModel(route, ladder[at + 1]) THEN "raise_effort"
     ELSE "raise_model"

\* Mutant: a failed attempt always asks for more effort.
EscalationByEffort(class, oracle, route) ==
  LET ladder == ApplicableLadder(class, oracle)
  IN IF Position(ladder, route) = Len(ladder) THEN "stop" ELSE "raise_effort"

\* The escalation the dispatcher configures for a failed attempt: one step up
\* its ladder, named by what the step changes; "stop" at the top.
ConfiguredEscalation(class, oracle, route) ==
  LET ladder == ApplicableLadder(class, oracle)
      at == Position(ladder, route)
  IN IF at = Len(ladder) THEN "stop"
     ELSE IF IsMain(ladder[at + 1]) THEN "main_takeover"
     ELSE IF SameModel(route, ladder[at + 1]) THEN "raise_effort"
     ELSE "raise_model"
=============================================================================
