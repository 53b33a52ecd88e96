---------------------------- MODULE DefaultPolicy ----------------------------
(***************************************************************************)
(* The policy the package ships, config/model-routing.defaults.json, as    *)
(* values for the parameters of RoutePolicy.                               *)
(***************************************************************************)
EXTENDS Naturals, Sequences

LOCAL Leaf(family, effort) ==
  [authority |-> "leaf",
   role |-> <<family, effort>>,
   model |-> CASE family = "luna" -> "gpt-6-luna"
               [] family = "terra" -> "gpt-5.6-terra"
               [] family = "sol" -> "gpt-6.1-sol",
   effort |-> effort]

\* The maker routes and the main takeover.  The eight checker routes are in
\* no ladder, so no attempt can select one.
DefaultBinding ==
  [luna_medium |-> Leaf("luna", "medium"), luna_high |-> Leaf("luna", "high"),
   luna_xhigh |-> Leaf("luna", "xhigh"), luna_max |-> Leaf("luna", "max"),
   terra_medium |-> Leaf("terra", "medium"), terra_high |-> Leaf("terra", "high"),
   terra_xhigh |-> Leaf("terra", "xhigh"), terra_max |-> Leaf("terra", "max"),
   sol_medium |-> Leaf("sol", "medium"), sol_high |-> Leaf("sol", "high"),
   main_takeover_astra_max |->
     [authority |-> "main", role |-> "main-authority", model |-> "gpt-6-astra",
      effort |-> "max"]]

DefaultRoutes == DOMAIN DefaultBinding

LOCAL BoundedLadder == <<"luna_xhigh", "luna_max", "terra_high", "sol_medium",
                         "sol_high", "main_takeover_astra_max">>

DefaultLadders ==
  [simple_lookup_or_extraction |->
     <<"luna_medium", "luna_high", "luna_xhigh", "luna_max", "terra_medium",
       "sol_medium", "main_takeover_astra_max">>,
   clear_implementation_or_transformation |->
     <<"luna_high", "luna_xhigh", "luna_max", "terra_medium", "sol_medium",
       "sol_high", "main_takeover_astra_max">>,
   bounded_complex_implementation_or_verification |-> BoundedLadder,
   bounded_complex_with_strong_oracle |-> BoundedLadder,
   latency_insensitive_long_horizon_with_strong_oracle |->
     <<"luna_max", "terra_xhigh", "terra_max", "sol_high",
       "main_takeover_astra_max">>,
   weak_oracle_ambiguous_high_risk_or_long_contract |->
     <<"main_takeover_astra_max">>]

DefaultTaskDefaults ==
  [simple_lookup_or_extraction |-> "luna_medium",
   clear_implementation_or_transformation |-> "luna_high",
   bounded_complex_implementation_or_verification |-> "luna_xhigh",
   latency_insensitive_long_horizon_with_strong_oracle |-> "luna_max",
   weak_oracle_ambiguous_high_risk_or_long_contract |-> "main_takeover_astra_max"]

DefaultFailureActions ==
  LET climb == {"raise_effort", "raise_model", "main_takeover"} IN
  [none |-> {"stop", "retain_route", "human_review"},
   path_accepted |-> {"continue_lane"},
   lane_blocked |-> {"return_to_main"},
   all_lanes_exhausted |-> {"stop"},
   reasoning_insufficiency |-> climb,
   acceptance_quality_failure |-> climb \ {"raise_effort"},
   context_ceiling |-> climb,
   scope_or_retrieval_overbreadth |-> {"narrow_scope"},
   tool_or_environment |-> {"environment_retry"},
   capability_ceiling |-> climb,
   weak_oracle |-> {"main_takeover"},
   policy_gate |-> {"stop"},
   other |-> {"collect_more_evidence", "human_review", "stop"}]
=============================================================================
