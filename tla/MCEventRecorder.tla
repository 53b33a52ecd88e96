--------------------------- MODULE MCEventRecorder ---------------------------
(***************************************************************************)
(* Values of the constants of EventRecorder for model checking: a task     *)
(* with a failed attempt and an escalated one, one that is accepted, and   *)
(* one that starts on a Sol route.                                         *)
(***************************************************************************)
EXTENDS EventRecorder, DefaultPolicy, TLC

CONSTANTS TaskA, TaskB, TaskC, PolicyA, LockA, MainSession, Writer1, Writer2

Decision(i, t, n, route, basis, effort) ==
  [type |-> "pre", id |-> i, task |-> t, index |-> n, stamp |-> CurrentStamp(PolicyA),
   link |-> MainSession, digest |-> LockA,
   class |-> "clear_implementation_or_transformation", oracle |-> "strong",
   risk |-> "low", route |-> route, basis |-> basis, justified |-> TRUE,
   prior |-> n - 1, effort |-> effort, model |-> 0, time |-> 0]

Outcome(i, t, n, route, effort, result) ==
  [type |-> "post", id |-> i, task |-> t, index |-> n, stamp |-> CurrentStamp(PolicyA),
   link |-> MainSession, digest |-> LockA, route |-> route, effort |-> effort,
   model |-> 0, accepted |-> result[1] = "none", executed |-> TRUE,
   failure |-> result[1], next |-> result[2], time |-> 0]

Accept == <<"none", "stop">>

RecorderSubmissions ==
  {Decision(1, TaskA, 1, "luna_high", "policy_default", 0),
   Outcome(1, TaskA, 1, "luna_high", 0, <<"reasoning_insufficiency", "raise_effort">>),
   Outcome(1, TaskA, 1, "luna_high", 0, Accept),
   Decision(2, TaskA, 2, "luna_xhigh", "failure_action", 1),
   Outcome(2, TaskA, 2, "luna_xhigh", 1, Accept),
   Decision(3, TaskB, 1, "luna_high", "policy_default", 0),
   Outcome(3, TaskB, 1, "luna_high", 0, Accept)} \union
  {d \in {Decision(4, TaskC, 1, "sol_medium", b, 0) : b \in SelectionBases} : SelectionOK(d)} \union
  {Outcome(4, TaskC, 1, "sol_medium", 0, Accept)}

SameWriters == Permutations({Writer1, Writer2})
=============================================================================
