---------------------------- MODULE MCDispatcher ----------------------------
(***************************************************************************)
(* Values of the constants of Dispatcher for model checking.               *)
(***************************************************************************)
EXTENDS Dispatcher, DefaultPolicy, TLC

CONSTANTS Worker1, Worker2, TaskA, PolicyA, LockA, MainSession, SmallSession

Packet(i, n, link, route, basis, effort, time) ==
  [type |-> "pre", id |-> i, task |-> TaskA, index |-> n,
   stamp |-> CurrentStamp(PolicyA), link |-> link, digest |-> LockA,
   class |-> BoundedComplex, oracle |-> "strong", risk |-> "low",
   route |-> route, basis |-> basis, justified |-> TRUE, prior |-> n - 1,
   effort |-> effort, model |-> 0, time |-> time]

First == Packet(1, 1, MainSession, "luna_xhigh", "policy_default", 0, 1)

\* A packet that reuses the dispatch id of First with another route.
Changed == Packet(1, 1, MainSession, "luna_max", "human_override", 0, 1)

\* The attempt after First, on the next route of the ladder.
Second == Packet(2, 2, MainSession, "luna_max", "failure_action", 1, 1)

\* A first attempt on a Sol route, of a main session that the policy does not
\* authorize.
Below == Packet(3, 1, SmallSession, "sol_medium", "human_override", 0, 1)

\* A first attempt that its caller dates ahead of one of the two readings.
Ahead == Packet(2, 1, MainSession, "luna_max", "human_override", 0, 2)

OnePacket == {First}
RacingPackets == {First, Second, Below, Ahead}
CrashPackets == {First, Changed}

NoSubmissions == {}

SameWorkers == Permutations(Workers)
=============================================================================
