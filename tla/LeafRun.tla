------------------------------- MODULE LeafRun -------------------------------
(***************************************************************************)
(* What the dispatcher relies on when it runs a child: the child exits,    *)
(* and then one outcome is reported of it, with its real exit code; the    *)
(* only other way to return is to give the run up without a row.  This is  *)
(* the abstraction of _run_recovery that the steps ChildEnds and RunLost   *)
(* of module Dispatcher are made of.                                       *)
(***************************************************************************)
EXTENDS LeafOutcome

CONSTANT Faults  \* what can go wrong with the child

VARIABLES
  child,   \* "running", or how it exited: "ok" or "failed"
  report   \* what was reported of it

NoReport == [verdict |-> "pending"]

\* The run is given up while the child may still be running.
Lost == [verdict |-> "lost"]

RunInit == child = "running" /\ report = NoReport

ChildExits ==
  /\ child = "running"
  /\ child' \in {"ok", "failed"}
  /\ UNCHANGED report

Report ==
  /\ child # "running" /\ report = NoReport
  /\ report' \in {r \in LeafOutcomes(Faults) : r.ok = (child = "ok")}
  /\ UNCHANGED child

GiveUp ==
  /\ report = NoReport
  /\ report' = Lost
  /\ UNCHANGED child

RunNext == ChildExits \/ Report \/ GiveUp

LeafRunSpec == RunInit /\ [][RunNext]_<<child, report>>
=============================================================================
