----------------------------- MODULE LeafOutcome -----------------------------
(***************************************************************************)
(* What the dispatcher can report of one supervised child: the verdict of  *)
(* the row it attests, the exit code, whether a terminal event goes with   *)
(* the row, and the failure class it leaves for the routing ledger.        *)
(* Translated from the end of _run_recovery in                             *)
(* scripts/adaptive_dispatch_attestation.py.                               *)
(***************************************************************************)

Violations == {"context_ceiling", "scope_or_retrieval_overbreadth",
               "forbidden_leaf_tool_call"}

EvidenceFaults == {"missing", "mismatched"}

\* Mutant: a violation is attested by its failure class.
RunVerdictByClass(violation, evidence, ok) ==
  IF violation # "none" THEN violation
  ELSE IF evidence # "trusted" THEN "runtime_unavailable"
  ELSE IF ok THEN "typed_completed" ELSE "typed_failed"

\* A violation first, then missing or mismatched runtime evidence, then the
\* exit code.
RunVerdict(violation, evidence, ok) ==
  IF violation # "none"
  THEN IF violation = "forbidden_leaf_tool_call" THEN "forbidden_leaf_tool_call"
       ELSE "execution_policy_violation"
  ELSE IF evidence = "missing" THEN "runtime_unavailable"
  ELSE IF evidence = "mismatched" THEN "runtime_mismatch"
  ELSE IF ok THEN "typed_completed" ELSE "typed_failed"

\* A violation of the execution policy is left in the execution status before
\* anything is attested.
FailureClass(violation) ==
  IF RunVerdict(violation, "trusted", FALSE) = "execution_policy_violation"
  THEN violation ELSE "unset"

Outcome(violation, evidence, ok, captured) ==
  [verdict |-> RunVerdict(violation, evidence, ok), ok |-> ok,
   captured |-> captured, failure |-> FailureClass(violation)]

\* The row could not be written: the dispatch fails without one.
Unattested(violation, ok) ==
  [verdict |-> "none", ok |-> ok, captured |-> FALSE,
   failure |-> FailureClass(violation)]

\* All outcomes of a child that exited, when only these faults happen.
LeafOutcomes(faults) ==
  LET violations == {"none"} \union (faults \cap Violations)
      evidences == {"trusted"} \union (faults \cap EvidenceFaults)
  IN {Outcome(v, e, ok, c) :
        v \in violations, e \in evidences, ok \in BOOLEAN, c \in {FALSE}}
     \union {Outcome(v, "trusted", ok, TRUE) : v \in violations, ok \in BOOLEAN}
     \union {Unattested(v, ok) : v \in violations, ok \in BOOLEAN}
=============================================================================
