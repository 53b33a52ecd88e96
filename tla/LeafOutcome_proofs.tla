-------------------------- MODULE LeafOutcome_proofs --------------------------
(***************************************************************************)
(* What the outcomes of module LeafOutcome are, for whoever reports one    *)
(* (module LeafSupervisor_proofs) or records one (Dispatcher_proofs).      *)
(***************************************************************************)
EXTENDS LeafOutcome, TLAPS

RunVerdicts ==
  {"execution_policy_violation", "forbidden_leaf_tool_call", "runtime_unavailable",
   "runtime_mismatch", "typed_completed", "typed_failed"}

ViolationsOf(faults) == {"none"} \union (faults \cap Violations)
EvidencesOf(faults) == {"trusted"} \union (faults \cap EvidenceFaults)

IsOutcomeOf(r, faults) ==
  \/ \E v \in ViolationsOf(faults), e \in EvidencesOf(faults), ok \in BOOLEAN, c \in {FALSE} :
       r = Outcome(v, e, ok, c)
  \/ \E v \in ViolationsOf(faults), ok \in BOOLEAN : r = Outcome(v, "trusted", ok, TRUE)
  \/ \E v \in ViolationsOf(faults), ok \in BOOLEAN : r = Unattested(v, ok)

\* Membership in the outcomes of a run, spelled out.
LEMMA IsOutcome ==
  \A faults : \A r : r \in LeafOutcomes(faults) <=> IsOutcomeOf(r, faults)
BY SMT DEF LeafOutcomes, IsOutcomeOf, ViolationsOf, EvidencesOf

\* Any violation, evidence and exit give an outcome of the runs with all faults.
LEMMA AllOutcomes ==
  ASSUME NEW v \in {"none"} \union Violations, NEW ok \in BOOLEAN
  PROVE  /\ Unattested(v, ok) \in LeafOutcomes(Violations \union EvidenceFaults)
         /\ \A e \in {"trusted", "missing", "mismatched"} :
              /\ Outcome(v, e, ok, FALSE) \in LeafOutcomes(Violations \union EvidenceFaults)
              /\ e = "trusted" =>
                   Outcome(v, e, ok, TRUE) \in LeafOutcomes(Violations \union EvidenceFaults)
<1> DEFINE faults == Violations \union EvidenceFaults
<1>1. v \in ViolationsOf(faults)
  BY DEF ViolationsOf
<1>2. \A e \in {"trusted", "missing", "mismatched"} : e \in EvidencesOf(faults)
  BY DEF EvidencesOf, EvidenceFaults
<1> HIDE DEF faults
<1>3. Unattested(v, ok) \in LeafOutcomes(faults)
  BY <1>1, IsOutcome, Zenon DEF IsOutcomeOf
<1>4. ASSUME NEW e \in {"trusted", "missing", "mismatched"}
      PROVE  Outcome(v, e, ok, FALSE) \in LeafOutcomes(faults)
  BY <1>1, <1>2, IsOutcome, Zenon DEF IsOutcomeOf
<1>5. Outcome(v, "trusted", ok, TRUE) \in LeafOutcomes(faults)
  BY <1>1, IsOutcome, Zenon DEF IsOutcomeOf
<1> QED BY <1>3, <1>4, <1>5 DEF faults

\* An outcome is a record of the types that its readers expect.
LEMMA OutcomeType ==
  ASSUME NEW faults, NEW run \in LeafOutcomes(faults)
  PROVE  /\ run.verdict \in {"none"} \union RunVerdicts
         /\ run.ok \in BOOLEAN /\ run.captured \in BOOLEAN
         /\ run.failure \in {"unset"} \union Violations
<1>1. IsOutcomeOf(run, faults)
  BY IsOutcome
<1>2. \A v \in ViolationsOf(faults) : FailureClass(v) \in {"unset"} \union Violations
  BY DEF FailureClass, RunVerdict, Violations, ViolationsOf
<1>3. \A v, e, ok : RunVerdict(v, e, ok) \in RunVerdicts
  BY DEF RunVerdict, RunVerdicts
<1>4. "trusted" \in EvidencesOf(faults)
  BY DEF EvidencesOf
<1>5. ASSUME NEW v \in ViolationsOf(faults), NEW e \in EvidencesOf(faults), NEW ok \in BOOLEAN, NEW c \in BOOLEAN,
             run = Outcome(v, e, ok, c)
      PROVE  /\ run.verdict \in {"none"} \union RunVerdicts
             /\ run.ok \in BOOLEAN /\ run.captured \in BOOLEAN
             /\ run.failure \in {"unset"} \union Violations
  BY <1>2, <1>3, <1>5 DEF Outcome
<1>6. ASSUME NEW v \in ViolationsOf(faults), NEW ok \in BOOLEAN, run = Unattested(v, ok)
      PROVE  /\ run.verdict \in {"none"} \union RunVerdicts
             /\ run.ok \in BOOLEAN /\ run.captured \in BOOLEAN
             /\ run.failure \in {"unset"} \union Violations
  BY <1>2, <1>6 DEF Unattested
<1> QED BY <1>1, <1>4, <1>5, <1>6 DEF IsOutcomeOf
=============================================================================
