SPECIFICATION WalkSpec
CONSTANTS
  Routes <- DefaultRoutes
  Binding <- DefaultBinding
  Ladders <- DefaultLadders
  TaskDefaults <- DefaultTaskDefaults
  FailureActions <- DefaultFailureActions
INVARIANTS
  LedgerFollowsPolicy
  SuccessorIsSelectable
  ConfiguredEscalationLeadsOn
  FailureLeadsOn
PROPERTY MainByTakeoverOnly
