SPECIFICATION RecorderSpec
CONSTANTS
  TaskA = TaskA
  TaskB = TaskB
  TaskC = TaskC
  PolicyA = PolicyA
  LockA = LockA
  MainSession = MainSession
  Writer1 = Writer1
  Writer2 = Writer2
  Routes <- DefaultRoutes
  Binding <- DefaultBinding
  Ladders <- DefaultLadders
  TaskDefaults <- DefaultTaskDefaults
  FailureActions <- DefaultFailureActions
  Tasks = {TaskA, TaskB, TaskC}
  Ids = {1, 2, 3, 4}
  Policies = {PolicyA}
  Digests = {LockA}
  Links = {MainSession}
  AuthorizedLinks = {MainSession}
  MaxLedger = 7
  Submissions <- RecorderSubmissions
  Recorders = {Writer1, Writer2}
  Cadence = 2
SYMMETRY SameWriters
INVARIANTS
  DueReviewsAreMade
  ConfirmedIsRecorded
CHECK_DEADLOCK FALSE
