SPECIFICATION UpgradeSpec
CONSTANTS
  TaskA = TaskA
  TaskB = TaskB
  PolicyA = PolicyA
  PolicyB = PolicyB
  LockA = LockA
  LockB = LockB
  MainSession = MainSession
  SmallSession = SmallSession
  Attempt1 = Attempt1
  Attempt2 = Attempt2
  Attempt3 = Attempt3
  OldAttempt = OldAttempt
  Routes <- DefaultRoutes
  Binding <- DefaultBinding
  Ladders <- DefaultLadders
  TaskDefaults <- DefaultTaskDefaults
  FailureActions <- DefaultFailureActions
  Tasks = {TaskA}
  Ids = {Attempt1, Attempt2, OldAttempt}
  Policies = {PolicyA, PolicyB}
  Digests = {LockA, LockB}
  Links = {MainSession}
  AuthorizedLinks = {MainSession}
  MaxLedger = 9
  Submissions <- UpgradeSubmissions
INVARIANTS
  ReadableIsSound
SYMMETRY SameAttempts
