SPECIFICATION Spec
CONSTANTS
  TaskA = TaskA
  TaskB = TaskB
  PolicyA = PolicyA
  PolicyB = PolicyB
  LockA = LockA
  LockB = LockB
  MainSession = MainSession
  SmallSession = SmallSession
  Attempt1 = Attempt1
  Attempt2 = Attempt2
  Attempt3 = Attempt3
  OldAttempt = OldAttempt
  Routes <- DefaultRoutes
  Binding <- DefaultBinding
  Ladders <- DefaultLadders
  TaskDefaults <- DefaultTaskDefaults
  FailureActions <- DefaultFailureActions
  Tasks = {TaskA, TaskB}
  Ids = {1, 2, 3, 4}
  Policies = {PolicyA}
  Digests = {LockA, LockB}
  Links = {MainSession, SmallSession}
  AuthorizedLinks = {MainSession}
  MaxLedger = 5
  Submissions <- ChainSubmissions
INVARIANTS
  TypeOK
  ReadableOrFull
  NumberedInOrder
  RouteBudget
  CountersTellChain
  OnePending
  AcceptedIsFinal
  OneLock
PROPERTIES
  ImplementsChains
CHECK_DEADLOCK FALSE
