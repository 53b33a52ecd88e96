SPECIFICATION CrashSpec
CONSTANTS
  Worker1 = Worker1
  Worker2 = Worker2
  TaskA = TaskA
  PolicyA = PolicyA
  LockA = LockA
  MainSession = MainSession
  SmallSession = SmallSession
  Routes <- DefaultRoutes
  Binding <- DefaultBinding
  Ladders <- DefaultLadders
  TaskDefaults <- DefaultTaskDefaults
  FailureActions <- DefaultFailureActions
  Tasks = {TaskA}
  Ids = {1, 2, 3}
  Policies = {PolicyA}
  Digests = {LockA}
  Links = {MainSession, SmallSession}
  AuthorizedLinks = {MainSession}
  MaxLedger = 9
  Submissions <- NoSubmissions
  Workers = {Worker1, Worker2}
  Packets <- CrashPackets
  CallerModes = {"dispatch", "finalize"}
  LaunchPaths = {"typed", "native"}
  ReceiptOutcomes = {"terminal_outcome_accepted"}
  Faults = {"context_ceiling"}
  Clock = {1}
  MaxCalls = 3
INVARIANTS
  AcceptedIsAttested
PROPERTIES
  NoSecondAcceptance
SYMMETRY SameWorkers
CHECK_DEADLOCK FALSE
