SPECIFICATION DispatchSpec
CONSTANTS
  Worker1 = Worker1
  Worker2 = Worker2
  TaskA = TaskA
  PolicyA = PolicyA
  LockA = LockA
  MainSession = MainSession
  SmallSession = SmallSession
  Routes <- DefaultRoutes
  Binding <- DefaultBinding
  Ladders <- DefaultLadders
  TaskDefaults <- DefaultTaskDefaults
  FailureActions <- DefaultFailureActions
  Tasks = {TaskA}
  Ids = {1, 2, 3}
  Policies = {PolicyA}
  Digests = {LockA}
  Links = {MainSession, SmallSession}
  AuthorizedLinks = {MainSession}
  MaxLedger = 2
  Submissions <- NoSubmissions
  Workers = {Worker1, Worker2}
  Packets <- RacingPackets
  CallerModes = {"dispatch", "validate", "finalize"}
  LaunchPaths = {"typed", "native"}
  ReceiptOutcomes = {"terminal_outcome_accepted", "path_blocked", "all_lanes_exhausted"}
  Faults = {"context_ceiling", "missing", "unsafe_launch_path", "mismatch"}
  Clock = {1, 2}
  MaxCalls = 2
INVARIANTS
  DispatchTypeOK
  FailureIsRecorded
  EscalationContinues
CHECK_DEADLOCK FALSE
PROPERTIES
  FinalizationReturns
