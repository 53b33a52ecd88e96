SPECIFICATION DispatchSpec
CONSTANTS
  Worker1 = Worker1
  Worker2 = Worker2
  TaskA = TaskA
  PolicyA = PolicyA
  LockA = LockA
  MainSession = MainSession
  SmallSession = SmallSession
  Routes <- DefaultRoutes
  Binding <- DefaultBinding
  Ladders <- DefaultLadders
  TaskDefaults <- DefaultTaskDefaults
  FailureActions <- DefaultFailureActions
  Tasks = {TaskA}
  Ids = {1, 2, 3}
  Policies = {PolicyA}
  Digests = {LockA}
  Links = {MainSession, SmallSession}
  AuthorizedLinks = {MainSession}
  MaxLedger = 9
  Submissions <- NoSubmissions
  Workers = {Worker1}
  Packets <- OnePacket
  CallerModes = {"dispatch"}
  LaunchPaths = {"typed", "native"}
  ReceiptOutcomes = {"terminal_outcome_accepted"}
  Faults = {"context_ceiling", "scope_or_retrieval_overbreadth", "forbidden_leaf_tool_call", "missing", "mismatched"}
  Clock = {1}
  MaxCalls = 2
PROPERTIES
  SuccessIsNotFrozen
CHECK_DEADLOCK FALSE
