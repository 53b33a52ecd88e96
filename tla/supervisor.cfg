SPECIFICATION Spec
CONSTANTS
  RecordKinds = {"context", "other_context", "tokens", "search", "collaboration"}
  LineKinds = {"session", "foreign", "text", "excess", "undecodable"}
  MaxRecords = 2
  MaxLines = 2
INVARIANTS
  SupervisorTypeOK
  CleanVerdictIsClean
  SeenIsReported
PROPERTIES
  ViolatorIsStopped
  SupervisorReturns
  ImplementsLeafRun
CHECK_DEADLOCK FALSE
