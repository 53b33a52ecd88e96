SPECIFICATION Spec
CONSTANTS
  TaskA = TaskA
  TaskB = TaskB
  AnyTask = AnyTask
  Reporter1 = Reporter1
  Reporter2 = Reporter2
  UrlA = UrlA
  UrlB = UrlB
  Tasks = {TaskA, TaskB}
  Reporters = {Reporter1, Reporter2}
  Urls = {UrlA, UrlB}
  MaxReportAttempts = 32
  MaxState = 9
  ClockSlips = FALSE
  MaxPairs = 2
  MaxTime = 0
INVARIANT SubmissionRepeatable
SYMMETRY SameNames
CHECK_DEADLOCK FALSE
