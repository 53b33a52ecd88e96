SPECIFICATION Spec
CONSTANTS
  TaskA = TaskA
  TaskB = TaskB
  AnyTask = AnyTask
  Reporter1 = Reporter1
  Reporter2 = Reporter2
  UrlA = UrlA
  UrlB = UrlB
  Tasks = {TaskA, TaskB}
  Reporters = {Reporter1, Reporter2}
  Urls = {UrlA, UrlB}
  MaxReportAttempts = 2
  MaxState = 5
  ClockSlips = FALSE
  MaxPairs = 3
  MaxTime = 1
INVARIANTS
  IssueTypeOK
  DisjointReports
  OneOpenReport
  OneIssueEach
  ReportedInOrder
  FreshReporterAnswers
SYMMETRY SameNames
CHECK_DEADLOCK FALSE
