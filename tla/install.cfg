SPECIFICATION Spec
CONSTANTS
  Kept = Kept
  Dropped = Dropped
  Added = Added
  Versions = {1, 2}
  Roles = {Kept, Dropped, Added}
  Declared <- TwoReleases
  MaxRuns = 3
  Breaks = {"failed", "unrestored", "interrupted", "crashed"}
INVARIANTS
  InstallTypeOK
  PackageSurvives
  RerunRepairs
  CurrentIsWhole
CHECK_DEADLOCK FALSE
