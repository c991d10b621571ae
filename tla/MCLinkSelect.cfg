SPECIFICATION Spec
CHECK_DEADLOCK FALSE
CONSTANTS
  N = 3
  Bond = {2}
  Speeds <- MCSpeeds
  Unreadable = Unreadable
  MaxRuns = 2
INVARIANTS
  TypeOK
  TestedAreWired
  CleanBeforeSetup
  FastestFirst
