SPECIFICATION Spec
CONSTANTS
  s1 = s1
  s2 = s2
  Swings <- MCSwings
  BornAt <- MCBornAt
  Entries = {"e1"}
  RetryableReasons = {"FVG_8M_NOT_FOUND"}
  FatalReasons = {"RETRACE_WINDOW_EXPIRED"}
  StalenessWindow = 2
  KeyExpiry = 3
  MaxReadyAge = 2
  ExecutionTimeout = 1
  MaxInProgress = 2
  MaxTracked = 1
  Environment = {"stop", "clear", "restart"}
  DiskOutcomes = {TRUE}
  MaxTime = 4
INVARIANTS
  ResolvedNotInProgress
  TrackedOncePerSwing
  HistoryIsSaved
