SPECIFICATION FairSpec
CONSTANTS
  s1 = s1
  s2 = s2
  Swings <- MCSwings
  BornAt <- MCBornAt
  Entries = {"e1", "e2"}
  RetryableReasons = {"FVG_8M_NOT_FOUND", "EXPANSION_NOT_CONFIRMED"}
  FatalReasons = {"RETRACE_WINDOW_EXPIRED"}
  StalenessWindow = 2
  KeyExpiry = 3
  MaxReadyAge = 2
  ExecutionTimeout = 1
  MaxInProgress = 2
  MaxTracked = 1
  Environment = {}
  DiskOutcomes = {TRUE}
  MaxTime = 6
INVARIANTS
  TypeOK
  OneRowPerSwing
  OneOrderPerSwing
PROPERTIES
  ResolutionIsFinal
  TradableUntilDecided
  NeverSilentlyDropped
  TradableIsTransient
