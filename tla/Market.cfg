CONSTANTS
  SwingTf = 4
  MainTf = 4
  RetraceTf = 3
  InternalTf = 2
  WindowTf = 2
  ReportTfs = {3}
  WindowUnit = 3
  RetraceWindow = 3
  Delay = 0
  DefaultRetraceTf = 3
  RrNum = 3
  RrDen = 2
  MaxLeverage = 6
  Profiles <- AllProfiles
  Openings <- Market
  Moves <- MirroredMoves
  HistoryLimit = 41
  FetchLimit = 2
  MinCandles = 35
  MaxMinutes = 45
SPECIFICATION Spec
CHECK_DEADLOCK FALSE
INVARIANTS
  TypeOK
  BufferTrue
  DerivedAsMarket
  TracerAgreesWithFunnel
  FunnelAccounted
  VerdictIsFinal
  StaleIndexHarmless
PROPERTY TradeIsFinal
