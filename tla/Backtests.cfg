SPECIFICATION Spec
CONSTANTS
  SwingTf = 4
  MainTf = 4
  RetraceTf = 3
  InternalTf = 2
  WindowTf = 2
  ReportTfs = {3}
  WindowUnit = 2
  RetraceWindow = 3
  Delay = 0
  DefaultRetraceTf = 3
  RrNum = 3
  RrDen = 2
  MaxLeverage = 6
  FixedRisk = 720
  StartingBalance = 10000
  FeeBps = 6
  w1 = w1
  w2 = w2
  p1 = p1
  p2 = p2
  None = None
  Workers <- MCWorkers
  Pages <- MCPages
  Csvs <- MCCsvs
  Named <- MCNamed
  Symbols = {"ETH", "BTC"}
  Typed = {"BTC", "UNKNOWN"}
  Strategies <- MCStrategies
  Models = {"RR", "LEG", "TIME"}
  ExitMinutes = {4}
  MaxUploads = 1
  MaxRuns = 2
SYMMETRY Symmetry
CONSTRAINT TwoPagesAlike
INVARIANTS
  TypeOK
  RunsOnItsUpload
  OnlyRacingRunsCollide
  ReportAdds
  TimeExitAgrees
  SimulatorsAgree
