SPECIFICATION FairSpec
CONSTANTS
  poll = poll
  api = api
  s1 = s1
  s2 = s2
  s3 = s3
  Workers <- OneThread
  Setups <- ThreeSetups
  SymbolOf <- ThreePairs
  MaxOpen = 2
  Operator = {"disarm", "stop"}
  MaxOrders = 2
  RepliesLost <- OneSetup
  NoSetup = NoSetup
INVARIANTS
  TypeOK
  WithinOpenLimit
PROPERTIES
  DecidesOnce
  EverySetupDecided
