SPECIFICATION Spec
CONSTANTS
  poll = poll
  api = api
  s1 = s1
  s2 = s2
  s3 = s3
  Workers <- TwoThreads
  Setups <- OneSetup
  SymbolOf <- OnePairOnly
  MaxOpen = 1
  Operator = {}
  MaxOrders = 2
  RepliesLost = {}
  NoSetup = NoSetup
INVARIANT
  AtMostOneOrder
