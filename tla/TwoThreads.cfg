SPECIFICATION Spec
CONSTANTS
  poll = poll
  api = api
  s1 = s1
  s2 = s2
  s3 = s3
  Workers <- TwoThreads
  Setups <- TwoSetups
  SymbolOf <- TwoPairs
  MaxOpen = 1
  Operator = {"disarm"}
  MaxOrders = 2
  RepliesLost = {}
  NoSetup = NoSetup
INVARIANTS
  NoStuckMarker
  OpenedWasReceived
