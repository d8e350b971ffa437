SPECIFICATION Spec
CONSTANTS
  poll = poll
  api = api
  s1 = s1
  s2 = s2
  s3 = s3
  Workers <- OneThread
  Setups <- TwoSetups
  SymbolOf <- OnePair
  MaxOpen = 1
  Operator = {}
  MaxOrders = 2
  RepliesLost = {}
  NoSetup = NoSetup
INVARIANT
  CounterNeverLocksOut
