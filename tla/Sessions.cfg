SPECIFICATION FairSpec
CONSTANTS
  btc = btc
  eth = eth
  Pairs <- TwoPairs
  NoPair = NoPair
  MaxSessions = 3
INVARIANTS
  TypeOK
  ActiveIsPolled
  SavedAsRequested
PROPERTIES
  PollingGoesOn
  SupersededChainsDie
