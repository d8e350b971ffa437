SPECIFICATION Spec
CONSTANTS
  mainAcct = mainAcct
  spareAcct = spareAcct
  None = None
  Accounts <- TwoAccounts
  Mistyped <- OnlyA
  EnvAccount = spareAcct
  LiveFlag = TRUE
  Margin <- Margins
  Tickets <- AllTickets
  SavedFirst <- TwoAccounts
  MaxSecrets = 2
  MaxRequests = 3
INVARIANTS
  TypeOK
  VaultIsConsistent
  ConnectedIsProven
  OneAccountPerCycle
  SizedWithinRisk
