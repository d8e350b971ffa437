SPECIFICATION Spec
CONSTANTS
  mainAcct = mainAcct
  spareAcct = spareAcct
  None = None
  Accounts <- TwoAccounts
  Mistyped <- OnlyA
  EnvAccount = None
  LiveFlag = FALSE
  Margin <- Margins
  Tickets <- OneTicket
  SavedFirst <- TwoAccounts
  MaxSecrets = 1
  MaxRequests = 2
PROPERTY
  OrdersUseSelectedAccount
