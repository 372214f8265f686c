SPECIFICATION Spec
CONSTANTS
  Vaults = {1, 2}
  Accounts = {1}
  MaxTasks = 2
  MaxActs = 3
  MaxFaults = 1
  ResetFails = TRUE
INVARIANT
  StoreIsOfVault
CHECK_DEADLOCK FALSE
