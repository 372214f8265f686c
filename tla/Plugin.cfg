SPECIFICATION MCSpec
CONSTANTS
  Vaults = {1, 2}
  Accounts = {1, 2}
  MaxTasks = 2
  MaxActs = 4
  MaxFaults = 1
  ResetFails = FALSE
  Files = {1, 2}
  Screens = {{"pane"}, {"dialog"}}
  PageSize = 1
  Retention = 2
  AutoBucket = 2
  MaxChosen = 2
  MaxTime = 4
  MaxClicks = 4
  MaxLost = 1
INVARIANTS
  PluginTypeOK
  ConnectionIsOurs
  SettledIsRight
  ScreensAreTrue
  DeletedIsRestorable
PROPERTY
  OnlyTheirVaultIsDropped
CHECK_DEADLOCK FALSE
