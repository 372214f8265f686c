SPECIFICATION Spec
CONSTANTS
  Calms = {FALSE}
  MaxEdits = 1
  MaxRemote = 0
  MaxFaults = 1
  MaxCalls = 3
PROPERTIES
  StoppedStays
CHECK_DEADLOCK FALSE
