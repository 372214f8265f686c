CONSTANTS
  Apps = {a1, a2}
  MaxConns = 2
  MaxAsks = 0
  MaxEdits = 0
  MaxChanges = 0
  MaxFaults = 0
  MaxActs = 0
  MaxPeers = 1
  MaxRules = 2
SPECIFICATION MCSpec
CHECK_DEADLOCK FALSE
INVARIANT ReturningFileIsNewest
