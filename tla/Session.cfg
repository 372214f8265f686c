CONSTANTS
  Apps = {a1, a2}
  MaxConns = 2
  MaxAsks = 2
  MaxEdits = 1
  MaxChanges = 1
  MaxFaults = 1
  MaxActs = 1
  MaxPeers = 1
  MaxRules = 2
SPECIFICATION MCSpec
CHECK_DEADLOCK FALSE
INVARIANTS SessionTypeOK SessionsAreSound NothingIsMissed CommitsAreKnown SelectionIsKept
SYMMETRY Symmetry
