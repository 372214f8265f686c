SPECIFICATION Spec
CONSTANTS
  Entries = {e1}
  Text = {e1}
  New = {}
  Mine = {a}
  Theirs = {r}
  Gone = Gone
  WindowSize = 1
  MaxStaleRejections = 3
  MaxTroubles = 1
INVARIANTS WindowIsAllOrNothing
CHECK_DEADLOCK FALSE
