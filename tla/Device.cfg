SPECIFICATION MCSpec
CONSTANTS
  Entries = {e1, e2}
  Text = {e1}
  New = {e2}
  Mine = {a}
  Theirs = {r}
  Gone = Gone
  WindowSize = 1
  MaxStaleRejections = 2
  MaxTroubles = 1
  Ids = {i1, i2, i3}
  Names = {p, q, h}
  Hidden = {h}
  OthersBytes = {t1, t2}
  OwnBytes = {m1}
  Nil = Nil
  Window = 1
  BatchSize = 10
  OneSecond = FALSE
  MaxCopies = 5
  MaxChanges = 2
  MaxActs = 1
  MaxStops = 1
  Separator = "LS"
  NoMerge = NoMerge
  MaxCells = 20
  MaxRewrites = 2
INVARIANTS
  DeviceTypeOK
  CheckpointHasNoGap
  EditsSurvive
  SettledAgrees
  NothingLost
  MergesAreSound
PROPERTIES
  KeepsOtherDevices
CHECK_DEADLOCK FALSE
