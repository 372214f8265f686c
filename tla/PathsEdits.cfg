SPECIFICATION Spec
CONSTANTS
  Ids = {e1, e2, e3}
  Names = {a, b, c}
  Hidden = {}
  Theirs = {t1, t2}
  Mine = {m1}
  Nil = Nil
  WindowSize = 2
  BatchSize = 10
  OneSecond = FALSE
  MaxCopies = 5
  MaxChanges = 1
  MaxActs = 2
  MaxTroubles = 0
PROPERTY WindowsKeepEdits
CHECK_DEADLOCK FALSE
