\* Either runtime, timers that count less far than the garbage lies ahead; one plugin's
\* session, and one plugin's loop on calm and other days.
SPECIFICATION MCFairSpec
CONSTANTS
  Runtimes = {TRUE, FALSE}
  TimerMax = 1
  FlushDelay = 1
  StaleDelay = 2
  GcDelays = {1, 2}
  RetryMin = 1
  RetryMax = 2
  AlarmRetry = 1
  MaxDrained = 2
  MaxRetries = 1
  Horizon = 3
  MaxTime = 6
  Apps = {a1}
  MaxConns = 2
  MaxAsks = 2
  MaxEdits = 1
  MaxChanges = 0
  MaxFaults = 2
  Calms = {TRUE, FALSE}
  MaxLocal = 2
  MaxRemote = 1
  MaxTroubles = 2
  MaxCalls = 3
INVARIANTS
  TypeOK
  DueDatesAreKept
  NothingIsForgotten
PROPERTIES
  SleepsUntilDue
  EverythingSettles
  ChangesArrive
CHECK_DEADLOCK FALSE
