\* The self-hosted coordinator: one handler at a time, two uploads outside the lock, an
\* entry through create, edit, delete, restore and purge, as the policy changes.  Vaults on
\* each kind of deployment, and the process of the self-hosted one.
SPECIFICATION MCSpec
CONSTANTS
  Entries = {e1}
  Blobs = {b1, b2}
  Requests = {r1}
  Puts = {p1, p2}
  NoBlob = NoBlob
  NoOne = NoOne
  Serialized = TRUE
  Mismatches = FALSE
  StorageLimit = 0
  Grace = 1
  Retentions = {1, 2}
  AutoBucket = 2
  GcBucket = 1
  RetryDelay = 1
  GcBatch = 1
  MaxBatch = 1
  MaxChanges = 3
  Horizon = 2
  MaxTime = 3
  Vaults = {v1, v2}
  Users = {ann, bob}
  Owner = ann
  Names = {"notes"}
  Deployments = {"managed", "worker", "node"}
  Tasks = {1, 2}
  PurgeRetries = 1
  RefreshRetries = 1
  MaxRequests = 4
  MaxFaults = 2
  HostTasks = {1, 2, 3}
  Generations = {1, 2}
SYMMETRY Symmetry
INVARIANTS
  TypeOK
  NothingKeptIsMissing
  HistoryKeepsBlob
  LiveIffReferenced
  RowsAgree
  GoneStaysGone
  DeletionIsDriven
  LimitsSettle
  LockIsClean
  GracefulWaits
PROPERTIES
  LockIsFifo
CHECK_DEADLOCK FALSE
