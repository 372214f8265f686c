\* The Durable Object: handlers interleave at their awaits on the object store;
\* liveness, once clients stop at the horizon.
SPECIFICATION FairSpec
CONSTANTS
  Entries = {e1, e2}
  Blobs = {b1}
  Requests = {r1}
  Puts = {p1}
  NoBlob = NoBlob
  NoOne = NoOne
  Serialized = FALSE
  Mismatches = TRUE
  StorageLimit = 0
  Grace = 1
  Retentions = {1,2}
  AutoBucket = 2
  GcBucket = 1
  RetryDelay = 1
  GcBatch = 1
  MaxBatch = 2
  MaxChanges = 3
  Horizon = 2
  MaxTime = 4
INVARIANTS
  UsedMatchesRows
  GarbageIsScheduled
PROPERTIES
  GarbageIsCollected
  ImplementsFeed
CHECK_DEADLOCK FALSE
