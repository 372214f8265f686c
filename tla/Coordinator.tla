---------------------------- MODULE Coordinator ----------------------------
(***************************************************************************)
(* One vault's sync coordinator: the entry table that the change feed is   *)
(* read from, the history of entry versions, the blob table, and the       *)
(* object store that holds the encrypted bodies outside the coordinator's  *)
(* database (apps/api/src/sync/coordinator and apps/api/src/sync/blob).    *)
(*                                                                         *)
(* A handler of the coordinator runs without interruption between two of   *)
(* its awaits on the object store; every such stretch is one action.  A    *)
(* commit's SQL transaction is a sequence of actions, one per mutation,    *)
(* during which nothing else may run (tx.owner # NoOne).  The same code    *)
(* runs in two places: a Cloudflare Durable Object, where another request  *)
(* may run while one awaits the object store, and a Node process, where    *)
(* every entry point holds the vault's lock from start to end              *)
(* (Serialized = TRUE).  Uploads write the object store from outside the   *)
(* coordinator, with no lock in either.                                    *)
(*                                                                         *)
(* Abstractions.  Every blob has the size of one unit, so used counts      *)
(* rows and the size checks of a stage only reject.  Rejected mutations    *)
(* and replays of an entry's last mutation change nothing; what the client *)
(* is told is not kept.  A purge runs at most once at a time.              *)
(***************************************************************************)
EXTENDS Integers, FiniteSets

CONSTANTS
  Entries, Blobs,     \* the ids clients use
  Requests,           \* slots for commit and restore handlers in flight
  Puts,               \* slots for blob uploads in flight
  NoBlob, NoOne,
  Serialized,         \* TRUE: Node with its vault lock; FALSE: Durable Object
  Mismatches,         \* TRUE: a body may differ from its declared size
  StorageLimit,       \* in blobs; 0 means unlimited
  Grace,              \* how long a staged blob waits for its commit
  Retentions,         \* the history retentions a policy may set
  AutoBucket,         \* width of the window with one automatic version
  GcBucket,           \* garbage collection is scheduled on multiples of this
  RetryDelay,         \* after a failed garbage collection
  GcBatch,            \* blobs per garbage collection pass
  MaxBatch,           \* bound: mutations per commit
  MaxChanges,         \* bound: position in the feed from which no commit begins
  Horizon,            \* bound: from here on no client acts and no call fails
  MaxTime             \* bound: last instant of the clock

ASSUME NoBlobAssumption == NoBlob \notin Blobs
ASSUME NoOneAssumption == NoOne \notin Requests
ASSUME FiniteAssumption == IsFiniteSet(Entries) /\ IsFiniteSet(Blobs)
ASSUME ModeAssumption == Serialized \in BOOLEAN /\ Mismatches \in BOOLEAN
ASSUME TimeAssumption ==
  /\ Grace \in Nat /\ Retentions \subseteq Nat /\ Retentions # {}
  /\ AutoBucket \in Nat \ {0} /\ GcBucket \in Nat \ {0} /\ RetryDelay \in Nat
ASSUME BoundAssumption ==
  /\ StorageLimit \in Nat /\ GcBatch \in Nat \ {0} /\ MaxBatch \in Nat
  /\ MaxChanges \in Nat /\ Horizon \in Nat /\ MaxTime \in Nat

VARIABLES
  now,        \* the clock every Date.now() reads
  retention,  \* coordinator_state.version_history_retention_days
  cursor,     \* coordinator_state.current_cursor
  used,       \* coordinator_state.storage_used_bytes, in blobs
  entries,    \* the entries table; revision 0 stands for no row
  versions,   \* the entry_versions table
  blobs,      \* the blobs table; state "none" stands for no row
  objects,    \* keys present in the object store
  commits,    \* commit and restore handlers
  tx,         \* the SQL transaction of a commit
  gc,         \* the garbage collection the alarm runs
  gcDueAt,    \* due_at of the blob_gc maintenance job, NoTime when none
  purge,      \* the handler that purges deleted entries
  puts        \* blob upload requests

db == <<cursor, used, entries, versions, blobs>>
tasks == <<commits, tx, gc, purge>>
vars == <<now, retention, db, objects, tasks, gcDueAt, puts>>

NoTime == -1
Mutations == [entry : Entries, base : Nat, blob : Blobs \union {NoBlob}]
Versions == [entry : Entries, revision : Nat, blob : Blobs \union {NoBlob},
             reason : {"auto", "before_delete", "before_restore"},
             bucket : Int, captured : Nat, expires : Nat]
IdleCommit == [pc |-> "idle", batch |-> {}, todo |-> {}, missing |-> {},
               forced |-> "none"]
ClosedTx == [owner |-> NoOne, todo |-> {}, next |-> 0]
IdleGc == [pc |-> "idle", due |-> {}, now |-> 0]
IdlePurge == [pc |-> "idle", todo |-> {}, blob |-> NoBlob, now |-> 0]
IdlePut == [pc |-> "idle", blob |-> NoBlob]

Init ==
  /\ now = 0
  /\ retention \in Retentions
  /\ cursor = 0
  /\ used = 0
  /\ entries = [e \in Entries |-> [revision |-> 0, blob |-> NoBlob, seq |-> 0]]
  /\ versions = {}
  /\ blobs = [b \in Blobs |-> [state |-> "none", deleteAfter |-> NoTime]]
  /\ objects = {}
  /\ commits = [r \in Requests |-> IdleCommit]
  /\ tx = ClosedTx
  /\ gc = IdleGc
  /\ gcDueAt = NoTime
  /\ purge = IdlePurge
  /\ puts = [p \in Puts |-> IdlePut]

-----------------------------------------------------------------------------
(* Queries over the tables. *)

Referenced(b) == \E e \in Entries : entries[e].blob = b

\* A version holds on to blob b at time t.
KeptByHistory(vs, b, t) == \E v \in vs : v.blob = b /\ v.expires > t

\* Mutant: the history is forgotten.
PinnedByEntries(b, t) == Referenced(b)

Pinned(b, t) == Referenced(b) \/ KeptByHistory(versions, b, t)

Rows == {b \in Blobs : blobs[b].state # "none"}

Collectible(b, t) ==
  /\ blobs[b].state \in {"staged", "pending_delete"}
  /\ blobs[b].deleteAfter <= t
  /\ ~Pinned(b, t)

Unexpired(t) == {v \in versions : v.expires > t}

UsedLess(n) == IF used >= n THEN used - n ELSE 0

NoRow == [state |-> "none", deleteAfter |-> NoTime]

-----------------------------------------------------------------------------
(* The blob_gc maintenance job. *)

BucketEnd(t) == ((t + GcBucket - 1) \div GcBucket) * GcBucket

Earliest(times) == {t \in times : \A u \in times : t <= u}

\* Mutant: the history is forgotten.
TimesWithoutHistory(bs, vs) ==
  {bs[b].deleteAfter : b \in {c \in Blobs :
     \/ bs[c].state = "staged"
     \/ bs[c].state = "pending_delete" /\ ~Referenced(c) /\ ~KeptByHistory(vs, c, now)}}

\* Mutant: an upload that is never committed is not considered.
TimesWithoutStaged(bs, vs) ==
  {bs[b].deleteAfter : b \in {c \in Blobs :
            /\ bs[c].state = "pending_delete"
            /\ ~Referenced(c) /\ ~KeptByHistory(vs, c, now)}}
  \union {v.expires : v \in vs}

\* The instants at which some row of bs or vs may become garbage.
GarbageTimes(bs, vs) ==
  {bs[b].deleteAfter : b \in {c \in Blobs : bs[c].state = "staged"}}
  \union {bs[b].deleteAfter : b \in {c \in Blobs :
            /\ bs[c].state = "pending_delete"
            /\ ~Referenced(c) /\ ~KeptByHistory(vs, c, now)}}
  \union {v.expires : v \in vs}

\* defer: an earlier due date already set wins.
Deferred(t) ==
  IF gcDueAt # NoTime /\ gcDueAt <= BucketEnd(t) THEN gcDueAt ELSE BucketEnd(t)

DeferToNext ==
  LET times == GarbageTimes(blobs, versions)
  IN  IF times = {} THEN gcDueAt' = gcDueAt
      ELSE \E t \in Earliest(times) : gcDueAt' = Deferred(t)

\* drain: the job's row is deleted or overwritten with its next due date.
Reschedule(bs, vs) ==
  LET times == GarbageTimes(bs, vs)
  IN  IF times = {} THEN gcDueAt' = NoTime
      ELSE \E t \in Earliest(times) : gcDueAt' = BucketEnd(t)

-----------------------------------------------------------------------------
(* Who may run. *)

Quiet == tx.owner = NoOne

LockFree ==
  /\ \A r \in Requests : commits[r].pc = "idle"
  /\ gc.pc = "idle"
  /\ purge.pc = "idle"

\* A new call may enter the coordinator.
MayEnter == Quiet /\ (Serialized => LockFree)

Calm == now < Horizon

\* From the horizon on the clock waits for the handlers still in flight.
Tick ==
  /\ Quiet
  /\ now < MaxTime
  /\ Calm \/ LockFree
  /\ now' = now + 1
  /\ UNCHANGED <<retention, db, objects, tasks, gcDueAt, puts>>

ApplyVaultPolicy ==
  /\ MayEnter /\ Calm
  /\ \E d \in Retentions : d # retention /\ retention' = d
  /\ UNCHANGED <<now, db, objects, tasks, gcDueAt, puts>>

-----------------------------------------------------------------------------
(* Uploading a blob: PUT /v1/vaults/:vaultId/blobs/:blobId. *)

StageBlob(p, b) ==
  /\ MayEnter /\ Calm
  /\ puts[p].pc = "idle"
  /\ IF b \in Rows THEN ~Pinned(b, now) /\ used' = used
     ELSE /\ StorageLimit > 0 => used + 1 <= StorageLimit
          /\ used' = used + 1
  /\ blobs' = [blobs EXCEPT ![b] = [state |-> "staged",
                                    deleteAfter |-> now + Grace]]
  /\ gcDueAt' = Deferred(now + Grace)
  /\ puts' = [puts EXCEPT ![p] = [pc |-> "uploading", blob |-> b]]
  /\ UNCHANGED <<now, retention, cursor, entries, versions, objects, tasks>>

UploadSucceeds(p) ==
  /\ Quiet
  /\ puts[p].pc = "uploading"
  /\ objects' = objects \union {puts[p].blob}
  /\ puts' = [puts EXCEPT ![p] = IdlePut]
  /\ UNCHANGED <<now, retention, db, tasks, gcDueAt>>

\* The store may have kept the object although the call failed.
UploadFails(p) ==
  /\ Quiet /\ Calm
  /\ puts[p].pc = "uploading"
  /\ objects' \in {objects, objects \union {puts[p].blob}}
  /\ puts' = [puts EXCEPT ![p].pc = "aborting"]
  /\ UNCHANGED <<now, retention, db, tasks, gcDueAt>>

BodyMismatches(p) ==
  /\ Quiet /\ Calm /\ Mismatches
  /\ puts[p].pc = "uploading"
  /\ objects' \in {objects, objects \union {puts[p].blob}}
  /\ puts' = [puts EXCEPT ![p].pc = "deleting"]
  /\ UNCHANGED <<now, retention, db, tasks, gcDueAt>>

\* Whether the delete succeeds or not, the stage is aborted next.
DeleteMismatched(p) ==
  /\ Quiet
  /\ puts[p].pc = "deleting"
  /\ objects' \in {objects, objects \ {puts[p].blob}}
  /\ puts' = [puts EXCEPT ![p].pc = "aborting"]
  /\ UNCHANGED <<now, retention, db, tasks, gcDueAt>>

\* Mutant: an abort looks at less than it should.
AbortableRow(b) == b \in Rows

Abortable(b) == blobs[b].state = "staged" /\ ~Pinned(b, now)

\* Mutant: the size is given back without a look at the row.
AbortReleasesAnyway(p) ==
  LET b == puts[p].blob
  IN  /\ MayEnter
      /\ puts[p].pc = "aborting"
      /\ blobs' = IF Abortable(b) THEN [blobs EXCEPT ![b] = NoRow] ELSE blobs
      /\ used' = used - 1
      /\ puts' = [puts EXCEPT ![p] = IdlePut]
      /\ UNCHANGED <<now, retention, cursor, entries, versions, objects,
                     tasks, gcDueAt>>

AbortStagedBlob(p) ==
  LET b == puts[p].blob
  IN  /\ MayEnter
      /\ puts[p].pc = "aborting"
      /\ blobs' = IF Abortable(b) THEN [blobs EXCEPT ![b] = NoRow] ELSE blobs
      /\ used' = IF Abortable(b) THEN UsedLess(1) ELSE used
      /\ puts' = [puts EXCEPT ![p] = IdlePut]
      /\ UNCHANGED <<now, retention, cursor, entries, versions, objects,
                     tasks, gcDueAt>>

\* The request dies with its client or its process, and aborts nothing.
UploadDies(p) ==
  /\ Quiet /\ Calm
  /\ puts[p].pc # "idle"
  /\ puts' = [puts EXCEPT ![p] = IdlePut]
  /\ UNCHANGED <<now, retention, db, objects, tasks, gcDueAt>>

-----------------------------------------------------------------------------
(* Committing a batch of mutations. *)

BlobsOf(batch) == {m.blob : m \in batch} \ {NoBlob}

Begin(r, batch, forced) ==
  /\ MayEnter /\ Calm
  /\ commits[r].pc = "idle"
  /\ batch # {} /\ Cardinality(batch) <= MaxBatch
  /\ cursor + Cardinality(batch) <= MaxChanges
  /\ commits' = [commits EXCEPT ![r] =
       [pc |-> "probing", batch |-> batch, todo |-> BlobsOf(batch),
        missing |-> {}, forced |-> forced]]
  /\ UNCHANGED <<now, retention, db, objects, tx, gc, purge, gcDueAt, puts>>

\* A client queues one mutation per entry.  Those already based on an older
\* revision are left out: they are rejected whatever happens next.
CommitMutations(r) ==
  \E chosen \in SUBSET Entries : \E target \in [chosen -> Blobs \union {NoBlob}] :
    Begin(r, {[entry |-> e, base |-> entries[e].revision, blob |-> target[e]] :
                e \in chosen}, "none")

\* Versions within the retention may be restored, whether expired or not.
Restorable(e) ==
  {v \in versions : v.entry = e /\ v.captured >= now - retention}

RestoreEntryVersions(r) ==
  \E chosen \in SUBSET {e \in Entries : entries[e].revision > 0} :
    \E target \in [chosen -> versions] :
      /\ \A e \in chosen : target[e] \in Restorable(e)
      /\ Begin(r, {[entry |-> e, base |-> entries[e].revision,
                    blob |-> target[e].blob] : e \in chosen}, "before_restore")

ProbeBlob(r, b) ==
  /\ Quiet
  /\ commits[r].pc = "probing" /\ b \in commits[r].todo
  /\ commits' = [commits EXCEPT ![r] =
       [pc |-> "probing", batch |-> @.batch, todo |-> @.todo \ {b},
        missing |-> @.missing \union ({b} \ objects), forced |-> @.forced]]
  /\ UNCHANGED <<now, retention, db, objects, tx, gc, purge, gcDueAt, puts>>

ProbeFails(r) ==
  /\ Quiet /\ Calm
  /\ commits[r].pc = "probing" /\ commits[r].todo # {}
  /\ commits' = [commits EXCEPT ![r] = IdleCommit]
  /\ UNCHANGED <<now, retention, db, objects, tx, gc, purge, gcDueAt, puts>>

OpenTransaction(r) ==
  /\ Quiet
  /\ commits[r].pc = "probing" /\ commits[r].todo = {}
  /\ tx' = [owner |-> r, todo |-> commits[r].batch, next |-> cursor]
  /\ UNCHANGED <<now, retention, db, objects, commits, gc, purge, gcDueAt, puts>>

\* Mutant: the object store's answers are ignored.
AcceptableUnprobed(r, m) ==
  /\ entries[m.entry].revision = m.base
  /\ m.blob # NoBlob => m.blob \in Rows

Acceptable(r, m) ==
  /\ entries[m.entry].revision = m.base
  /\ m.blob # NoBlob => m.blob \notin commits[r].missing /\ m.blob \in Rows

\* The versions that accepting m from r captures: the state it replaces when
\* a delete or a restore forces it, else the new state, once per bucket.
Captured(r, m) ==
  LET reason == IF m.blob = NoBlob THEN "before_delete" ELSE commits[r].forced
      bucket == (now \div AutoBucket) * AutoBucket
      Version(rev, blob, why, in) ==
        [entry |-> m.entry, revision |-> rev, blob |-> blob, reason |-> why,
         bucket |-> in, captured |-> now, expires |-> now + retention]
  IN  IF reason # "none"
      THEN {Version(m.base, entries[m.entry].blob, reason, NoTime) :
              x \in {y \in {m} : y.base > 0}}
      ELSE {Version(m.base + 1, m.blob, "auto", bucket) :
              x \in {y \in {m} : /\ y.base > 0
                                 /\ \A v \in versions :
                                      ~(/\ v.entry = y.entry /\ v.reason = "auto"
                                        /\ v.bucket = bucket)}}

\* The blob the entry leaves behind is collectible once no entry has it; the
\* one it takes is live.
SwapBlobs(m) ==
  LET old == entries[m.entry].blob
      dropped == /\ old \in Blobs \ {m.blob}
                 /\ \A e \in Entries \ {m.entry} : entries[e].blob # old
  IN  [b \in Blobs |->
        IF b = m.blob THEN [state |-> "live", deleteAfter |-> NoTime]
        ELSE IF b = old /\ dropped
             THEN [state |-> "pending_delete", deleteAfter |-> now]
             ELSE blobs[b]]

\* Mutant: every mutation of a batch takes the position after the stored cursor.
NewRowAfterCursor(m) ==
  [revision |-> m.base + 1, blob |-> m.blob, seq |-> cursor + 1]

\* What an accepted mutation leaves in the entries table.
NewRow(m) == [revision |-> m.base + 1, blob |-> m.blob, seq |-> tx.next + 1]

AcceptMutation(m) ==
  /\ tx.owner # NoOne /\ m \in tx.todo
  /\ Acceptable(tx.owner, m)
  /\ entries' = [entries EXCEPT ![m.entry] = NewRow(m)]
  /\ versions' = versions \union Captured(tx.owner, m)
  /\ blobs' = SwapBlobs(m)
  /\ tx' = [owner |-> tx.owner, todo |-> tx.todo \ {m}, next |-> tx.next + 1]
  /\ UNCHANGED <<now, retention, cursor, used, objects, commits, gc, purge,
                 gcDueAt, puts>>

RejectMutation(m) ==
  /\ tx.owner # NoOne /\ m \in tx.todo
  /\ ~Acceptable(tx.owner, m)
  /\ tx' = [tx EXCEPT !.todo = @ \ {m}]
  /\ UNCHANGED <<now, retention, db, objects, commits, gc, purge, gcDueAt, puts>>

\* The cursor is stored once, and only an accepted mutation schedules a pass.
CloseTransaction ==
  /\ tx.owner # NoOne /\ tx.todo = {}
  /\ cursor' = tx.next
  /\ IF tx.next > cursor THEN DeferToNext ELSE gcDueAt' = gcDueAt
  /\ commits' = [commits EXCEPT ![tx.owner] = IdleCommit]
  /\ tx' = ClosedTx
  /\ UNCHANGED <<now, retention, used, entries, versions, blobs, objects, gc,
                 purge, puts>>

-----------------------------------------------------------------------------
(* Garbage collection, run by the alarm. *)

\* The batch takes the blobs that have waited longest.
Batches(ready) ==
  {due \in SUBSET ready :
     /\ Cardinality(due) <= GcBatch
     /\ Cardinality(due) = GcBatch \/ due = ready
     /\ \A d \in due, x \in ready \ due :
          blobs[d].deleteAfter <= blobs[x].deleteAfter}

AlarmFires == MayEnter /\ gc.pc = "idle" /\ gcDueAt # NoTime /\ gcDueAt <= now

RunGc ==
  LET ready == {b \in Blobs : Collectible(b, now)}
  IN  /\ AlarmFires
      /\ versions' = Unexpired(now)
      /\ IF ready = {}
         THEN Reschedule(blobs, versions') /\ gc' = gc
         ELSE /\ gc' \in {[pc |-> "deleting", due |-> due, now |-> now] :
                            due \in Batches(ready)}
              /\ gcDueAt' = gcDueAt
      /\ UNCHANGED <<now, retention, cursor, used, entries, blobs, objects,
                     commits, tx, purge, puts>>

GcDeletesObjects ==
  /\ Quiet
  /\ gc.pc = "deleting"
  /\ objects' = objects \ gc.due
  /\ gc' = [gc EXCEPT !.pc = "deleted"]
  /\ UNCHANGED <<now, retention, db, commits, tx, purge, gcDueAt, puts>>

\* deleteMany throws, some objects gone: the job is retried later.
GcFails ==
  /\ Quiet /\ Calm
  /\ gc.pc = "deleting"
  /\ \E gone \in SUBSET gc.due : objects' = objects \ gone
  /\ gcDueAt' = now + RetryDelay
  /\ gc' = IdleGc
  /\ UNCHANGED <<now, retention, db, commits, tx, purge, puts>>

\* Mutant: the batch is subtracted, not the rows that were deleted.
GcSubtractsBatch ==
  LET gone == {b \in gc.due : Collectible(b, gc.now)}
  IN  /\ Quiet
      /\ gc.pc = "deleted"
      /\ blobs' = [b \in Blobs |-> IF b \in gone THEN NoRow ELSE blobs[b]]
      /\ used' = UsedLess(Cardinality(gc.due))
      /\ Reschedule(blobs', versions)
      /\ gc' = IdleGc
      /\ UNCHANGED <<now, retention, cursor, entries, versions, objects,
                     commits, tx, purge, puts>>

GcDeletesRows ==
  LET gone == {b \in gc.due : Collectible(b, gc.now)}
  IN  /\ Quiet
      /\ gc.pc = "deleted"
      /\ blobs' = [b \in Blobs |-> IF b \in gone THEN NoRow ELSE blobs[b]]
      /\ used' = UsedLess(Cardinality(gone))
      /\ Reschedule(blobs', versions)
      /\ gc' = IdleGc
      /\ UNCHANGED <<now, retention, cursor, entries, versions, objects,
                     commits, tx, purge, puts>>

-----------------------------------------------------------------------------
(* Purging the history of deleted entries, and at once the blobs it held. *)

Purgeable(e) ==
  /\ entries[e].revision > 0 /\ entries[e].blob = NoBlob
  /\ \E v \in Restorable(e) : v.blob # NoBlob

PurgeDeletedEntries ==
  \E chosen \in SUBSET {e \in Entries : Purgeable(e)} :
    /\ MayEnter /\ Calm
    /\ purge.pc = "idle" /\ chosen # {}
    /\ versions' = {v \in versions : v.entry \notin chosen}
    /\ purge' = [pc |-> "collecting", blob |-> NoBlob, now |-> now,
                 todo |-> {v.blob : v \in versions \ versions'} \ {NoBlob}]
    /\ UNCHANGED <<now, retention, cursor, used, entries, blobs, objects,
                   commits, tx, gc, gcDueAt, puts>>

CollectPurgedBlob(b) ==
  LET at == purge.now
      free == blobs[b].state \in {"live", "pending_delete"} /\ ~Pinned(b, at)
      since == IF blobs[b].deleteAfter \in 0 .. at
               THEN blobs[b].deleteAfter ELSE at
  IN  /\ Quiet
      /\ purge.pc = "collecting" /\ b \in purge.todo
      /\ versions' = Unexpired(at)
      /\ blobs' = IF free THEN [blobs EXCEPT ![b] = [state |-> "pending_delete",
                                                     deleteAfter |-> since]]
                  ELSE blobs
      /\ purge' = IF free THEN [purge EXCEPT !.pc = "deleting", !.blob = b]
                  ELSE [purge EXCEPT !.todo = @ \ {b}]
      /\ UNCHANGED <<now, retention, cursor, used, entries, objects, commits,
                     tx, gc, gcDueAt, puts>>

PurgeDeletesObject ==
  /\ Quiet
  /\ purge.pc = "deleting"
  /\ objects' = objects \ {purge.blob}
  /\ purge' = [purge EXCEPT !.pc = "deleted"]
  /\ UNCHANGED <<now, retention, db, commits, tx, gc, gcDueAt, puts>>

\* The failure is logged and the next blob taken.
PurgeFailsToDelete ==
  /\ Quiet /\ Calm
  /\ purge.pc = "deleting"
  /\ objects' \in {objects, objects \ {purge.blob}}
  /\ purge' = [purge EXCEPT !.pc = "collecting", !.blob = NoBlob,
                            !.todo = @ \ {purge.blob}]
  /\ UNCHANGED <<now, retention, db, commits, tx, gc, gcDueAt, puts>>

PurgeDeletesRow ==
  LET b == purge.blob
      gone == Collectible(b, purge.now)
  IN  /\ Quiet
      /\ purge.pc = "deleted"
      /\ blobs' = IF gone THEN [blobs EXCEPT ![b] = NoRow] ELSE blobs
      /\ used' = IF gone THEN UsedLess(1) ELSE used
      /\ purge' = [purge EXCEPT !.pc = "collecting", !.blob = NoBlob,
                                !.todo = @ \ {b}]
      /\ UNCHANGED <<now, retention, cursor, entries, versions, objects,
                     commits, tx, gc, gcDueAt, puts>>

PurgeEnds ==
  /\ Quiet
  /\ purge.pc = "collecting" /\ purge.todo = {}
  /\ DeferToNext
  /\ purge' = IdlePurge
  /\ UNCHANGED <<now, retention, db, objects, commits, tx, gc, puts>>

-----------------------------------------------------------------------------
\* The coordinator loses its memory, never its database.  On Node it takes
\* the uploads of the process with it.
Restart ==
  /\ Quiet /\ Calm
  /\ ~LockFree
  /\ commits' = [r \in Requests |-> IdleCommit]
  /\ gc' = IdleGc
  /\ purge' = IdlePurge
  /\ puts' = IF Serialized THEN [p \in Puts |-> IdlePut] ELSE puts
  /\ UNCHANGED <<now, retention, db, objects, tx, gcDueAt>>

Commit(r) ==
  \/ CommitMutations(r) \/ RestoreEntryVersions(r)
  \/ \E b \in Blobs : ProbeBlob(r, b)
  \/ ProbeFails(r) \/ OpenTransaction(r)

Transaction ==
  \/ \E m \in tx.todo : AcceptMutation(m) \/ RejectMutation(m)
  \/ CloseTransaction

Put(p) ==
  \/ \E b \in Blobs : StageBlob(p, b)
  \/ UploadSucceeds(p) \/ UploadFails(p) \/ BodyMismatches(p)
  \/ DeleteMismatched(p) \/ AbortStagedBlob(p) \/ UploadDies(p)

Gc == RunGc \/ GcDeletesObjects \/ GcFails \/ GcDeletesRows

Purge ==
  \/ PurgeDeletedEntries
  \/ \E b \in Blobs : CollectPurgedBlob(b)
  \/ PurgeDeletesObject \/ PurgeFailsToDelete \/ PurgeDeletesRow \/ PurgeEnds

Next ==
  \/ Tick \/ ApplyVaultPolicy
  \/ \E p \in Puts : Put(p)
  \/ \E r \in Requests : Commit(r)
  \/ Transaction \/ Gc \/ Purge \/ Restart

Spec == Init /\ [][Next]_vars

\* Time passes whatever the handlers do (Tick only waits for a transaction to
\* close), started handlers finish, and alarms are delivered.
Fairness ==
  /\ SF_vars(Tick)
  /\ \A r \in Requests :
       WF_vars((\E b \in Blobs : ProbeBlob(r, b)) \/ OpenTransaction(r))
  /\ WF_vars(Transaction)
  /\ WF_vars(RunGc) /\ WF_vars(GcDeletesObjects) /\ WF_vars(GcDeletesRows)
  /\ WF_vars((\E b \in Blobs : CollectPurgedBlob(b)) \/ PurgeDeletesObject
             \/ PurgeDeletesRow \/ PurgeEnds)

FairSpec == Spec /\ Fairness

-----------------------------------------------------------------------------
(* What must hold. *)

Head == IF tx.owner = NoOne THEN cursor ELSE tx.next

TypeOK ==
  /\ now \in Nat /\ retention \in Retentions
  /\ cursor \in Nat /\ used \in Nat
  /\ entries \in [Entries -> [revision : Nat, blob : Blobs \union {NoBlob},
                              seq : Nat]]
  /\ versions \subseteq Versions
  /\ blobs \in [Blobs -> [state : {"none", "staged", "live", "pending_delete"},
                          deleteAfter : Int]]
  /\ objects \subseteq Blobs
  /\ commits \in [Requests -> [pc : {"idle", "probing"},
                               batch : SUBSET Mutations, todo : SUBSET Blobs,
                               missing : SUBSET Blobs,
                               forced : {"none", "before_restore"}]]
  /\ tx \in [owner : Requests \union {NoOne}, todo : SUBSET Mutations,
             next : Nat]
  /\ gc \in [pc : {"idle", "deleting", "deleted"}, due : SUBSET Blobs, now : Nat]
  /\ gcDueAt \in Int
  /\ purge \in [pc : {"idle", "collecting", "deleting", "deleted"},
                todo : SUBSET Blobs, blob : Blobs \union {NoBlob}, now : Nat]
  /\ purge.pc \in {"deleting", "deleted"} => purge.blob \in Blobs
  /\ puts \in [Puts -> [pc : {"idle", "uploading", "deleting", "aborting"},
                        blob : Blobs \union {NoBlob}]]
  /\ \A p \in Puts : puts[p].pc # "idle" => puts[p].blob \in Blobs

\* Every change of an entry has a place of its own in the feed, at or before
\* the head: a client that pages by updated_seq up to the head (entry-store
\* listEntryStates) meets each entry exactly once.
FeedInOrder ==
  /\ \A e \in Entries : entries[e].seq <= Head
  /\ \A e \in Entries : entries[e].revision > 0 <=> entries[e].seq > 0
  /\ \A e, f \in Entries :
       entries[e].seq = entries[f].seq /\ entries[e].seq > 0 => e = f

\* The state column, kept by hand on every path of the blob store, says
\* exactly which blobs the entries table refers to.
LiveIffReferenced ==
  \A b \in Blobs : blobs[b].state = "live" <=> Referenced(b)

\* As long as a version may be restored its blob's row is there, and no
\* upload has taken it over: staging, aborting, collecting and purging all
\* have to spare it.
HistoryKeepsBlob ==
  \A b \in Blobs : KeptByHistory(versions, b, now) =>
    blobs[b].state \in {"live", "pending_delete"}

\* storage_used_bytes, adjusted by increments and clipped decrements on six
\* paths, is the size of the blobs table.
UsedMatchesRows == used = Cardinality(Rows)

\* Behind every entry, and every version still kept, there is an object to
\* download.
NothingKeptIsMissing ==
  \A b \in Blobs : Referenced(b) \/ KeptByHistory(versions, b, now) => b \in objects

\* Rows that will have to be collected never wait without a job: stages,
\* commits and purges defer it, and a pass that removes it has seen the
\* tables empty of garbage.
GarbageIsScheduled ==
  Quiet /\ (versions # {} \/ \E b \in Rows : blobs[b].state # "live")
    => gcDueAt # NoTime

\* Once clients stop, everything unreferenced is collected and the history
\* runs out (the alarm keeps rescheduling itself until then).
GarbageIsCollected ==
  <>[](versions = {} /\ \A b \in Rows : blobs[b].state = "live")

\* What store/vault-lock.ts says a Durable Object gives for free: nothing
\* else touches the vault's storage between an await of a request and the
\* next one.
AwaitsAreIsolated ==
  [][\A r \in Requests :
       commits[r].pc = "probing" /\ commits'[r].pc = "probing" /\ tx'.owner # r
         => UNCHANGED db]_vars

Feed == INSTANCE ChangeFeed WITH
  head <- Head,
  feed <- entries

\* The entries table and the cursor implement the change feed that clients
\* are built on.
ImplementsFeed == Feed!Spec
=============================================================================
