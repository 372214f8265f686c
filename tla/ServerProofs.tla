---------------------------- MODULE ServerProofs ----------------------------
(***************************************************************************)
(* What is proved of the server for every value of its constants: of its   *)
(* coordinator, and of the parts beside it. A behaviour of MCServer is a   *)
(* behaviour of each of these parts: what is proved of Vaults is proved of *)
(* its instance V, and Host is spoken of through its instance H.           *)
(***************************************************************************)
EXTENDS MCServer, FiniteSetTheorems, TLAPS

-----------------------------------------------------------------------------
(* Arithmetic of the job's due date. *)

\* The end of a bucket is an integer.
LEMMA BucketEndType ==
  ASSUME NEW t \in Int
  PROVE  BucketEnd(t) \in Int
BY TimeAssumption DEF BucketEnd

\* The bucket of an instant of the clock ends at an instant of the clock.
LEMMA BucketEndNat ==
  ASSUME NEW t \in Nat
  PROVE  BucketEnd(t) \in Nat
<1>1. (t + GcBucket - 1) \div GcBucket \in Nat
  BY TimeAssumption
<1>2. \A q \in Nat : q * GcBucket \in Nat
  BY TimeAssumption
<1> QED BY <1>1, <1>2 DEF BucketEnd

\* Deferring the collection job stores an integer as its due date.
LEMMA DeferredType ==
  ASSUME NEW t \in Int, gcDueAt \in Int
  PROVE  Deferred(t) \in Int
BY BucketEndType DEF Deferred

\* The instants at which rows and versions ask for a pass are integers.
LEMMA GarbageTimesType ==
  ASSUME NEW bs \in [Blobs -> [state : {"none", "staged", "live", "pending_delete"},
                               deleteAfter : Int]],
         NEW vs, vs \subseteq Versions
  PROVE  GarbageTimes(bs, vs) \subseteq Int
BY DEF GarbageTimes, Versions

\* The date a handler defers the collection to is one the table can hold.
LEMMA DeferToNextType ==
  ASSUME TypeOK, DeferToNext
  PROVE  gcDueAt' \in Int
<1>1. GarbageTimes(blobs, versions) \subseteq Int
  BY GarbageTimesType DEF TypeOK
<1> QED BY <1>1, DeferredType DEF DeferToNext, Earliest, TypeOK

\* The date the alarm's run stores for the next pass is one the table can hold.
LEMMA RescheduleType ==
  ASSUME NEW bs \in [Blobs -> [state : {"none", "staged", "live", "pending_delete"},
                               deleteAfter : Int]],
         NEW vs, vs \subseteq Versions,
         Reschedule(bs, vs)
  PROVE  gcDueAt' \in Int
<1>1. GarbageTimes(bs, vs) \subseteq Int
  BY GarbageTimesType
<1> QED BY <1>1, BucketEndType DEF Reschedule, Earliest, NoTime

-----------------------------------------------------------------------------
(* Type correctness. *)

\* A commit begins with mutations of its own.
LEMMA BeginType ==
  ASSUME TypeOK, NEW r \in Requests, NEW batch \in SUBSET Mutations,
         NEW forced \in {"none", "before_restore"}, Begin(r, batch, forced)
  PROVE  TypeOK'
BY DEF TypeOK, Begin, BlobsOf, Mutations, db

\* A version kept in the history is one the table can hold.
LEMMA CapturedType ==
  ASSUME TypeOK, NEW r \in Requests, NEW m \in Mutations
  PROVE  Captured(r, m) \subseteq Versions
<1>1. (now \div AutoBucket) * AutoBucket \in Int
  BY TimeAssumption DEF TypeOK
<1> QED
  BY <1>1, TimeAssumption DEF TypeOK, Captured, Versions, Mutations, NoTime

\* Swapping the blobs of an entry leaves a row for every blob.
LEMMA SwapBlobsType ==
  ASSUME TypeOK, NEW m \in Mutations
  PROVE  SwapBlobs(m) \in [Blobs -> [state : {"none", "staged", "live", "pending_delete"},
                                     deleteAfter : Int]]
BY DEF TypeOK, SwapBlobs, NoTime

\* Every step of a handler leaves each variable in its type.
THEOREM TypeCorrect == Spec => []TypeOK
<1>1. Init => TypeOK
  BY NoOneAssumption
  DEF Init, TypeOK, IdleCommit, ClosedTx, IdleGc, IdlePurge, IdlePut, NoTime
<1>2. TypeOK /\ [Next]_vars => TypeOK'
  <2> SUFFICES ASSUME TypeOK, [Next]_vars PROVE TypeOK'
    OBVIOUS
  <2>1. CASE UNCHANGED vars
    BY <2>1 DEF TypeOK, vars, db, tasks
  <2>2. CASE Tick
    BY <2>2 DEF TypeOK, Tick, db, tasks
  <2>3. CASE ApplyVaultPolicy
    BY <2>3 DEF TypeOK, ApplyVaultPolicy, db, tasks
  <2>4. ASSUME NEW p \in Puts, NEW b \in Blobs, StageBlob(p, b) PROVE TypeOK'
    <3>1. gcDueAt' \in Int
      BY <2>4, DeferredType, TimeAssumption DEF StageBlob, TypeOK
    <3> QED BY <2>4, <3>1, TimeAssumption DEF TypeOK, StageBlob, tasks
  <2>5. ASSUME NEW p \in Puts, UploadSucceeds(p) PROVE TypeOK'
    BY <2>5, NoBlobAssumption DEF TypeOK, UploadSucceeds, db, tasks, IdlePut
  <2>6. ASSUME NEW p \in Puts, UploadFails(p) PROVE TypeOK'
    BY <2>6 DEF TypeOK, UploadFails, db, tasks
  <2>7. ASSUME NEW p \in Puts, BodyMismatches(p) PROVE TypeOK'
    BY <2>7 DEF TypeOK, BodyMismatches, db, tasks
  <2>8. ASSUME NEW p \in Puts, DeleteMismatched(p) PROVE TypeOK'
    BY <2>8 DEF TypeOK, DeleteMismatched, db, tasks
  <2>9. ASSUME NEW p \in Puts, AbortStagedBlob(p) PROVE TypeOK'
    <3>1. blobs' \in [Blobs -> [state : {"none", "staged", "live", "pending_delete"},
                                deleteAfter : Int]]
      BY <2>9 DEF TypeOK, AbortStagedBlob, NoRow, NoTime
    <3>2. used' \in Nat
      BY <2>9 DEF TypeOK, AbortStagedBlob, UsedLess
    <3> QED BY <2>9, <3>1, <3>2 DEF TypeOK, AbortStagedBlob, tasks, IdlePut
  <2>10. ASSUME NEW p \in Puts, UploadDies(p) PROVE TypeOK'
    BY <2>10 DEF TypeOK, UploadDies, db, tasks, IdlePut
  <2>11. ASSUME NEW r \in Requests, CommitMutations(r) PROVE TypeOK'
    <3>1. PICK chosen \in SUBSET Entries :
            \E target \in [chosen -> Blobs \union {NoBlob}] :
              Begin(r, {[entry |-> e, base |-> entries[e].revision, blob |-> target[e]] :
                          e \in chosen}, "none")
      BY <2>11 DEF CommitMutations
    <3>3. PICK target \in [chosen -> Blobs \union {NoBlob}] :
            Begin(r, {[entry |-> e, base |-> entries[e].revision, blob |-> target[e]] :
                        e \in chosen}, "none")
      BY <3>1
    <3>2. {[entry |-> e, base |-> entries[e].revision, blob |-> target[e]] :
             e \in chosen} \in SUBSET Mutations
      BY DEF Mutations, TypeOK
    <3> QED BY <3>2, <3>3, BeginType
  <2>12. ASSUME NEW r \in Requests, RestoreEntryVersions(r) PROVE TypeOK'
    <3>1. PICK chosen \in SUBSET {e \in Entries : entries[e].revision > 0} :
            \E target \in [chosen -> versions] :
              Begin(r, {[entry |-> e, base |-> entries[e].revision,
                         blob |-> target[e].blob] : e \in chosen}, "before_restore")
      BY <2>12 DEF RestoreEntryVersions
    <3>3. PICK target \in [chosen -> versions] :
            Begin(r, {[entry |-> e, base |-> entries[e].revision,
                       blob |-> target[e].blob] : e \in chosen}, "before_restore")
      BY <3>1
    <3>2. {[entry |-> e, base |-> entries[e].revision, blob |-> target[e].blob] :
             e \in chosen} \in SUBSET Mutations
      BY DEF Mutations, TypeOK, Versions
    <3> QED BY <3>2, <3>3, BeginType
  <2>13. ASSUME NEW r \in Requests, NEW b \in Blobs, ProbeBlob(r, b) PROVE TypeOK'
    <3>1. commits' \in [Requests -> [pc : {"idle", "probing"},
                               batch : SUBSET Mutations, todo : SUBSET Blobs,
                               missing : SUBSET Blobs,
                               forced : {"none", "before_restore"}]]
      BY <2>13 DEF TypeOK, ProbeBlob
    <3> QED BY <2>13, <3>1 DEF TypeOK, ProbeBlob, db
  <2>14. ASSUME NEW r \in Requests, ProbeFails(r) PROVE TypeOK'
    BY <2>14 DEF TypeOK, ProbeFails, db, IdleCommit
  <2>15. ASSUME NEW r \in Requests, OpenTransaction(r) PROVE TypeOK'
    BY <2>15 DEF TypeOK, OpenTransaction, db
  <2>16. ASSUME NEW m \in tx.todo, AcceptMutation(m) PROVE TypeOK'
    <3>1. m \in Mutations /\ tx.owner \in Requests
      BY <2>16 DEF TypeOK, AcceptMutation
    <3>2. versions' \subseteq Versions
      BY <2>16, <3>1, CapturedType DEF AcceptMutation, TypeOK
    <3>3. entries' \in [Entries -> [revision : Nat, blob : Blobs \union {NoBlob},
                                    seq : Nat]]
      BY <2>16, <3>1 DEF AcceptMutation, NewRow, TypeOK, Mutations
    <3>4. blobs' \in [Blobs -> [state : {"none", "staged", "live", "pending_delete"},
                                deleteAfter : Int]]
      BY <2>16, <3>1, SwapBlobsType DEF AcceptMutation
    <3>5. tx' \in [owner : Requests \union {NoOne}, todo : SUBSET Mutations,
                   next : Nat]
      BY <2>16 DEF AcceptMutation, TypeOK
    <3> QED BY <2>16, <3>2, <3>3, <3>4, <3>5 DEF AcceptMutation, TypeOK
  <2>17. ASSUME NEW m \in tx.todo, RejectMutation(m) PROVE TypeOK'
    BY <2>17 DEF TypeOK, RejectMutation, db
  <2>18. CASE CloseTransaction
    <3>1. gcDueAt' \in Int
      BY <2>18, DeferToNextType DEF CloseTransaction, TypeOK
    <3> QED BY <2>18, <3>1 DEF TypeOK, CloseTransaction, ClosedTx, IdleCommit
  <2>19. CASE RunGc
    <3>1. versions' \subseteq Versions
      BY <2>19 DEF RunGc, Unexpired, TypeOK
    <3>2. gcDueAt' \in Int
      BY <2>19, <3>1, RescheduleType DEF RunGc, TypeOK
    <3> QED BY <2>19, <3>1, <3>2 DEF TypeOK, RunGc, Batches
  <2>20. CASE GcDeletesObjects
    BY <2>20 DEF TypeOK, GcDeletesObjects, db
  <2>21. CASE GcFails
    BY <2>21, TimeAssumption DEF TypeOK, GcFails, db, IdleGc
  <2>22. CASE GcDeletesRows
    <3> DEFINE gone == {b \in gc.due : Collectible(b, gc.now)}
    <3>1. Cardinality(gone) \in Nat
      <4>1. gone \in SUBSET Blobs
        BY DEF TypeOK
      <4> QED BY <4>1, FiniteAssumption, FS_Subset, FS_CardinalityType
    <3>2. used' \in Nat
      BY <2>22, <3>1 DEF GcDeletesRows, UsedLess, TypeOK
    <3>3. blobs' \in [Blobs -> [state : {"none", "staged", "live", "pending_delete"},
                                deleteAfter : Int]]
      BY <2>22 DEF GcDeletesRows, TypeOK, NoRow, NoTime
    <3>4. gcDueAt' \in Int
      BY <2>22, <3>3, RescheduleType DEF GcDeletesRows, TypeOK
    <3> QED BY <2>22, <3>2, <3>3, <3>4 DEF TypeOK, GcDeletesRows, IdleGc
  <2>23. CASE PurgeDeletedEntries
    BY <2>23, NoBlobAssumption DEF TypeOK, PurgeDeletedEntries, Versions
  <2>24. ASSUME NEW b \in Blobs, CollectPurgedBlob(b) PROVE TypeOK'
    <3>1. blobs' \in [Blobs -> [state : {"none", "staged", "live", "pending_delete"},
                                deleteAfter : Int]]
      BY <2>24 DEF TypeOK, CollectPurgedBlob
    <3>2. purge' \in [pc : {"idle", "collecting", "deleting", "deleted"},
                      todo : SUBSET Blobs, blob : Blobs \union {NoBlob}, now : Nat]
      BY <2>24 DEF TypeOK, CollectPurgedBlob
    <3>3. purge'.pc \in {"deleting", "deleted"} => purge'.blob \in Blobs
      BY <2>24 DEF TypeOK, CollectPurgedBlob
    <3> QED BY <2>24, <3>1, <3>2, <3>3 DEF TypeOK, CollectPurgedBlob, Unexpired
  <2>25. CASE PurgeDeletesObject
    BY <2>25 DEF TypeOK, PurgeDeletesObject, db
  <2>26. CASE PurgeFailsToDelete
    BY <2>26 DEF TypeOK, PurgeFailsToDelete, db
  <2>27. CASE PurgeDeletesRow
    <3>1. blobs' \in [Blobs -> [state : {"none", "staged", "live", "pending_delete"},
                                deleteAfter : Int]]
      BY <2>27 DEF TypeOK, PurgeDeletesRow, NoRow, NoTime
    <3>2. used' \in Nat
      BY <2>27 DEF TypeOK, PurgeDeletesRow, UsedLess
    <3>3. purge' \in [pc : {"idle", "collecting", "deleting", "deleted"},
                      todo : SUBSET Blobs, blob : Blobs \union {NoBlob}, now : Nat]
      BY <2>27 DEF TypeOK, PurgeDeletesRow
    <3> QED BY <2>27, <3>1, <3>2, <3>3 DEF TypeOK, PurgeDeletesRow
  <2>28. CASE PurgeEnds
    BY <2>28, DeferToNextType DEF TypeOK, PurgeEnds, db, IdlePurge
  <2>29. CASE Restart
    BY <2>29 DEF TypeOK, Restart, db, IdleCommit, IdleGc, IdlePurge, IdlePut
  <2> QED
    BY <2>1, <2>2, <2>3, <2>4, <2>5, <2>6, <2>7, <2>8, <2>9, <2>10, <2>11,
       <2>12, <2>13, <2>14, <2>15, <2>16, <2>17, <2>18, <2>19, <2>20, <2>21,
       <2>22, <2>23, <2>24, <2>25, <2>26, <2>27, <2>28, <2>29
    DEF Next, Put, Commit, Transaction, Gc, Purge
<1> QED BY <1>1, <1>2, PTL DEF Spec

-----------------------------------------------------------------------------
(* What a step may touch. *)

\* Only a transaction moves the entries and the cursor.
LEMMA FeedFrame ==
  ASSUME [Next]_vars
  PROVE  \/ UNCHANGED <<entries, cursor, tx>>
         \/ \E r \in Requests : OpenTransaction(r)
         \/ \E m \in tx.todo : AcceptMutation(m)
         \/ \E m \in tx.todo : RejectMutation(m)
         \/ CloseTransaction
<1> USE DEF db, tasks
<1>1. CASE UNCHANGED vars
  BY <1>1 DEF vars
<1>2. CASE Tick \/ ApplyVaultPolicy \/ Restart
  BY <1>2 DEF Tick, ApplyVaultPolicy, Restart
<1>3. ASSUME NEW p \in Puts, Put(p)
      PROVE  UNCHANGED <<entries, cursor, tx>>
  BY <1>3 DEF Put, StageBlob, UploadSucceeds, UploadFails, BodyMismatches,
              DeleteMismatched, AbortStagedBlob, UploadDies
<1>4. ASSUME NEW r \in Requests, Commit(r)
      PROVE  UNCHANGED <<entries, cursor, tx>> \/ OpenTransaction(r)
  BY <1>4 DEF Commit, CommitMutations, RestoreEntryVersions, Begin, ProbeBlob,
              ProbeFails
<1>5. CASE Gc
  BY <1>5 DEF Gc, RunGc, GcDeletesObjects, GcFails, GcDeletesRows
<1>6. CASE Purge
  BY <1>6 DEF Purge, PurgeDeletedEntries, CollectPurgedBlob, PurgeDeletesObject,
              PurgeFailsToDelete, PurgeDeletesRow, PurgeEnds
<1>7. CASE Transaction
  BY <1>7 DEF Transaction
<1> QED BY <1>1, <1>2, <1>3, <1>4, <1>5, <1>6, <1>7 DEF Next

\* Only these steps touch the blobs table, its accounting and the entries.
LEMMA BlobFrame ==
  ASSUME [Next]_vars
  PROVE  \/ UNCHANGED <<entries, blobs, used>>
         \/ \E p \in Puts, b \in Blobs : StageBlob(p, b)
         \/ \E p \in Puts : AbortStagedBlob(p)
         \/ \E m \in tx.todo : AcceptMutation(m)
         \/ GcDeletesRows
         \/ \E b \in Blobs : CollectPurgedBlob(b)
         \/ PurgeDeletesRow
<1> USE DEF db, tasks
<1>1. CASE UNCHANGED vars
  BY <1>1 DEF vars
<1>2. CASE Tick \/ ApplyVaultPolicy \/ Restart
  BY <1>2 DEF Tick, ApplyVaultPolicy, Restart
<1>3. ASSUME NEW p \in Puts, Put(p)
      PROVE  \/ UNCHANGED <<entries, blobs, used>>
             \/ \E b \in Blobs : StageBlob(p, b)
             \/ AbortStagedBlob(p)
  BY <1>3 DEF Put, UploadSucceeds, UploadFails, BodyMismatches,
              DeleteMismatched, UploadDies
<1>4. ASSUME NEW r \in Requests, Commit(r)
      PROVE  UNCHANGED <<entries, blobs, used>>
  BY <1>4 DEF Commit, CommitMutations, RestoreEntryVersions, Begin, ProbeBlob,
              ProbeFails, OpenTransaction
<1>5. CASE Gc
  BY <1>5 DEF Gc, RunGc, GcDeletesObjects, GcFails
<1>6. CASE Purge
  BY <1>6 DEF Purge, PurgeDeletedEntries, PurgeDeletesObject,
              PurgeFailsToDelete, PurgeEnds
<1>7. CASE Transaction
  BY <1>7 DEF Transaction, RejectMutation, CloseTransaction
<1> QED BY <1>1, <1>2, <1>3, <1>4, <1>5, <1>6, <1>7 DEF Next

-----------------------------------------------------------------------------
(* The change feed. *)

\* FeedInOrder is inductive once the transaction's own counter is known to be
\* ahead of the stored cursor.
FeedInv == FeedInOrder /\ (tx.owner # NoOne => cursor <= tx.next)

\* A transaction hands out the positions after its counter, one by one, and no
\* other step touches the entries.
LEMMA FeedInvariant == Spec => []FeedInv
<1>1. Init => FeedInv
  BY DEF Init, FeedInv, FeedInOrder, Head, ClosedTx
<1>2. TypeOK /\ TypeOK' /\ FeedInv /\ [Next]_vars => FeedInv'
  <2> SUFFICES ASSUME TypeOK, TypeOK', FeedInv, [Next]_vars PROVE FeedInv'
    OBVIOUS
  <2> USE DEF FeedInv, FeedInOrder, Head
  <2>1. CASE UNCHANGED <<entries, cursor, tx>>
    BY <2>1
  <2>2. ASSUME NEW r \in Requests, OpenTransaction(r) PROVE FeedInv'
    BY <2>2, NoOneAssumption DEF OpenTransaction, Quiet, db, TypeOK
  <2>3. ASSUME NEW m \in tx.todo, AcceptMutation(m) PROVE FeedInv'
    <3>1. m.entry \in Entries /\ m.base \in Nat /\ tx.next \in Nat /\ cursor \in Nat
      BY DEF TypeOK, Mutations
    <3>2. entries' = [entries EXCEPT ![m.entry] =
            [revision |-> m.base + 1, blob |-> m.blob, seq |-> tx.next + 1]]
      BY <2>3 DEF AcceptMutation, NewRow
    <3>3. tx'.owner = tx.owner /\ tx'.next = tx.next + 1 /\ tx.owner # NoOne
          /\ cursor' = cursor
      BY <2>3 DEF AcceptMutation
    <3>4. \A e \in Entries : entries[e].seq \in Nat /\ entries[e].seq <= tx.next
      BY <3>3 DEF TypeOK
    <3> QED BY <3>1, <3>2, <3>3, <3>4 DEF TypeOK
  <2>4. ASSUME NEW m \in tx.todo, RejectMutation(m) PROVE FeedInv'
    BY <2>4 DEF RejectMutation, db, TypeOK
  <2>5. CASE CloseTransaction
    BY <2>5 DEF CloseTransaction, ClosedTx, TypeOK
  <2> QED BY <2>1, <2>2, <2>3, <2>4, <2>5, FeedFrame
<1> QED BY <1>1, <1>2, TypeCorrect, PTL DEF Spec

\* Every entry has a place of its own in the feed, none beyond the head.
THEOREM FeedIsOrdered == Spec => []FeedInOrder
<1>1. FeedInv => FeedInOrder
  BY DEF FeedInv
<1> QED BY <1>1, FeedInvariant, PTL

\* The detailed coordinator implements the abstract feed: accepting a mutation
\* is a change, and everything else stutters.
THEOREM FeedIsImplemented == Spec => ImplementsFeed
<1>1. Init => Feed!Init
  BY DEF Init, Feed!Init, Head, ClosedTx
<1>2. TypeOK /\ [Next]_vars => [Feed!Next]_(Feed!feedVars)
  <2> SUFFICES ASSUME TypeOK, [Next]_vars PROVE [Feed!Next]_(Feed!feedVars)
    OBVIOUS
  <2>1. CASE UNCHANGED <<entries, cursor, tx>>
    BY <2>1 DEF Feed!feedVars, Head
  <2>2. ASSUME NEW r \in Requests, OpenTransaction(r)
        PROVE  UNCHANGED Feed!feedVars
    BY <2>2 DEF OpenTransaction, Quiet, db, Feed!feedVars, Head
  <2>3. ASSUME NEW m \in tx.todo, AcceptMutation(m)
        PROVE  Feed!Next
    <3>1. m.entry \in Entries /\ m.blob \in Blobs \union {NoBlob}
      BY DEF TypeOK, Mutations
    <3>2. Feed!Change(m.entry, m.blob)
      BY <2>3, <3>1 DEF AcceptMutation, NewRow, Acceptable, Feed!Change, Head, TypeOK
    <3> QED BY <3>1, <3>2 DEF Feed!Next
  <2>4. ASSUME NEW m \in tx.todo, RejectMutation(m)
        PROVE  UNCHANGED Feed!feedVars
    BY <2>4 DEF RejectMutation, db, TypeOK, Feed!feedVars, Head
  <2>5. CASE CloseTransaction
    BY <2>5 DEF CloseTransaction, ClosedTx, Feed!feedVars, Head
  <2> QED BY <2>1, <2>2, <2>3, <2>4, <2>5, FeedFrame
<1> QED BY <1>1, <1>2, TypeCorrect, PTL DEF Spec, ImplementsFeed, Feed!Spec

-----------------------------------------------------------------------------
(* The blobs table. *)

\* The state column says which blobs the entries refer to.  It is inductive:
\* what a step takes away from the entries it marks, and no other step marks a
\* blob that has a reference.
THEOREM LiveIsReferenced == Spec => []LiveIffReferenced
<1>1. Init => LiveIffReferenced
  BY NoBlobAssumption DEF Init, LiveIffReferenced, Referenced
<1>2. TypeOK /\ LiveIffReferenced /\ [Next]_vars => LiveIffReferenced'
  <2> SUFFICES ASSUME TypeOK, LiveIffReferenced, [Next]_vars
               PROVE  LiveIffReferenced'
    OBVIOUS
  <2> USE DEF LiveIffReferenced, Referenced
  <2>1. CASE UNCHANGED <<entries, blobs, used>>
    BY <2>1
  <2>2. ASSUME NEW p \in Puts, NEW b \in Blobs, StageBlob(p, b)
        PROVE  LiveIffReferenced'
    <3>1. ~Referenced(b)
      BY <2>2 DEF StageBlob, Rows, Pinned
    <3> QED BY <2>2, <3>1 DEF StageBlob, TypeOK
  <2>3. ASSUME NEW p \in Puts, AbortStagedBlob(p) PROVE LiveIffReferenced'
    BY <2>3 DEF AbortStagedBlob, Abortable, NoRow, TypeOK
  <2>4. ASSUME NEW m \in tx.todo, AcceptMutation(m) PROVE LiveIffReferenced'
    <3>1. m.entry \in Entries /\ m.blob \in Blobs \union {NoBlob}
      BY DEF TypeOK, Mutations
    <3>2. \A e \in Entries :
            entries'[e].blob = IF e = m.entry THEN m.blob ELSE entries[e].blob
      BY <2>4, <3>1 DEF AcceptMutation, NewRow, TypeOK
    <3>3. blobs' = SwapBlobs(m)
      BY <2>4 DEF AcceptMutation
    <3> SUFFICES ASSUME NEW b \in Blobs
                 PROVE  blobs'[b].state = "live" <=> Referenced(b)'
      OBVIOUS
    <3>4. CASE b = m.blob
      BY <3>1, <3>2, <3>3, <3>4 DEF SwapBlobs
    <3>5. CASE b # m.blob /\ b = entries[m.entry].blob
      BY <3>1, <3>2, <3>3, <3>5 DEF SwapBlobs
    <3>6. CASE b # m.blob /\ b # entries[m.entry].blob
      BY <3>1, <3>2, <3>3, <3>6 DEF SwapBlobs
    <3> QED BY <3>4, <3>5, <3>6
  <2>5. CASE GcDeletesRows
    BY <2>5 DEF GcDeletesRows, Collectible, Pinned, NoRow, TypeOK
  <2>6. ASSUME NEW b \in Blobs, CollectPurgedBlob(b) PROVE LiveIffReferenced'
    BY <2>6 DEF CollectPurgedBlob, Pinned, TypeOK
  <2>7. CASE PurgeDeletesRow
    BY <2>7 DEF PurgeDeletesRow, Collectible, Pinned, NoRow, TypeOK
  <2> QED BY <2>1, <2>2, <2>3, <2>4, <2>5, <2>6, <2>7, BlobFrame
<1> QED BY <1>1, <1>2, TypeCorrect, PTL DEF Spec

\* storage_used_bytes is the size of the blobs table.
THEOREM UsedIsAccounted == Spec => []UsedMatchesRows
<1>1. Init => UsedMatchesRows
  <2> SUFFICES ASSUME Init PROVE Rows = {}
    BY FS_EmptySet DEF Init, UsedMatchesRows
  <2> QED BY DEF Init, Rows
<1>2. TypeOK /\ LiveIffReferenced /\ UsedMatchesRows /\ [Next]_vars
        => UsedMatchesRows'
  <2> SUFFICES ASSUME TypeOK, LiveIffReferenced, UsedMatchesRows, [Next]_vars
               PROVE  UsedMatchesRows'
    OBVIOUS
  <2> USE DEF UsedMatchesRows
  <2>0. IsFiniteSet(Rows) /\ Cardinality(Rows) \in Nat
    BY FiniteAssumption, FS_Subset, FS_CardinalityType DEF Rows
  <2>1. CASE UNCHANGED <<entries, blobs, used>>
    BY <2>1 DEF Rows
  <2>2. ASSUME NEW p \in Puts, NEW b \in Blobs, StageBlob(p, b)
        PROVE  UsedMatchesRows'
    <3>1. Rows' = Rows \union {b}
      BY <2>2 DEF StageBlob, Rows, TypeOK
    <3> QED BY <2>0, <2>2, <3>1, FS_AddElement DEF StageBlob
  <2>3. ASSUME NEW p \in Puts, AbortStagedBlob(p) PROVE UsedMatchesRows'
    <3> DEFINE b == puts[p].blob
    <3>1. CASE blobs[b].state = "staged" /\ ~Pinned(b, now)
      <4>1. b \in Rows
        BY <2>3, <3>1 DEF AbortStagedBlob, Rows, TypeOK
      <4>2. Rows' = Rows \ {b}
        BY <2>3, <3>1 DEF AbortStagedBlob, Abortable, Rows, TypeOK, NoRow
      <4>3. used' = UsedLess(1)
        BY <2>3, <3>1 DEF AbortStagedBlob, Abortable
      <4>4. Cardinality(Rows') = Cardinality(Rows) - 1 /\ Cardinality(Rows') \in Nat
        BY <2>0, <4>1, <4>2, FS_RemoveElement, FS_CardinalityType
      <4> QED BY <2>0, <4>3, <4>4 DEF UsedLess
    <3>2. CASE ~(blobs[b].state = "staged" /\ ~Pinned(b, now))
      BY <2>3, <3>2 DEF AbortStagedBlob, Abortable, Rows
    <3> QED BY <3>1, <3>2
  <2>4. ASSUME NEW m \in tx.todo, AcceptMutation(m) PROVE UsedMatchesRows'
    <3>1. m.entry \in Entries /\ m.blob \in Blobs \union {NoBlob}
      BY DEF TypeOK, Mutations
    <3>2. m.blob \in Blobs => m.blob \in Rows
      BY <2>4, NoBlobAssumption DEF AcceptMutation, Acceptable
    <3>3. entries[m.entry].blob \in Blobs => entries[m.entry].blob \in Rows
      BY <3>1 DEF LiveIffReferenced, Referenced, Rows
    <3>4. blobs' = SwapBlobs(m) /\ used' = used
      BY <2>4 DEF AcceptMutation
    <3>5. Rows' = Rows
      BY <3>2, <3>3, <3>4 DEF SwapBlobs, Rows
    <3> QED BY <3>4, <3>5
  <2>5. CASE GcDeletesRows
    <3> DEFINE gone == {b \in gc.due : Collectible(b, gc.now)}
    <3>1. gone \subseteq Rows
      BY DEF Collectible, Rows, TypeOK
    <3>2. Rows' = Rows \ gone
      BY <2>5 DEF GcDeletesRows, Rows, NoRow, TypeOK
    <3>3. used' = UsedLess(Cardinality(gone))
      BY <2>5 DEF GcDeletesRows
    <3>4. /\ IsFiniteSet(gone) /\ Cardinality(gone) \in Nat
          /\ Cardinality(gone) <= Cardinality(Rows)
      BY <2>0, <3>1, FS_Subset, FS_CardinalityType
    <3>5. Rows \cap gone = gone
      BY <3>1
    <3>6. Cardinality(Rows') = Cardinality(Rows) - Cardinality(gone)
      <4> HIDE DEF gone
      <4>1. Cardinality(Rows \ gone) = Cardinality(Rows) - Cardinality(Rows \cap gone)
        BY <2>0, FS_Difference
      <4> QED BY <3>2, <3>5, <4>1
    <3> HIDE DEF gone
    <3> QED BY <2>0, <3>3, <3>4, <3>6 DEF UsedLess
  <2>6. ASSUME NEW b \in Blobs, CollectPurgedBlob(b) PROVE UsedMatchesRows'
    <3>1. Rows' = Rows
      BY <2>6 DEF CollectPurgedBlob, Rows, TypeOK
    <3> QED BY <2>6, <3>1 DEF CollectPurgedBlob
  <2>7. CASE PurgeDeletesRow
    <3> DEFINE b == purge.blob
    <3>1. CASE Collectible(b, purge.now)
      <4>1. b \in Rows
        BY <2>7, <3>1 DEF PurgeDeletesRow, Collectible, Rows, TypeOK
      <4>2. Rows' = Rows \ {b}
        BY <2>7, <3>1 DEF PurgeDeletesRow, Rows, TypeOK, NoRow
      <4>3. used' = UsedLess(1)
        BY <2>7, <3>1 DEF PurgeDeletesRow
      <4>4. Cardinality(Rows') = Cardinality(Rows) - 1 /\ Cardinality(Rows') \in Nat
        BY <2>0, <4>1, <4>2, FS_RemoveElement, FS_CardinalityType
      <4> QED BY <2>0, <4>3, <4>4 DEF UsedLess
    <3>2. CASE ~Collectible(b, purge.now)
      BY <2>7, <3>2 DEF PurgeDeletesRow, Rows
    <3> QED BY <3>1, <3>2
  <2> QED BY <2>1, <2>2, <2>3, <2>4, <2>5, <2>6, <2>7, BlobFrame
<1> QED BY <1>1, <1>2, TypeCorrect, LiveIsReferenced, PTL DEF Spec

-----------------------------------------------------------------------------
(* The history. *)

\* A pass and a purge judge expiry by an instant that has come.
TimesInv == gc.now <= now /\ purge.now <= now

\* The instant a pass or a purge works with is one the clock has shown.
LEMMA TimesInvariant == Spec => []TimesInv
<1>1. Init => TimesInv
  BY DEF Init, TimesInv, IdleGc, IdlePurge
<1>2. TypeOK /\ TimesInv /\ [Next]_vars => TimesInv'
  <2> SUFFICES ASSUME TypeOK, TimesInv, [Next]_vars PROVE TimesInv'
    OBVIOUS
  <2> USE DEF TimesInv
  <2>1. CASE UNCHANGED vars
    BY <2>1 DEF vars, tasks
  <2>2. CASE Tick
    BY <2>2 DEF Tick, tasks, TypeOK
  <2>3. CASE ApplyVaultPolicy
    BY <2>3 DEF ApplyVaultPolicy, tasks
  <2>4. ASSUME NEW p \in Puts, Put(p) PROVE TimesInv'
    BY <2>4 DEF Put, StageBlob, UploadSucceeds, UploadFails, BodyMismatches,
                DeleteMismatched, AbortStagedBlob, UploadDies, tasks
  <2>5. ASSUME NEW r \in Requests, Commit(r) PROVE TimesInv'
    BY <2>5 DEF Commit, CommitMutations, RestoreEntryVersions, Begin, ProbeBlob,
                ProbeFails, OpenTransaction
  <2>6. CASE Transaction
    BY <2>6 DEF Transaction, AcceptMutation, RejectMutation, CloseTransaction
  <2>7. CASE RunGc
    <3> DEFINE ready == {b \in Blobs : Collectible(b, now)}
    <3>1. \/ gc' = gc
          \/ gc' \in {[pc |-> "deleting", due |-> due, now |-> now] :
                        due \in Batches(ready)}
      BY <2>7 DEF RunGc
    <3>2. gc' = gc \/ gc'.now = now
      <4> HIDE DEF ready
      <4> QED BY <3>1
    <3>3. now' = now /\ purge' = purge
      BY <2>7 DEF RunGc
    <3> QED BY <3>2, <3>3 DEF TypeOK
  <2>8. CASE GcDeletesObjects \/ GcFails \/ GcDeletesRows
    BY <2>8 DEF GcDeletesObjects, GcFails, GcDeletesRows, IdleGc, TypeOK
  <2>9. CASE PurgeDeletedEntries
    BY <2>9 DEF PurgeDeletedEntries, TypeOK
  <2>10. ASSUME NEW b \in Blobs, CollectPurgedBlob(b) PROVE TimesInv'
    BY <2>10 DEF CollectPurgedBlob, TypeOK
  <2>11. CASE PurgeDeletesObject \/ PurgeFailsToDelete \/ PurgeDeletesRow \/ PurgeEnds
    <3>1. PurgeDeletesObject => purge'.now = purge.now
      BY DEF PurgeDeletesObject, TypeOK
    <3>2. PurgeFailsToDelete => purge'.now = purge.now
      BY DEF PurgeFailsToDelete, TypeOK
    <3>3. PurgeDeletesRow => purge'.now = purge.now
      BY DEF PurgeDeletesRow, TypeOK
    <3>4. PurgeEnds => purge'.now = 0
      BY DEF PurgeEnds, IdlePurge
    <3>5. now' = now /\ gc' = gc
      BY <2>11 DEF PurgeDeletesObject, PurgeFailsToDelete, PurgeDeletesRow,
                   PurgeEnds
    <3> QED BY <2>11, <3>1, <3>2, <3>3, <3>4, <3>5 DEF TypeOK
  <2>12. CASE Restart
    BY <2>12 DEF Restart, IdleGc, IdlePurge, TypeOK
  <2> QED BY <2>1, <2>2, <2>3, <2>4, <2>5, <2>6, <2>7, <2>8, <2>9, <2>10, <2>11,
             <2>12 DEF Next, Gc, Purge
<1> QED BY <1>1, <1>2, TypeCorrect, PTL DEF Spec

\* Only these steps touch the history, the blobs it keeps or the clock.
LEMMA HistoryFrame ==
  ASSUME [Next]_vars
  PROVE  \/ UNCHANGED <<versions, blobs, now>>
         \/ Tick
         \/ \E p \in Puts, b \in Blobs : StageBlob(p, b)
         \/ \E p \in Puts : AbortStagedBlob(p)
         \/ \E m \in tx.todo : AcceptMutation(m)
         \/ RunGc \/ GcDeletesRows
         \/ PurgeDeletedEntries
         \/ \E b \in Blobs : CollectPurgedBlob(b)
         \/ PurgeDeletesRow
<1> USE DEF db, tasks
<1>1. CASE UNCHANGED vars
  BY <1>1 DEF vars
<1>2. CASE ApplyVaultPolicy \/ Restart
  BY <1>2 DEF ApplyVaultPolicy, Restart
<1>3. ASSUME NEW p \in Puts, Put(p)
      PROVE  \/ UNCHANGED <<versions, blobs, now>>
             \/ \E b \in Blobs : StageBlob(p, b)
             \/ AbortStagedBlob(p)
  BY <1>3 DEF Put, UploadSucceeds, UploadFails, BodyMismatches,
              DeleteMismatched, UploadDies
<1>4. ASSUME NEW r \in Requests, Commit(r)
      PROVE  UNCHANGED <<versions, blobs, now>>
  BY <1>4 DEF Commit, CommitMutations, RestoreEntryVersions, Begin, ProbeBlob,
              ProbeFails, OpenTransaction
<1>5. CASE GcDeletesObjects \/ GcFails
  BY <1>5 DEF GcDeletesObjects, GcFails
<1>6. CASE PurgeDeletesObject \/ PurgeFailsToDelete \/ PurgeEnds
  BY <1>6 DEF PurgeDeletesObject, PurgeFailsToDelete, PurgeEnds
<1>7. ASSUME NEW m \in tx.todo, RejectMutation(m)
      PROVE  UNCHANGED <<versions, blobs, now>>
  BY <1>7 DEF RejectMutation
<1>8. CASE CloseTransaction
  BY <1>8 DEF CloseTransaction
<1> QED BY <1>1, <1>2, <1>3, <1>4, <1>5, <1>6, <1>7, <1>8
        DEF Next, Transaction, Gc, Purge

\* A version that may be restored has its blob's row, and the row is not up
\* for staging.
THEOREM HistoryIsKept == Spec => []HistoryKeepsBlob
<1>1. Init => HistoryKeepsBlob
  BY DEF Init, HistoryKeepsBlob, KeptByHistory
<1>2. /\ TypeOK /\ TypeOK' /\ TimesInv /\ LiveIffReferenced /\ HistoryKeepsBlob
      /\ [Next]_vars
      => HistoryKeepsBlob'
  <2> SUFFICES ASSUME TypeOK, TypeOK', TimesInv, LiveIffReferenced,
                      HistoryKeepsBlob, [Next]_vars,
                      NEW b \in Blobs, KeptByHistory(versions, b, now)'
               PROVE  blobs'[b].state \in {"live", "pending_delete"}
    BY DEF HistoryKeepsBlob
  <2>v. PICK v \in versions' : v.blob = b /\ v.expires > now'
    BY DEF KeptByHistory
  <2>k. v \in versions /\ v.expires > now => blobs[b].state \in {"live", "pending_delete"}
    BY <2>v DEF HistoryKeepsBlob, KeptByHistory
  <2>n. now \in Nat /\ now' \in Nat /\ v.expires \in Nat
    BY DEF TypeOK, Versions
  <2>1. CASE UNCHANGED <<versions, blobs, now>>
    BY <2>1, <2>v, <2>k
  <2>2. CASE Tick
    BY <2>2, <2>v, <2>k, <2>n DEF Tick, db
  <2>3. ASSUME NEW p \in Puts, NEW c \in Blobs, StageBlob(p, c)
        PROVE  blobs'[b].state \in {"live", "pending_delete"}
    <3>1. v \in versions /\ v.expires > now
      BY <2>3, <2>v DEF StageBlob
    <3>2. Pinned(b, now) /\ b \in Rows
      BY <3>1, <2>v, <2>k DEF Pinned, KeptByHistory, Rows
    <3>3. b # c
      BY <2>3, <3>2 DEF StageBlob
    <3> QED BY <2>3, <2>k, <3>1, <3>3 DEF StageBlob, TypeOK
  <2>4. ASSUME NEW p \in Puts, AbortStagedBlob(p)
        PROVE  blobs'[b].state \in {"live", "pending_delete"}
    <3>1. v \in versions /\ v.expires > now
      BY <2>4, <2>v DEF AbortStagedBlob
    <3> QED BY <2>4, <2>k, <3>1 DEF AbortStagedBlob, Abortable, TypeOK
  <2>5. ASSUME NEW m \in tx.todo, AcceptMutation(m)
        PROVE  blobs'[b].state \in {"live", "pending_delete"}
    <3>1. m.entry \in Entries /\ m.blob \in Blobs \union {NoBlob}
      BY DEF TypeOK, Mutations
    <3>2. blobs' = SwapBlobs(m) /\ versions' = versions \union Captured(tx.owner, m)
          /\ now' = now
      BY <2>5 DEF AcceptMutation
    <3>3. CASE v \in versions
      BY <3>2, <3>3, <2>v, <2>k DEF SwapBlobs
    <3>4. CASE v \in Captured(tx.owner, m)
      <4>1. b = entries[m.entry].blob \/ b = m.blob
        BY <3>4, <2>v DEF Captured
      <4>2. b = entries[m.entry].blob => blobs[b].state = "live"
        BY <3>1 DEF LiveIffReferenced, Referenced
      <4> QED BY <3>2, <4>1, <4>2 DEF SwapBlobs
    <3> QED BY <3>2, <3>3, <3>4
  <2>6. CASE RunGc
    BY <2>6, <2>v, <2>k DEF RunGc, Unexpired
  <2>7. CASE GcDeletesRows
    <3>1. v \in versions /\ v.expires > now
      BY <2>7, <2>v DEF GcDeletesRows
    <3>2. v.expires > gc.now
      BY <3>1, <2>n DEF TimesInv, TypeOK
    <3>3. ~Collectible(b, gc.now)
      BY <3>1, <3>2, <2>v DEF Collectible, Pinned, KeptByHistory
    <3> QED BY <2>7, <2>k, <3>1, <3>3 DEF GcDeletesRows
  <2>8. CASE PurgeDeletedEntries
    BY <2>8, <2>v, <2>k DEF PurgeDeletedEntries
  <2>9. ASSUME NEW c \in Blobs, CollectPurgedBlob(c)
        PROVE  blobs'[b].state \in {"live", "pending_delete"}
    <3>1. v \in versions /\ v.expires > now
      BY <2>9, <2>v DEF CollectPurgedBlob, Unexpired
    <3> QED BY <2>9, <2>k, <3>1 DEF CollectPurgedBlob, TypeOK
  <2>10. CASE PurgeDeletesRow
    <3>1. v \in versions /\ v.expires > now
      BY <2>10, <2>v DEF PurgeDeletesRow
    <3>2. v.expires > purge.now
      BY <3>1, <2>n DEF TimesInv, TypeOK
    <3>3. ~Collectible(b, purge.now)
      BY <3>1, <3>2, <2>v DEF Collectible, Pinned, KeptByHistory
    <3> QED BY <2>10, <2>k, <3>1, <3>3 DEF PurgeDeletesRow, TypeOK
  <2> QED BY <2>1, <2>2, <2>3, <2>4, <2>5, <2>6, <2>7, <2>8, <2>9, <2>10, HistoryFrame
<1> QED BY <1>1, <1>2, TypeCorrect, TimesInvariant, LiveIsReferenced, PTL DEF Spec

-----------------------------------------------------------------------------
(* The garbage collection job. *)

Garbage == versions # {} \/ \E b \in Blobs : blobs[b].state \in {"staged", "pending_delete"}

\* What waits for collection has an instant to wait for.
DeadlinesSet ==
  \A b \in Blobs :
    blobs[b].state \in {"staged", "pending_delete"} => blobs[b].deleteAfter \in Nat

\* GarbageIsScheduled is inductive once it says that an open transaction that
\* made garbage is going to schedule it.
ScheduleInv ==
  /\ DeadlinesSet
  /\ Garbage => \/ gcDueAt # NoTime
                \/ tx.owner # NoOne /\ tx.next > cursor

\* Garbage yields instants to schedule, provided live means referenced.
LEMMA GarbageHasTimes ==
  ASSUME NEW bs \in [Blobs -> [state : {"none", "staged", "live", "pending_delete"},
                               deleteAfter : Int]],
         NEW vs, vs \subseteq Versions,
         \A b \in Blobs : bs[b].state \in {"staged", "pending_delete"}
                            => bs[b].deleteAfter \in Nat /\ ~Referenced(b)
  PROVE  /\ GarbageTimes(bs, vs) \subseteq Nat
         /\ (vs # {} \/ \E b \in Blobs : bs[b].state \in {"staged", "pending_delete"})
              => GarbageTimes(bs, vs) # {}
<1>1. GarbageTimes(bs, vs) \subseteq Nat
  BY DEF GarbageTimes, Versions
<1>2. vs # {} => GarbageTimes(bs, vs) # {}
  BY DEF GarbageTimes
<1>3. ASSUME NEW b \in Blobs, bs[b].state = "staged"
      PROVE  GarbageTimes(bs, vs) # {}
  BY <1>3 DEF GarbageTimes
<1>4. ASSUME NEW b \in Blobs, bs[b].state = "pending_delete", vs = {}
      PROVE  GarbageTimes(bs, vs) # {}
  <2>1. ~Referenced(b) /\ ~KeptByHistory(vs, b, now)
    BY <1>4 DEF KeptByHistory
  <2> QED BY <1>4, <2>1 DEF GarbageTimes
<1> QED BY <1>1, <1>2, <1>3, <1>4

\* A due date computed from an instant of the clock is not the absence of one.
LEMMA EarliestGivesDate ==
  ASSUME NEW times, times \subseteq Nat, NEW t \in Earliest(times)
  PROVE  BucketEnd(t) # NoTime /\ Deferred(t) # NoTime
BY BucketEndNat DEF Earliest, Deferred, NoTime

\* Only these steps touch the garbage, its job or the transaction.
LEMMA ScheduleFrame ==
  ASSUME [Next]_vars
  PROVE  \/ UNCHANGED <<entries, versions, blobs, gcDueAt, tx, cursor>>
         \/ \E p \in Puts, b \in Blobs : StageBlob(p, b)
         \/ \E p \in Puts : AbortStagedBlob(p)
         \/ \E r \in Requests : OpenTransaction(r)
         \/ \E m \in tx.todo : AcceptMutation(m)
         \/ \E m \in tx.todo : RejectMutation(m)
         \/ CloseTransaction
         \/ RunGc \/ GcFails \/ GcDeletesRows
         \/ PurgeDeletedEntries
         \/ \E b \in Blobs : CollectPurgedBlob(b)
         \/ PurgeDeletesRow \/ PurgeEnds
<1> USE DEF db, tasks
<1>1. CASE UNCHANGED vars
  BY <1>1 DEF vars
<1>2. CASE Tick \/ ApplyVaultPolicy \/ Restart
  BY <1>2 DEF Tick, ApplyVaultPolicy, Restart
<1>3. ASSUME NEW p \in Puts, Put(p)
      PROVE  \/ UNCHANGED <<entries, versions, blobs, gcDueAt, tx, cursor>>
             \/ \E b \in Blobs : StageBlob(p, b)
             \/ AbortStagedBlob(p)
  BY <1>3 DEF Put, UploadSucceeds, UploadFails, BodyMismatches,
              DeleteMismatched, UploadDies
<1>4. ASSUME NEW r \in Requests, Commit(r)
      PROVE  \/ UNCHANGED <<entries, versions, blobs, gcDueAt, tx, cursor>>
             \/ OpenTransaction(r)
  BY <1>4 DEF Commit, CommitMutations, RestoreEntryVersions, Begin, ProbeBlob,
              ProbeFails
<1>5. CASE GcDeletesObjects
  BY <1>5 DEF GcDeletesObjects
<1>6. CASE PurgeDeletesObject \/ PurgeFailsToDelete
  BY <1>6 DEF PurgeDeletesObject, PurgeFailsToDelete
<1> QED BY <1>1, <1>2, <1>3, <1>4, <1>5, <1>6 DEF Next, Transaction, Gc, Purge

\* No step leaves garbage behind without a job that will look for it.
THEOREM GarbageStaysScheduled == Spec => []GarbageIsScheduled
<1>1. Init => ScheduleInv
  BY DEF Init, ScheduleInv, DeadlinesSet, Garbage
<1>2. TypeOK /\ TypeOK' /\ FeedInv /\ LiveIffReferenced /\ LiveIffReferenced'
        /\ ScheduleInv /\ [Next]_vars
      => ScheduleInv'
  <2> SUFFICES ASSUME TypeOK, TypeOK', FeedInv, LiveIffReferenced,
                      LiveIffReferenced', ScheduleInv, [Next]_vars
               PROVE  ScheduleInv'
    OBVIOUS
  <2> USE DEF ScheduleInv
  <2>1. CASE UNCHANGED <<entries, versions, blobs, gcDueAt, tx, cursor>>
    BY <2>1 DEF DeadlinesSet, Garbage
  <2>2. ASSUME NEW p \in Puts, NEW b \in Blobs, StageBlob(p, b) PROVE ScheduleInv'
    <3>1. now + Grace \in Nat
      BY TimeAssumption DEF TypeOK
    <3>2. gcDueAt' # NoTime
      BY <2>2, <3>1, BucketEndNat DEF StageBlob, Deferred, NoTime
    <3>3. DeadlinesSet'
      BY <2>2, <3>1 DEF StageBlob, DeadlinesSet, TypeOK
    <3> QED BY <3>2, <3>3
  <2>3. ASSUME NEW p \in Puts, AbortStagedBlob(p) PROVE ScheduleInv'
    <3>1. \A b \in Blobs : blobs'[b] = blobs[b] \/ blobs'[b].state = "none"
      BY <2>3 DEF AbortStagedBlob, NoRow, TypeOK
    <3>2. UNCHANGED <<versions, gcDueAt, tx, cursor>>
      BY <2>3 DEF AbortStagedBlob, tasks
    <3> QED BY <3>1, <3>2 DEF DeadlinesSet, Garbage
  <2>4. ASSUME NEW r \in Requests, OpenTransaction(r) PROVE ScheduleInv'
    BY <2>4 DEF OpenTransaction, Quiet, db, DeadlinesSet, Garbage
  <2>5. ASSUME NEW m \in tx.todo, AcceptMutation(m) PROVE ScheduleInv'
    <3>1. blobs' = SwapBlobs(m) /\ now \in Nat
      BY <2>5 DEF AcceptMutation, TypeOK
    <3>2. DeadlinesSet'
      BY <3>1 DEF SwapBlobs, DeadlinesSet
    <3>3. tx'.owner # NoOne /\ tx'.next > cursor'
      BY <2>5 DEF AcceptMutation, FeedInv, TypeOK
    <3> QED BY <3>2, <3>3
  <2>6. ASSUME NEW m \in tx.todo, RejectMutation(m) PROVE ScheduleInv'
    BY <2>6 DEF RejectMutation, db, DeadlinesSet, Garbage, TypeOK
  <2>7. CASE CloseTransaction
    <3>1. UNCHANGED <<entries, versions, blobs>>
      BY <2>7 DEF CloseTransaction
    <3>2. CASE tx.next > cursor
      <4>1. DeferToNext
        BY <2>7, <3>2 DEF CloseTransaction
      <4>2. GarbageTimes(blobs, versions) \subseteq Nat
            /\ (Garbage => GarbageTimes(blobs, versions) # {})
        <5>1. \A b \in Blobs : blobs[b].state \in {"staged", "pending_delete"}
                                 => blobs[b].deleteAfter \in Nat /\ ~Referenced(b)
          BY DEF DeadlinesSet, LiveIffReferenced
        <5>2. /\ versions \subseteq Versions
              /\ blobs \in [Blobs -> [state : {"none", "staged", "live", "pending_delete"},
                                      deleteAfter : Int]]
          BY DEF TypeOK
        <5> QED BY <5>1, <5>2, GarbageHasTimes DEF Garbage
      <4>3. Garbage => gcDueAt' # NoTime
        BY <4>1, <4>2, EarliestGivesDate DEF DeferToNext
      <4> QED BY <3>1, <4>3 DEF DeadlinesSet, Garbage
    <3>3. CASE ~(tx.next > cursor)
      BY <2>7, <3>1, <3>3 DEF CloseTransaction, DeadlinesSet, Garbage
    <3> QED BY <3>2, <3>3
  <2>8. CASE RunGc
    <3>1. versions' \subseteq Versions /\ UNCHANGED <<entries, blobs, now>>
      BY <2>8 DEF RunGc, TypeOK
    <3>2. GarbageTimes(blobs, versions') \subseteq Nat
          /\ (Garbage' => GarbageTimes(blobs, versions') # {})
      <4> DEFINE vs == versions'
      <4>1. \A b \in Blobs : blobs[b].state \in {"staged", "pending_delete"}
                                => blobs[b].deleteAfter \in Nat /\ ~Referenced(b)
        BY DEF DeadlinesSet, LiveIffReferenced
      <4>2. vs \subseteq Versions
        BY <3>1
      <4>3. Garbage' => vs # {} \/ \E b \in Blobs : blobs[b].state \in {"staged", "pending_delete"}
        BY <3>1 DEF Garbage
      <4> HIDE DEF vs
      <4>4. /\ GarbageTimes(blobs, vs) \subseteq Nat
            /\ (vs # {} \/ \E b \in Blobs : blobs[b].state \in {"staged", "pending_delete"})
                 => GarbageTimes(blobs, vs) # {}
        BY ZenonT(30), <4>1, <4>2, GarbageHasTimes DEF TypeOK
      <4> QED BY <4>3, <4>4 DEF vs
    <3>3. Reschedule(blobs, versions') \/ (gcDueAt' = gcDueAt /\ gcDueAt # NoTime)
      BY <2>8 DEF RunGc, AlarmFires
    <3>4. Garbage' => gcDueAt' # NoTime
      BY <3>2, <3>3, EarliestGivesDate DEF Reschedule
    <3> QED BY <3>1, <3>4 DEF DeadlinesSet
  <2>9. CASE GcFails
    <3>1. gcDueAt' # NoTime
      BY <2>9, TimeAssumption DEF GcFails, NoTime, TypeOK
    <3> QED BY <2>9, <3>1 DEF GcFails, db, DeadlinesSet
  <2>10. CASE GcDeletesRows
    <3>1. \A b \in Blobs : blobs'[b] = blobs[b] \/ blobs'[b].state = "none"
      BY <2>10 DEF GcDeletesRows, NoRow
    <3>2. DeadlinesSet' /\ UNCHANGED <<entries, versions, now>>
      BY <2>10, <3>1 DEF GcDeletesRows, DeadlinesSet
    <3>3. \A b \in Blobs : blobs'[b].state \in {"staged", "pending_delete"}
                              => blobs'[b].deleteAfter \in Nat /\ ~Referenced(b)
      BY <3>1, <3>2 DEF DeadlinesSet, LiveIffReferenced
    <3>4. GarbageTimes(blobs', versions) \subseteq Nat
          /\ (Garbage' => GarbageTimes(blobs', versions) # {})
      <4> DEFINE bs == blobs'
      <4>1. bs \in [Blobs -> [state : {"none", "staged", "live", "pending_delete"},
                              deleteAfter : Int]]
        BY DEF TypeOK
      <4>2. Garbage' => versions # {} \/ \E b \in Blobs : bs[b].state \in {"staged", "pending_delete"}
        BY <3>2 DEF Garbage
      <4>3. \A b \in Blobs : bs[b].state \in {"staged", "pending_delete"}
                                => bs[b].deleteAfter \in Nat /\ ~Referenced(b)
        BY <3>3
      <4> HIDE DEF bs
      <4>4. /\ GarbageTimes(bs, versions) \subseteq Nat
            /\ (versions # {} \/ \E b \in Blobs : bs[b].state \in {"staged", "pending_delete"})
                 => GarbageTimes(bs, versions) # {}
        BY <4>1, <4>3, GarbageHasTimes DEF TypeOK
      <4> QED BY <4>2, <4>4 DEF bs
    <3>5. Reschedule(blobs', versions)
      BY <2>10 DEF GcDeletesRows
    <3> QED BY <3>2, <3>4, <3>5, EarliestGivesDate DEF Reschedule
  <2>11. CASE PurgeDeletedEntries
    BY <2>11 DEF PurgeDeletedEntries, DeadlinesSet, Garbage
  <2>12. ASSUME NEW b \in Blobs, CollectPurgedBlob(b) PROVE ScheduleInv'
    <3>1. DeadlinesSet'
      BY <2>12 DEF CollectPurgedBlob, DeadlinesSet, TypeOK
    <3>2. blobs[b].state = "live" => blobs' = blobs
      BY <2>12 DEF CollectPurgedBlob, Pinned, LiveIffReferenced
    <3>3. Garbage' => Garbage
      BY <2>12, <3>2 DEF CollectPurgedBlob, Unexpired, Garbage, TypeOK
    <3>4. UNCHANGED <<gcDueAt, tx, cursor>>
      BY <2>12 DEF CollectPurgedBlob
    <3> QED BY <3>1, <3>3, <3>4
  <2>13. CASE PurgeDeletesRow
    <3>1. \A b \in Blobs : blobs'[b] = blobs[b] \/ blobs'[b].state = "none"
      BY <2>13 DEF PurgeDeletesRow, NoRow, TypeOK
    <3> QED BY <2>13, <3>1 DEF PurgeDeletesRow, DeadlinesSet, Garbage
  <2>14. CASE PurgeEnds
    <3>1. UNCHANGED <<entries, versions, blobs, tx, cursor>> /\ DeferToNext
      BY <2>14 DEF PurgeEnds, db
    <3>2. GarbageTimes(blobs, versions) \subseteq Nat
      BY GarbageHasTimes DEF TypeOK, DeadlinesSet, LiveIffReferenced
    <3>3. gcDueAt # NoTime => gcDueAt' # NoTime
      BY <3>1, <3>2, EarliestGivesDate DEF DeferToNext
    <3> QED BY <3>1, <3>3 DEF DeadlinesSet, Garbage
  <2> QED BY <2>1, <2>2, <2>3, <2>4, <2>5, <2>6, <2>7, <2>8, <2>9, <2>10, <2>11,
             <2>12, <2>13, <2>14, ScheduleFrame
<1>3. TypeOK /\ ScheduleInv => GarbageIsScheduled
  BY DEF TypeOK, ScheduleInv, GarbageIsScheduled, Garbage, Quiet, Rows
<1> QED BY <1>1, <1>2, <1>3, TypeCorrect, FeedInvariant, LiveIsReferenced, PTL DEF Spec

-----------------------------------------------------------------------------
(* The vault's lock. *)

\* Under the lock at most one handler is between its awaits, and a transaction
\* belongs to it.
OneHandler ==
  /\ \A r, s \in Requests :
       commits[r].pc # "idle" /\ commits[s].pc # "idle" => r = s
  /\ gc.pc # "idle" => purge.pc = "idle"
  /\ (gc.pc # "idle" \/ purge.pc # "idle") =>
       \A r \in Requests : commits[r].pc = "idle"
  /\ tx.owner # NoOne => commits[tx.owner].pc = "probing"

\* Only these steps start or end a handler.
LEMMA HandlerFrame ==
  ASSUME TypeOK, [Next]_vars
  PROVE  \/ UNCHANGED tasks
         \/ \E r \in Requests : CommitMutations(r) \/ RestoreEntryVersions(r)
         \/ \E r \in Requests, b \in Blobs : ProbeBlob(r, b)
         \/ \E r \in Requests : ProbeFails(r) \/ OpenTransaction(r)
         \/ \E m \in tx.todo : AcceptMutation(m) \/ RejectMutation(m)
         \/ CloseTransaction
         \/ Gc
         \/ Purge
         \/ Restart
<1>1. CASE UNCHANGED vars
  BY <1>1 DEF vars, tasks
<1>2. CASE Tick \/ ApplyVaultPolicy
  BY <1>2 DEF Tick, ApplyVaultPolicy
<1>3. ASSUME NEW p \in Puts, Put(p) PROVE UNCHANGED tasks
  BY <1>3 DEF Put, StageBlob, UploadSucceeds, UploadFails, BodyMismatches,
              DeleteMismatched, AbortStagedBlob, UploadDies
<1> QED BY <1>1, <1>2, <1>3 DEF Next, Commit, Transaction

\* Under the lock, whoever is inside a handler holds the lock, and there is one of them.
LEMMA OneHandlerInvariant == ASSUME Serialized PROVE Spec => []OneHandler
<1>1. Init => OneHandler
  BY DEF Init, OneHandler, IdleCommit, IdleGc, IdlePurge, ClosedTx
<1>2. TypeOK /\ TypeOK' /\ OneHandler /\ [Next]_vars => OneHandler'
  <2> SUFFICES ASSUME TypeOK, TypeOK', OneHandler, [Next]_vars PROVE OneHandler'
    OBVIOUS
  <2> USE DEF OneHandler
  <2>1. CASE UNCHANGED tasks
    BY <2>1 DEF tasks
  <2>2. ASSUME NEW r \in Requests, CommitMutations(r) \/ RestoreEntryVersions(r)
        PROVE  OneHandler'
    <3>1. PICK batch, forced : Begin(r, batch, forced)
      BY <2>2 DEF CommitMutations, RestoreEntryVersions
    <3>2. LockFree /\ tx.owner = NoOne /\ UNCHANGED <<gc, purge, tx>>
      BY <3>1 DEF Begin, MayEnter, Quiet
    <3>3. \A s \in Requests \ {r} : commits'[s] = commits[s]
      BY <3>1 DEF Begin, TypeOK
    <3> QED BY <3>2, <3>3 DEF LockFree
  <2>3. ASSUME NEW r \in Requests, NEW b \in Blobs, ProbeBlob(r, b)
        PROVE  OneHandler'
    <3>1. \A s \in Requests : commits'[s].pc = commits[s].pc
      BY <2>3 DEF ProbeBlob, TypeOK
    <3> QED BY <2>3, <3>1 DEF ProbeBlob, Quiet
  <2>4. ASSUME NEW r \in Requests, ProbeFails(r) PROVE OneHandler'
    BY <2>4 DEF ProbeFails, Quiet, IdleCommit, TypeOK
  <2>5. ASSUME NEW r \in Requests, OpenTransaction(r) PROVE OneHandler'
    BY <2>5 DEF OpenTransaction
  <2>6. ASSUME NEW m \in tx.todo, AcceptMutation(m) \/ RejectMutation(m)
        PROVE  OneHandler'
    <3>1. tx'.owner = tx.owner
      BY <2>6 DEF AcceptMutation, RejectMutation, TypeOK
    <3> QED BY <2>6, <3>1 DEF AcceptMutation, RejectMutation
  <2>7. CASE CloseTransaction
    BY <2>7 DEF CloseTransaction, ClosedTx, IdleCommit, TypeOK
  <2>8. CASE RunGc
    BY <2>8 DEF RunGc, AlarmFires, MayEnter, LockFree, Quiet
  <2>9. CASE GcDeletesObjects \/ GcFails \/ GcDeletesRows
    BY <2>9 DEF GcDeletesObjects, GcFails, GcDeletesRows, IdleGc, Quiet, TypeOK
  <2>10. CASE PurgeDeletedEntries
    BY <2>10 DEF PurgeDeletedEntries, MayEnter, LockFree, Quiet
  <2>11. CASE \/ \E b \in Blobs : CollectPurgedBlob(b)
              \/ PurgeDeletesObject \/ PurgeFailsToDelete \/ PurgeDeletesRow
              \/ PurgeEnds
    <3>1. purge.pc # "idle" /\ UNCHANGED <<commits, tx, gc>> /\ tx.owner = NoOne
      BY <2>11 DEF CollectPurgedBlob, PurgeDeletesObject, PurgeFailsToDelete,
                   PurgeDeletesRow, PurgeEnds, Quiet
    <3> QED BY <3>1
  <2>12. CASE Restart
    BY <2>12 DEF Restart, IdleCommit, IdleGc, IdlePurge, Quiet
  <2> QED BY <2>1, <2>2, <2>3, <2>4, <2>5, <2>6, <2>7, <2>8, <2>9, <2>10, <2>11,
             <2>12, HandlerFrame DEF Gc, Purge
<1> QED BY <1>1, <1>2, TypeCorrect, PTL DEF Spec

\* Under the lock nothing else touches the vault's tables between two awaits of
\* a commit: what vault-lock.ts sets out to provide.
THEOREM LockIsolatesAwaits == ASSUME Serialized PROVE Spec => AwaitsAreIsolated
<1>1. TypeOK /\ OneHandler /\ [Next]_vars
      => [\A r \in Requests :
            commits[r].pc = "probing" /\ commits'[r].pc = "probing" /\ tx'.owner # r
              => UNCHANGED db]_vars
  <2> SUFFICES ASSUME TypeOK, OneHandler, [Next]_vars,
                      NEW r \in Requests, commits[r].pc = "probing",
                      commits'[r].pc = "probing", tx'.owner # r
               PROVE  UNCHANGED db
    OBVIOUS
  <2>1. ~LockFree /\ gc.pc = "idle" /\ purge.pc = "idle" /\ ~MayEnter
    BY DEF LockFree, OneHandler, MayEnter
  <2>2. CASE UNCHANGED vars
    BY <2>2 DEF vars
  <2>3. CASE Tick \/ ApplyVaultPolicy \/ Restart
    BY <2>3 DEF Tick, ApplyVaultPolicy, Restart
  <2>4. ASSUME NEW p \in Puts, Put(p) PROVE UNCHANGED db
    BY <2>1, <2>4 DEF Put, StageBlob, UploadSucceeds, UploadFails, BodyMismatches,
                DeleteMismatched, AbortStagedBlob, UploadDies
  <2>5. ASSUME NEW s \in Requests, Commit(s) PROVE UNCHANGED db
    BY <2>5 DEF Commit, CommitMutations, RestoreEntryVersions, Begin, ProbeBlob,
                ProbeFails, OpenTransaction
  <2>6. CASE Gc
    BY <2>1, <2>6 DEF Gc, RunGc, AlarmFires, GcDeletesObjects, GcFails, GcDeletesRows
  <2>7. CASE Purge
    BY <2>1, <2>7 DEF Purge, PurgeDeletedEntries, CollectPurgedBlob,
                PurgeDeletesObject, PurgeFailsToDelete, PurgeDeletesRow, PurgeEnds
  <2>8. CASE Transaction
    <3>1. tx.owner # NoOne => tx.owner = r
      BY DEF OneHandler, TypeOK
    <3>2. ASSUME NEW m \in tx.todo, AcceptMutation(m) PROVE FALSE
      BY <3>1, <3>2 DEF AcceptMutation
    <3>3. ASSUME NEW m \in tx.todo, RejectMutation(m) PROVE UNCHANGED db
      BY <3>3 DEF RejectMutation
    <3>4. CASE CloseTransaction
      BY <3>1, <3>4 DEF CloseTransaction, IdleCommit, TypeOK
    <3> QED BY <2>8, <3>2, <3>3, <3>4 DEF Transaction
  <2> QED BY <2>2, <2>3, <2>4, <2>5, <2>6, <2>7, <2>8 DEF Next
<1> QED BY <1>1, TypeCorrect, OneHandlerInvariant, PTL DEF Spec, AwaitsAreIsolated

-----------------------------------------------------------------------------
(* The object store. *)

\* NothingKeptIsMissing is inductive once it covers what the handlers have
\* learnt and not yet used: what a commit found in the store is still there, and
\* what a collection is about to delete is still unpinned.
ObjectsInv ==
  /\ NothingKeptIsMissing
  /\ \A r \in Requests : commits[r].pc = "probing" =>
       \A b \in BlobsOf(commits[r].batch) :
         b \in commits[r].todo \/ b \in commits[r].missing \/ b \in objects
  /\ tx.owner # NoOne => /\ tx.todo \subseteq commits[tx.owner].batch
                         /\ commits[tx.owner].todo = {}
  /\ gc.pc = "deleting" => \A b \in gc.due : ~Pinned(b, now)
  /\ purge.pc = "deleting" => ~Pinned(purge.blob, now)
  /\ \A p \in Puts : puts[p].pc # "deleting"

\* What an accepted mutation adds to the entries and the history was in the
\* object store: its own blob was probed, the one it replaces was referenced.
LEMMA AcceptKeepsObjects ==
  ASSUME TypeOK, OneHandler, ObjectsInv, NEW m \in tx.todo, AcceptMutation(m)
  PROVE  NothingKeptIsMissing'
<1>1. /\ m.entry \in Entries /\ m.blob \in Blobs \union {NoBlob}
      /\ tx.owner \in Requests /\ UNCHANGED <<now, objects>>
      /\ Acceptable(tx.owner, m)
      /\ entries' = [entries EXCEPT ![m.entry] = NewRow(m)]
      /\ versions' = versions \union Captured(tx.owner, m)
  BY DEF AcceptMutation, TypeOK, Mutations
<1>3. ASSUME NEW b \in Blobs, b = m.blob PROVE b \in objects
  <2>1. commits[tx.owner].pc = "probing"
    BY DEF AcceptMutation, OneHandler
  <2>2. m \in commits[tx.owner].batch /\ commits[tx.owner].todo = {}
    BY <1>1 DEF AcceptMutation, ObjectsInv
  <2>3. b \in BlobsOf(commits[tx.owner].batch) /\ b \notin commits[tx.owner].missing
    BY <1>1, <1>3, <2>2, NoBlobAssumption DEF BlobsOf, Acceptable
  <2> QED BY <1>1, <2>1, <2>2, <2>3 DEF ObjectsInv
<1>4. ASSUME NEW b \in Blobs, Referenced(b)' PROVE b \in objects'
  <2>1. b = m.blob \/ Referenced(b)
    BY <1>1, <1>4 DEF Referenced, NewRow, TypeOK
  <2> QED BY <1>1, <1>3, <2>1 DEF ObjectsInv, NothingKeptIsMissing
<1>5. ASSUME NEW b \in Blobs, KeptByHistory(versions, b, now)' PROVE b \in objects'
  <2>1. PICK v \in versions' : v.blob = b /\ v.expires > now
    BY <1>1, <1>5 DEF KeptByHistory
  <2>2. CASE v \in versions
    BY <1>1, <2>1, <2>2 DEF ObjectsInv, NothingKeptIsMissing, KeptByHistory
  <2>3. CASE v \in Captured(tx.owner, m)
    <3>1. b = entries[m.entry].blob \/ b = m.blob
      BY <2>1, <2>3 DEF Captured
    <3>2. b = entries[m.entry].blob => b \in objects
      BY <1>1 DEF ObjectsInv, NothingKeptIsMissing, Referenced
    <3> QED BY <1>1, <1>3, <3>1, <3>2
  <2> QED BY <1>1, <2>1, <2>2, <2>3
<1> QED BY <1>4, <1>5 DEF NothingKeptIsMissing

\* Nothing becomes pinned, or goes missing, by time passing or history being
\* forgotten.
LEMMA FewerVersionsPinLess ==
  ASSUME TypeOK, TypeOK', entries' = entries, versions' \subseteq versions, now <= now'
  PROVE  /\ \A b \in Blobs : Pinned(b, now)' => Pinned(b, now)
         /\ \A b \in Blobs : KeptByHistory(versions, b, now)'
                               => KeptByHistory(versions, b, now)
         /\ \A b \in Blobs : Referenced(b)' => Referenced(b)
<1>1. \A v \in versions : v.expires \in Nat
  BY DEF TypeOK, Versions
<1>2. now \in Nat /\ now' \in Nat
  BY DEF TypeOK
<1>3. \A b \in Blobs : KeptByHistory(versions, b, now)' => KeptByHistory(versions, b, now)
  BY <1>1, <1>2 DEF KeptByHistory
<1>4. \A b \in Blobs : Referenced(b)' => Referenced(b)
  BY DEF Referenced
<1> QED BY <1>3, <1>4 DEF Pinned

\* Where handlers hold the vault's lock and bodies have their declared size,
\* there is an object behind every entry and every version kept.  Both conditions
\* matter: without either TLC finds a blob deleted between a probe and its commit
\* or after it.
THEOREM NothingGoesMissing ==
  ASSUME Serialized, ~Mismatches
  PROVE  Spec => []NothingKeptIsMissing
<1>1. Init => ObjectsInv
  BY NoBlobAssumption
  DEF Init, ObjectsInv, NothingKeptIsMissing, Referenced, KeptByHistory, IdleCommit,
      IdleGc, IdlePurge, IdlePut, ClosedTx
<1>2. TypeOK /\ TypeOK' /\ TimesInv /\ OneHandler /\ ObjectsInv /\ [Next]_vars
      => ObjectsInv'
  <2> SUFFICES ASSUME TypeOK, TypeOK', TimesInv, OneHandler, ObjectsInv, [Next]_vars
               PROVE  ObjectsInv'
    OBVIOUS
  <2>1. CASE UNCHANGED vars
    BY <2>1 DEF vars, db, tasks, ObjectsInv, NothingKeptIsMissing, Pinned, Referenced
  <2>2. CASE Tick
    <3>1. UNCHANGED <<entries, versions, objects, commits, tx, gc, purge, puts>>
          /\ now <= now'
      BY <2>2 DEF Tick, db, tasks, TypeOK
    <3> QED BY <3>1, FewerVersionsPinLess DEF ObjectsInv, NothingKeptIsMissing, TypeOK
  <2>3. CASE ApplyVaultPolicy
    BY <2>3 DEF ApplyVaultPolicy, db, tasks, ObjectsInv, NothingKeptIsMissing, Pinned,
                Referenced
  <2>4. ASSUME NEW p \in Puts, NEW b \in Blobs, StageBlob(p, b) PROVE ObjectsInv'
    BY <2>4 DEF StageBlob, tasks, TypeOK, ObjectsInv, NothingKeptIsMissing, Pinned,
                Referenced
  <2>5. ASSUME NEW p \in Puts,
               UploadSucceeds(p) \/ UploadFails(p) \/ AbortStagedBlob(p) \/ UploadDies(p)
        PROVE  ObjectsInv'
    <3>1. /\ UNCHANGED <<now, entries, versions, commits, tx, gc, purge>>
          /\ objects \subseteq objects'
      BY <2>5 DEF UploadSucceeds, UploadFails, AbortStagedBlob, UploadDies, db, tasks
    <3>2. \A q \in Puts : puts'[q].pc # "deleting"
      <4>1. \A q \in Puts : puts'[q].pc \in {puts[q].pc, "idle", "aborting"}
        <5>1. CASE UploadFails(p)
          BY <5>1 DEF UploadFails, TypeOK
        <5>2. CASE UploadSucceeds(p) \/ AbortStagedBlob(p) \/ UploadDies(p)
          <6>1. CASE UploadSucceeds(p)
            BY <6>1 DEF UploadSucceeds, IdlePut, TypeOK
          <6>2. CASE AbortStagedBlob(p)
            BY <6>2 DEF AbortStagedBlob, IdlePut, TypeOK
          <6>3. CASE UploadDies(p)
            BY <6>3 DEF UploadDies, IdlePut, TypeOK
          <6> QED BY <5>2, <6>1, <6>2, <6>3
        <5> QED BY <2>5, <5>1, <5>2
      <4> QED BY <4>1 DEF ObjectsInv
    <3> QED BY <3>1, <3>2 DEF ObjectsInv, NothingKeptIsMissing, Pinned, Referenced
  <2>6. ASSUME NEW p \in Puts, BodyMismatches(p) \/ DeleteMismatched(p) PROVE FALSE
    BY <2>6 DEF BodyMismatches, DeleteMismatched, ObjectsInv
  <2>7. ASSUME NEW r \in Requests, CommitMutations(r) \/ RestoreEntryVersions(r)
        PROVE  ObjectsInv'
    <3>1. PICK batch, forced : Begin(r, batch, forced)
      BY <2>7 DEF CommitMutations, RestoreEntryVersions
    <3>2. /\ tx.owner = NoOne
          /\ UNCHANGED <<now, entries, versions, objects, tx, gc, purge, puts>>
      BY <3>1 DEF Begin, MayEnter, Quiet, db
    <3>3. \A s \in Requests \ {r} : commits'[s] = commits[s]
      BY <3>1 DEF Begin, TypeOK
    <3>4. commits'[r].todo = BlobsOf(commits'[r].batch)
      BY <3>1 DEF Begin, TypeOK
    <3> QED BY <3>2, <3>3, <3>4 DEF ObjectsInv, NothingKeptIsMissing, Pinned, Referenced
  <2>8. ASSUME NEW r \in Requests, NEW c \in Blobs, ProbeBlob(r, c) PROVE ObjectsInv'
    <3>1. /\ tx.owner = NoOne
          /\ UNCHANGED <<now, entries, versions, objects, tx, gc, purge, puts>>
      BY <2>8 DEF ProbeBlob, Quiet, db
    <3>2. \A s \in Requests \ {r} : commits'[s] = commits[s]
      BY <2>8 DEF ProbeBlob, TypeOK
    <3>3. /\ commits'[r].batch = commits[r].batch
          /\ commits'[r].todo = commits[r].todo \ {c}
          /\ commits'[r].missing = commits[r].missing \union ({c} \ objects)
          /\ commits[r].pc = "probing"
      BY <2>8 DEF ProbeBlob, TypeOK
    <3>4. \A b \in BlobsOf(commits'[r].batch) :
            b \in commits'[r].todo \/ b \in commits'[r].missing \/ b \in objects'
      BY <3>1, <3>3 DEF ObjectsInv
    <3> QED BY <3>1, <3>2, <3>4 DEF ObjectsInv, NothingKeptIsMissing, Pinned, Referenced
  <2>9. ASSUME NEW r \in Requests, ProbeFails(r) PROVE ObjectsInv'
    BY <2>9 DEF ProbeFails, Quiet, IdleCommit, db, TypeOK, ObjectsInv,
                NothingKeptIsMissing, Pinned, Referenced
  <2>10. ASSUME NEW r \in Requests, OpenTransaction(r) PROVE ObjectsInv'
    BY <2>10 DEF OpenTransaction, db, ObjectsInv, NothingKeptIsMissing, Pinned,
                 Referenced
  <2>11. ASSUME NEW m \in tx.todo, AcceptMutation(m) PROVE ObjectsInv'
    <3>1. tx'.owner = tx.owner /\ tx'.todo \subseteq tx.todo
          /\ UNCHANGED <<objects, commits, gc, purge, puts>>
      BY <2>11 DEF AcceptMutation
    <3>2. gc.pc = "idle" /\ purge.pc = "idle"
      BY <2>11 DEF AcceptMutation, OneHandler, TypeOK
    <3> QED BY <2>11, <3>1, <3>2, AcceptKeepsObjects DEF ObjectsInv
  <2>12. ASSUME NEW m \in tx.todo, RejectMutation(m) PROVE ObjectsInv'
    <3>1. tx'.owner = tx.owner /\ tx'.todo \subseteq tx.todo
          /\ UNCHANGED <<now, entries, versions, objects, commits, gc, purge, puts>>
      BY <2>12 DEF RejectMutation, db, TypeOK
    <3> QED BY <3>1 DEF ObjectsInv, NothingKeptIsMissing, Pinned, Referenced
  <2>13. CASE CloseTransaction
    <3>1. UNCHANGED <<now, entries, versions, objects, gc, purge, puts>>
          /\ tx'.owner = NoOne
      BY <2>13 DEF CloseTransaction, ClosedTx
    <3>2. \A s \in Requests : commits'[s] = commits[s] \/ commits'[s].pc = "idle"
      BY <2>13 DEF CloseTransaction, IdleCommit, TypeOK
    <3> QED BY <3>1, <3>2 DEF ObjectsInv, NothingKeptIsMissing, Pinned, Referenced
  <2>14. CASE RunGc
    <3> DEFINE ready == {b \in Blobs : Collectible(b, now)}
    <3>1. /\ UNCHANGED <<now, entries, objects, commits, tx, purge, puts>>
          /\ versions' \subseteq versions
      BY <2>14 DEF RunGc, Unexpired
    <3>2. \/ gc' = gc
          \/ gc' \in {[pc |-> "deleting", due |-> due, now |-> now] :
                        due \in Batches(ready)}
      BY <2>14 DEF RunGc
    <3>3. gc' = gc \/ gc'.due \subseteq ready
      <4> HIDE DEF ready
      <4> QED BY <3>2 DEF Batches
    <3>4. \A b \in ready : ~Pinned(b, now)
      BY DEF Collectible
    <3>5. gc'.pc = "deleting" => \A b \in gc'.due : b \in Blobs /\ ~Pinned(b, now)
      BY <3>3, <3>4 DEF ObjectsInv, TypeOK
    <3> HIDE DEF ready
    <3> QED BY <3>1, <3>5, FewerVersionsPinLess
            DEF ObjectsInv, NothingKeptIsMissing, TypeOK
  <2>15. CASE GcDeletesObjects \/ GcFails
    <3>1. /\ UNCHANGED <<now, entries, versions, commits, tx, purge, puts>>
          /\ objects \ gc.due \subseteq objects' /\ gc.pc = "deleting"
          /\ gc'.pc # "deleting"
      BY <2>15 DEF GcDeletesObjects, GcFails, db, IdleGc, TypeOK
    <3>2. \A r \in Requests : commits[r].pc = "idle"
      BY <3>1 DEF OneHandler
    <3>3. purge.pc = "idle"
      BY <3>1 DEF OneHandler
    <3> QED BY <3>1, <3>2, <3>3 DEF ObjectsInv, NothingKeptIsMissing, Pinned, Referenced
  <2>16. CASE GcDeletesRows
    BY <2>16 DEF GcDeletesRows, IdleGc, ObjectsInv, NothingKeptIsMissing, Pinned,
                 Referenced
  <2>17. CASE PurgeDeletedEntries
    <3>1. /\ UNCHANGED <<now, entries, objects, commits, tx, gc, puts>>
          /\ versions' \subseteq versions /\ purge'.pc = "collecting"
      BY <2>17 DEF PurgeDeletedEntries
    <3> QED BY <3>1, FewerVersionsPinLess DEF ObjectsInv, NothingKeptIsMissing, TypeOK
  <2>18. ASSUME NEW b \in Blobs, CollectPurgedBlob(b) PROVE ObjectsInv'
    <3>1. /\ UNCHANGED <<now, entries, objects, commits, tx, gc, puts>>
          /\ versions' \subseteq versions
      BY <2>18 DEF CollectPurgedBlob, Unexpired
    <3>2. purge'.pc = "deleting" => purge'.blob = b /\ ~Pinned(b, purge.now)
      BY <2>18 DEF CollectPurgedBlob, TypeOK
    <3>3. ~Pinned(b, purge.now) => ~Pinned(b, now)
      BY DEF Pinned, KeptByHistory, TimesInv, TypeOK, Versions
    <3> QED BY <3>1, <3>2, <3>3, FewerVersionsPinLess
            DEF ObjectsInv, NothingKeptIsMissing, TypeOK
  <2>19. CASE PurgeDeletesObject \/ PurgeFailsToDelete
    <3>1. /\ UNCHANGED <<now, entries, versions, commits, tx, gc, puts>>
          /\ objects \ {purge.blob} \subseteq objects' /\ purge.pc = "deleting"
          /\ purge'.pc # "deleting"
      <4>1. CASE PurgeDeletesObject
        BY <4>1 DEF PurgeDeletesObject, db, TypeOK
      <4>2. CASE PurgeFailsToDelete
        BY <4>2 DEF PurgeFailsToDelete, db, TypeOK
      <4> QED BY <2>19, <4>1, <4>2
    <3>2. \A r \in Requests : commits[r].pc = "idle"
      BY <3>1 DEF OneHandler
    <3>3. gc.pc = "idle"
      BY <3>1 DEF OneHandler
    <3> QED BY <3>1, <3>2, <3>3 DEF ObjectsInv, NothingKeptIsMissing, Pinned, Referenced
  <2>20. CASE PurgeDeletesRow \/ PurgeEnds
    <3>1. /\ UNCHANGED <<now, entries, versions, objects, commits, tx, gc, puts>>
          /\ purge'.pc # "deleting"
      <4>1. CASE PurgeDeletesRow
        BY <4>1 DEF PurgeDeletesRow, TypeOK
      <4>2. CASE PurgeEnds
        BY <4>2 DEF PurgeEnds, db, IdlePurge
      <4> QED BY <2>20, <4>1, <4>2
    <3> QED BY <3>1 DEF ObjectsInv, NothingKeptIsMissing, Pinned, Referenced
  <2>21. CASE Restart
    <3>1. /\ UNCHANGED <<now, entries, versions, objects>>
          /\ gc'.pc = "idle" /\ purge'.pc = "idle"
          /\ tx'.owner = NoOne
      BY <2>21 DEF Restart, Quiet, db, IdleGc, IdlePurge
    <3>2. \A s \in Requests : commits'[s].pc = "idle"
      BY <2>21 DEF Restart, IdleCommit
    <3>3. \A p \in Puts : puts'[p].pc = "idle"
      BY <2>21 DEF Restart, IdlePut
    <3> QED BY <3>1, <3>2, <3>3 DEF ObjectsInv, NothingKeptIsMissing, Pinned, Referenced
  <2> QED BY <2>1, <2>2, <2>3, <2>4, <2>5, <2>6, <2>7, <2>8, <2>9, <2>10, <2>11,
             <2>12, <2>13, <2>14, <2>15, <2>16, <2>17, <2>18, <2>19, <2>20, <2>21
          DEF Next, Put, Commit, Transaction, Gc, Purge
<1>3. ObjectsInv => NothingKeptIsMissing
  BY DEF ObjectsInv
<1> QED BY <1>1, <1>2, <1>3, TypeCorrect, TimesInvariant, OneHandlerInvariant, PTL
        DEF Spec

-----------------------------------------------------------------------------
(* Behaviours of the server.                                                *)

\* A behaviour of the server is one of the life of vaults, which may stand still.
LEMMA ServerHasVaults == MCSpec => V!Spec
<1>1. MCInit => V!Init
  BY DEF MCInit
<1>2. [MCNext]_mcvars => [V!Next]_(V!vars)
  BY DEF MCNext, mcvars, vaultVars, V!vars
<1> QED BY <1>1, <1>2, PTL DEF MCSpec, V!Spec

\* The ids are as the proofs need them.
LEMMA IdsAre == V!VaultIds
BY ServerIds DEF V!VaultIds

\* In every state of the server the rows of a user's vaults agree: names of active vaults differ,
\* whoever has access can unlock, and a vault that nobody deletes is whole (createVault,
\* addVaultMember, deleteVault, purgeVault).
THEOREM ServerRowsAgree == MCSpec => []RowsAgree
<1>1. V!VaultIds /\ V!Spec => [](V!TypeOK /\ V!RowsAgree)
  BY V!RowsStayAgreed
<1>2. V!TypeOK /\ V!RowsAgree => RowsAgree
  BY DEF RowsAgree
<1> QED BY <1>1, <1>2, IdsAre, ServerHasVaults, PTL

\* Nothing is ever left of a vault that was deleted, whoever was opening it (purgeVault,
\* ensureVaultState).
THEOREM ServerGoneStaysGone == MCSpec => []GoneStaysGone
<1>1. V!VaultIds /\ V!Spec => [](V!GoneStaysGone)
  BY V!GoneStaysEmpty
<1>2. V!GoneStaysGone => GoneStaysGone
  BY DEF GoneStaysGone
<1> QED BY <1>1, <1>2, IdsAre, ServerHasVaults, PTL

\* A vault that is being deleted always has a message or a task that purges it, until the message
\* has failed as often as the queue delivers it (deleteVault, the purge queue).
THEOREM ServerDeletionIsDriven == MCSpec => []DeletionIsDriven
<1>1. V!VaultIds /\ V!Spec => [](V!DeletionIsDriven)
  BY V!DeletionStaysDriven
<1>2. V!DeletionIsDriven => DeletionIsDriven
  BY DEF DeletionIsDriven
<1> QED BY <1>1, <1>2, IdsAre, ServerHasVaults, PTL

\* Once the refreshes are done the coordinators have the limits of the plan, but for those that a
\* lapse, a last failed delivery, a deletion or a late answer is known to have left behind
\* (SubscriptionPolicyRefreshService, ensureVaultState).
THEOREM ServerLimitsSettle == MCSpec => []LimitsSettle
<1>1. V!VaultIds /\ V!Spec => [](V!LimitsSettle)
  BY V!LimitsAlwaysSettle
<1>2. V!LimitsSettle => LimitsSettle
  BY DEF LimitsSettle
<1> QED BY <1>1, <1>2, IdsAre, ServerHasVaults, PTL

\* Ids are positive: 0 stands for a promise that has resolved, and for no runtime.
HostIds == HostTasks \subseteq Nat \ {0} /\ Generations \subseteq Nat \ {0}

-----------------------------------------------------------------------------
(* Lines of promises, apart from the state that holds them.                 *)

\* The promises in line wait each for one that is in line or has resolved, no two for the
\* same, not in a circle; those that run wait for none; and the tail is the last.
Lined(line, prev, running, tail) ==
  /\ line \subseteq HostTasks /\ running \subseteq line
  /\ \A t \in line : prev[t] \in line \union {0}
  /\ \A t, u \in line : prev[t] = prev[u] => t = u
  /\ \A t \in running : prev[t] = 0
  /\ \A S \in SUBSET line : S # {} => \E t \in S : prev[t] \notin S
  /\ IF line = {} THEN tail = 0
     ELSE tail \in line /\ \A t \in line : prev[t] # tail

\* Whoever calls the lock waits for the tail, and becomes the tail.
LEMMA LineGrows ==
  ASSUME HostIds, NEW line, NEW prev, NEW running, NEW tail, Lined(line, prev, running, tail),
         NEW t \in HostTasks \ line, NEW after, after[t] = tail,
         \A u \in line : after[u] = prev[u]
  PROVE  Lined(line \union {t}, after, running, t)
<1>0. 0 \notin HostTasks /\ t # 0
  BY DEF HostIds
<1>1. tail \in line \union {0} /\ tail # t /\ \A u \in line : prev[u] # tail /\ prev[u] # t
  BY <1>0 DEF Lined
<1>2. ASSUME NEW S \in SUBSET (line \union {t}), S # {}
      PROVE  \E u \in S : after[u] \notin S
  <2>1. CASE S \ {t} = {}
    BY <1>0, <1>1, <1>2, <2>1
  <2>2. CASE S \ {t} # {}
    <3>1. S \ {t} \in SUBSET line
      BY <1>2
    <3>2. PICK u \in S \ {t} : prev[u] \notin S \ {t}
      BY <2>2, <3>1 DEF Lined
    <3> QED BY <1>1, <1>2, <3>2
  <2> QED BY <2>1, <2>2
<1>3. \A u, w \in line \union {t} : after[u] = after[w] => u = w
  BY <1>1 DEF Lined
<1>4. \A u \in line \union {t} : after[u] \in line \union {t} \union {0} /\ after[u] # t
  BY <1>0, <1>1 DEF Lined
<1> QED BY <1>2, <1>3, <1>4 DEF Lined

\* Whoever ends lets the next one in, and clears the tail if it is its own.
LEMMA LineShrinks ==
  ASSUME HostIds, NEW line, NEW prev, NEW running, NEW tail, Lined(line, prev, running, tail),
         NEW t \in running, NEW after,
         \A u \in line \ {t} : after[u] = IF prev[u] = t THEN 0 ELSE prev[u]
  PROVE  Lined(line \ {t}, after, running \ {t}, IF tail = t THEN 0 ELSE tail)
<1>0. 0 \notin HostTasks /\ t \in line /\ t \in HostTasks /\ prev[t] = 0
  BY DEF HostIds, Lined
<1>1. tail \in line /\ \A u \in line : prev[u] # tail
  BY <1>0 DEF Lined
<1>2. \A u \in line \ {t} : prev[u] # 0
  BY <1>0 DEF Lined
<1>3. ASSUME NEW S \in SUBSET (line \ {t}), S # {}
      PROVE  \E u \in S : after[u] \notin S
  <2>1. PICK u \in S : prev[u] \notin S
    BY <1>3 DEF Lined
  <2>2. 0 \notin S
    BY <1>0 DEF Lined
  <2> QED BY <2>1, <2>2
<1>4. \A u, w \in line \ {t} : after[u] = after[w] => u = w
  BY <1>2 DEF Lined
<1>5. \A u \in line \ {t} : after[u] \in (line \ {t}) \union {0}
  BY DEF Lined
<1>6. CASE tail = t
  <2>1. line \ {t} = {}
    <3> SUFFICES ASSUME line \ {t} # {} PROVE FALSE
      OBVIOUS
    <3>1. PICK u \in line \ {t} : prev[u] \notin line \ {t}
      BY DEF Lined
    <3> QED BY <1>1, <1>2, <1>6, <3>1 DEF Lined
  <2> QED BY <1>6, <2>1 DEF Lined
<1>7. CASE tail # t
  <2>1. tail \in line \ {t} /\ \A u \in line \ {t} : after[u] # tail
    BY <1>0, <1>1, <1>7 DEF Lined
  <2>2. \A u \in running \ {t} : after[u] = 0
    BY <1>0 DEF Lined
  <2> QED BY <1>3, <1>4, <1>5, <1>7, <2>1, <2>2 DEF Lined
<1> QED BY <1>6, <1>7

\* A call whose predecessor has resolved goes on.
LEMMA LineEnters ==
  ASSUME NEW line, NEW prev, NEW running, NEW tail, Lined(line, prev, running, tail),
         NEW t \in line, prev[t] = 0
  PROVE  Lined(line, prev, running \union {t}, tail)
BY DEF Lined

\* Only the promises in line matter.
LEMMA LineStands ==
  ASSUME NEW line, NEW prev, NEW running, NEW tail, Lined(line, prev, running, tail),
         NEW after, \A t \in line : after[t] = prev[t]
  PROVE  Lined(line, after, running, tail)
BY DEF Lined

-----------------------------------------------------------------------------
(* The inductive invariant.                                                 *)

Kinds == {"none", "http", "upgrade", "message", "gone", "completion", "alarm"}
Pcs == {"free", "routing", "ready", "queued", "running", "prepared", "done"}
TaskRecords == [kind : Kinds, pc : Pcs, gen : Generations \union {0},
                prev : HostTasks \union {0}, client : BOOLEAN]
Runtimes == [made : BOOLEAN, ready : {"pending", "yes", "failed"}, handle : BOOLEAN,
             tail : HostTasks \union {0}, timer : BOOLEAN]

InLine == {"queued", "running"}
Prevs == [t \in HostTasks |-> work[t].prev]

\* The lock of every generation is a line of promises.
LockIsLined ==
  \A g \in Generations : Lined(H!Under(g, InLine), Prevs, H!Under(g, {"running"}), opened[g].tail)

\* Whoever waits for the lock, has it or comes out of it, each socket and each timer belong
\* to a runtime that was ready; a runtime nobody has made has seen nobody.
RuntimesAreReady ==
  /\ \A t \in HostTasks :
       /\ work[t].pc \in {"queued", "running", "prepared"} \/ sockets[t] # "none" =>
            work[t].gen \in Generations /\ opened[work[t].gen].ready = "yes"
       /\ work[t].pc = "ready" => work[t].gen \in Generations
       /\ work[t].pc = "routing" \/ work[t].kind = "none" => work[t].gen = 0
       /\ work[t].kind = "none" => work[t].pc = "free"
  /\ \A g \in Generations :
       /\ opened[g].ready # "pending" => opened[g].made
       /\ opened[g].timer => opened[g].ready = "yes"

\* What the sockets' part of the shutdown has waited for does not come back.
Unsocketed == \A t \in HostTasks : sockets[t] \notin {"open", "closing", "terminated"}
DrainIsFinal ==
  /\ drain # "none" => H!Closing
  /\ drain = "closed" => H!Tracked = {} /\ Unsocketed
  /\ phase = "drained" => drain = "closed" /\ H!Connected = {}

HostInvariant == H!TypeOK /\ LockIsLined /\ RuntimesAreReady /\ DrainIsFinal

\* What a step may do to the tasks in line without touching the lock.
LineUntouched ==
  /\ \A t \in HostTasks : work[t].pc \in InLine \/ work'[t].pc \in InLine =>
       /\ work'[t].pc = work[t].pc /\ work'[t].gen = work[t].gen
       /\ work'[t].prev = work[t].prev
  /\ \A g \in Generations : opened'[g].tail = opened[g].tail

\* A step that leaves alone who is in line leaves the lines as they are.
LEMMA LockStands ==
  ASSUME LockIsLined, LineUntouched
  PROVE  LockIsLined'
<1> SUFFICES ASSUME NEW g \in Generations
             PROVE  Lined(H!Under(g, InLine), Prevs, H!Under(g, {"running"}), opened[g].tail)'
  BY DEF LockIsLined
<1>1. Lined(H!Under(g, InLine), Prevs, H!Under(g, {"running"}), opened[g].tail)
  BY DEF LockIsLined
<1>2. H!Under(g, InLine)' = H!Under(g, InLine) /\ H!Under(g, {"running"})' = H!Under(g, {"running"})
  BY DEF LineUntouched, H!Under, InLine
<1>3. opened'[g].tail = opened[g].tail
  BY DEF LineUntouched
<1>4. \A t \in H!Under(g, InLine) : Prevs'[t] = Prevs[t]
  BY DEF LineUntouched, H!Under, Prevs
<1> DEFINE tailNow == opened'[g].tail
           after == Prevs'
<1>5. Lined(H!Under(g, InLine), after, H!Under(g, {"running"}), opened[g].tail)
  <2> HIDE DEF after
  <2> QED BY <1>1, <1>4, LineStands DEF after
<1> QED BY <1>2, <1>3, <1>5 DEF Lined

\* A task that calls the lock of generation g.
Joins(t, g) ==
  /\ work[t].pc \notin InLine
  /\ work'[t].pc = "queued" /\ work'[t].gen = g /\ work'[t].prev = opened[g].tail
  /\ \A u \in HostTasks \ {t} : work[u].pc \in InLine \/ work'[u].pc \in InLine =>
       /\ work'[u].pc = work[u].pc /\ work'[u].gen = work[u].gen
       /\ work'[u].prev = work[u].prev
  /\ \A f \in Generations : opened'[f].tail = IF f = g THEN t ELSE opened[f].tail

\* A call of the lock keeps the lines.
LEMMA LockGrows ==
  ASSUME HostIds, LockIsLined, NEW t \in HostTasks, NEW g \in Generations, Joins(t, g)
  PROVE  LockIsLined'
<1> SUFFICES ASSUME NEW f \in Generations
             PROVE  Lined(H!Under(f, InLine), Prevs, H!Under(f, {"running"}), opened[f].tail)'
  BY DEF LockIsLined
<1>1. Lined(H!Under(f, InLine), Prevs, H!Under(f, {"running"}), opened[f].tail)
  BY DEF LockIsLined
<1> DEFINE after == Prevs'
<1>2. \A u \in HostTasks : after[u] = work'[u].prev
  BY DEF Prevs
<1>3. H!Under(f, {"running"})' = H!Under(f, {"running"})
  BY DEF Joins, H!Under, InLine
<1>4. \A u \in H!Under(f, InLine) : after[u] = Prevs[u]
  BY <1>2 DEF Joins, H!Under, InLine, Prevs
<1>5. CASE f = g
  <2>1. H!Under(f, InLine)' = H!Under(f, InLine) \union {t} /\ t \notin H!Under(f, InLine)
    BY <1>5 DEF Joins, H!Under, InLine
  <2>2. after[t] = opened[f].tail /\ opened'[f].tail = t
    BY <1>2, <1>5 DEF Joins
  <2> HIDE DEF after
  <2>3. Lined(H!Under(f, InLine) \union {t}, after, H!Under(f, {"running"}), t)
    BY <1>1, <1>4, <2>1, <2>2, LineGrows
  <2> QED BY <1>3, <2>1, <2>2, <2>3 DEF Lined, after
<1>6. CASE f # g
  <2>1. H!Under(f, InLine)' = H!Under(f, InLine) /\ opened'[f].tail = opened[f].tail
    BY <1>6 DEF Joins, H!Under, InLine
  <2> HIDE DEF after
  <2>2. Lined(H!Under(f, InLine), after, H!Under(f, {"running"}), opened[f].tail)
    BY <1>1, <1>4, LineStands
  <2> QED BY <1>3, <2>1, <2>2 DEF Lined, after
<1> QED BY <1>5, <1>6

\* A task that ends what it did under the lock.
Leaves(t) ==
  /\ work[t].pc = "running" /\ work'[t].pc \notin InLine
  /\ \A u \in HostTasks \ {t} :
       /\ work'[u].pc = work[u].pc /\ work'[u].gen = work[u].gen
       /\ work'[u].prev = IF work[u].prev = t THEN 0 ELSE work[u].prev
  /\ \A f \in Generations :
       opened'[f].tail = IF f = work[t].gen /\ opened[f].tail = t THEN 0 ELSE opened[f].tail

\* The end of a task that had the lock keeps the lines.
LEMMA LockShrinks ==
  ASSUME HostIds, LockIsLined, NEW t \in HostTasks, work[t].gen \in Generations, Leaves(t)
  PROVE  LockIsLined'
<1> SUFFICES ASSUME NEW f \in Generations
             PROVE  Lined(H!Under(f, InLine), Prevs, H!Under(f, {"running"}), opened[f].tail)'
  BY DEF LockIsLined
<1>1. Lined(H!Under(f, InLine), Prevs, H!Under(f, {"running"}), opened[f].tail)
  BY DEF LockIsLined
<1> DEFINE after == Prevs'
<1>2. \A u \in HostTasks : after[u] = work'[u].prev /\ Prevs[u] = work[u].prev
  BY DEF Prevs
<1>3. \A u \in H!Under(f, InLine) \ {t} : after[u] = IF Prevs[u] = t THEN 0 ELSE Prevs[u]
  BY <1>2 DEF Leaves, H!Under
<1>4. CASE f = work[t].gen
  <2>1. /\ H!Under(f, InLine)' = H!Under(f, InLine) \ {t} /\ t \in H!Under(f, {"running"})
        /\ H!Under(f, {"running"})' = H!Under(f, {"running"}) \ {t}
    BY <1>4 DEF Leaves, H!Under, InLine
  <2>2. opened'[f].tail = IF opened[f].tail = t THEN 0 ELSE opened[f].tail
    BY <1>4 DEF Leaves
  <2> HIDE DEF after
  <2>3. Lined(H!Under(f, InLine) \ {t}, after, H!Under(f, {"running"}) \ {t},
              IF opened[f].tail = t THEN 0 ELSE opened[f].tail)
    BY <1>1, <1>3, <2>1, LineShrinks
  <2> QED BY <2>1, <2>2, <2>3 DEF Lined, after
<1>5. CASE f # work[t].gen
  <2>1. /\ H!Under(f, InLine)' = H!Under(f, InLine) /\ opened'[f].tail = opened[f].tail
        /\ H!Under(f, {"running"})' = H!Under(f, {"running"}) /\ t \notin H!Under(f, InLine)
    BY <1>5 DEF Leaves, H!Under, InLine
  <2>2. \A u \in H!Under(f, InLine) : Prevs[u] # t
    BY <1>1, <2>1 DEF Lined, HostIds
  <2> HIDE DEF after
  <2>3. Lined(H!Under(f, InLine), after, H!Under(f, {"running"}), opened[f].tail)
    BY <1>1, <1>3, <2>1, <2>2, LineStands
  <2> QED BY <2>1, <2>3 DEF Lined, after
<1> QED BY <1>4, <1>5

-----------------------------------------------------------------------------
(* What a step may do beside the lock.                                      *)

SocketStates == {"none", "open", "closing", "terminated", "gone"}
TrackedKinds == {"upgrade", "message", "gone", "completion"}

\* No runtime that was ready becomes anything else, and the one in the map has its storage.
RuntimesGoOn ==
  /\ opened' \in [Generations -> Runtimes]
  /\ current' \in Generations \union {0} /\ (current' # 0 => opened'[current'].handle)
  /\ \A g \in Generations :
       /\ opened[g].ready = "yes" => opened'[g].ready = "yes"
       /\ opened'[g].ready # "pending" => opened'[g].made
       /\ opened'[g].timer => opened'[g].ready = "yes"

\* A task that a step leaves where it is, and one that it moves to a place it may be in.
Stays(t) ==
  /\ work'[t].kind = work[t].kind /\ work'[t].pc = work[t].pc
  /\ work'[t].gen = work[t].gen /\ work'[t].client = work[t].client
  /\ sockets'[t] # "none" => sockets[t] # "none"
MovesRightly(t) ==
  /\ work'[t].kind # "none"
  /\ work'[t].pc \in {"queued", "running", "prepared"} \/ sockets'[t] # "none" =>
       work'[t].gen \in Generations /\ opened'[work'[t].gen].ready = "yes"
  /\ work'[t].pc = "ready" => work'[t].gen \in Generations
  /\ work'[t].pc = "routing" => work'[t].gen = 0
  /\ drain = "closed" => work'[t].pc = "done" \/ work'[t].kind \notin TrackedKinds
  /\ phase = "drained" => ~work'[t].client

\* The types of single tasks, sockets and runtimes.
LEMMA Typed ==
  ASSUME HostInvariant
  PROVE  /\ work \in [HostTasks -> TaskRecords] /\ opened \in [Generations -> Runtimes]
         /\ sockets \in [HostTasks -> SocketStates] /\ current \in Generations \union {0}
         /\ current # 0 => opened[current].handle
BY DEF HostInvariant, H!TypeOK, TaskRecords, Runtimes, SocketStates, Kinds, Pcs

\* Where every task stays or goes where it may be, types and readiness are kept.
LEMMA TasksKeep ==
  ASSUME HostIds, HostInvariant, RuntimesGoOn, work' \in [HostTasks -> TaskRecords],
         sockets' \in [HostTasks -> SocketStates], UNCHANGED <<phase, drain>>,
         drain = "closed" => Unsocketed',
         \A t \in HostTasks : Stays(t) \/ MovesRightly(t)
  PROVE  H!TypeOK' /\ RuntimesAreReady' /\ DrainIsFinal'
<1>1. H!TypeOK'
  BY DEF HostInvariant, H!TypeOK, RuntimesGoOn, TaskRecords, Runtimes, SocketStates, Kinds, Pcs
<1>2. RuntimesAreReady'
  BY DEF HostInvariant, RuntimesAreReady, RuntimesGoOn, Stays, MovesRightly
<1>3. DrainIsFinal'
  <2>1. drain = "closed" => H!Tracked' = {}
    BY DEF HostInvariant, DrainIsFinal, H!Tracked, Stays, MovesRightly, TrackedKinds
  <2>2. phase = "drained" => H!Connected' = {}
    BY DEF HostInvariant, DrainIsFinal, H!Connected, Stays, MovesRightly
  <2> QED BY <2>1, <2>2 DEF HostInvariant, DrainIsFinal, H!Closing
<1> QED BY <1>1, <1>2, <1>3

-----------------------------------------------------------------------------
(* Coming in.                                                               *)

ArrivalSteps(t) == H!HttpArrives(t) \/ H!HttpRouted(t) \/ H!UpgradeArrives(t)

\* getOrCreateRuntime finds the runtime in the map, or makes one that nobody has seen.
LEMMA JoinKeeps ==
  ASSUME HostIds, HostInvariant, NEW t \in HostTasks, NEW rec \in TaskRecords,
         H!Join(t, rec) \/ H!JoinFails(t, rec), UNCHANGED <<sockets, phase, drain>>,
         work[t].pc \in {"free", "routing"}, work[t].gen = 0, rec.kind # "none",
         rec.kind = "http" \/ ~H!Closing,
         rec.client => work[t].client
  PROVE  HostInvariant'
<1>t. /\ work \in [HostTasks -> TaskRecords] /\ opened \in [Generations -> Runtimes]
      /\ sockets \in [HostTasks -> SocketStates] /\ current \in Generations \union {0}
      /\ current # 0 => opened[current].handle
  BY Typed
<1>0. 0 \notin Generations /\ sockets[t] = "none"
  BY <1>t DEF HostIds, HostInvariant, RuntimesAreReady
<1>1. PICK r \in TaskRecords :
        /\ work' = [work EXCEPT ![t] = r] /\ r.kind = rec.kind
        /\ r.pc = "done" \/ (r.pc = "ready" /\ r.gen \in Generations)
        /\ r.client => rec.client
  <2>1. CASE H!JoinFails(t, rec)
    <3>1. [rec EXCEPT !.pc = "done", !.client = FALSE] \in TaskRecords
      BY DEF TaskRecords, Pcs
    <3> QED BY <2>1, <3>1 DEF H!JoinFails, TaskRecords
  <2>2. CASE H!Join(t, rec)
    <3>1. PICK g \in Generations :
            work' = [work EXCEPT ![t] = [rec EXCEPT !.pc = "ready", !.gen = g]]
      BY <1>t, <2>2 DEF H!Join
    <3>2. [rec EXCEPT !.pc = "ready", !.gen = g] \in TaskRecords
      BY DEF TaskRecords, Pcs
    <3> QED BY <3>1, <3>2 DEF TaskRecords
  <2> QED BY <2>1, <2>2
<1>2. /\ RuntimesGoOn
      /\ \A g \in Generations : opened'[g].tail = opened[g].tail
  <2>1. CASE UNCHANGED <<opened, current>>
    BY <1>t, <2>1 DEF RuntimesGoOn, HostInvariant, RuntimesAreReady
  <2>2. CASE \E g \in Generations : /\ ~opened[g].made /\ current' = g
                                    /\ opened' = [opened EXCEPT ![g] = H!Generation(g)]
    <3>1. PICK g \in Generations : /\ ~opened[g].made /\ current' = g
                                   /\ opened' = [opened EXCEPT ![g] = H!Generation(g)]
      BY <2>2
    <3>2. /\ H!Generation(g) \in Runtimes /\ H!Generation(g).made /\ H!Generation(g).handle
          /\ H!Generation(g).tail = 0 /\ ~H!Generation(g).timer
      BY DEF H!Generation, H!Unmade, Runtimes
    <3>3. opened[g].ready # "yes"
      BY <3>1 DEF HostInvariant, RuntimesAreReady
    <3>4. opened[g].tail = 0
      <4>1. H!Under(g, InLine) = {}
        BY <3>3 DEF H!Under, InLine, HostInvariant, RuntimesAreReady
      <4>2. Lined(H!Under(g, InLine), Prevs, H!Under(g, {"running"}), opened[g].tail)
        BY DEF HostInvariant, LockIsLined
      <4> QED BY <4>1, <4>2 DEF Lined
    <3> QED BY <1>t, <3>1, <3>2, <3>3, <3>4 DEF RuntimesGoOn, HostInvariant, RuntimesAreReady
  <2> QED BY <2>1, <2>2 DEF H!Join, H!JoinFails
<1>3. work' \in [HostTasks -> TaskRecords]
  BY <1>t, <1>1
<1>4. LockIsLined'
  <2>1. LineUntouched
    BY <1>t, <1>1, <1>2 DEF LineUntouched, InLine
  <2> QED BY <2>1, LockStands DEF HostInvariant
<1>5. \A u \in HostTasks \ {t} : Stays(u)
  BY <1>t, <1>1 DEF Stays
<1>6. MovesRightly(t)
  <2>1. work'[t] = r
    BY <1>t, <1>1
  <2>2. phase = "drained" => ~work[t].client
    BY DEF HostInvariant, DrainIsFinal, H!Connected
  <2>3. drain = "closed" => H!Closing
    BY DEF HostInvariant, DrainIsFinal
  <2> QED BY <1>0, <1>1, <2>1, <2>2, <2>3 DEF MovesRightly, TrackedKinds
<1>7. drain = "closed" => Unsocketed'
  BY DEF HostInvariant, DrainIsFinal, Unsocketed
<1> QED BY <1>2, <1>3, <1>4, <1>5, <1>6, <1>7, <1>t, TasksKeep DEF HostInvariant

\* Requests and upgrades that come, and requests that are routed.
LEMMA ArrivalsKeep ==
  ASSUME HostIds, HostInvariant, NEW t \in HostTasks, ArrivalSteps(t)
  PROVE  HostInvariant'
<1>t. /\ work \in [HostTasks -> TaskRecords] /\ opened \in [Generations -> Runtimes]
      /\ sockets \in [HostTasks -> SocketStates] /\ current \in Generations \union {0}
      /\ current # 0 => opened[current].handle
  BY Typed
<1>f. H!Free \in TaskRecords
  BY DEF H!Free, TaskRecords, Kinds, Pcs
<1>1. CASE H!HttpArrives(t)
  <2> DEFINE r == [H!Free EXCEPT !.kind = "http", !.pc = "routing", !.client = TRUE]
  <2>1. /\ work[t] = H!Free /\ ~H!Closing /\ work' = [work EXCEPT ![t] = r]
        /\ UNCHANGED <<opened, current, sockets, phase, drain>>
    BY <1>1 DEF H!HttpArrives, H!IsNext
  <2>2. r \in TaskRecords /\ r.kind = "http" /\ r.pc = "routing" /\ r.gen = 0
    BY DEF H!Free, TaskRecords, Kinds, Pcs
  <2> HIDE DEF r
  <2>3. sockets[t] = "none" /\ work[t].pc = "free"
    BY <1>t, <2>1 DEF H!Free, HostIds, HostInvariant, RuntimesAreReady
  <2>4. LineUntouched
    BY <1>t, <2>1, <2>2, <2>3 DEF LineUntouched, InLine
  <2>5. RuntimesGoOn
    BY <1>t, <2>1 DEF RuntimesGoOn, HostInvariant, RuntimesAreReady
  <2>6. \A u \in HostTasks \ {t} : Stays(u)
    BY <1>t, <2>1 DEF Stays
  <2>7. MovesRightly(t)
    BY <1>t, <2>1, <2>2, <2>3
    DEF MovesRightly, TrackedKinds, H!Closing, HostInvariant, DrainIsFinal
  <2>8. work' \in [HostTasks -> TaskRecords] /\ (drain = "closed" => Unsocketed')
    BY <1>t, <2>1, <2>2 DEF HostInvariant, DrainIsFinal, Unsocketed
  <2> QED BY <1>t, <2>1, <2>4, <2>5, <2>6, <2>7, <2>8, TasksKeep, LockStands DEF HostInvariant
<1>2. CASE H!HttpRouted(t)
  <2>1. /\ work[t].kind = "http" /\ work[t].pc = "routing" /\ work[t] \in TaskRecords
        /\ (H!Join(t, work[t]) \/ H!JoinFails(t, work[t]))
        /\ UNCHANGED <<sockets, phase, drain>>
    BY <1>t, <1>2 DEF H!HttpRouted
  <2>2. work[t].gen = 0
    BY <2>1 DEF HostInvariant, RuntimesAreReady
  <2> QED BY <2>1, <2>2, JoinKeeps
<1>3. CASE H!UpgradeArrives(t)
  <2> DEFINE r == [H!Free EXCEPT !.kind = "upgrade"]
  <2>1. /\ work[t] = H!Free /\ ~H!Closing /\ (H!Join(t, r) \/ H!JoinFails(t, r))
        /\ UNCHANGED <<sockets, phase, drain>>
    BY <1>3 DEF H!UpgradeArrives, H!IsNext
  <2>2. r \in TaskRecords /\ r.kind = "upgrade" /\ ~r.client
    BY DEF H!Free, TaskRecords, Kinds, Pcs
  <2>3. work[t].pc = "free" /\ work[t].gen = 0
    BY <2>1 DEF H!Free
  <2> HIDE DEF r
  <2> QED BY <2>1, <2>2, <2>3, JoinKeeps
<1> QED BY <1>1, <1>2, <1>3 DEF ArrivalSteps

\* A client that goes away, a runtime that becomes ready or does not, and a socket that is
\* destroyed because the server closes: none of them touches the lock.
LEMMA QuietStepsKeep ==
  ASSUME HostIds, HostInvariant,
         \/ \E t \in HostTasks : H!ClientLeaves(t) \/ H!UpgradeTooLate(t)
         \/ \E g \in Generations : H!BecomesReady(g)
  PROVE  HostInvariant'
<1>t. /\ work \in [HostTasks -> TaskRecords] /\ opened \in [Generations -> Runtimes]
      /\ sockets \in [HostTasks -> SocketStates] /\ current \in Generations \union {0}
      /\ current # 0 => opened[current].handle
  BY Typed
<1>s. UNCHANGED sockets => (drain = "closed" => Unsocketed')
  BY DEF HostInvariant, DrainIsFinal, Unsocketed
<1>1. CASE \E t \in HostTasks : H!ClientLeaves(t) \/ H!UpgradeTooLate(t)
  <2>1. PICK t \in HostTasks, r \in TaskRecords :
          /\ work' = [work EXCEPT ![t] = r] /\ r.kind = work[t].kind /\ r.gen = work[t].gen
          /\ r.prev = work[t].prev
          /\ \/ r.pc = work[t].pc /\ work[t].kind = "http"
             \/ r.pc = "done" /\ work[t].pc = "prepared"
          /\ (r.client => work[t].client)
          /\ UNCHANGED <<opened, current, sockets, phase, drain>>
    <3>1. ASSUME NEW t \in HostTasks, H!ClientLeaves(t)
          PROVE  [work[t] EXCEPT !.client = FALSE] \in TaskRecords
      BY <1>t DEF TaskRecords
    <3>2. ASSUME NEW t \in HostTasks, H!UpgradeTooLate(t)
          PROVE  [work[t] EXCEPT !.pc = "done"] \in TaskRecords
      BY <1>t DEF TaskRecords, Pcs
    <3>3. CASE \E t \in HostTasks : H!ClientLeaves(t)
      BY ZenonT(30), <1>t, <3>1, <3>3 DEF H!ClientLeaves, TaskRecords
    <3>4. CASE \E t \in HostTasks : H!UpgradeTooLate(t)
      <4>1. PICK t \in HostTasks : H!UpgradeTooLate(t)
        BY <3>4
      <4> DEFINE r == [work[t] EXCEPT !.pc = "done"]
      <4>2. r \in TaskRecords /\ r.pc = "done" /\ r.kind = work[t].kind /\ r.gen = work[t].gen
            /\ r.prev = work[t].prev /\ r.client = work[t].client
        BY <1>t, <3>2, <4>1 DEF TaskRecords
      <4>3. /\ work[t].pc = "prepared" /\ work' = [work EXCEPT ![t] = r]
            /\ UNCHANGED <<opened, current, sockets, phase, drain>>
        BY <4>1 DEF H!UpgradeTooLate
      <4> HIDE DEF r
      <4> QED BY <4>2, <4>3
    <3> QED BY <1>1, <3>3, <3>4
  <2>2. work'[t] = r /\ \A u \in HostTasks \ {t} : work'[u] = work[u]
    BY <1>t, <2>1
  <2>3. LineUntouched
    BY <2>1, <2>2 DEF LineUntouched, InLine
  <2>4. RuntimesGoOn
    BY <1>t, <2>1 DEF RuntimesGoOn, HostInvariant, RuntimesAreReady
  <2>5. \A u \in HostTasks \ {t} : Stays(u)
    BY <2>1, <2>2 DEF Stays
  <2>6. MovesRightly(t)
    <3>1. /\ work[t].pc \in {"queued", "running", "prepared"} \/ sockets[t] # "none" =>
               work[t].gen \in Generations /\ opened[work[t].gen].ready = "yes"
          /\ (work[t].pc = "ready" => work[t].gen \in Generations)
          /\ (work[t].pc = "routing" => work[t].gen = 0)
          /\ (work[t].kind = "none" => work[t].pc = "free")
      BY DEF HostInvariant, RuntimesAreReady
    <3>2. phase = "drained" => ~work[t].client
      BY DEF HostInvariant, DrainIsFinal, H!Connected
    <3> QED BY <1>t, <2>1, <2>2, <3>1, <3>2 DEF MovesRightly, TrackedKinds
  <2>7. work' \in [HostTasks -> TaskRecords]
    BY <1>t, <2>1
  <2> QED BY <1>s, <1>t, <2>1, <2>3, <2>4, <2>5, <2>6, <2>7, TasksKeep, LockStands DEF HostInvariant
<1>2. CASE \E g \in Generations : H!BecomesReady(g)
  <2>1. PICK g \in Generations, r \in Runtimes :
          /\ opened[g].made /\ opened[g].ready = "pending" /\ opened' = [opened EXCEPT ![g] = r]
          /\ r.made = opened[g].made /\ r.handle = opened[g].handle /\ r.tail = opened[g].tail
          /\ r.ready # "pending"
          /\ (r.timer => r.ready = "yes" \/ opened[g].timer)
          /\ UNCHANGED <<work, current, sockets, phase, drain>>
    <3>1. PICK g \in Generations : H!BecomesReady(g)
      BY <1>2
    <3>1a. opened[g] \in Runtimes
      BY <1>t
    <3>2. \A jobs \in BOOLEAN : [opened[g] EXCEPT !.ready = "yes", !.timer = jobs] \in Runtimes
      BY <3>1a DEF Runtimes
    <3>3. [opened[g] EXCEPT !.ready = "failed"] \in Runtimes
      BY <3>1a DEF Runtimes
    <3>4. CASE \E jobs \in BOOLEAN :
                 opened' = [opened EXCEPT ![g].ready = "yes", ![g].timer = jobs]
      <4>1. PICK jobs \in BOOLEAN :
              opened' = [opened EXCEPT ![g].ready = "yes", ![g].timer = jobs]
        BY <3>4
      <4> DEFINE r == [opened[g] EXCEPT !.ready = "yes", !.timer = jobs]
      <4>2. r \in Runtimes /\ r.made = opened[g].made /\ r.handle = opened[g].handle
            /\ r.tail = opened[g].tail /\ r.ready = "yes"
        BY <1>t, <3>2 DEF Runtimes
      <4>3. opened' = [opened EXCEPT ![g] = r]
        BY <1>t, <4>1
      <4> HIDE DEF r
      <4> QED BY <3>1, <4>2, <4>3 DEF H!BecomesReady
    <3>5. CASE opened' = [opened EXCEPT ![g].ready = "failed"]
      BY <1>t, <3>1, <3>3, <3>5 DEF H!BecomesReady, Runtimes
    <3> QED BY <3>1, <3>4, <3>5 DEF H!BecomesReady
  <2>2. LineUntouched
    BY <1>t, <2>1 DEF LineUntouched
  <2>3. RuntimesGoOn
    BY <1>t, <2>1 DEF RuntimesGoOn, HostInvariant, RuntimesAreReady
  <2>4. \A u \in HostTasks : Stays(u)
    BY <2>1 DEF Stays
  <2> QED BY <1>s, <1>t, <2>1, <2>2, <2>3, <2>4, TasksKeep, LockStands DEF HostInvariant
<1> QED BY <1>1, <1>2

-----------------------------------------------------------------------------
(* Calling the lock.                                                        *)

\* A task t that is new, or that has waited for its runtime, calls the lock of g, which is
\* ready; at most one other task ends, one that has come out of the lock.
CallsLock(t, g) ==
  /\ opened[g].ready = "yes" /\ work[t].pc \in {"free", "ready"}
  /\ \E r \in TaskRecords :
       /\ r.pc = "queued" /\ r.gen = g /\ r.prev = opened[g].tail /\ r.kind # "none"
       /\ (r.client => work[t].client)
       /\ (drain = "closed" => r.kind \in {"http", "alarm"})
       /\ \/ work' = [work EXCEPT ![t] = r]
          \/ \E u \in HostTasks \ {t} :
               work[u].pc = "prepared" /\ work' = [work EXCEPT ![u].pc = "done", ![t] = r]
  /\ \E q \in Runtimes :
       /\ opened' = [opened EXCEPT ![g] = q]
       /\ q.tail = t /\ q.made = opened[g].made /\ q.ready = opened[g].ready
       /\ q.handle = opened[g].handle /\ (q.timer => opened[g].timer)
  /\ UNCHANGED <<current, phase, drain>>

\* A step that calls the lock once keeps the invariant.
LEMMA CallsKeep ==
  ASSUME HostIds, HostInvariant, NEW t \in HostTasks, NEW g \in Generations, CallsLock(t, g),
         sockets' \in [HostTasks -> SocketStates],
         \A u \in HostTasks :
           sockets'[u] # "none" => sockets[u] # "none" \/ work[u].pc = "prepared",
         drain = "closed" => Unsocketed'
  PROVE  HostInvariant'
<1>t. /\ work \in [HostTasks -> TaskRecords] /\ opened \in [Generations -> Runtimes]
      /\ current \in Generations \union {0} /\ (current # 0 => opened[current].handle)
  BY Typed
<1>1. PICK r \in TaskRecords :
        /\ r.pc = "queued" /\ r.gen = g /\ r.prev = opened[g].tail /\ r.kind # "none"
        /\ (r.client => work[t].client) /\ (drain = "closed" => r.kind \in {"http", "alarm"})
        /\ \/ work' = [work EXCEPT ![t] = r]
           \/ \E u \in HostTasks \ {t} :
                work[u].pc = "prepared" /\ work' = [work EXCEPT ![u].pc = "done", ![t] = r]
  BY DEF CallsLock
<1>2. PICK q \in Runtimes :
        /\ opened' = [opened EXCEPT ![g] = q]
        /\ q.tail = t /\ q.made = opened[g].made /\ q.ready = opened[g].ready
        /\ q.handle = opened[g].handle /\ (q.timer => opened[g].timer)
  BY DEF CallsLock
<1>3. /\ work' \in [HostTasks -> TaskRecords] /\ work'[t] = r
      /\ \A u \in HostTasks \ {t} :
           \/ work'[u] = work[u]
           \/ /\ work[u].pc = "prepared" /\ work'[u].pc = "done" /\ work'[u].kind = work[u].kind
              /\ work'[u].gen = work[u].gen /\ work'[u].client = work[u].client
  <2>1. CASE work' = [work EXCEPT ![t] = r]
    BY <1>t, <2>1
  <2>2. CASE \E u \in HostTasks \ {t} :
               work[u].pc = "prepared" /\ work' = [work EXCEPT ![u].pc = "done", ![t] = r]
    <3>1. PICK u \in HostTasks \ {t} :
            work[u].pc = "prepared" /\ work' = [work EXCEPT ![u].pc = "done", ![t] = r]
      BY <2>2
    <3>2. [work[u] EXCEPT !.pc = "done"] \in TaskRecords
      BY <1>t DEF TaskRecords, Pcs
    <3> QED BY <1>t, <3>1, <3>2 DEF TaskRecords
  <2> QED BY <1>1, <2>1, <2>2
<1>4. RuntimesGoOn
  BY <1>t, <1>2 DEF RuntimesGoOn, HostInvariant, RuntimesAreReady, CallsLock
<1>5. LockIsLined'
  <2>1. Joins(t, g)
    <3>1. \A f \in Generations : opened'[f].tail = IF f = g THEN t ELSE opened[f].tail
      BY <1>t, <1>2
    <3> QED BY <1>1, <1>3, <3>1 DEF Joins, InLine, CallsLock
  <2> QED BY <2>1, LockGrows DEF HostInvariant
<1>6. \A u \in HostTasks \ {t} : Stays(u) \/ MovesRightly(u)
  <2> SUFFICES ASSUME NEW u \in HostTasks \ {t}
               PROVE  Stays(u) \/ MovesRightly(u)
    OBVIOUS
  <2>1. /\ work[u].pc \in {"queued", "running", "prepared"} \/ sockets[u] # "none" =>
             work[u].gen \in Generations /\ opened[work[u].gen].ready = "yes"
        /\ (work[u].pc = "ready" => work[u].gen \in Generations)
        /\ (work[u].pc = "routing" => work[u].gen = 0)
        /\ (work[u].kind = "none" => work[u].pc = "free")
        /\ (drain = "closed" => work[u].pc = "done" \/ work[u].kind \notin TrackedKinds)
        /\ (phase = "drained" => ~work[u].client)
    BY DEF HostInvariant, RuntimesAreReady, DrainIsFinal, H!Tracked, H!Connected, TrackedKinds
  <2>2. work[u].gen \in Generations /\ opened[work[u].gen].ready = "yes" =>
          opened'[work[u].gen].ready = "yes"
    BY <1>4 DEF RuntimesGoOn
  <2>3. CASE work[u].pc # "prepared"
    BY <1>3, <2>3 DEF Stays
  <2>4. CASE work[u].pc = "prepared"
    BY <1>3, <2>1, <2>2, <2>4 DEF MovesRightly
  <2> QED BY <2>3, <2>4
<1>7. MovesRightly(t)
  <2>1. opened'[g].ready = "yes"
    BY <1>t, <1>2 DEF CallsLock
  <2>2. phase = "drained" => ~work[t].client
    BY DEF HostInvariant, DrainIsFinal, H!Connected
  <2> QED BY <1>1, <1>3, <2>1, <2>2 DEF MovesRightly, TrackedKinds
<1>8. UNCHANGED <<phase, drain>>
  BY DEF CallsLock
<1> QED BY <1>3, <1>4, <1>5, <1>6, <1>7, <1>8, TasksKeep DEF HostInvariant

\* What a call of the lock is, as a task and as a tail.
LEMMA CallIsTyped ==
  ASSUME HostInvariant, NEW rec \in TaskRecords, rec.gen \in Generations, NEW t \in HostTasks
  PROVE  /\ H!Call(rec, t) \in TaskRecords /\ H!Call(rec, t).pc = "queued"
         /\ H!Call(rec, t).gen = rec.gen /\ H!Call(rec, t).prev = opened[rec.gen].tail
         /\ H!Call(rec, t).kind = rec.kind /\ H!Call(rec, t).client = rec.client
<1>1. opened[rec.gen].tail \in HostTasks \union {0}
  BY Typed DEF Runtimes
<1> QED BY <1>1 DEF H!Call, TaskRecords, Pcs

\* A task that calls the lock at once has its type.
LEMMA CallingIsTyped ==
  ASSUME HostInvariant, NEW kind \in Kinds, NEW g \in Generations, NEW t \in HostTasks
  PROVE  /\ H!Calling(kind, g, t) \in TaskRecords /\ H!Calling(kind, g, t).pc = "queued"
         /\ H!Calling(kind, g, t).gen = g /\ H!Calling(kind, g, t).prev = opened[g].tail
         /\ H!Calling(kind, g, t).kind = kind /\ ~H!Calling(kind, g, t).client
<1> DEFINE rec == [H!Free EXCEPT !.kind = kind, !.gen = g]
<1>1. rec \in TaskRecords /\ rec.gen = g /\ rec.kind = kind /\ ~rec.client
  BY DEF H!Free, TaskRecords, Pcs
<1>2. H!Calling(kind, g, t) = H!Call(rec, t)
  BY DEF H!Calling
<1> HIDE DEF rec
<1> QED BY <1>1, <1>2, CallIsTyped

\* A new tail changes nothing else of a runtime.
LEMMA TailIsTyped ==
  ASSUME HostInvariant, NEW g \in Generations, NEW t \in HostTasks
  PROVE  \E q \in Runtimes : /\ H!Tailed(g, t) = [opened EXCEPT ![g] = q]
                             /\ q.tail = t /\ q.made = opened[g].made /\ q.ready = opened[g].ready
                             /\ q.handle = opened[g].handle /\ (q.timer => opened[g].timer)
<1> DEFINE q == [opened[g] EXCEPT !.tail = t]
<1>1. /\ q \in Runtimes /\ q.tail = t /\ q.made = opened[g].made /\ q.ready = opened[g].ready
      /\ q.handle = opened[g].handle /\ q.timer = opened[g].timer
  BY Typed DEF Runtimes
<1>2. H!Tailed(g, t) = [opened EXCEPT ![g] = q]
  BY DEF H!Tailed
<1> HIDE DEF q
<1> QED BY <1>1, <1>2

CallSteps ==
  \/ \E t \in HostTasks : H!Proceed(t)
  \/ \E s, t \in HostTasks : H!MessageArrives(s, t) \/ H!SocketGoes(s, t) \/ H!UpgradeCompletes(s, t)
  \/ \E g \in Generations, t \in HostTasks : H!AlarmFires(g, t)

\* What calls the lock at once is let in by a socket or a timer of a runtime that was ready.
LEMMA CallStepsKeep ==
  ASSUME HostIds, HostInvariant, CallSteps
  PROVE  HostInvariant'
<1>t. /\ work \in [HostTasks -> TaskRecords] /\ opened \in [Generations -> Runtimes]
      /\ sockets \in [HostTasks -> SocketStates] /\ current \in Generations \union {0}
      /\ current # 0 => opened[current].handle
  BY Typed
<1>s. UNCHANGED sockets => (drain = "closed" => Unsocketed')
  BY DEF HostInvariant, DrainIsFinal, Unsocketed
<1>n. \A t \in HostTasks : H!IsNext(t) => work[t] = H!Free /\ work[t].pc = "free"
  BY DEF H!IsNext, H!Free
<1>f. /\ \A t \in HostTasks : sockets[t] # "none" \/ work[t].pc = "prepared" =>
           work[t].gen \in Generations /\ opened[work[t].gen].ready = "yes"
      /\ drain = "closed" => Unsocketed
      /\ drain # "none" => H!Closing
  BY DEF HostInvariant, RuntimesAreReady, DrainIsFinal
<1>1. ASSUME NEW t \in HostTasks, H!Proceed(t)
      PROVE  HostInvariant'
  <2>1. work[t].pc = "ready" /\ work[t].gen \in Generations /\ work[t].kind # "none"
        /\ UNCHANGED <<current, sockets, phase, drain>>
    BY <1>1 DEF H!Proceed, HostInvariant, RuntimesAreReady
  <2>2. CASE /\ opened[work[t].gen].ready = "yes"
             /\ work' = [work EXCEPT ![t] = H!Call(work[t], t)]
             /\ opened' = H!Tailed(work[t].gen, t)
    <3> DEFINE r == H!Call(work[t], t)
    <3>1. /\ r \in TaskRecords /\ r.pc = "queued" /\ r.gen = work[t].gen /\ r.kind = work[t].kind
          /\ r.prev = opened[work[t].gen].tail /\ r.client = work[t].client
      BY <1>t, <2>1, CallIsTyped
    <3>2. drain = "closed" => work[t].kind \in {"http", "alarm"}
      BY <1>t, <2>1 DEF HostInvariant, DrainIsFinal, H!Tracked, TaskRecords, Kinds
    <3> HIDE DEF r
    <3>3. CallsLock(t, work[t].gen)
      <4>1. work' = [work EXCEPT ![t] = r]
        BY <2>2 DEF r
      <4> QED BY ZenonT(30), <2>1, <2>2, <3>1, <3>2, <4>1, TailIsTyped DEF CallsLock
    <3> QED BY <1>t, <1>s, <2>1, <3>3, CallsKeep
  <2>3. CASE /\ work' = [work EXCEPT ![t].pc = "done", ![t].client = FALSE]
             /\ UNCHANGED opened
    <3> DEFINE r == [work[t] EXCEPT !.pc = "done", !.client = FALSE]
    <3>1. r \in TaskRecords /\ r.pc = "done" /\ ~r.client /\ r.kind = work[t].kind /\ r.gen = work[t].gen
      BY <1>t DEF TaskRecords, Pcs
    <3>2. work' = [work EXCEPT ![t] = r]
      BY <1>t, <2>3
    <3> HIDE DEF r
    <3>3. work'[t] = r /\ \A u \in HostTasks \ {t} : work'[u] = work[u]
      BY <1>t, <3>2
    <3>4. LineUntouched
      BY <2>1, <2>3, <3>1, <3>3 DEF LineUntouched, InLine
    <3>5. RuntimesGoOn
      BY <1>t, <2>1, <2>3 DEF RuntimesGoOn, HostInvariant, RuntimesAreReady
    <3>6. \A u \in HostTasks \ {t} : Stays(u)
      BY <2>1, <3>3 DEF Stays
    <3>7. MovesRightly(t)
      BY <1>f, <2>1, <2>3, <3>1, <3>3 DEF MovesRightly
    <3>8. work' \in [HostTasks -> TaskRecords]
      BY <1>t, <3>1, <3>2
    <3> QED BY <1>s, <1>t, <2>1, <3>4, <3>5, <3>6, <3>7, <3>8, TasksKeep, LockStands DEF HostInvariant
  <2> QED BY <1>1, <2>2, <2>3 DEF H!Proceed
<1>2. ASSUME NEW s \in HostTasks, NEW t \in HostTasks, H!MessageArrives(s, t) \/ H!SocketGoes(s, t)
      PROVE  HostInvariant'
  <2>1. PICK kind \in {"message", "gone"} :
          /\ work' = [work EXCEPT ![t] = H!Calling(kind, work[s].gen, t)]
          /\ opened' = H!Tailed(work[s].gen, t)
          /\ sockets[s] \in {"open", "closing", "terminated"} /\ H!IsNext(t)
          /\ (sockets' = sockets \/ sockets' = [sockets EXCEPT ![s] = "gone"])
          /\ UNCHANGED <<current, phase, drain>>
    BY <1>2 DEF H!MessageArrives, H!SocketGoes
  <2> DEFINE g == work[s].gen
             r == H!Calling(kind, g, t)
  <2>2. g \in Generations /\ opened[g].ready = "yes" /\ drain # "closed"
    BY <1>f, <2>1 DEF Unsocketed
  <2>3. /\ r \in TaskRecords /\ r.pc = "queued" /\ r.gen = g /\ r.kind = kind
        /\ r.prev = opened[g].tail /\ ~r.client
    BY <2>2, CallingIsTyped DEF Kinds
  <2>4. CallsLock(t, g)
    <3>1. /\ work' = [work EXCEPT ![t] = r] /\ opened' = H!Tailed(g, t)
          /\ work[t].pc = "free" /\ UNCHANGED <<current, phase, drain>>
      BY <1>n, <2>1
    <3>2. r.kind # "none"
      BY <2>3
    <3> HIDE DEF r, g
    <3> QED BY <2>2, <2>3, <3>1, <3>2, TailIsTyped DEF CallsLock
  <2>5. sockets' \in [HostTasks -> SocketStates] /\ \A u \in HostTasks : sockets'[u] # "none" => sockets[u] # "none"
    BY <1>t, <2>1 DEF SocketStates
  <2> QED BY <2>2, <2>4, <2>5, CallsKeep
<1>3. ASSUME NEW s \in HostTasks, NEW t \in HostTasks, H!UpgradeCompletes(s, t)
      PROVE  HostInvariant'
  <2> DEFINE g == work[s].gen
             r == H!Calling("completion", g, t)
  <2>1. /\ work' = [work EXCEPT ![s].pc = "done", ![t] = r] /\ opened' = H!Tailed(g, t)
        /\ work[s].pc = "prepared" /\ ~H!Closing /\ H!IsNext(t) /\ sockets' \in H!Superseding(s)
        /\ UNCHANGED <<current, phase, drain>>
    BY <1>3 DEF H!UpgradeCompletes
  <2>2. g \in Generations /\ opened[g].ready = "yes" /\ drain # "closed" /\ s # t
    BY <1>f, <1>n, <2>1
  <2>3. /\ r \in TaskRecords /\ r.pc = "queued" /\ r.gen = g /\ r.kind = "completion"
        /\ r.prev = opened[g].tail /\ ~r.client
    BY <2>2, CallingIsTyped DEF Kinds
  <2>4. CallsLock(t, g)
    <3> HIDE DEF r, g
    <3> QED BY <1>n, <2>1, <2>2, <2>3, TailIsTyped DEF CallsLock
  <2>5. /\ sockets' \in [HostTasks -> SocketStates]
        /\ \A u \in HostTasks : sockets'[u] # "none" => sockets[u] # "none" \/ work[u].pc = "prepared"
    <3>1. PICK old \in SUBSET {u \in HostTasks : sockets[u] = "open"} :
            sockets' = [u \in HostTasks |-> IF u = s THEN "open"
                                           ELSE IF u \in old THEN "closing" ELSE sockets[u]]
      BY <2>1 DEF H!Superseding
    <3> QED BY <1>t, <2>1, <3>1 DEF SocketStates
  <2> QED BY <2>2, <2>4, <2>5, CallsKeep
<1>4. ASSUME NEW g \in Generations, NEW t \in HostTasks, H!AlarmFires(g, t)
      PROVE  HostInvariant'
  <2> DEFINE r == H!Calling("alarm", g, t)
             q == [opened[g] EXCEPT !.tail = t, !.timer = FALSE]
  <2>1. /\ work' = [work EXCEPT ![t] = r] /\ opened[g].timer /\ H!IsNext(t)
        /\ UNCHANGED <<current, sockets, phase, drain>>
    BY <1>4 DEF H!AlarmFires
  <2>2. opened[g].ready = "yes"
    BY <2>1 DEF HostInvariant, RuntimesAreReady
  <2>3. /\ r \in TaskRecords /\ r.pc = "queued" /\ r.gen = g /\ r.kind = "alarm"
        /\ r.prev = opened[g].tail /\ ~r.client
    BY CallingIsTyped DEF Kinds
  <2>4. /\ q \in Runtimes /\ q.tail = t /\ q.made = opened[g].made /\ q.ready = opened[g].ready
        /\ q.handle = opened[g].handle /\ ~q.timer
    BY ZenonT(30), <1>t DEF Runtimes
  <2>5. opened' = [opened EXCEPT ![g] = q]
    BY <1>4, <1>t DEF H!AlarmFires, H!Tailed
  <2>6. CallsLock(t, g)
    <3> HIDE DEF r, q
    <3> QED BY <1>n, <2>1, <2>2, <2>3, <2>4, <2>5 DEF CallsLock
  <2> QED BY <1>t, <1>s, <2>1, <2>6, CallsKeep
<1> QED BY <1>1, <1>2, <1>3, <1>4 DEF CallSteps

-----------------------------------------------------------------------------
(* Under the lock.                                                          *)

\* The one whose predecessor has resolved goes in.
LEMMA EnterKeeps ==
  ASSUME HostIds, HostInvariant, NEW t \in HostTasks, H!Enter(t)
  PROVE  HostInvariant'
<1>t. /\ work \in [HostTasks -> TaskRecords] /\ opened \in [Generations -> Runtimes]
      /\ sockets \in [HostTasks -> SocketStates] /\ current \in Generations \union {0}
      /\ current # 0 => opened[current].handle
  BY Typed
<1> DEFINE r == [work[t] EXCEPT !.pc = "running"]
<1>1. /\ work' = [work EXCEPT ![t] = r] /\ work[t].pc = "queued" /\ work[t].prev = 0
      /\ UNCHANGED <<opened, current, sockets, phase, drain>>
  BY <1>t DEF H!Enter
<1>2. /\ r \in TaskRecords /\ r.pc = "running" /\ r.gen = work[t].gen /\ r.kind = work[t].kind
      /\ r.prev = work[t].prev /\ r.client = work[t].client
  BY <1>t DEF TaskRecords, Pcs
<1> HIDE DEF r
<1>3. work'[t] = r /\ \A u \in HostTasks \ {t} : work'[u] = work[u]
  BY <1>t, <1>1
<1>4. LockIsLined'
  <2> SUFFICES ASSUME NEW g \in Generations
               PROVE  Lined(H!Under(g, InLine), Prevs, H!Under(g, {"running"}), opened[g].tail)'
    BY DEF LockIsLined
  <2>1. Lined(H!Under(g, InLine), Prevs, H!Under(g, {"running"}), opened[g].tail)
    BY DEF HostInvariant, LockIsLined
  <2>2. H!Under(g, InLine)' = H!Under(g, InLine)
    BY <1>1, <1>2, <1>3 DEF H!Under, InLine
  <2>3. Prevs' = Prevs
    BY <1>2, <1>3 DEF Prevs
  <2>4. CASE work[t].gen = g
    <3>1. H!Under(g, {"running"})' = H!Under(g, {"running"}) \union {t}
      BY <1>1, <1>2, <1>3, <2>4 DEF H!Under
    <3>2. t \in H!Under(g, InLine) /\ Prevs[t] = 0
      BY <1>1, <2>4 DEF H!Under, InLine, Prevs
    <3>3. Lined(H!Under(g, InLine), Prevs, H!Under(g, {"running"}) \union {t}, opened[g].tail)
      BY <2>1, <3>2, LineEnters
    <3> QED BY <1>1, <2>2, <2>3, <3>1, <3>3 DEF Lined
  <2>5. CASE work[t].gen # g
    <3>1. H!Under(g, {"running"})' = H!Under(g, {"running"})
      BY <1>1, <1>2, <1>3, <2>5 DEF H!Under
    <3> QED BY <1>1, <2>1, <2>2, <2>3, <3>1 DEF Lined
  <2> QED BY <2>4, <2>5
<1>5. RuntimesGoOn
  BY <1>t, <1>1 DEF RuntimesGoOn, HostInvariant, RuntimesAreReady
<1>6. \A u \in HostTasks \ {t} : Stays(u)
  BY <1>1, <1>3 DEF Stays
<1>7. MovesRightly(t)
  <2>1. /\ work[t].gen \in Generations /\ opened[work[t].gen].ready = "yes"
        /\ work[t].kind # "none"
        /\ (drain = "closed" => work[t].kind \notin TrackedKinds)
        /\ (phase = "drained" => ~work[t].client)
    BY <1>1 DEF HostInvariant, RuntimesAreReady, DrainIsFinal, H!Tracked, H!Connected, TrackedKinds
  <2> QED BY <1>1, <1>2, <1>3, <2>1 DEF MovesRightly
<1>8. work' \in [HostTasks -> TaskRecords] /\ (drain = "closed" => Unsocketed')
  BY <1>t, <1>1, <1>2 DEF HostInvariant, DrainIsFinal, Unsocketed
<1> QED BY <1>t, <1>1, <1>4, <1>5, <1>6, <1>7, <1>8, TasksKeep DEF HostInvariant

\* The end of a run: the next one is let in, the tail cleared if it is ours, the timer set or not.
EndsRun(t) ==
  /\ work[t].pc = "running"
  /\ \E r \in TaskRecords :
       /\ work' = [H!Released(t) EXCEPT ![t] = r]
       /\ r.pc \in {"done", "prepared"} /\ r.kind = work[t].kind /\ r.gen = work[t].gen
       /\ (r.client => work[t].client)
  /\ \E timer \in BOOLEAN :
       opened' = [H!OwnTailCleared(work[t].gen, t) EXCEPT ![work[t].gen].timer = timer]
  /\ UNCHANGED <<current, sockets, phase, drain>>

\* A step that ends what a task did under the lock keeps the invariant.
LEMMA EndsKeep ==
  ASSUME HostIds, HostInvariant, NEW t \in HostTasks, EndsRun(t)
  PROVE  HostInvariant'
<1>t. /\ work \in [HostTasks -> TaskRecords] /\ opened \in [Generations -> Runtimes]
      /\ sockets \in [HostTasks -> SocketStates] /\ current \in Generations \union {0}
      /\ current # 0 => opened[current].handle
  BY Typed
<1> DEFINE g == work[t].gen
<1>1. /\ work[t].pc = "running" /\ g \in Generations /\ opened[g].ready = "yes"
      /\ work[t].kind # "none" /\ (drain = "closed" => work[t].kind \notin TrackedKinds)
      /\ (phase = "drained" => ~work[t].client)
      /\ UNCHANGED <<current, sockets, phase, drain>>
  BY DEF EndsRun, HostInvariant, RuntimesAreReady, DrainIsFinal, H!Tracked, H!Connected, TrackedKinds
<1>2. PICK r \in TaskRecords :
        /\ work' = [H!Released(t) EXCEPT ![t] = r]
        /\ r.pc \in {"done", "prepared"} /\ r.kind = work[t].kind /\ r.gen = g
        /\ (r.client => work[t].client)
  BY DEF EndsRun
<1>3. PICK timer \in BOOLEAN : opened' = [H!OwnTailCleared(g, t) EXCEPT ![g].timer = timer]
  BY DEF EndsRun
<1>4. H!Released(t) \in [HostTasks -> TaskRecords]
  BY <1>t DEF H!Released, TaskRecords
<1>5. /\ work' \in [HostTasks -> TaskRecords] /\ work'[t] = r
      /\ \A u \in HostTasks \ {t} :
           /\ work'[u].kind = work[u].kind /\ work'[u].pc = work[u].pc
           /\ work'[u].gen = work[u].gen /\ work'[u].client = work[u].client
           /\ work'[u].prev = IF work[u].prev = t THEN 0 ELSE work[u].prev
  BY <1>2, <1>4, <1>t DEF H!Released, TaskRecords
<1>6. /\ opened' \in [Generations -> Runtimes]
      /\ \A f \in Generations :
           /\ opened'[f].tail = IF f = g /\ opened[f].tail = t THEN 0 ELSE opened[f].tail
           /\ opened'[f].made = opened[f].made /\ opened'[f].ready = opened[f].ready
           /\ opened'[f].handle = opened[f].handle
           /\ (f # g => opened'[f].timer = opened[f].timer)
  <2> DEFINE q == [opened[g] EXCEPT !.tail = IF @ = t THEN 0 ELSE @, !.timer = timer]
  <2>1. /\ q \in Runtimes /\ q.tail = (IF opened[g].tail = t THEN 0 ELSE opened[g].tail)
        /\ q.made = opened[g].made /\ q.ready = opened[g].ready /\ q.handle = opened[g].handle
    BY <1>t, <1>1 DEF Runtimes
  <2>2. opened' = [opened EXCEPT ![g] = q]
    BY <1>t, <1>1, <1>3 DEF H!OwnTailCleared
  <2> HIDE DEF q
  <2> QED BY <1>t, <1>1, <2>1, <2>2
<1>7. LockIsLined'
  <2>1. Leaves(t)
    BY <1>1, <1>2, <1>5, <1>6 DEF Leaves, InLine
  <2> QED BY <1>1, <2>1, LockShrinks DEF HostInvariant
<1>8. RuntimesGoOn
  <2>1. \A f \in Generations :
          (opened[f].ready # "pending" => opened[f].made) /\ (opened[f].timer => opened[f].ready = "yes")
    BY DEF HostInvariant, RuntimesAreReady
  <2> QED BY <1>t, <1>1, <1>6, <2>1 DEF RuntimesGoOn
<1>9. \A u \in HostTasks \ {t} : Stays(u)
  BY <1>1, <1>5 DEF Stays
<1>10. MovesRightly(t)
  BY <1>1, <1>2, <1>5, <1>6 DEF MovesRightly
<1>11. drain = "closed" => Unsocketed'
  BY <1>1 DEF HostInvariant, DrainIsFinal, Unsocketed
<1> QED BY <1>t, <1>1, <1>5, <1>7, <1>8, <1>9, <1>10, <1>11, TasksKeep DEF HostInvariant

\* Requests, alarms and preparations that end.
LEMMA EndStepsKeep ==
  ASSUME HostIds, HostInvariant, NEW t \in HostTasks,
         H!Finish(t) \/ H!FinishAlarm(t) \/ H!FinishPreparing(t)
  PROVE  HostInvariant'
<1>t. work \in [HostTasks -> TaskRecords] /\ opened \in [Generations -> Runtimes]
  BY Typed
<1>0. /\ work[t].pc = "running" /\ work[t].gen \in Generations
      /\ UNCHANGED <<current, sockets, phase, drain>>
  BY DEF H!Finish, H!FinishAlarm, H!FinishPreparing, HostInvariant, RuntimesAreReady
<1>r. H!Released(t) \in [HostTasks -> TaskRecords] /\ H!Released(t)[t].kind = work[t].kind
      /\ H!Released(t)[t].gen = work[t].gen /\ H!Released(t)[t].client = work[t].client
  BY <1>t DEF H!Released, TaskRecords
<1>1. \E r \in TaskRecords :
        /\ work' = [H!Released(t) EXCEPT ![t] = r]
        /\ r.pc \in {"done", "prepared"} /\ r.kind = work[t].kind /\ r.gen = work[t].gen
        /\ (r.client => work[t].client)
  <2>1. PICK pc \in {"done", "prepared"}, client \in BOOLEAN :
          /\ (client => work[t].client)
          /\ work' = [H!Released(t) EXCEPT ![t] = [H!Released(t)[t] EXCEPT !.pc = pc, !.client = client]]
    <3>1. CASE H!Finish(t)
      <4>1. work' = [H!Released(t) EXCEPT ![t] = [H!Released(t)[t] EXCEPT !.pc = "done", !.client = FALSE]]
        BY <1>r, <3>1 DEF H!Finish
      <4> QED BY <4>1
    <3>2. ASSUME NEW pc \in {"done", "prepared"}, work' = [H!Released(t) EXCEPT ![t].pc = pc]
          PROVE  work' = [H!Released(t) EXCEPT
                            ![t] = [H!Released(t)[t] EXCEPT !.pc = pc, !.client = work[t].client]]
      BY <1>r, <3>2 DEF TaskRecords
    <3>3. work[t].client \in BOOLEAN
      BY <1>t DEF TaskRecords
    <3>4. CASE H!FinishAlarm(t) \/ H!FinishPreparing(t)
      <4>1. PICK pc \in {"done", "prepared"} : work' = [H!Released(t) EXCEPT ![t].pc = pc]
        BY <3>4 DEF H!FinishAlarm, H!FinishPreparing
      <4> QED BY <3>2, <3>3, <4>1
    <3> QED BY <3>1, <3>4
  <2> DEFINE r == [H!Released(t)[t] EXCEPT !.pc = pc, !.client = client]
  <2>2. /\ r \in TaskRecords /\ r.pc = pc /\ r.client = client /\ r.kind = work[t].kind
        /\ r.gen = work[t].gen
    BY <1>r DEF TaskRecords, Pcs
  <2>3. work' = [H!Released(t) EXCEPT ![t] = r] /\ (r.client => work[t].client)
    BY <2>1, <2>2
  <2> HIDE DEF r
  <2> QED BY <2>2, <2>3
<1>2. \E timer \in BOOLEAN :
        opened' = [H!OwnTailCleared(work[t].gen, t) EXCEPT ![work[t].gen].timer = timer]
  <2> DEFINE g == work[t].gen
             os == H!OwnTailCleared(g, t)
  <2>1. os \in [Generations -> Runtimes]
    BY <1>t, <1>0 DEF H!OwnTailCleared, Runtimes
  <2>2. opened' \in H!Armed(g, os) => \E timer \in BOOLEAN : opened' = [os EXCEPT ![g].timer = timer]
    <3> HIDE DEF g, os
    <3>0. g \in Generations
      BY <1>0 DEF g
    <3>1. os = [os EXCEPT ![g].timer = os[g].timer] /\ os[g].timer \in BOOLEAN
      BY <2>1, <3>0 DEF Runtimes
    <3> QED BY <3>1 DEF H!Armed
  <2>3. CASE H!FinishAlarm(t)
    BY <2>3 DEF H!FinishAlarm
  <2>4. CASE H!Finish(t) \/ H!FinishPreparing(t)
    BY <2>2, <2>4 DEF H!Finish, H!FinishPreparing
  <2> QED BY <2>3, <2>4
<1> QED BY <1>0, <1>1, <1>2, EndsKeep DEF EndsRun

-----------------------------------------------------------------------------
(* Shutting down.                                                           *)

ShutdownSteps == H!Shutdown \/ H!SocketsDrained \/ H!DisposeDrained \/ H!TimesOut \/ H!DisposeForced

\* A shutdown never makes a task go on, and lets go of storage without touching the lock.
LEMMA ShutdownKeeps ==
  ASSUME HostIds, HostInvariant, ShutdownSteps
  PROVE  HostInvariant'
<1>t. /\ work \in [HostTasks -> TaskRecords] /\ opened \in [Generations -> Runtimes]
      /\ sockets \in [HostTasks -> SocketStates] /\ current \in Generations \union {0}
      /\ current # 0 => opened[current].handle
  BY Typed
<1>p. /\ phase \in {"serving", "closing", "forcing", "drained", "forced"}
      /\ drain \in {"none", "clients", "closed"}
      /\ (drain # "none" => H!Closing) /\ (drain = "closed" => H!Tracked = {} /\ Unsocketed)
  BY DEF HostInvariant, H!TypeOK, DrainIsFinal
<1>1. /\ work' \in [HostTasks -> TaskRecords]
      /\ \A t \in HostTasks :
           /\ work'[t].kind = work[t].kind /\ work'[t].pc = work[t].pc
           /\ work'[t].gen = work[t].gen /\ work'[t].prev = work[t].prev
           /\ (work'[t].client => work[t].client)
  <2>1. CASE H!TimesOut
    BY ZenonT(30), <1>t, <2>1 DEF H!TimesOut, TaskRecords
  <2>2. CASE UNCHANGED work
    BY <1>t, <2>2
  <2> QED BY <2>1, <2>2 DEF ShutdownSteps, H!Shutdown, H!SocketsDrained, H!DisposeDrained, H!DisposeForced
<1>2. /\ opened' \in [Generations -> Runtimes]
      /\ current' \in Generations \union {0} /\ (current' # 0 => opened'[current'].handle)
      /\ \A g \in Generations :
           /\ opened'[g].tail = opened[g].tail /\ opened'[g].made = opened[g].made
           /\ opened'[g].ready = opened[g].ready /\ (opened'[g].timer => opened[g].timer)
  <2>1. CASE UNCHANGED <<opened, current>>
    BY <1>t, <2>1
  <2>2. CASE H!LetGo
    <3>1. CASE current = 0
      BY <1>t, <2>2, <3>1 DEF H!LetGo
    <3>2. CASE current # 0
      <4> DEFINE q == [opened[current] EXCEPT !.handle = FALSE, !.timer = FALSE]
      <4>1. /\ q \in Runtimes /\ q.tail = opened[current].tail /\ q.made = opened[current].made
            /\ q.ready = opened[current].ready /\ ~q.timer
        BY <1>t, <3>2 DEF Runtimes
      <4>2. opened' = [opened EXCEPT ![current] = q] /\ current' = 0 /\ current \in Generations
        BY <1>t, <2>2, <3>2 DEF H!LetGo, H!LetGoOf
      <4> HIDE DEF q
      <4> QED BY <1>t, <4>1, <4>2
    <3> QED BY <3>1, <3>2
  <2> QED BY <2>1, <2>2 DEF ShutdownSteps, H!Shutdown, H!SocketsDrained, H!DisposeDrained, H!DisposeForced, H!TimesOut
<1>3. /\ sockets' \in [HostTasks -> SocketStates]
      /\ \A t \in HostTasks :
           /\ sockets'[t] # "none" => sockets[t] # "none"
           /\ sockets'[t] \in {"open", "closing", "terminated"} =>
                sockets[t] \in {"open", "closing", "terminated"}
  <2>1. CASE UNCHANGED sockets
    BY <1>t, <2>1
  <2>2. CASE H!Shutdown
    BY <1>t, <2>2 DEF H!Shutdown, SocketStates
  <2>3. CASE H!TimesOut
    BY <1>t, <2>3 DEF H!TimesOut, SocketStates
  <2> QED BY <2>1, <2>2, <2>3 DEF ShutdownSteps, H!SocketsDrained, H!DisposeDrained, H!DisposeForced
<1>4. H!TypeOK'
  <2>1. /\ phase' \in {"serving", "closing", "forcing", "drained", "forced"}
        /\ drain' \in {"none", "clients", "closed"}
    BY <1>p DEF ShutdownSteps, H!Shutdown, H!SocketsDrained, H!DisposeDrained, H!DisposeForced, H!TimesOut
  <2> QED BY <1>1, <1>2, <1>3, <2>1 DEF H!TypeOK, TaskRecords, Runtimes, SocketStates, Kinds, Pcs
<1>5. LockIsLined'
  <2>1. LineUntouched
    BY <1>1, <1>2 DEF LineUntouched
  <2> QED BY <2>1, LockStands DEF HostInvariant
<1>6. RuntimesAreReady'
  BY <1>1, <1>2, <1>3 DEF HostInvariant, RuntimesAreReady
<1>7. DrainIsFinal'
  <2>1. H!Tracked' = H!Tracked /\ H!Connected' \subseteq H!Connected /\ (Unsocketed => Unsocketed')
    BY <1>1, <1>3 DEF H!Tracked, H!Connected, Unsocketed
  <2>2. CASE H!Shutdown
    BY <1>p, <2>2 DEF H!Shutdown, DrainIsFinal, H!Closing
  <2>3. CASE H!SocketsDrained
    <3>1. Unsocketed
      BY <1>t, <2>3 DEF H!SocketsDrained, Unsocketed
    <3>2. H!Connected' = H!Connected
      BY <1>t, <2>3 DEF H!SocketsDrained, H!Connected
    <3> QED BY <1>p, <2>1, <2>3, <3>1, <3>2 DEF H!SocketsDrained, HostInvariant, DrainIsFinal, H!Closing
  <2>4. CASE H!DisposeDrained
    <3>1. H!Connected = {}
      BY <2>4 DEF H!DisposeDrained, H!HttpClosed
    <3> QED BY <1>p, <2>1, <2>4, <3>1 DEF H!DisposeDrained, DrainIsFinal, H!Closing
  <2>5. CASE H!TimesOut
    BY <1>p, <2>1, <2>5 DEF H!TimesOut, DrainIsFinal, H!Closing
  <2>6. CASE H!DisposeForced
    BY <1>p, <2>1, <2>6 DEF H!DisposeForced, DrainIsFinal, H!Closing
  <2> QED BY <2>2, <2>3, <2>4, <2>5, <2>6 DEF ShutdownSteps
<1> QED BY <1>4, <1>5, <1>6, <1>7 DEF HostInvariant

-----------------------------------------------------------------------------
(* The theorems.                                                            *)

\* Before anything has happened the invariant holds.
LEMMA InitIsInductive == HostIds /\ H!Init => HostInvariant
<1> SUFFICES ASSUME HostIds, H!Init PROVE HostInvariant
  OBVIOUS
<1>1. H!TypeOK
  BY DEF H!Init, H!TypeOK, H!Free, H!Unmade
<1>2. LockIsLined
  <2>1. \A g \in Generations : H!Under(g, InLine) = {} /\ H!Under(g, {"running"}) = {} /\ opened[g].tail = 0
    BY DEF H!Init, H!Free, H!Unmade, H!Under, InLine
  <2> QED BY <2>1 DEF LockIsLined, Lined
<1>3. RuntimesAreReady
  BY DEF H!Init, RuntimesAreReady, H!Free, H!Unmade
<1>4. DrainIsFinal
  BY DEF H!Init, DrainIsFinal
<1> QED BY <1>1, <1>2, <1>3, <1>4 DEF HostInvariant

\* No step breaks the invariant.
LEMMA StepsKeep == HostIds /\ HostInvariant /\ [H!Next]_(H!hvars) => HostInvariant'
<1> SUFFICES ASSUME HostIds, HostInvariant, [H!Next]_(H!hvars) PROVE HostInvariant'
  OBVIOUS
<1>1. CASE UNCHANGED H!hvars
  <2>1. UNCHANGED <<work, opened, current, sockets, phase, drain>>
    BY <1>1 DEF H!hvars
  <2>2. H!TypeOK' /\ RuntimesAreReady'
    BY <2>1 DEF HostInvariant, H!TypeOK, RuntimesAreReady
  <2>3. LineUntouched
    BY <2>1 DEF LineUntouched
  <2>4. DrainIsFinal'
    BY <2>1 DEF HostInvariant, DrainIsFinal, H!Closing, H!Tracked, Unsocketed, H!Connected
  <2> QED BY <2>2, <2>3, <2>4, LockStands DEF HostInvariant
<1>2. CASE \E t \in HostTasks : ArrivalSteps(t)
  BY <1>2, ArrivalsKeep
<1>3. CASE \/ \E t \in HostTasks : H!ClientLeaves(t) \/ H!UpgradeTooLate(t)
           \/ \E g \in Generations : H!BecomesReady(g)
  BY <1>3, QuietStepsKeep
<1>4. CASE CallSteps
  BY <1>4, CallStepsKeep
<1>5. CASE \E t \in HostTasks : H!Enter(t)
  BY <1>5, EnterKeeps
<1>6. CASE \E t \in HostTasks : H!Finish(t) \/ H!FinishAlarm(t) \/ H!FinishPreparing(t)
  BY <1>6, EndStepsKeep
<1>7. CASE ShutdownSteps
  BY <1>7, ShutdownKeeps
<1> QED BY <1>1, <1>2, <1>3, <1>4, <1>5, <1>6, <1>7
        DEF H!Next, ArrivalSteps, CallSteps, ShutdownSteps

\* The inductive invariant implies what the runs check.
LEMMA LinedIsClean == HostInvariant => H!LockIsClean
<1> SUFFICES ASSUME HostInvariant PROVE H!LockIsClean
  OBVIOUS
<1>1. H!TailsAreClean
  <2> SUFFICES ASSUME NEW g \in Generations
               PROVE  IF H!Under(g, {"queued", "running"}) = {} THEN opened[g].tail = 0
                      ELSE /\ opened[g].tail \in H!Under(g, {"queued", "running"})
                           /\ \A t \in H!Under(g, {"queued", "running"}) : work[t].prev # opened[g].tail
    BY DEF H!TailsAreClean
  <2>1. Lined(H!Under(g, InLine), Prevs, H!Under(g, {"running"}), opened[g].tail)
    BY DEF HostInvariant, LockIsLined
  <2>2. \A t \in H!Under(g, InLine) : Prevs[t] = work[t].prev
    BY DEF H!Under, Prevs
  <2> QED BY <2>1, <2>2 DEF Lined, InLine
<1>2. H!RunsAreMigrated
  BY DEF H!RunsAreMigrated, HostInvariant, RuntimesAreReady
<1> QED BY <1>1, <1>2 DEF H!LockIsClean

\* A shutdown that has drained found nothing that could still work.
LEMMA DrainHasWaited == HostInvariant => H!GracefulWaits
<1> SUFFICES ASSUME HostInvariant, phase = "drained"
             PROVE  /\ H!Tracked = {} /\ H!Connected = {} /\ H!LiveSockets = {}
                    /\ \A t \in HostTasks : work[t].pc \in {"queued", "running"} =>
                         work[t].kind \in {"http", "alarm"}
  BY DEF H!GracefulWaits
<1>1. H!Tracked = {} /\ H!Connected = {} /\ Unsocketed
  BY DEF HostInvariant, DrainIsFinal
<1>2. H!LiveSockets = {}
  BY <1>1 DEF H!LiveSockets, Unsocketed
<1>3. \A t \in HostTasks : work[t].pc \in {"queued", "running"} => work[t].kind \in {"http", "alarm"}
  BY <1>1, Typed DEF H!Tracked, TaskRecords, Kinds, HostInvariant, RuntimesAreReady
<1> QED BY <1>1, <1>2, <1>3

\* The tasks that have the lock of one generation.
Holders(g) == H!Under(g, {"running"})

\* The lock excludes: no two tasks work in one coordinator at a time (vault-lock.ts run).
LEMMA LinedExcludes == HostInvariant => \A g \in Generations : \A t, u \in Holders(g) : t = u
<1> SUFFICES ASSUME HostInvariant, NEW g \in Generations, NEW t \in Holders(g), NEW u \in Holders(g)
             PROVE  t = u
  OBVIOUS
<1>1. Lined(H!Under(g, InLine), Prevs, H!Under(g, {"running"}), opened[g].tail)
  BY DEF HostInvariant, LockIsLined
<1> QED BY <1>1 DEF Lined, Holders

\* At every time the invariant of the host holds: a behaviour of the server is one of the host,
\* which may stand still.
LEMMA HostAlwaysSound == MCSpec => []HostInvariant
<1>1. HostIds
  BY ServerIds DEF HostIds
<1>2. MCInit => HostInvariant
  BY <1>1, InitIsInductive DEF MCInit
<1>3. HostInvariant /\ [MCNext]_mcvars => HostInvariant'
  <2>1. [MCNext]_mcvars => [H!Next]_(H!hvars)
    BY DEF MCNext, mcvars, hostVars, H!hvars
  <2> QED BY <1>1, <2>1, StepsKeep
<1> QED BY <1>2, <1>3, PTL DEF MCSpec

\* No tail of the lock's promises stays behind and nobody works in a coordinator that has not been
\* migrated, for any number of tasks and of times the vault is opened (vault-lock.ts,
\* node-coordinator-namespace.ts).
THEOREM ServerLockIsClean == MCSpec => []LockIsClean
<1>1. HostInvariant => LockIsClean
  BY LinedIsClean DEF HostInvariant, LockIsClean
<1> QED BY <1>1, HostAlwaysSound, PTL

\* At most one task at a time works under the lock of a vault (vault-lock.ts run).
THEOREM LockExcludes ==
  MCSpec => [](\A g \in Generations : \A t, u \in Holders(g) : t = u)
BY LinedExcludes, HostAlwaysSound, PTL

\* A shutdown that was not forced has waited for all it tracks (shutdownNodeServer).
THEOREM ServerGracefulWaits == MCSpec => []GracefulWaits
<1>1. HostInvariant => GracefulWaits
  BY DrainHasWaited DEF GracefulWaits
<1> QED BY <1>1, HostAlwaysSound, PTL
=============================================================================
