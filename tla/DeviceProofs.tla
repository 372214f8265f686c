---------------------------- MODULE DeviceProofs ----------------------------
(***************************************************************************)
(* What is proved of Device for every value of its constants: that each    *)
(* variable keeps its shape, that the checkpoint has no gap, that no       *)
(* change of this device takes from the server what another device wrote,  *)
(* and that what the user wrote stays within reach, but for the edits that *)
(* Device calls raced.                                                     *)
(***************************************************************************)
EXTENDS Device, FiniteSetTheorems, WellFoundedInduction, TLAPS

-----------------------------------------------------------------------------
(* Types: the shape each variable has at each point of a pass, and the      *)
(* positions none of them is beyond.                                        *)

\* A queued change has an id and a status, or there is none.
Queued == [id : 1..6, base : Nat, from : Contents, content : Contents,
           status : Statuses \ {"none"}]
Changes == Queued \union {NoMutation}
Stored == [revision : Nat, remote : Contents, known : BOOLEAN, local : Contents, dirty : Changes]
Served == [revision : Nat, blob : Contents, seq : Nat]

Recorders ==
  [pc : {"idle"}]
    \union [pc : {"delete", "remote", "forget"}, entry : Entries]
    \union [pc : {"upsert"}, entry : Entries, bytes : Contents \ {None}]
    \union [pc : {"queue", "local"}, entry : Entries, bytes : Contents \ {None}, base : Nat, from : Contents]
    \union [pc : {"gone", "queueDelete"}, entry : Entries, base : Nat, from : Contents]

PushSteps == {"none", "todo", "uploading", "ready", "accepted", "stale", "recovering"}
Passing == [pc : {"list", "prepare", "apply", "reject", "recover"}, start : Nat,
            accepted : SUBSET Nat, stop : BOOLEAN, batch : [Entries -> Changes],
            step : [Entries -> PushSteps], got : [Entries -> [revision : Nat, seq : Nat]]]

Items == [entry : Entries, revision : Nat, blob : Contents, seq : Nat]
PlanKinds == {"out", "skip", "plain", "conflict", "merge"}
Plans == [kind : PlanKinds, id : 0..6, revision : Nat, blob : Contents, bytes : Contents,
          leaves : BOOLEAN]
Reading == [pc : {"fetch", "prepare"}, byId : BOOLEAN, since : Nat, target : Nat, after : Nat,
            final : BOOLEAN, window : SUBSET Items]
Applying == [pc : {"apply"}, byId : BOOLEAN, since : Nat, target : Nat, after : Nat,
             final : BOOLEAN, window : SUBSET Items, plan : [Entries -> Plans],
             snap : [Entries -> Stored], stage : 1..6, todo : SUBSET Entries]

Counts == [server : Nat, base : Nat, rejections : Nat, tried : BOOLEAN]

ServerTypes ==
  /\ head \in Nat /\ feed \in [Entries -> Served]
  /\ \A e \in Entries : feed[e].seq <= head
  /\ replay \in [Entries -> 0..6]
VaultTypes == file \in [Entries -> Contents] /\ copies \subseteq Mine \union Theirs
RecorderTypes ==
  /\ events \in Seq([kind : {"upsert", "delete"}, entry : Entries])
  /\ rec \in Recorders
StoreTypes == rows \in [Entries -> Stored] /\ cursor \in Nat /\ cursor <= head
Pass(p) ==
  /\ p \in Passing /\ p.start = cursor
  /\ \A n \in p.accepted : n <= head
  /\ \A e \in Entries :
       /\ p.got[e].seq <= head
       /\ p.step[e] # "none" => p.batch[e].id # 0
PushTypes ==
  /\ push = NoPush \/ Pass(push)
  /\ stale \in [Entries -> Counts] /\ parked \subseteq Entries \X Nat
PullTypes ==
  /\ pull = NoPull \/ pull \in Reading \/ pull \in Applying
  /\ pull.pc # "idle" =>
       /\ IF pull.byId THEN push.pc = "recover" ELSE push.pc = "idle"
       /\ cursor <= pull.after /\ pull.after <= pull.target /\ pull.target <= head
       /\ pull.byId => pull.target = cursor
  /\ pull.pc = "fetch" => ~pull.byId
  /\ pull.pc = "apply" => pull.todo \subseteq Concerned(pull.stage, pull.plan)
HistoryTypes ==
  /\ spent \in [pieces : SUBSET (Mine \union Theirs), troubles : Nat]
  /\ hist \in [born : SUBSET Entries, discarded : SUBSET (Mine \union Theirs),
               exposed : SUBSET (Mine \union Theirs), torn : SUBSET (Mine \union Theirs),
               raced : SUBSET Entries]
Types == /\ ServerTypes /\ VaultTypes /\ RecorderTypes /\ StoreTypes /\ PushTypes /\ PullTypes
         /\ HistoryTypes

-----------------------------------------------------------------------------
(* Helpers: contents, rows, fresh ids.                                      *)

\* The pieces of a content are a content, and so is any set of pieces.
LEMMA PiecesAre ==
  /\ None \in Contents /\ Pieces(None) = {}
  /\ \A c \in Contents : /\ Pieces(c) \in Contents /\ Pieces(c) # None
                         /\ Pieces(c) \subseteq Mine \union Theirs
                         /\ c # None => Pieces(c) = c
  /\ \A s : s \subseteq Mine \union Theirs => s \in Contents \ {None} /\ Pieces(s) = s
<1>1. None \in Contents
  BY DEF Contents
<1>2. Pieces(None) = {}
  BY DEF Pieces
<1>3. ASSUME NEW s, s \subseteq Mine \union Theirs
      PROVE  s \in Contents /\ s # None /\ Pieces(s) = s
  <2>1. s \in Contents
    BY <1>3 DEF Contents
  <2>2. Gone \notin s
    BY <1>3, DevicePieces
  <2>3. s # None
    BY <2>2 DEF None
  <2>4. s \ None = s
    BY <2>2 DEF None
  <2> QED BY <2>1, <2>3, <2>4 DEF Pieces
<1>4. \A c \in Contents : c = None \/ c \subseteq Mine \union Theirs
  BY DEF Contents
<1>5. ASSUME NEW c \in Contents
      PROVE  /\ Pieces(c) \in Contents /\ Pieces(c) # None
             /\ Pieces(c) \subseteq Mine \union Theirs /\ (c # None => Pieces(c) = c)
  <2>1. CASE c = None
    BY <1>2, <1>3, <2>1
  <2>2. CASE c # None
    BY <1>3, <1>4, <2>2
  <2> QED BY <2>1, <2>2
<1> QED BY <1>1, <1>2, <1>3, <1>5

\* What the store's writes leave of a row: every field by itself.
LEMMA WritesAre ==
  ASSUME NEW r \in Stored, NEW c \in Contents
  PROVE  /\ Local(r, c) \in Stored /\ Local(r, c).revision = r.revision
         /\ Local(r, c).remote = r.remote /\ Local(r, c).known = TRUE
         /\ Local(r, c).local = c /\ Local(r, c).dirty = r.dirty
         /\ Clean(r) \in Stored /\ Clean(r).revision = r.revision
         /\ Clean(r).remote = r.remote /\ Clean(r).known = r.known
         /\ Clean(r).local = r.local /\ Clean(r).dirty = NoMutation
BY DEF Local, Clean, Stored, Changes

\* A change queued has the id, the base and the content it is queued with.
LEMMA DirtyIs ==
  ASSUME NEW r \in Stored, NEW id \in 1..6, NEW base \in Nat, NEW from \in Contents,
         NEW c \in Contents
  PROVE  /\ Dirty(r, id, base, from, c) \in Stored
         /\ Dirty(r, id, base, from, c).revision = r.revision
         /\ Dirty(r, id, base, from, c).remote = r.remote
         /\ Dirty(r, id, base, from, c).known = r.known
         /\ Dirty(r, id, base, from, c).local = r.local
         /\ Dirty(r, id, base, from, c).dirty =
              [id |-> id, base |-> base, from |-> from, content |-> c, status |-> "pending"]
         /\ Dirty(r, id, base, from, c).dirty \in Queued
BY DEF Dirty, Stored, Changes, Queued, Statuses

\* A row written anew has what the server sent, and nothing queued.
LEMMA UpsertedIs ==
  ASSUME NEW revision \in Nat, NEW c \in Contents
  PROVE  /\ EmptyRow \in Stored /\ EmptyRow.revision = 0 /\ EmptyRow.dirty = NoMutation
         /\ EmptyRow.remote = None /\ EmptyRow.local = None /\ EmptyRow.known = FALSE
         /\ Upserted(revision, c) \in Stored /\ Upserted(revision, c).revision = revision
         /\ Upserted(revision, c).remote = c /\ Upserted(revision, c).known = TRUE
         /\ Upserted(revision, c).local = c /\ Upserted(revision, c).dirty = NoMutation
BY PiecesAre DEF Upserted, EmptyRow, Stored, Changes

\* The rows there are at the start.
LEMMA FirstRows ==
  /\ Upserted(1, {}).revision = 1 /\ Upserted(1, {}).dirty = NoMutation
  /\ Upserted(1, {}).local = {}
  /\ EmptyRow.revision = 0 /\ EmptyRow.dirty = NoMutation /\ EmptyRow.local = None
BY DEF Upserted, EmptyRow

\* The start with its choices named.
Start(synced, place) ==
  /\ \A e, f \in Entries \ New : place[e] = place[f] => e = f
  /\ head = Cardinality(Entries \ New)
  /\ feed = [e \in Entries |->
              IF e \in New THEN [revision |-> 0, blob |-> None, seq |-> 0]
                           ELSE [revision |-> 1, blob |-> {}, seq |-> place[e]]]
  /\ replay = [e \in Entries |-> 0]
  /\ file = [e \in Entries |-> IF synced /\ e \notin New THEN {} ELSE None]
  /\ copies = {}
  /\ events = <<>>
  /\ rec = NoRec
  /\ rows = [e \in Entries |-> IF synced /\ e \notin New THEN Upserted(1, {}) ELSE EmptyRow]
  /\ cursor = IF synced THEN head ELSE 0
  /\ push = NoPush
  /\ pull = NoPull
  /\ stale = [e \in Entries |-> NoStale]
  /\ parked = {}
  /\ spent = [pieces |-> {}, troubles |-> 0]
  /\ hist = [born |-> {}, discarded |-> {}, exposed |-> {}, torn |-> {}, raced |-> {}]

LEMMA StartIs ==
  Init => \E synced \in BOOLEAN, place \in [Entries \ New -> 1..Cardinality(Entries \ New)] :
            Start(synced, place)
BY Zenon DEF Init, Start

\* A change that is blocked keeps its content and its base.
LEMMA BlockedIs ==
  ASSUME NEW m \in Changes, m.id # 0, NEW why \in Statuses \ {"none"}
  PROVE  /\ Blocked(m, why) \in Queued /\ Blocked(m, why).id = m.id
         /\ Blocked(m, why).base = m.base /\ Blocked(m, why).content = m.content
         /\ Blocked(m, why).from = m.from /\ Blocked(m, why).status = why
BY DEF Blocked, Changes, Queued, NoMutation

\* There is an id that nothing refers to (randomUUID).
LEMMA NewIdIsFresh ==
  ASSUME Types, NEW e \in Entries
  PROVE  NewId(e) \in 1..6 /\ NewId(e) \notin InUse(e)
<1> DEFINE a == rows[e].dirty.id
           b == replay[e]
           c == IF push.pc = "idle" THEN 0 ELSE push.batch[e].id
           d == IF pull.pc = "apply" THEN pull.plan[e].id ELSE 0
           f == IF pull.pc = "apply" THEN pull.snap[e].dirty.id ELSE 0
<1>1. \A id \in 1..6 : id \in InUse(e) => id \in {a, b, c, d, f}
  BY DEF InUse
<1> HIDE DEF a, b, c, d, f
<1>2. \E id \in 1..6 : id \notin {a, b, c, d, f}
  <2>1. 1..6 = {1, 2, 3, 4, 5, 6}
    OBVIOUS
  <2> QED BY <2>1
<1>3. \E id \in 1..6 : id \notin InUse(e)
  BY <1>1, <1>2
<1> QED BY <1>3 DEF NewId

\* Every set of natural numbers but the empty one has a least element.
LEMMA NatHasLeast ==
  ASSUME NEW T, T \subseteq Nat, T # {}
  PROVE  \E x \in T : \A y \in T : x <= y
<1> DEFINE Before == {ss \in Nat \X Nat : ss[1] < ss[2]}
<1>1. IsWellFoundedOn(Before, Nat)
  BY NatLessThanWellFounded DEF OpToRel
<1>2. PICK x \in T : \A y \in T : <<y, x>> \notin Before
  <2> HIDE DEF Before
  <2> QED BY <1>1, WFMin
<1>3. ASSUME NEW y \in T PROVE x <= y
  <2>1. x \in Nat /\ y \in Nat /\ ~(y < x)
    BY <1>2
  <2> QED BY <2>1
<1> QED BY <1>3

\* A change in a row is none, or has an id.
LEMMA ChangesAre ==
  ASSUME NEW m \in Changes
  PROVE  /\ m.id \in 0..6 /\ m.base \in Nat /\ m.from \in Contents /\ m.content \in Contents
         /\ m.status \in Statuses /\ (m.id = 0 <=> m = NoMutation)
         /\ (m.id = 0 <=> m.status = "none") /\ (m.id # 0 => m \in Queued)
  BY PiecesAre DEF Changes, Queued, NoMutation, Statuses

-----------------------------------------------------------------------------
(* Types are kept, action by action.                                        *)

\* At the start, in sync with the server or with nothing.
LEMMA TypesInit == Init => Types
<1> SUFFICES ASSUME Init PROVE Types
  OBVIOUS
<1>1. PICK synced \in BOOLEAN, place \in [Entries \ New -> 1..Cardinality(Entries \ New)] :
        /\ head = Cardinality(Entries \ New)
        /\ feed = [e \in Entries |->
                    IF e \in New THEN [revision |-> 0, blob |-> None, seq |-> 0]
                                 ELSE [revision |-> 1, blob |-> {}, seq |-> place[e]]]
        /\ file = [e \in Entries |-> IF synced /\ e \notin New THEN {} ELSE None]
        /\ rows = [e \in Entries |-> IF synced /\ e \notin New THEN Upserted(1, {}) ELSE EmptyRow]
        /\ cursor = IF synced THEN head ELSE 0
  BY DEF Init
<1>2. Cardinality(Entries \ New) \in Nat
  BY DeviceSets, FS_CardinalityType, FS_Subset
<1>3. {} \in Contents /\ None \in Contents
  BY PiecesAre
<1>4. ServerTypes
  <2>1. head \in Nat /\ replay \in [Entries -> 0..6]
    BY <1>1, <1>2 DEF Init
  <2>2. ASSUME NEW e \in Entries PROVE feed[e] \in Served /\ feed[e].seq <= head
    <3>1. CASE e \in New
      BY <1>1, <1>2, <1>3, <3>1 DEF Served
    <3>2. CASE e \notin New
      <4>1. place[e] \in 1..head
        BY <1>1, <3>2
      <4> QED BY <1>1, <1>2, <1>3, <3>2, <4>1 DEF Served
    <3> QED BY <3>1, <3>2
  <2>3. feed \in [Entries -> Served]
    BY <1>1, <2>2
  <2> QED BY <2>1, <2>2, <2>3 DEF ServerTypes
<1>5. VaultTypes /\ HistoryTypes
  BY <1>1, <1>3 DEF VaultTypes, HistoryTypes, Init
<1>6. RecorderTypes
  BY DEF RecorderTypes, Init, NoRec, Recorders
<1>7. StoreTypes
  <2>1. Upserted(1, {}) \in Stored /\ EmptyRow \in Stored
    BY <1>3, UpsertedIs
  <2> QED BY <1>1, <1>2, <2>1 DEF StoreTypes
<1>8. PushTypes /\ PullTypes
  BY <1>1 DEF PushTypes, PullTypes, Init, NoPush, NoPull, NoStale, Counts
<1> QED BY <1>4, <1>5, <1>6, <1>7, <1>8 DEF Types

\* What the user, and what other devices do.
LEMMA TypesUser ==
  ASSUME Types, NEW e \in Entries, NEW piece, Edit(e, piece) \/ Delete(e)
  PROVE  Types'
<1>1. ServerTypes' /\ StoreTypes' /\ PushTypes' /\ PullTypes'
  BY DEF Types, ServerTypes, StoreTypes, PushTypes, Pass, PullTypes, Edit, Delete, server
<1>2. VaultTypes'
  BY PiecesAre DEF Types, VaultTypes, Edit, Delete
<1>3. RecorderTypes'
  <2>1. \E kind \in {"upsert", "delete"} : events' = Append(events, [kind |-> kind, entry |-> e])
    BY DEF Edit, Delete, Happens
  <2>2. rec' = rec
    BY DEF Edit, Delete
  <2> QED BY <2>1, <2>2 DEF Types, RecorderTypes
<1>4. HistoryTypes'
  <2>1. Held(e) \subseteq Mine \union Theirs
    BY PiecesAre DEF Held, Types, VaultTypes, StoreTypes, PullTypes, NoPull, Reading, Applying,
       Stored, Plans
  <2>2. CASE Delete(e)
    BY <2>1, <2>2 DEF Types, HistoryTypes, Delete, Trouble
  <2>3. CASE Edit(e, piece)
    BY <2>3 DEF Types, HistoryTypes, Edit
  <2> QED BY <2>2, <2>3
<1> QED BY <1>1, <1>2, <1>3, <1>4 DEF Types

\* What other devices change at the server goes to its end.
LEMMA TypesOthers ==
  ASSUME Types, NEW e \in Entries, NEW piece, OthersWrite(e, piece) \/ OthersDelete(e)
  PROVE  Types'
<1>1. ServerTypes'
  <2>1. PICK c \in Contents : feed' = [feed EXCEPT ![e] = Accept(e, c, head + 1)]
    <3>1. CASE OthersWrite(e, piece)
      <4>1. Pieces(feed[e].blob) \union {piece} \subseteq Mine \union Theirs
        BY <3>1, PiecesAre DEF OthersWrite, Types, ServerTypes, Served
      <4>2. feed' = [feed EXCEPT ![e] = Accept(e, Pieces(feed[e].blob) \union {piece}, head + 1)]
        BY <3>1 DEF OthersWrite, Types, ServerTypes
      <4> QED BY <4>1, <4>2, PiecesAre
    <3>2. CASE OthersDelete(e)
      BY <3>2, PiecesAre DEF OthersDelete
    <3> QED BY <3>1, <3>2
  <2>2. head \in Nat /\ head' = head + 1
    BY DEF Types, ServerTypes, OthersWrite, OthersDelete
  <2>3. Accept(e, c, head + 1) \in Served /\ Accept(e, c, head + 1).seq = head + 1
    BY <2>2 DEF Accept, Types, ServerTypes, Served
  <2>4. feed' \in [Entries -> Served] /\ \A f \in Entries : feed'[f].seq <= head'
    BY <2>1, <2>2, <2>3 DEF Types, ServerTypes, Served
  <2>5. replay' \in [Entries -> 0..6]
    BY DEF Types, ServerTypes, OthersWrite, OthersDelete
  <2> QED BY <2>2, <2>4, <2>5 DEF ServerTypes
<1>2. VaultTypes' /\ RecorderTypes'
  BY DEF Types, VaultTypes, RecorderTypes, OthersWrite, OthersDelete, vault
<1>3. head' = head + 1 /\ head \in Nat
  BY DEF OthersWrite, OthersDelete, Types, ServerTypes
<1>4. StoreTypes'
  BY <1>3 DEF Types, StoreTypes, OthersWrite, OthersDelete
<1>5. PushTypes'
  <2>1. UNCHANGED <<push, stale, parked, cursor>>
    BY DEF OthersWrite, OthersDelete
  <2>2. CASE push = NoPush
    BY <2>1, <2>2 DEF Types, PushTypes
  <2>3. CASE Pass(push)
    <3>1. (\A n \in push.accepted : n <= head') /\ \A f \in Entries : push.got[f].seq <= head'
      BY <1>3, <2>3 DEF Pass, Passing
    <3> QED BY <2>1, <2>3, <3>1 DEF Types, PushTypes, Pass
  <2> QED BY <2>2, <2>3 DEF Types, PushTypes
<1>6. PullTypes'
  <2>1. UNCHANGED <<push, pull, cursor>>
    BY DEF OthersWrite, OthersDelete
  <2>2. pull = NoPull \/ pull \in Reading \/ pull \in Applying
    BY DEF Types, PullTypes
  <2>3. pull.pc # "idle" => pull.target \in Nat /\ pull.target <= head'
    BY <1>3, <2>2 DEF Types, PullTypes, Reading, Applying, NoPull
  <2> QED BY <1>3, <2>1, <2>3 DEF Types, PullTypes
<1>7. HistoryTypes'
  BY PiecesAre DEF Types, HistoryTypes, ServerTypes, Served, OthersWrite, OthersDelete, Trouble
<1> QED BY <1>1, <1>2, <1>4, <1>5, <1>6, <1>7 DEF Types

\* The recorder moves from one step of its event to the next.
LEMMA TypesRecorder ==
  ASSUME Types, Recorder
  PROVE  Types'
<1>1. ServerTypes' /\ PushTypes' /\ PullTypes' /\ VaultTypes'
  <2>1. UNCHANGED <<server, vault, cursor, push, pull, stale, parked>>
    BY DEF Recorder, RecordRead, RecordUpsert, RecordQueue, RecordLocal, RecordDelete,
       RecordRemote, RecordForget, RecordGone, RecordQueueDelete, RecordChanges, RecordWrites
  <2> QED BY <2>1 DEF Types, ServerTypes, VaultTypes, PushTypes, Pass, PullTypes, server, vault
<1>2. CASE RecordRead
  <2> DEFINE Happened == [kind : {"upsert", "delete"}, entry : Entries]
  <2>1. events \in Seq(Happened) /\ events # <<>>
    BY <1>2 DEF RecordRead, Types, RecorderTypes
  <2> HIDE DEF Happened
  <2>2. Head(events) \in Happened /\ Tail(events) \in Seq(Happened)
    BY <2>1
  <2> DEFINE ev == Head(events)
  <2> HIDE DEF ev
  <2>3. [pc |-> "delete", entry |-> ev.entry] \in Recorders /\ NoRec \in Recorders
    BY <2>2 DEF ev, Happened, Recorders, NoRec
  <2>4. file[ev.entry] # None =>
          [pc |-> "upsert", entry |-> ev.entry, bytes |-> file[ev.entry]] \in Recorders
    BY <2>2 DEF ev, Happened, Recorders, Types, VaultTypes
  <2>5. rec' \in Recorders
    BY <1>2, <2>3, <2>4 DEF ev, RecordRead
  <2>6. RecorderTypes'
    BY <1>2, <2>2, <2>5 DEF RecordRead, RecorderTypes, Happened
  <2>7. StoreTypes' /\ HistoryTypes'
    BY <1>2 DEF Types, StoreTypes, HistoryTypes, RecordRead, server
  <2> QED BY <1>1, <2>6, <2>7 DEF Types
<1>3. ASSUME NEW newRec \in Recorders, NEW newRow \in Stored, rec.entry \in Entries,
             RecordWrites(newRec, newRow), hist' \in {hist, [hist EXCEPT !.raced = @ \union {rec.entry}]}
      PROVE  Types'
  <2>1. RecorderTypes'
    BY <1>3 DEF RecordWrites, Types, RecorderTypes
  <2>2. StoreTypes'
    BY <1>3 DEF RecordWrites, Types, StoreTypes, server
  <2>3. HistoryTypes'
    BY <1>3 DEF RecordWrites, Types, HistoryTypes
  <2> QED BY <1>1, <2>1, <2>2, <2>3 DEF Types
<1>4. rec.pc # "idle" => rec.entry \in Entries /\ rows[rec.entry] \in Stored
  BY DEF Types, RecorderTypes, StoreTypes, Recorders
<1>5. CASE RecordUpsert
  <2>1. IF Gated(rec.entry) \/ RecordedAlready(rows[rec.entry], rec.bytes) THEN NoRec \in Recorders
        ELSE [pc |-> "queue", entry |-> rec.entry, bytes |-> rec.bytes,
              base |-> rows[rec.entry].revision, from |-> rows[rec.entry].remote] \in Recorders
    BY <1>4, <1>5 DEF RecordUpsert, Types, RecorderTypes, Recorders, NoRec, Stored
  <2> QED BY <1>3, <1>4, <1>5, <2>1 DEF RecordUpsert, RecordChanges
<1>6. CASE RecordQueue
  <2>1. [rec EXCEPT !.pc = "local"] \in Recorders /\ rec.base \in Nat /\ rec.from \in Contents
          /\ rec.bytes \in Contents
    BY <1>6 DEF RecordQueue, Types, RecorderTypes, Recorders
  <2>2. Dirty(rows[rec.entry], NewId(rec.entry), rec.base, rec.from, rec.bytes) \in Stored
    BY <1>4, <1>6, <2>1, NewIdIsFresh, DirtyIs DEF RecordQueue
  <2> QED BY <1>3, <1>4, <1>6, <2>1, <2>2 DEF RecordQueue, RecordChanges
<1>7. CASE RecordLocal
  <2>1. rec.bytes \in Contents /\ NoRec \in Recorders
    BY <1>7 DEF RecordLocal, Types, RecorderTypes, Recorders, NoRec
  <2> QED BY <1>3, <1>4, <1>7, <2>1, WritesAre DEF RecordLocal, RecordChanges
<1>8. CASE RecordDelete
  <2>1. [rec EXCEPT !.pc = "remote"] \in Recorders /\ NoRec \in Recorders
    BY <1>8 DEF RecordDelete, Types, RecorderTypes, Recorders, NoRec
  <2>2. Clean(rows[rec.entry]) \in Stored /\ rows[rec.entry] \in Stored
    BY <1>4, <1>8, WritesAre, PiecesAre DEF RecordDelete
  <2>3. hist \in {hist, [hist EXCEPT !.raced = @ \union {rec.entry}]}
          /\ [hist EXCEPT !.raced = @ \union {}] = hist
    BY DEF Types, HistoryTypes
  <2> QED BY <1>3, <1>4, <1>8, <2>1, <2>2, <2>3 DEF RecordDelete, RecordChanges
<1>9. CASE RecordRemote
  <2>1. IF rows[rec.entry].revision = 0 THEN [rec EXCEPT !.pc = "forget"] \in Recorders
        ELSE [pc |-> "gone", entry |-> rec.entry, base |-> rows[rec.entry].revision,
              from |-> rows[rec.entry].remote] \in Recorders
    BY <1>4, <1>9 DEF RecordRemote, Types, RecorderTypes, Recorders, Stored
  <2> QED BY <1>3, <1>4, <1>9, <2>1 DEF RecordRemote, RecordChanges
<1>10. CASE RecordForget
  <2>1. NoRec \in Recorders /\ [hist EXCEPT !.raced = @ \union {}] = hist
    BY DEF Recorders, NoRec, Types, HistoryTypes
  <2>2. EmptyRow \in Stored
    BY PiecesAre, UpsertedIs
  <2> QED BY <1>3, <1>4, <1>10, <2>1, <2>2 DEF RecordForget
<1>11. CASE RecordGone
  <2>1. [rec EXCEPT !.pc = "queueDelete"] \in Recorders
    BY <1>11 DEF RecordGone, Types, RecorderTypes, Recorders
  <2> QED BY <1>3, <1>4, <1>11, <2>1, WritesAre, PiecesAre DEF RecordGone, RecordChanges
<1>12. CASE RecordQueueDelete
  <2>1. NoRec \in Recorders /\ rec.base \in Nat /\ rec.from \in Contents
    BY <1>12 DEF RecordQueueDelete, Types, RecorderTypes, Recorders, NoRec
  <2>2. Dirty(rows[rec.entry], NewId(rec.entry), rec.base, rec.from, None) \in Stored
    BY <1>4, <1>12, <2>1, NewIdIsFresh, DirtyIs, PiecesAre DEF RecordQueueDelete
  <2> QED BY <1>3, <1>4, <1>12, <2>1, <2>2 DEF RecordQueueDelete, RecordChanges
<1> QED BY <1>2, <1>5, <1>6, <1>7, <1>8, <1>9, <1>10, <1>11, <1>12 DEF Recorder

\* A push is alone with the sync loop, unless a pull by id works for it.
LEMMA PushIsAlone ==
  ASSUME Types
  PROVE  /\ push.pc \notin {"idle", "recover"} => pull.pc = "idle"
         /\ push.pc = "idle" <=> push = NoPush
         /\ push.pc # "idle" => Pass(push)
         /\ pull.pc = "idle" <=> pull = NoPull
         /\ pull.pc \in {"fetch", "prepare"} <=> pull \in Reading
         /\ pull.pc = "apply" <=> pull \in Applying
BY DEF Types, PushTypes, PullTypes, Pass, Passing, NoPush, NoPull, Reading, Applying

\* A step of a push that leaves its own state as it should leaves all of it so.
LEMMA TypesPass ==
  ASSUME Types, pull.pc = "idle", UNCHANGED <<server, vault, events, rec, cursor, pull>>,
         rows' \in [Entries -> Stored], push' = NoPush \/ Pass(push'),
         stale' \in [Entries -> Counts], parked' \subseteq Entries \X Nat, HistoryTypes'
  PROVE  Types'
<1>1. ServerTypes' /\ VaultTypes' /\ RecorderTypes' /\ StoreTypes' /\ PullTypes'
  BY DEF Types, ServerTypes, VaultTypes, RecorderTypes, StoreTypes, PullTypes, server, vault
<1>2. PushTypes'
  <2>1. Pass(push') => Pass(push)'
    BY DEF Pass, server
  <2> QED BY <2>1 DEF PushTypes
<1> QED BY <1>1, <1>2 DEF Types

\* A step of a pass changes one entry's step, and the fields it names.
LEMMA StepIs ==
  ASSUME NEW p, Pass(p), NEW e \in Entries, NEW s \in PushSteps, s = "none" \/ p.step[e] # "none"
  PROVE  /\ Pass([p EXCEPT !.step[e] = s])
         /\ Pass([p EXCEPT !.step[e] = s, !.stop = TRUE])
         /\ [p EXCEPT !.step[e] = s] = [p EXCEPT !.step = [p.step EXCEPT ![e] = s]]
BY DEF Pass, Passing, PushSteps

\* The change queued again for a file that has changed since.
LEMMA RequeuedIs ==
  ASSUME Types, NEW e \in Entries, NEW m \in Changes
  PROVE  /\ Requeued(e, m) \in Stored /\ Requeued(e, m).revision = rows[e].revision
         /\ Requeued(e, m).remote = rows[e].remote /\ Requeued(e, m).known
         /\ Requeued(e, m).local = file[e] /\ Requeued(e, m).dirty \in Queued
         /\ Requeued(e, m).dirty.id = NewId(e) /\ Requeued(e, m).dirty.content = file[e]
         /\ Requeued(e, m).dirty.base = IF rows[e].revision > 0 THEN rows[e].revision ELSE m.base
<1> DEFINE from == IF m.from # None THEN m.from ELSE m.content
<1>1. /\ m.base \in Nat /\ from \in Contents /\ file[e] \in Contents
      /\ rows[e] \in Stored /\ rows[e].revision \in Nat /\ rows[e].remote \in Contents
      /\ NewId(e) \in 1..6
  BY ChangesAre, NewIdIsFresh DEF Types, VaultTypes, StoreTypes, Stored
<1> HIDE DEF from
<1>2. CASE rows[e].revision > 0
  <2> DEFINE d == Dirty(rows[e], NewId(e), rows[e].revision, rows[e].remote, file[e])
  <2>1. /\ d \in Stored /\ d.revision = rows[e].revision /\ d.remote = rows[e].remote
        /\ d.dirty \in Queued
        /\ d.dirty = [id |-> NewId(e), base |-> rows[e].revision, from |-> rows[e].remote,
                      content |-> file[e], status |-> "pending"]
    <3>1. d \in Stored /\ d.dirty \in Queued
      BY <1>1, DirtyIs
    <3>2. d.revision = rows[e].revision /\ d.remote = rows[e].remote
      BY <1>1 DEF Dirty, Stored
    <3>3. d.dirty = [id |-> NewId(e), base |-> rows[e].revision, from |-> rows[e].remote,
                     content |-> file[e], status |-> "pending"]
      BY <1>1 DEF Dirty, Stored
    <3> QED BY <3>1, <3>2, <3>3
  <2>2. Requeued(e, m) = Local(d, file[e])
    BY <1>2 DEF Requeued
  <2> HIDE DEF d
  <2>3. /\ Local(d, file[e]) \in Stored /\ Local(d, file[e]).revision = d.revision
        /\ Local(d, file[e]).remote = d.remote /\ Local(d, file[e]).known
        /\ Local(d, file[e]).local = file[e] /\ Local(d, file[e]).dirty = d.dirty
    BY <1>1, <2>1, WritesAre
  <2>4. Local(d, file[e]).dirty.base = IF rows[e].revision > 0 THEN rows[e].revision ELSE m.base
    BY <1>2, <2>1, <2>3
  <2>5. Local(d, file[e]).dirty.id = NewId(e) /\ Local(d, file[e]).dirty.content = file[e]
    BY <2>1, <2>3
  <2> QED BY <2>1, <2>2, <2>3, <2>4, <2>5
<1>3. CASE ~(rows[e].revision > 0)
  <2> DEFINE d == Dirty(rows[e], NewId(e), m.base, from, file[e])
  <2>1. /\ d \in Stored /\ d.revision = rows[e].revision /\ d.remote = rows[e].remote
        /\ d.dirty \in Queued
        /\ d.dirty = [id |-> NewId(e), base |-> m.base, from |-> from, content |-> file[e],
                      status |-> "pending"]
    BY <1>1, DirtyIs
  <2>2. Requeued(e, m) = Local(d, file[e])
    BY <1>3 DEF Requeued, from
  <2> HIDE DEF d
  <2>3. /\ Local(d, file[e]) \in Stored /\ Local(d, file[e]).revision = d.revision
        /\ Local(d, file[e]).remote = d.remote /\ Local(d, file[e]).known
        /\ Local(d, file[e]).local = file[e] /\ Local(d, file[e]).dirty = d.dirty
    BY <1>1, <2>1, WritesAre
  <2>4. Local(d, file[e]).dirty.base = IF rows[e].revision > 0 THEN rows[e].revision ELSE m.base
    BY <1>3, <2>1, <2>3
  <2>5. Local(d, file[e]).dirty.id = NewId(e) /\ Local(d, file[e]).dirty.content = file[e]
    BY <2>1, <2>3
  <2> QED BY <2>1, <2>2, <2>3, <2>4, <2>5
<1> QED BY <1>2, <1>3

\* A change set aside takes the place of whatever is queued.
LEMMA SetAsideIs ==
  ASSUME Types, NEW e \in Entries, NEW why \in Statuses \ {"none"}, push.pc # "idle",
         push.step[e] # "none"
  PROVE  LET r == [rows EXCEPT ![e].dirty = Blocked(push.batch[e], why)]
         IN  /\ r \in [Entries -> Stored] /\ \A f \in Entries \ {e} : r[f] = rows[f]
             /\ r[e].revision = rows[e].revision /\ r[e].remote = rows[e].remote
             /\ r[e].known = rows[e].known /\ r[e].local = rows[e].local
             /\ r[e].dirty = Blocked(push.batch[e], why) /\ r[e].dirty \in Queued
             /\ r[e].dirty.id = push.batch[e].id /\ r[e].dirty.base = push.batch[e].base
             /\ r[e].dirty.content = push.batch[e].content
<1>1. push.batch[e] \in Changes /\ push.batch[e].id # 0
  BY PushIsAlone DEF Pass, Passing
<1> DEFINE b == Blocked(push.batch[e], why)
<1>2. b \in Queued /\ b.id = push.batch[e].id /\ b.base = push.batch[e].base
        /\ b.content = push.batch[e].content
  BY <1>1, BlockedIs
<1> HIDE DEF b
<1>3. rows \in [Entries -> Stored]
  BY DEF Types, StoreTypes
<1> DEFINE r == [rows EXCEPT ![e].dirty = b]
<1>4. /\ r \in [Entries -> Stored] /\ \A f \in Entries \ {e} : r[f] = rows[f]
      /\ r[e].revision = rows[e].revision /\ r[e].remote = rows[e].remote
      /\ r[e].known = rows[e].known /\ r[e].local = rows[e].local /\ r[e].dirty = b
  BY <1>2, <1>3 DEF Stored, Changes
<1> QED BY <1>2, <1>4 DEF b

\* What PushPrepare and PushUpload come to: a step, with the row left as it is,
\* cleared, queued anew, or set aside.
LEMMA TypesPrepare ==
  ASSUME Types, NEW e \in Entries, PushPrepare(e) \/ PushUpload(e)
  PROVE  Types'
<1>1. push.pc = "prepare" /\ pull.pc = "idle" /\ Pass(push) /\ push.step[e] # "none"
  BY PushIsAlone DEF PushPrepare, PushUpload
<1>2. /\ rows \in [Entries -> Stored] /\ rows[e] \in Stored /\ file[e] \in Contents
      /\ stale \in [Entries -> Counts] /\ parked \subseteq Entries \X Nat /\ HistoryTypes
      /\ push.batch[e] \in Changes
  BY <1>1 DEF Types, StoreTypes, PushTypes, VaultTypes, Pass, Passing
<1>3. ASSUME NEW outcome \in PushSteps, NEW newRow \in Stored, Prepared(e, outcome, newRow)
      PROVE  Types'
  <2>1. Pass([push EXCEPT !.step[e] = outcome])
    BY <1>1, <1>3, StepIs
  <2>2. [rows EXCEPT ![e] = newRow] \in [Entries -> Stored]
    BY <1>2, <1>3
  <2>3. HistoryTypes'
    BY <1>2, <1>3 DEF Prepared, PushChanges, HistoryTypes
  <2>4. UNCHANGED <<server, vault, events, rec, cursor, pull, stale, parked>>
    BY <1>3 DEF Prepared, PushChanges, PushWrites
  <2>5. push' = [push EXCEPT !.step[e] = outcome] /\ rows' = [rows EXCEPT ![e] = newRow]
    BY <1>3 DEF Prepared, PushChanges, PushWrites
  <2> QED BY <1>1, <1>2, <2>1, <2>2, <2>3, <2>4, <2>5, TypesPass
<1>4. ASSUME NEW why \in Statuses \ {"none"}, SetAside(e, why), spent' = spent \/ Trouble
      PROVE  Types'
  <2>1. Pass([push EXCEPT !.step[e] = "none"])
    BY <1>1, StepIs DEF PushSteps
  <2>2. [rows EXCEPT ![e].dirty = Blocked(push.batch[e], why)] \in [Entries -> Stored]
    BY <1>1, SetAsideIs
  <2>3. HistoryTypes'
    BY <1>2, <1>4 DEF SetAside, Trouble, HistoryTypes
  <2>4. UNCHANGED <<server, vault, events, rec, cursor, pull, stale, parked>>
    BY <1>4 DEF SetAside, PushWrites
  <2>5. /\ push' = [push EXCEPT !.step[e] = "none"]
        /\ rows' = [rows EXCEPT ![e].dirty = Blocked(push.batch[e], why)]
    BY <1>4 DEF SetAside, PushWrites
  <2> QED BY <1>1, <1>2, <2>1, <2>2, <2>3, <2>4, <2>5, TypesPass
<1>5. CASE PushPrepare(e)
  <2>1. "ready" \in PushSteps /\ "none" \in PushSteps /\ "uploading" \in PushSteps
    BY DEF PushSteps
  <2>2. ClearById(rows[e], push.batch[e].id) \in Stored
    BY <1>2, WritesAre DEF ClearById
  <2>3. Requeued(e, push.batch[e]) \in Stored
    BY <1>2, RequeuedIs
  <2>4. "stale_unresolved" \in Statuses \ {"none"}
    BY DEF Statuses
  <2> QED BY <1>2, <1>3, <1>4, <1>5, <2>1, <2>2, <2>3, <2>4 DEF PushPrepare
<1>6. CASE PushUpload(e)
  <2>1. "ready" \in PushSteps /\ "prepare_failed" \in Statuses \ {"none"}
    BY DEF PushSteps, Statuses
  <2>2. ASSUME PushWrites([push EXCEPT !.step[e] = "none", !.stop = TRUE], rows), Trouble,
               UNCHANGED <<stale, parked, hist>>
        PROVE  Types'
    <3>1. Pass([push EXCEPT !.step[e] = "none", !.stop = TRUE])
      BY <1>1, StepIs DEF PushSteps
    <3>2. HistoryTypes'
      BY <1>2, <2>2 DEF Trouble, HistoryTypes
    <3> QED BY <1>1, <1>2, <2>2, <3>1, <3>2, TypesPass DEF PushWrites
  <2> QED BY <1>2, <1>3, <1>4, <1>6, <2>1, <2>2 DEF PushUpload, Prepared
<1> QED BY <1>5, <1>6

\* The rows after an answer: the server's revision, and the change queued since.
LEMMA AnsweredIs ==
  ASSUME Types, push.pc # "idle", NEW e \in Entries
  PROVE  /\ Answered(e) \in Stored /\ Answered(e).revision = push.got[e].revision
         /\ Answered(e).remote = push.batch[e].content /\ Answered(e).dirty = rows[e].dirty
<1> DEFINE c == push.batch[e].content
           r == [rows[e] EXCEPT !.revision = push.got[e].revision, !.remote = c]
<1>1. c \in Contents /\ push.got[e].revision \in Nat /\ rows[e] \in Stored
  BY PushIsAlone, ChangesAre DEF Types, StoreTypes, Pass, Passing
<1>2. /\ r \in Stored /\ r.revision = push.got[e].revision /\ r.remote = c
      /\ r.dirty = rows[e].dirty
  BY <1>1 DEF Stored
<1>3. Answered(e) = IF c # None /\ (~r.known \/ r.local = c) THEN Local(r, c) ELSE r
  BY DEF Answered
<1> HIDE DEF r, c
<1>4. /\ Local(r, c) \in Stored /\ Local(r, c).revision = r.revision
      /\ Local(r, c).remote = r.remote /\ Local(r, c).dirty = r.dirty
  BY <1>1, <1>2, WritesAre
<1>5. /\ Answered(e) \in Stored /\ Answered(e).revision = push.got[e].revision
      /\ Answered(e).remote = c /\ Answered(e).dirty = rows[e].dirty
  BY <1>2, <1>3, <1>4
<1> QED BY <1>5 DEF c

\* The row of a change that was accepted: the revision the server gave it,
\* and what was queued since, on that revision.
LEMMA AcceptedRowIs ==
  ASSUME Types, push.pc # "idle", NEW e \in Entries
  PROVE  /\ AcceptedRow(e) \in Stored /\ AcceptedRow(e).revision = push.got[e].revision
         /\ AcceptedRow(e).remote = push.batch[e].content
         /\ \/ AcceptedRow(e).dirty = NoMutation
            \/ /\ rows[e].dirty.id \notin {0, push.batch[e].id}
               /\ AcceptedRow(e).dirty.id = rows[e].dirty.id
               /\ AcceptedRow(e).dirty.base = push.got[e].revision
               /\ AcceptedRow(e).dirty.content = rows[e].dirty.content
<1> DEFINE a == Answered(e)
           d == [rows[e].dirty EXCEPT !.base = push.got[e].revision,
                                      !.from = push.batch[e].content]
           r == [a EXCEPT !.dirty.base = push.got[e].revision, !.dirty.from = push.batch[e].content]
<1>1. /\ a \in Stored /\ a.revision = push.got[e].revision
      /\ a.remote = push.batch[e].content /\ a.dirty = rows[e].dirty
  BY AnsweredIs
<1>2. /\ push.batch[e].content \in Contents /\ push.got[e].revision \in Nat
      /\ rows[e].dirty \in Changes
  BY PushIsAlone, ChangesAre DEF Types, StoreTypes, Pass, Passing, Stored
<1>3. AcceptedRow(e) = IF rows[e].dirty.id \in {0, push.batch[e].id} THEN Clean(a) ELSE r
  BY DEF AcceptedRow
<1>4. CASE rows[e].dirty.id \in {0, push.batch[e].id}
  <2> HIDE DEF a
  <2>1. /\ Clean(a) \in Stored /\ Clean(a).revision = a.revision /\ Clean(a).remote = a.remote
        /\ Clean(a).dirty = NoMutation
    BY <1>1, PiecesAre, WritesAre
  <2> QED BY <1>1, <1>3, <1>4, <2>1
<1>5. CASE rows[e].dirty.id \notin {0, push.batch[e].id}
  <2>1. rows[e].dirty \in Queued
    BY <1>2, <1>5, ChangesAre
  <2>2. /\ d \in Queued /\ d.id = rows[e].dirty.id /\ d.base = push.got[e].revision
        /\ d.content = rows[e].dirty.content
    BY <1>2, <2>1 DEF Queued
  <2> HIDE DEF a
  <2>3. r = [a EXCEPT !.dirty = [a.dirty EXCEPT !.base = push.got[e].revision,
                                               !.from = push.batch[e].content]]
    BY <1>1, <2>1 DEF Stored
  <2>4. r = [a EXCEPT !.dirty = d]
    BY <1>1, <2>3
  <2> HIDE DEF d, r
  <2>5. r \in Stored /\ r.revision = a.revision /\ r.remote = a.remote /\ r.dirty = d
    BY <1>1, <2>2, <2>4 DEF Stored, Changes
  <2> QED BY <1>1, <1>3, <1>5, <2>2, <2>5
<1> QED BY <1>4, <1>5

\* The prefix of what was accepted ends at the checkpoint or at one of the
\* positions accepted, and holds all between (getContiguousAcceptedCursor).
LEMMA ContiguousIs ==
  ASSUME NEW start \in Nat, NEW accepted \in SUBSET Nat, NEW last \in Nat,
         \A n \in accepted : n <= last
  PROVE  /\ Contiguous(start, accepted) \in Nat /\ start <= Contiguous(start, accepted)
         /\ start + 1..Contiguous(start, accepted) \subseteq accepted
         /\ Contiguous(start, accepted) = start \/ Contiguous(start, accepted) \in accepted
<1>1. IsFiniteSet(accepted) /\ Cardinality(accepted) \in Nat
  BY FS_BoundedSetOfNaturals, FS_CardinalityType
<1> DEFINE S == {n \in Nat : start <= n /\ n + 1 \notin accepted}
<1>2. start + last + 1 \in S
  OBVIOUS
<1>3. PICK n \in S : \A k \in S : n <= k
  <2> HIDE DEF S
  <2>1. S \subseteq Nat
    BY DEF S
  <2> QED BY <1>2, <2>1, NatHasLeast
<1>4. n \in Nat /\ start <= n /\ n + 1 \notin accepted
  BY <1>3
<1>5. ASSUME NEW k \in start + 1..n PROVE k \in accepted
  <2>1. k - 1 \in Nat /\ start <= k - 1 /\ k - 1 < n /\ (k - 1) + 1 = k
    BY <1>4
  <2>2. k - 1 \notin S
    BY <1>3, <2>1
  <2> QED BY <2>1, <2>2
<1>6. n <= start + Cardinality(accepted)
  <2>1. start + 1..n \in SUBSET accepted
    BY <1>5
  <2>2. Cardinality(start + 1..n) <= Cardinality(accepted)
    BY <1>1, <2>1, FS_Subset
  <2>3. Cardinality(start + 1..n) = IF start + 1 > n THEN 0 ELSE n - (start + 1) + 1
    BY <1>4, FS_Interval
  <2> QED BY <1>1, <1>4, <2>2, <2>3
<1> DEFINE Ends(m) == start + 1..m \subseteq accepted /\ m + 1 \notin accepted
<1>7. n \in start..start + Cardinality(accepted) /\ Ends(n)
  BY <1>1, <1>4, <1>5, <1>6
<1> DEFINE m == CHOOSE k \in start..start + Cardinality(accepted) : Ends(k)
<1>8. m \in start..start + Cardinality(accepted) /\ Ends(m)
  <2> HIDE DEF Ends
  <2> QED BY <1>7
<1>9. Contiguous(start, accepted) = m
  BY DEF Contiguous
<1> HIDE DEF m
<1> QED BY <1>1, <1>8, <1>9

\* A push starts, lists, and turns to the next batch.
LEMMA TypesPushTurns ==
  ASSUME Types, PushStart \/ PushList \/ PushNothing \/ PushNext \/ PushThrow
  PROVE  Types'
<1>1. pull.pc = "idle" /\ (push.pc # "idle" => Pass(push)) /\ (push.pc = "idle" => PushStart)
  BY PushIsAlone DEF PushStart, PushList, PushNothing, AllPrepared, PushNext, PushThrow
<1>2. /\ rows \in [Entries -> Stored] /\ cursor \in Nat /\ head \in Nat
      /\ stale \in [Entries -> Counts] /\ parked \subseteq Entries \X Nat /\ HistoryTypes
  BY DEF Types, ServerTypes, StoreTypes, PushTypes
<1>3. /\ UNCHANGED <<server, vault, events, rec, cursor, pull, rows, stale, parked>>
      /\ HistoryTypes'
  BY <1>2 DEF PushStart, PushList, PushNothing, PushNext, PushThrow, PushChanges, PushWrites,
     HistoryTypes, Trouble
<1>4. [e \in Entries |-> NoMutation] \in [Entries -> Changes]
      /\ [e \in Entries |-> NoReply] \in [Entries -> [revision : Nat, seq : Nat]]
      /\ Nothing \in [Entries -> PushSteps] /\ NoReply.seq <= head /\ NoMutation.id = 0
  BY <1>2 DEF Changes, NoReply, Nothing, PushSteps, NoMutation
<1>5. CASE PushThrow
  BY <1>1, <1>2, <1>3, <1>5, TypesPass DEF PushThrow, PushWrites
<1>6. push' = NoPush \/ Pass(push')
  <2>1. CASE PushStart
    <3>1. push' = [pc |-> "list", start |-> cursor, accepted |-> {}, stop |-> FALSE,
                   batch |-> [e \in Entries |-> NoMutation], step |-> Nothing,
                   got |-> [e \in Entries |-> NoReply]]
      BY <2>1 DEF PushStart, PushChanges, PushWrites
    <3> QED BY <1>2, <1>4, <3>1 DEF Pass, Passing, Nothing
  <2>2. CASE PushList
    <3> DEFINE b == [e \in Entries |-> IF Pending(e) THEN rows[e].dirty ELSE NoMutation]
               s == [e \in Entries |-> IF Pending(e) THEN "todo" ELSE "none"]
               g == [e \in Entries |-> NoReply]
    <3>1. push' = [push EXCEPT !.pc = "prepare", !.batch = b, !.step = s, !.got = g]
      BY <2>2 DEF PushList, PushChanges, PushWrites
    <3>2. b \in [Entries -> Changes] /\ s \in [Entries -> PushSteps]
      BY <1>2 DEF Stored, Changes, PushSteps
    <3>3. \A e \in Entries : s[e] # "none" => b[e].id # 0
      <4> SUFFICES ASSUME NEW e \in Entries, Pending(e) PROVE rows[e].dirty.id # 0
        OBVIOUS
      <4>1. rows[e].dirty \in Changes /\ rows[e].dirty.status # "none"
        BY <1>2 DEF Pending, Stored
      <4> QED BY <4>1, ChangesAre
    <3>4. Pass(push)
      BY <1>1, <2>2 DEF PushList
    <3>5. g \in [Entries -> [revision : Nat, seq : Nat]] /\ \A e \in Entries : g[e].seq <= head
      BY <1>4
    <3> HIDE DEF b, s, g
    <3> QED BY <3>1, <3>2, <3>3, <3>4, <3>5 DEF Pass, Passing
  <2>3. CASE PushNothing
    BY <1>1, <2>3 DEF PushNothing, AllPrepared, PushChanges, PushWrites, Pass, Passing
  <2>4. CASE PushNext
    <3>1. push' = [push EXCEPT !.pc = "list", !.step = Nothing,
                    !.batch = [e \in Entries |-> NoMutation], !.got = [e \in Entries |-> NoReply]]
      BY <2>4 DEF PushNext, PushChanges, PushWrites
    <3>2. Pass(push)
      BY <1>1, <2>4 DEF PushNext
    <3> QED BY <1>4, <3>1, <3>2 DEF Pass, Passing, Nothing
  <2> QED BY <1>5, <2>1, <2>2, <2>3, <2>4 DEF PushThrow, PushWrites
<1> QED BY <1>1, <1>2, <1>3, <1>6, TypesPass

\* A push ends with the checkpoint no further than what was accepted.
LEMMA TypesPushFinish ==
  ASSUME Types, PushFinish
  PROVE  Types' /\ cursor' = Contiguous(cursor, push.accepted)
<1>1. Pass(push) /\ pull.pc = "idle"
  BY PushIsAlone DEF PushFinish
<1>2. head \in Nat /\ cursor \in Nat /\ push.accepted \in SUBSET Nat /\ push.start = cursor
        /\ cursor <= head
  BY <1>1 DEF Types, ServerTypes, StoreTypes, Pass, Passing
<1>3. cursor' = Contiguous(cursor, push.accepted)
  BY <1>2 DEF PushFinish
<1>4. cursor' \in Nat /\ cursor' <= head
  <2>1. \A n \in push.accepted : n <= head
    BY <1>1 DEF Pass
  <2>2. /\ Contiguous(cursor, push.accepted) \in Nat
        /\ Contiguous(cursor, push.accepted) = cursor \/ Contiguous(cursor, push.accepted) \in push.accepted
    BY <1>2, <2>1, ContiguousIs
  <2> QED BY <1>2, <1>3, <2>1, <2>2
<1>5. /\ UNCHANGED <<server, vault, events, rec, rows, pull, stale, parked, spent, hist>>
      /\ push' = NoPush
  BY DEF PushFinish
<1>6. ServerTypes' /\ VaultTypes' /\ RecorderTypes' /\ StoreTypes' /\ HistoryTypes'
  BY <1>4, <1>5 DEF Types, ServerTypes, VaultTypes, RecorderTypes, StoreTypes, HistoryTypes,
     server, vault
<1>7. PushTypes' /\ PullTypes'
  BY <1>1, <1>5 DEF Types, PushTypes, PullTypes
<1> QED BY <1>3, <1>6, <1>7 DEF Types

\* What a commit leaves: positions beyond every one before, each taken once.
LEMMA CommitIs ==
  ASSUME Types, PushCommit
  PROVE  /\ head' \in Nat /\ head <= head'
         /\ \A e \in Entries \ Taken : feed'[e] = feed[e]
         /\ \A e \in Taken : /\ feed'[e] = Accept(e, push.batch[e].content, feed'[e].seq)
                             /\ feed'[e].seq \in Nat /\ head < feed'[e].seq /\ feed'[e].seq <= head'
         /\ \A e, f \in Taken : feed'[e].seq = feed'[f].seq => e = f
         /\ feed' = [e \in Entries |-> feed'[e]]
<1>1. Taken \in SUBSET Entries
  BY DEF Taken, Ready
<1>2. Cardinality(Taken) \in Nat
  BY <1>1, DeviceSets, FS_Subset, FS_CardinalityType
<1>3. PICK place \in [Taken -> 1..Cardinality(Taken)] :
        /\ \A e, f \in Taken : place[e] = place[f] => e = f
        /\ feed' = [e \in Entries |-> IF e \in Taken
                      THEN Accept(e, push.batch[e].content, head + place[e]) ELSE feed[e]]
  BY DEF PushCommit
<1>4. head \in Nat /\ head' = head + Cardinality(Taken)
  BY DEF PushCommit, Types, ServerTypes
<1>5. ASSUME NEW e \in Taken
      PROVE  /\ feed'[e] = Accept(e, push.batch[e].content, head + place[e])
             /\ feed'[e].seq = head + place[e] /\ place[e] \in 1..Cardinality(Taken)
  BY <1>1, <1>3 DEF Accept
<1> HIDE DEF Taken
<1>6. \A e, f \in Taken : feed'[e].seq = feed'[f].seq => e = f
  BY <1>2, <1>3, <1>4, <1>5
<1>7. \A e \in Taken : feed'[e].seq \in Nat /\ head < feed'[e].seq /\ feed'[e].seq <= head'
  BY <1>2, <1>4, <1>5
<1>8. (\A e \in Entries \ Taken : feed'[e] = feed[e]) /\ feed' = [e \in Entries |-> feed'[e]]
  BY <1>3
<1>9. \A e \in Taken : feed'[e] = Accept(e, push.batch[e].content, feed'[e].seq)
  BY <1>5
<1>10. head' \in Nat /\ head <= head'
  BY <1>2, <1>4
<1> QED BY <1>6, <1>7, <1>8, <1>9, <1>10

\* The server gives the positions after its last one to what it takes.
LEMMA TypesPushCommit ==
  ASSUME Types, PushCommit
  PROVE  Types'
<1>1. Pass(push) /\ push.pc = "prepare" /\ pull.pc = "idle"
  BY PushIsAlone DEF PushCommit, AllPrepared
<1>2. /\ head \in Nat /\ feed \in [Entries -> Served] /\ replay \in [Entries -> 0..6]
      /\ \A e \in Entries : feed[e].seq <= head
  BY DEF Types, ServerTypes
<1>3. ASSUME NEW e \in Entries
      PROVE  feed'[e] \in Served /\ feed'[e].seq <= head'
  <2>1. CASE e \in Taken
    <3>1. push.batch[e].content \in Contents
      BY <1>1, ChangesAre DEF Pass, Passing
    <3>2. /\ feed'[e] = Accept(e, push.batch[e].content, feed'[e].seq)
          /\ feed'[e].seq \in Nat /\ feed'[e].seq <= head'
      BY <2>1, CommitIs
    <3>3. feed[e].revision \in Nat
      BY <1>2 DEF Served
    <3> QED BY <3>1, <3>2, <3>3 DEF Accept, Served
  <2>2. CASE e \notin Taken
    BY <1>2, <2>2, CommitIs DEF Served
  <2> QED BY <2>1, <2>2
<1>4. head' \in Nat /\ head <= head' /\ feed' = [e \in Entries |-> feed'[e]]
  BY CommitIs
<1>5. ServerTypes'
  <2>1. feed' \in [Entries -> Served]
    BY <1>3, <1>4
  <2>2. replay' = [e \in Entries |-> IF e \in Taken THEN push.batch[e].id ELSE replay[e]]
    BY DEF PushCommit
  <2>3. \A e \in Entries : push.batch[e].id \in 0..6
    BY <1>1, ChangesAre DEF Pass, Passing
  <2>4. replay' \in [Entries -> 0..6]
    BY <1>2, <2>2, <2>3
  <2> QED BY <1>3, <1>4, <2>1, <2>4 DEF ServerTypes
<1> DEFINE s == [e \in Entries |-> IF e \notin Ready THEN "none"
                   ELSE IF e \in Taken \/ Repeated(e) THEN "accepted" ELSE "stale"]
           g == [e \in Entries |-> IF e \in Ready
                  THEN [revision |-> feed'[e].revision, seq |-> feed'[e].seq] ELSE NoReply]
<1>6. push' = [push EXCEPT !.pc = "apply", !.step = s, !.got = g]
  BY DEF PushCommit
<1>7. s \in [Entries -> PushSteps] /\ \A e \in Entries : s[e] # "none" => push.step[e] = "ready"
  BY DEF PushSteps, Ready
<1>8. g \in [Entries -> [revision : Nat, seq : Nat]] /\ \A e \in Entries : g[e].seq <= head'
  BY <1>3, <1>4 DEF NoReply, Served
<1>9. UNCHANGED <<vault, events, rec, rows, cursor, pull, stale, parked, spent>>
  BY DEF PushCommit
<1>10. PushTypes'
  <2> HIDE DEF s, g
  <2>1. push' \in Passing
    BY <1>1, <1>6, <1>7, <1>8 DEF Pass, Passing
  <2>2. /\ push'.start = push.start /\ push'.accepted = push.accepted
        /\ push'.batch = push.batch /\ push'.step = s /\ push'.got = g
    BY <1>1, <1>6 DEF Pass, Passing
  <2>3. \A n \in push.accepted : n <= head'
    BY <1>1, <1>2, <1>4 DEF Pass, Passing
  <2>4. Pass(push)'
    BY <1>1, <1>7, <1>8, <1>9, <2>1, <2>2, <2>3 DEF Pass
  <2>5. stale' \in [Entries -> Counts] /\ parked' \subseteq Entries \X Nat
    BY <1>9 DEF Types, PushTypes
  <2> QED BY <2>4, <2>5 DEF PushTypes
<1>11. PullTypes'
  BY <1>1, <1>9 DEF Types, PullTypes
<1>12. VaultTypes' /\ RecorderTypes' /\ StoreTypes'
  BY <1>2, <1>4, <1>9 DEF Types, VaultTypes, RecorderTypes, StoreTypes, vault
<1>13. HistoryTypes'
  <2>1. hist' = [hist EXCEPT !.discarded = @ \union
               UNION {Pieces(feed[e].blob) : e \in {f \in Taken : push.batch[f].content = None}}]
    BY DEF PushCommit
  <2>2. UNION {Pieces(feed[e].blob) : e \in {f \in Taken : push.batch[f].content = None}}
          \subseteq Mine \union Theirs
    BY <1>2, PiecesAre DEF Taken, Ready, Served
  <2> QED BY <1>9, <2>1, <2>2 DEF Types, HistoryTypes
<1> QED BY <1>5, <1>10, <1>11, <1>12, <1>13 DEF Types

\* The store takes what was accepted.
LEMMA TypesPushApply ==
  ASSUME Types, PushApply
  PROVE  Types'
<1>1. Pass(push) /\ pull.pc = "idle" /\ push.pc # "idle"
  BY PushIsAlone DEF PushApply
<1> DEFINE done == {e \in Entries : push.step[e] = "accepted"}
           s == [e \in Entries |-> IF e \in done THEN "none" ELSE push.step[e]]
           a == push.accepted \union {push.got[e].seq : e \in done}
<1>2. push' = [push EXCEPT !.pc = "reject", !.step = s, !.accepted = a]
  BY DEF PushApply, PushChanges, PushWrites
<1>3. s \in [Entries -> PushSteps] /\ \A e \in Entries : s[e] # "none" => push.step[e] # "none"
  BY <1>1 DEF Pass, Passing, PushSteps
<1>4. a \in SUBSET Nat /\ \A n \in a : n <= head
  BY <1>1 DEF Pass, Passing
<1>5. Pass(push')
  <2> HIDE DEF s, a
  <2> QED BY <1>1, <1>2, <1>3, <1>4 DEF Pass, Passing
<1>6. rows' \in [Entries -> Stored]
  <2>1. rows' = [e \in Entries |-> IF e \in done THEN AcceptedRow(e) ELSE rows[e]]
    BY DEF PushApply, PushChanges, PushWrites
  <2> QED BY <1>1, <2>1, AcceptedRowIs DEF Types, StoreTypes
<1>7. stale' \in [Entries -> Counts] /\ parked' \subseteq Entries \X Nat
  BY DEF PushApply, Types, PushTypes, NoStale, Counts
<1>8. UNCHANGED <<server, vault, events, rec, cursor, pull>> /\ HistoryTypes'
  BY DEF PushApply, PushChanges, PushWrites, Types, HistoryTypes
<1> QED BY <1>1, <1>5, <1>6, <1>7, <1>8, TypesPass

\* What parking a change comes to.
LEMMA ParkIs ==
  ASSUME Types, NEW e \in Entries, push.pc # "idle", push.step[e] # "none", Park(e)
  PROVE  /\ Pass(push') /\ rows' \in [Entries -> Stored] /\ stale' \in [Entries -> Counts]
         /\ parked' \subseteq Entries \X Nat
         /\ push'.pc = "reject" /\ push'.accepted = push.accepted /\ push'.batch = push.batch
         /\ push'.got = push.got /\ push'.step = [push.step EXCEPT ![e] = "none"]
         /\ \A f \in Entries \ {e} : rows'[f] = rows[f]
         /\ rows'[e].revision = rows[e].revision /\ rows'[e].remote = rows[e].remote
         /\ rows'[e].known = rows[e].known /\ rows'[e].local = rows[e].local
         /\ rows'[e].dirty.id = rows[e].dirty.id /\ rows'[e].dirty.base = rows[e].dirty.base
         /\ rows'[e].dirty.content = rows[e].dirty.content
<1>1. Pass(push) /\ rows \in [Entries -> Stored] /\ push.batch[e].id # 0
  BY PushIsAlone DEF Types, StoreTypes, Pass
<1> DEFINE same == rows[e].dirty.id = push.batch[e].id
<1>2. push' = [push EXCEPT !.pc = "reject", !.step[e] = "none", !.stop = @ \/ ~same]
  BY DEF Park
<1>3. /\ push' \in Passing /\ push'.pc = "reject" /\ push'.accepted = push.accepted
      /\ push'.batch = push.batch /\ push'.got = push.got /\ push'.start = push.start
      /\ push'.step = [push.step EXCEPT ![e] = "none"]
  <2> HIDE DEF same
  <2>1. push \in Passing /\ same \in BOOLEAN
    BY <1>1 DEF Pass, same
  <2> DEFINE s == [push.step EXCEPT ![e] = "none"]
             b == push.stop \/ ~same
  <2>2. s \in [Entries -> PushSteps] /\ b \in BOOLEAN
    BY <2>1 DEF Passing, PushSteps
  <2>3. push' = [push EXCEPT !.pc = "reject", !.step = s, !.stop = b]
    BY <1>2, <2>1 DEF Passing
  <2> HIDE DEF s, b
  <2>4. /\ push' \in Passing /\ push'.pc = "reject" /\ push'.accepted = push.accepted
        /\ push'.batch = push.batch /\ push'.got = push.got /\ push'.start = push.start
        /\ push'.step = s
    BY <2>1, <2>2, <2>3 DEF Passing
  <2> QED BY <2>4 DEF s
<1>4. Pass(push')
  BY <1>1, <1>3 DEF Pass, Passing
<1>5. CASE same
  <2> DEFINE b == Blocked(rows[e].dirty, "stale_unresolved")
  <2>1. rows' = [rows EXCEPT ![e].dirty = b]
    BY <1>5 DEF Park
  <2>2. rows[e].dirty \in Changes /\ rows[e].dirty.id # 0
    BY <1>1, <1>5 DEF Stored
  <2>3. b \in Queued /\ b.id = rows[e].dirty.id /\ b.base = rows[e].dirty.base
          /\ b.content = rows[e].dirty.content
    BY <2>2, BlockedIs DEF Statuses
  <2> HIDE DEF b
  <2>4. /\ rows' \in [Entries -> Stored] /\ \A f \in Entries \ {e} : rows'[f] = rows[f]
        /\ rows'[e].revision = rows[e].revision /\ rows'[e].remote = rows[e].remote
        /\ rows'[e].known = rows[e].known /\ rows'[e].local = rows[e].local /\ rows'[e].dirty = b
    BY <1>1, <2>1, <2>3 DEF Stored, Changes
  <2>5. rows[e].dirty.base \in Nat
    BY <2>2, ChangesAre
  <2>6. stale' \in [Entries -> Counts] /\ parked' \subseteq Entries \X Nat
    BY <2>5 DEF Park, Types, PushTypes, NoStale, Counts
  <2> QED BY <1>3, <1>4, <2>3, <2>4, <2>6
<1>6. CASE ~same
  <2>1. stale' \in [Entries -> Counts] /\ parked' \subseteq Entries \X Nat
    BY <1>6 DEF Park, Types, PushTypes, NoStale, Counts
  <2>2. rows' = rows
    BY <1>6 DEF Park
  <2> QED BY <1>1, <1>3, <1>4, <2>1, <2>2
<1> QED BY <1>5, <1>6

\* What a rejection that is not the last comes to: counted, or a pull of the
\* entry.
LEMMA RejectIs ==
  ASSUME Types, NEW e \in Entries, PushReject(e)
  PROVE  /\ push.pc = "reject" /\ push.step[e] = "stale" /\ pull.pc = "idle" /\ Pass(push')
         /\ stale' \in [Entries -> Counts] /\ parked' \subseteq Entries \X Nat
         /\ rows' \in [Entries -> Stored]
         /\ push'.accepted = push.accepted /\ push'.batch = push.batch /\ push'.got = push.got
         /\ \/ Park(e) /\ push'.pc = "reject" /\ UNCHANGED pull
            \/ /\ UNCHANGED <<rows, pull>> /\ push'.pc = "reject"
               /\ push'.step = [push.step EXCEPT ![e] = "none"]
            \/ /\ UNCHANGED rows /\ push'.pc = "recover"
               /\ push'.step = [push.step EXCEPT ![e] = "recovering"]
               /\ pull' = [pc |-> "prepare", byId |-> TRUE, since |-> cursor, target |-> cursor,
                           after |-> cursor, final |-> TRUE, window |-> {Item(e)}]
<1>1. push.pc = "reject" /\ push.step[e] = "stale" /\ pull.pc = "idle" /\ Pass(push)
  BY PushIsAlone DEF PushReject
<1>2. rows \in [Entries -> Stored] /\ parked \subseteq Entries \X Nat /\ stale \in [Entries -> Counts]
  BY DEF Types, StoreTypes, PushTypes
<1>3. Rejection(e) \in Counts
  BY <1>1, <1>2, ChangesAre DEF Rejection, Counts, Pass, Passing
<1>4. [stale EXCEPT ![e] = Rejection(e)] \in [Entries -> Counts]
  BY <1>2, <1>3
<1>5. CASE Park(e) /\ UNCHANGED pull
  BY <1>1, <1>5, ParkIs
<1> DEFINE s == [push.step EXCEPT ![e] = "none"]
           t == [push.step EXCEPT ![e] = "recovering"]
<1>6. push.step \in [Entries -> PushSteps] /\ s \in [Entries -> PushSteps]
        /\ t \in [Entries -> PushSteps]
  BY <1>1 DEF Pass, Passing, PushSteps
<1>7. CASE /\ stale' = [stale EXCEPT ![e] = Rejection(e)]
           /\ push' = [push EXCEPT !.step[e] = "none", !.stop = TRUE]
           /\ UNCHANGED <<rows, parked, pull>>
  <2>1. push' = [push EXCEPT !.step = s, !.stop = TRUE]
    BY <1>1, <1>7 DEF Pass, Passing
  <2>2. \A f \in Entries : s[f] # "none" => push.batch[f].id # 0
    BY <1>1, <1>6 DEF Pass
  <2> HIDE DEF s
  <2>3. /\ Pass(push') /\ push'.step = s /\ push'.pc = push.pc /\ push'.accepted = push.accepted
        /\ push'.batch = push.batch /\ push'.got = push.got
    BY <1>1, <1>6, <2>1, <2>2 DEF Pass, Passing
  <2> QED BY <1>1, <1>2, <1>4, <1>7, <2>3 DEF s
<1>8. CASE /\ stale' = [stale EXCEPT ![e] = Rejection(e)]
           /\ push' = [push EXCEPT !.pc = "recover", !.step[e] = "recovering"]
           /\ pull' = [pc |-> "prepare", byId |-> TRUE, since |-> cursor, target |-> cursor,
                       after |-> cursor, final |-> TRUE, window |-> {Item(e)}]
           /\ UNCHANGED <<rows, parked>>
  <2>1. push' = [push EXCEPT !.pc = "recover", !.step = t]
    BY <1>1, <1>8 DEF Pass, Passing
  <2>2. \A f \in Entries : t[f] # "none" => push.batch[f].id # 0
    BY <1>1, <1>6 DEF Pass
  <2> HIDE DEF t
  <2>3. /\ Pass(push') /\ push'.step = t /\ push'.pc = "recover" /\ push'.accepted = push.accepted
        /\ push'.batch = push.batch /\ push'.got = push.got
    BY <1>1, <1>6, <2>1, <2>2 DEF Pass, Passing
  <2> QED BY <1>1, <1>2, <1>4, <1>8, <2>3 DEF t
<1> QED BY <1>5, <1>7, <1>8 DEF PushReject

\* An item is what the server has of its entry.
LEMMA ItemIs ==
  ASSUME Types, NEW e \in Entries
  PROVE  /\ Item(e) \in Items /\ Item(e).entry = e /\ Item(e).revision = feed[e].revision
         /\ Item(e).blob = feed[e].blob /\ Item(e).seq = feed[e].seq
BY DEF Item, Items, Types, ServerTypes, Served

\* A rejection is counted, or parked, or starts a pull of its entry.
LEMMA TypesPushReject ==
  ASSUME Types, NEW e \in Entries, PushReject(e) \/ PushRecovered(e)
  PROVE  Types'
<1>1. UNCHANGED <<server, vault, events, rec, cursor, spent, hist>> /\ HistoryTypes'
  BY DEF PushReject, PushRecovered, Types, HistoryTypes
<1>2. CASE PushRecovered(e)
  <2>1. push.pc # "idle" /\ push.step[e] # "none" /\ pull.pc = "idle" /\ Pass(push) /\ UNCHANGED pull
    BY <1>2, PushIsAlone DEF PushRecovered
  <2>2. CASE Park(e)
    BY <1>1, <2>1, <2>2, ParkIs, TypesPass
  <2>3. CASE ~Park(e)
    <3>1. /\ stale' = [stale EXCEPT ![e].tried = TRUE] /\ UNCHANGED <<rows, parked>>
          /\ push' = [push EXCEPT !.pc = "reject", !.step[e] = "none"]
      BY <1>2, <2>3 DEF PushRecovered
    <3>2. stale' \in [Entries -> Counts] /\ rows' \in [Entries -> Stored]
            /\ parked' \subseteq Entries \X Nat
      BY <3>1 DEF Types, PushTypes, StoreTypes, Counts
    <3>3. Pass(push')
      BY <2>1, <3>1 DEF Pass, Passing, PushSteps
    <3> QED BY <1>1, <2>1, <3>2, <3>3, TypesPass
  <2> QED BY <2>2, <2>3
<1>3. CASE PushReject(e)
  <2>1. CASE UNCHANGED pull
    BY <1>1, <1>3, <2>1, RejectIs, TypesPass
  <2>2. CASE ~UNCHANGED pull
    <3>1. /\ Pass(push') /\ push'.pc = "recover" /\ UNCHANGED rows
          /\ stale' \in [Entries -> Counts] /\ parked' \subseteq Entries \X Nat
          /\ pull' = [pc |-> "prepare", byId |-> TRUE, since |-> cursor, target |-> cursor,
                      after |-> cursor, final |-> TRUE, window |-> {Item(e)}]
      BY <1>3, <2>2, RejectIs
    <3>2. Item(e) \in Items /\ cursor \in Nat /\ cursor <= head
      BY ItemIs DEF Types, StoreTypes
    <3>3. PullTypes'
      BY <1>1, <3>1, <3>2 DEF PullTypes, Reading, server
    <3>4. PushTypes'
      BY <1>1, <3>1 DEF PushTypes, Pass, server
    <3> QED BY <1>1, <3>1, <3>3, <3>4 DEF Types, ServerTypes, VaultTypes, RecorderTypes,
               StoreTypes, server, vault
  <2> QED BY <2>1, <2>2
<1> QED BY <1>2, <1>3

-----------------------------------------------------------------------------
(* Pulls.                                                                   *)

\* A page adds what comes next, and the last page leaves nothing due.
LEMMA PageIs ==
  ASSUME Types, NEW p \in Reading
  PROVE  LET due == {e \in Entries : feed[e].seq > p.after /\ feed[e].seq <= p.target}
             q == PageRead(p)
         IN  /\ q \in Reading /\ q.byId = p.byId /\ q.since = p.since /\ q.target = p.target
             /\ \/ due = {} /\ q.window = p.window /\ q.after = p.after
                \/ \E e \in due : /\ \A f \in due : feed[e].seq <= feed[f].seq
                                  /\ q.window = p.window \union {Item(e)}
                                  /\ q.after = feed[e].seq
                                  /\ q.final => due = {e}
<1> DEFINE due == {e \in Entries : feed[e].seq > p.after /\ feed[e].seq <= p.target}
           next == CHOOSE e \in due : \A f \in due : feed[e].seq <= feed[f].seq
           window == IF due = {} THEN p.window ELSE p.window \union {Item(next)}
           final == Cardinality(due) <= 1
           after == IF due = {} THEN p.after ELSE feed[next].seq
           pc == IF final \/ Cardinality(window) >= WindowSize THEN "prepare" ELSE "fetch"
<1>1. PageRead(p) = [p EXCEPT !.window = window, !.final = final, !.after = after, !.pc = pc]
  BY DEF PageRead, Reading
<1>2. due \in SUBSET Entries /\ \A e \in Entries : feed[e].seq \in Nat
  BY DEF Types, ServerTypes, Served
<1>3. due # {} => next \in due /\ \A f \in due : feed[next].seq <= feed[f].seq
  <2> SUFFICES ASSUME due # {} PROVE \E e \in due : \A f \in due : feed[e].seq <= feed[f].seq
    OBVIOUS
  <2> HIDE DEF due
  <2>1. PICK n \in {feed[e].seq : e \in due} : \A k \in {feed[e].seq : e \in due} : n <= k
    <3>1. {feed[e].seq : e \in due} \subseteq Nat /\ {feed[e].seq : e \in due} # {}
      BY <1>2
    <3> QED BY <3>1, NatHasLeast
  <2> QED BY <2>1
<1>4. IsFiniteSet(due) /\ Cardinality(due) \in Nat
  BY <1>2, DeviceSets, FS_Subset, FS_CardinalityType
<1>5. due # {} /\ final => due = {next}
  <2> SUFFICES ASSUME due # {}, final PROVE due = {next}
    OBVIOUS
  <2>1. next \in due
    BY <1>3
  <2> HIDE DEF due, next
  <2>2. Cardinality(due) = 1
    BY <1>4, FS_EmptySet
  <2>3. \E x : due = {x}
    BY <1>4, <2>2, FS_Singleton
  <2> QED BY <2>1, <2>3
<1>6. window \in SUBSET Items /\ after \in Nat /\ final \in BOOLEAN /\ pc \in {"fetch", "prepare"}
  <2>1. due # {} => Item(next) \in Items /\ feed[next].seq \in Nat
    BY <1>2, <1>3, ItemIs
  <2> HIDE DEF due, next
  <2> QED BY <2>1 DEF Reading
<1> DEFINE q == [p EXCEPT !.window = window, !.final = final, !.after = after, !.pc = pc]
<1>7. /\ q \in Reading /\ q.byId = p.byId /\ q.since = p.since /\ q.target = p.target
      /\ q.window = window /\ q.after = after /\ q.final = final
  <2> HIDE DEF window, final, after, pc
  <2> QED BY <1>6 DEF Reading
<1>8. CASE due = {}
  <2> HIDE DEF q
  <2> QED BY <1>1, <1>7, <1>8 DEF q
<1>9. CASE due # {}
  <2> HIDE DEF q
  <2>1. q.window = p.window \union {Item(next)} /\ q.after = feed[next].seq
    BY <1>7, <1>9
  <2>2. q.final => due = {next}
    BY <1>5, <1>7, <1>9
  <2> HIDE DEF next, window, final, after, pc
  <2>3. \E e \in due : /\ \A f \in due : feed[e].seq <= feed[f].seq
                       /\ q.window = p.window \union {Item(e)} /\ q.after = feed[e].seq
                       /\ q.final => due = {e}
    BY <1>3, <1>9, <2>1, <2>2
  <2>4. PageRead(p) = q
    BY <1>1 DEF q
  <2> QED BY <1>7, <2>3, <2>4
<1> QED BY <1>8, <1>9

\* Step n on e is still to come for a pull in state p.
Ahead(p, n, e) == p.stage < n \/ (p.stage = n /\ e \in p.todo)

\* A stage that is entered has all its entries to do, and the ones skipped none.
LEMMA EnterStageIs ==
  ASSUME NEW p \in Applying, NEW n \in 1..6
  PROVE  LET q == EnterStage(p, n)
         IN  /\ q \in Applying /\ q.byId = p.byId /\ q.since = p.since /\ q.target = p.target
             /\ q.after = p.after /\ q.final = p.final /\ q.window = p.window
             /\ q.plan = p.plan /\ q.snap = p.snap
             /\ q.todo = Concerned(q.stage, q.plan)
             /\ \A j \in 1..5 : \A e \in Concerned(j, q.plan) : Ahead(q, j, e) <=> n <= j
<1> DEFINE plan == p.plan
           Stops(k) == (k = 6 \/ Concerned(k, plan) # {}) /\ \A j \in n..k - 1 : Concerned(j, plan) = {}
           k == NextStage(n, plan)
           q == EnterStage(p, n)
<1>1. \E m \in n..6 : Stops(m)
  <2> DEFINE S == {m \in n..6 : m = 6 \/ Concerned(m, plan) # {}}
  <2> HIDE DEF plan
  <2>1. 6 \in S /\ S \subseteq Nat
    OBVIOUS
  <2>2. PICK m \in S : \A j \in S : m <= j
    <3> HIDE DEF S
    <3> QED BY <2>1, NatHasLeast
  <2>3. m \in n..6 /\ (m = 6 \/ Concerned(m, plan) # {})
    BY <2>2
  <2>4. ASSUME NEW j \in n..m - 1 PROVE Concerned(j, plan) = {}
    <3>1. j \in n..6 /\ ~(m <= j)
      BY <2>3
    <3>2. j \notin S
      BY <2>2, <3>1
    <3> QED BY <3>1, <3>2
  <2> QED BY <2>3, <2>4
<1>2. k \in n..6 /\ Stops(k)
  <2> HIDE DEF plan, Stops
  <2>1. NextStage(n, plan) = CHOOSE m \in n..6 : Stops(m)
    BY DEF NextStage, Stops
  <2> QED BY <1>1, <2>1
<1>3. q = [p EXCEPT !.stage = k, !.todo = Concerned(k, plan)]
  BY DEF EnterStage
<1>4. Concerned(k, plan) \in SUBSET Entries
  BY DEF Concerned
<1>5. /\ q \in Applying /\ q.byId = p.byId /\ q.since = p.since /\ q.target = p.target
      /\ q.after = p.after /\ q.final = p.final /\ q.window = p.window
      /\ q.plan = plan /\ q.snap = p.snap /\ q.stage = k /\ q.todo = Concerned(k, plan)
  <2> DEFINE t == Concerned(k, plan)
  <2>1. k \in 1..6 /\ t \in SUBSET Entries /\ q = [p EXCEPT !.stage = k, !.todo = t]
    BY <1>2, <1>3, <1>4
  <2> HIDE DEF k, t, q
  <2>2. /\ q \in Applying /\ q.byId = p.byId /\ q.since = p.since /\ q.target = p.target
        /\ q.after = p.after /\ q.final = p.final /\ q.window = p.window
        /\ q.plan = plan /\ q.snap = p.snap /\ q.stage = k /\ q.todo = t
    BY <2>1 DEF Applying
  <2> QED BY <2>2 DEF t
<1> HIDE DEF k, q, plan
<1>6. ASSUME NEW j \in 1..5, NEW e \in Concerned(j, plan)
      PROVE  Ahead(q, j, e) <=> n <= j
  <2>1. CASE j < n
    BY <1>2, <1>5, <2>1 DEF Ahead
  <2>2. CASE n <= j
    <3>1. ~(j \in n..k - 1)
      BY <1>2
    <3>2. k <= j
      BY <1>2, <2>2, <3>1
    <3> QED BY <1>2, <1>5, <2>2, <3>2 DEF Ahead
  <2> QED BY <2>1, <2>2
<1> QED BY <1>5, <1>6 DEF q, plan

\* A step done on an entry is the only one that is no longer to come.
LEMMA DoneIs ==
  ASSUME Types, NEW n \in 1..5, NEW e \in Entries, At(n, e)
  PROVE  LET q == Done(e)
         IN  /\ q \in Applying /\ q.byId = pull.byId /\ q.since = pull.since
             /\ q.target = pull.target /\ q.after = pull.after /\ q.final = pull.final
             /\ q.window = pull.window /\ q.plan = pull.plan /\ q.snap = pull.snap
             /\ q.todo \subseteq Concerned(q.stage, q.plan)
             /\ \A j \in 1..5 : \A f \in Concerned(j, q.plan) :
                  Ahead(q, j, f) <=> Ahead(pull, j, f) /\ ~(j = n /\ f = e)
<1> DEFINE p == [pull EXCEPT !.todo = @ \ {e}]
           q == Done(e)
<1>1. pull \in Applying /\ pull.stage = n /\ e \in pull.todo
        /\ pull.todo \subseteq Concerned(n, pull.plan)
  BY PushIsAlone DEF At, Types, PullTypes
<1>2. /\ p \in Applying /\ p.byId = pull.byId /\ p.since = pull.since
      /\ p.target = pull.target /\ p.after = pull.after /\ p.final = pull.final
      /\ p.window = pull.window /\ p.plan = pull.plan /\ p.snap = pull.snap
      /\ p.stage = n /\ p.todo = pull.todo \ {e}
  BY <1>1 DEF Applying
<1>3. q = IF p.todo = {} THEN EnterStage(p, n + 1) ELSE p
  BY <1>1 DEF Done
<1>4. CASE p.todo # {}
  <2>1. q = p
    BY <1>3, <1>4
  <2> HIDE DEF p, q
  <2>2. \A j \in 1..5 : \A f \in Concerned(j, q.plan) :
          Ahead(q, j, f) <=> Ahead(pull, j, f) /\ ~(j = n /\ f = e)
    BY <1>1, <1>2, <2>1 DEF Ahead
  <2> QED BY <1>1, <1>2, <2>1, <2>2 DEF q
<1>5. CASE p.todo = {}
  <2>1. q = EnterStage(p, n + 1) /\ n + 1 \in 1..6
    BY <1>3, <1>5
  <2> HIDE DEF p, q
  <2>2. /\ q \in Applying /\ q.byId = p.byId /\ q.since = p.since /\ q.target = p.target
        /\ q.after = p.after /\ q.final = p.final /\ q.window = p.window
        /\ q.plan = p.plan /\ q.snap = p.snap
        /\ q.todo = Concerned(q.stage, q.plan)
        /\ \A j \in 1..5 : \A f \in Concerned(j, q.plan) : Ahead(q, j, f) <=> n + 1 <= j
    BY <1>2, <2>1, EnterStageIs
  <2>3. ASSUME NEW j \in 1..5, NEW f \in Concerned(j, q.plan)
        PROVE  Ahead(q, j, f) <=> Ahead(pull, j, f) /\ ~(j = n /\ f = e)
    <3>1. Ahead(q, j, f) <=> n + 1 <= j
      BY <2>2
    <3>2. Ahead(pull, j, f) /\ ~(j = n /\ f = e) <=> n < j
      BY <1>1, <1>2, <1>5 DEF Ahead
    <3> QED BY <3>1, <3>2
  <2>4. \A j \in 1..5 : \A f \in Concerned(j, q.plan) :
          Ahead(q, j, f) <=> Ahead(pull, j, f) /\ ~(j = n /\ f = e)
    BY <2>3
  <2> QED BY <1>2, <2>2, <2>4 DEF q
<1> QED BY <1>4, <1>5

\* A step of a pull that moves its own state as it should leaves all of it so.
LEMMA TypesPull ==
  ASSUME Types, pull.pc # "idle", UNCHANGED <<server, push, stale, parked, cursor>>,
         pull' \in Applying,
         pull'.byId = pull.byId, pull'.target = pull.target, pull'.after = pull.after,
         pull'.todo \subseteq Concerned(pull'.stage, pull'.plan)
  PROVE  PullTypes' /\ PushTypes' /\ ServerTypes'
<1>1. /\ IF pull.byId THEN push.pc = "recover" ELSE push.pc = "idle"
      /\ cursor <= pull.after /\ pull.after <= pull.target /\ pull.target <= head
      /\ pull.byId => pull.target = cursor
  BY DEF Types, PullTypes
<1>2. pull'.pc = "apply"
  BY DEF Applying
<1>3. PullTypes'
  BY <1>1, <1>2 DEF PullTypes, server
<1>4. PushTypes' /\ ServerTypes'
  BY DEF Types, PushTypes, Pass, ServerTypes, server
<1> QED BY <1>3, <1>4

\* A page goes no further than the target of its pull.
LEMMA TypesPullRead ==
  ASSUME Types, PullStart \/ PullPage
  PROVE  Types'
<1>1. UNCHANGED <<server, vault, events, rec, rows, cursor, push, stale, parked, spent, hist>>
  BY DEF PullStart, PullPage, PullChanges
<1>2. PICK p \in Reading : /\ pull' = PageRead(p) /\ cursor <= p.after /\ p.after <= p.target
                           /\ p.target <= head /\ ~p.byId /\ push.pc = "idle"
  <2>1. CASE PullStart
    <3> DEFINE p == [pc |-> "fetch", byId |-> FALSE, since |-> cursor, target |-> head,
                     after |-> cursor, final |-> FALSE, window |-> {}]
    <3>1. cursor \in Nat /\ head \in Nat /\ cursor <= head
      BY DEF Types, ServerTypes, StoreTypes
    <3>2. p \in Reading
      BY <3>1 DEF Reading
    <3>3. pull' = PageRead(p) /\ push.pc = "idle"
      BY <2>1 DEF PullStart, PullChanges
    <3> HIDE DEF PageRead
    <3> QED BY <3>1, <3>2, <3>3
  <2>2. CASE PullPage
    <3>1. pull \in Reading /\ pull.pc # "idle" /\ pull' = PageRead(pull)
      BY <2>2, PushIsAlone DEF PullPage, PullChanges
    <3>2. /\ cursor <= pull.after /\ pull.after <= pull.target
          /\ pull.target <= head /\ ~pull.byId /\ push.pc = "idle"
      BY <2>2, <3>1 DEF Types, PullTypes, PullPage
    <3> QED BY <3>1, <3>2
  <2> QED BY <2>1, <2>2
<1>3. /\ pull' \in Reading /\ pull'.byId = p.byId /\ pull'.target = p.target
      /\ pull'.after = p.after \/ \E e \in Entries : /\ pull'.after = feed[e].seq
                                                    /\ feed[e].seq > p.after
                                                    /\ feed[e].seq <= p.target
  BY <1>2, PageIs
<1>4. pull'.after \in Nat /\ p.after \in Nat /\ p.target \in Nat /\ cursor \in Nat
  BY <1>2, <1>3 DEF Reading, Types, StoreTypes
<1>5. cursor <= pull'.after /\ pull'.after <= pull'.target
  <2>1. CASE pull'.after = p.after
    BY <1>2, <1>3, <2>1
  <2>2. CASE \E e \in Entries : /\ pull'.after = feed[e].seq /\ feed[e].seq > p.after
                                /\ feed[e].seq <= p.target
    BY <1>2, <1>3, <1>4, <2>2
  <2> QED BY <1>3, <2>1, <2>2
<1>6. PullTypes'
  <2>1. pull'.pc # "apply"
    BY <1>3 DEF Reading
  <2> QED BY <1>1, <1>2, <1>3, <1>5, <2>1 DEF PullTypes, server
<1> QED BY <1>1, <1>6 DEF Types, ServerTypes, VaultTypes, RecorderTypes, StoreTypes, PushTypes,
           Pass, HistoryTypes, server, vault

\* What a pull plans for each entry of its window.
PlanOf(kind) ==
  [e \in Entries |->
     IF e \notin {item.entry : item \in pull.window} THEN NoPlan
     ELSE LET item == CHOOSE i \in pull.window : i.entry = e IN Plan(e, item, kind[item])]

\* A plan is of an item of the window, with the id that is queued.
LEMMA PlanOfIs ==
  ASSUME Types, pull.pc = "prepare",
         NEW kind \in [pull.window -> {"skip", "plain", "conflict", "merge"}]
  PROVE  /\ PlanOf(kind) \in [Entries -> Plans]
         /\ \A e \in Entries : PlanOf(kind)[e].kind # "out" =>
              \E i \in pull.window :
                /\ i.entry = e /\ PlanOf(kind)[e].kind = kind[i]
                /\ PlanOf(kind)[e].revision = i.revision /\ PlanOf(kind)[e].blob = i.blob
                /\ PlanOf(kind)[e].id = rows[e].dirty.id
         /\ \A e \in Entries : PlanOf(kind)[e].kind = "out" =>
              /\ \A i \in pull.window : i.entry # e
              /\ PlanOf(kind)[e] = NoPlan
<1>1. pull.window \subseteq Items
  BY PushIsAlone DEF Reading
<1>2. NoPlan \in Plans /\ NoPlan.kind = "out"
  BY PiecesAre DEF NoPlan, Plans, PlanKinds
<1>3. ASSUME NEW e \in Entries, \A i \in pull.window : i.entry # e
      PROVE  PlanOf(kind)[e] = NoPlan
  BY <1>3 DEF PlanOf
<1>4. ASSUME NEW e \in Entries, NEW j \in pull.window, j.entry = e
      PROVE  \E i \in pull.window :
                /\ PlanOf(kind)[e] \in Plans
                /\ i.entry = e /\ PlanOf(kind)[e].kind = kind[i]
                /\ kind[i] \in {"skip", "plain", "conflict", "merge"}
                /\ PlanOf(kind)[e].revision = i.revision /\ PlanOf(kind)[e].blob = i.blob
                /\ PlanOf(kind)[e].id = rows[e].dirty.id
  <2> DEFINE i == CHOOSE i \in pull.window : i.entry = e
  <2>1. i \in pull.window /\ i.entry = e
    BY <1>4
  <2>2. PlanOf(kind)[e] = Plan(e, i, kind[i])
    BY <1>4 DEF PlanOf
  <2> HIDE DEF i
  <2>3. i.revision \in Nat /\ i.blob \in Contents /\ kind[i] \in {"skip", "plain", "conflict", "merge"}
    BY <1>1, <2>1 DEF Items
  <2>4. rows[e].dirty.id \in 0..6 /\ file[e] \in Contents /\ None \in Contents
    BY ChangesAre, PiecesAre DEF Types, StoreTypes, VaultTypes, Stored
  <2>5. Leaves(rows[e], i) \in BOOLEAN
    BY DEF Leaves
  <2>6. /\ Plan(e, i, kind[i]) \in Plans /\ Plan(e, i, kind[i]).kind = kind[i]
        /\ Plan(e, i, kind[i]).revision = i.revision /\ Plan(e, i, kind[i]).blob = i.blob
        /\ Plan(e, i, kind[i]).id = rows[e].dirty.id
    <3> HIDE DEF Leaves
    <3> QED BY <2>3, <2>4, <2>5 DEF Plan, Plans, PlanKinds
  <2> QED BY <2>1, <2>2, <2>3, <2>6
<1>5. \A e \in Entries : PlanOf(kind)[e] \in Plans
  BY <1>2, <1>3, <1>4
<1>6. PlanOf(kind) \in [Entries -> Plans]
  BY <1>5 DEF PlanOf
<1>7. \A e \in Entries : PlanOf(kind)[e].kind # "out" =>
              \E i \in pull.window :
                /\ i.entry = e /\ PlanOf(kind)[e].kind = kind[i]
                /\ PlanOf(kind)[e].revision = i.revision /\ PlanOf(kind)[e].blob = i.blob
                /\ PlanOf(kind)[e].id = rows[e].dirty.id
  BY <1>2, <1>3, <1>4
<1>8. \A e \in Entries : PlanOf(kind)[e].kind = "out" =>
              (\A i \in pull.window : i.entry # e) /\ PlanOf(kind)[e] = NoPlan
  BY <1>3, <1>4
<1> QED BY <1>6, <1>7, <1>8

\* The pull, when its window is prepared.
LEMMA PreparedIs ==
  ASSUME Types, PullPrepare
  PROVE  \E kind \in [pull.window -> {"skip", "plain", "conflict", "merge"}] :
           /\ \A i \in pull.window : kind[i] \in Kinds(rows[i.entry], i.entry, i)
           /\ pull' \in Applying /\ pull'.plan = PlanOf(kind) /\ pull'.snap = rows
           /\ pull'.byId = pull.byId /\ pull'.since = pull.since /\ pull'.target = pull.target
           /\ pull'.after = pull.after /\ pull'.final = pull.final /\ pull'.window = pull.window
           /\ pull'.todo = Concerned(pull'.stage, pull'.plan)
           /\ \A j \in 1..5 : \A e \in Concerned(j, pull'.plan) : Ahead(pull', j, e)
           /\ hist' = [hist EXCEPT !.exposed =
                         @ \union UNION {Unseen(e, PlanOf(kind)[e]) : e \in Entries}]
<1>1. PICK kind \in [pull.window -> {"skip", "plain", "conflict", "merge"}] :
        /\ \A i \in pull.window : kind[i] \in Kinds(rows[i.entry], i.entry, i)
        /\ pull' = EnterStage([pc |-> "apply", byId |-> pull.byId, since |-> pull.since,
                       target |-> pull.target, after |-> pull.after, final |-> pull.final,
                       window |-> pull.window, plan |-> PlanOf(kind), snap |-> rows,
                       stage |-> 1, todo |-> {}], 1)
        /\ hist' = [hist EXCEPT !.exposed =
                         @ \union UNION {Unseen(e, PlanOf(kind)[e]) : e \in Entries}]
  BY DEF PullPrepare, PlanOf
<1>2. pull \in Reading /\ pull.pc = "prepare" /\ rows \in [Entries -> Stored]
  BY PushIsAlone DEF PullPrepare, Types, StoreTypes
<1>3. PlanOf(kind) \in [Entries -> Plans]
  BY <1>2, PlanOfIs
<1> DEFINE p == [pc |-> "apply", byId |-> pull.byId, since |-> pull.since,
                 target |-> pull.target, after |-> pull.after, final |-> pull.final,
                 window |-> pull.window, plan |-> PlanOf(kind), snap |-> rows,
                 stage |-> 1, todo |-> {}]
<1>4. p \in Applying
  BY <1>2, <1>3 DEF Reading, Applying
<1>5. /\ p.byId = pull.byId /\ p.since = pull.since /\ p.target = pull.target
      /\ p.after = pull.after /\ p.final = pull.final /\ p.window = pull.window
      /\ p.plan = PlanOf(kind) /\ p.snap = rows
  OBVIOUS
<1>6. pull' = EnterStage(p, 1)
  BY <1>1
<1> HIDE DEF p
<1>7. /\ pull' \in Applying /\ pull'.byId = p.byId /\ pull'.since = p.since
      /\ pull'.target = p.target /\ pull'.after = p.after /\ pull'.final = p.final
      /\ pull'.window = p.window /\ pull'.plan = p.plan /\ pull'.snap = p.snap
      /\ pull'.todo = Concerned(pull'.stage, pull'.plan)
      /\ \A j \in 1..5 : \A e \in Concerned(j, pull'.plan) : Ahead(pull', j, e) <=> 1 <= j
  BY <1>4, <1>6, EnterStageIs
<1>8. \A j \in 1..5 : \A e \in Concerned(j, pull'.plan) : Ahead(pull', j, e)
  BY <1>7
<1> QED BY <1>1, <1>5, <1>7, <1>8

\* A window that is prepared has a plan for each of its entries.
LEMMA TypesPullPrepare ==
  ASSUME Types, PullPrepare
  PROVE  Types'
<1>1. PICK kind \in [pull.window -> {"skip", "plain", "conflict", "merge"}] :
           /\ pull' \in Applying /\ pull'.plan = PlanOf(kind) /\ pull'.snap = rows
           /\ pull'.byId = pull.byId /\ pull'.since = pull.since /\ pull'.target = pull.target
           /\ pull'.after = pull.after /\ pull'.final = pull.final /\ pull'.window = pull.window
           /\ pull'.todo = Concerned(pull'.stage, pull'.plan)
           /\ hist' = [hist EXCEPT !.exposed =
                         @ \union UNION {Unseen(e, PlanOf(kind)[e]) : e \in Entries}]
  BY PreparedIs
<1>2. UNCHANGED <<server, vault, events, rec, rows, cursor, push, stale, parked, spent>>
  BY DEF PullPrepare
<1>3. PullTypes' /\ PushTypes' /\ ServerTypes'
  BY <1>1, <1>2, TypesPull DEF PullPrepare
<1>4. HistoryTypes'
  <2>1. UNION {Unseen(e, PlanOf(kind)[e]) : e \in Entries} \subseteq Mine \union Theirs
    BY PiecesAre DEF Unseen, Types, VaultTypes
  <2> QED BY <1>1, <1>2, <2>1 DEF Types, HistoryTypes
<1>5. VaultTypes' /\ RecorderTypes' /\ StoreTypes'
  BY <1>2 DEF Types, VaultTypes, RecorderTypes, StoreTypes, vault, server
<1> QED BY <1>3, <1>4, <1>5 DEF Types

\* What a pull writes into a file or a row is a content, a row.
LEMMA TypesPullStep ==
  ASSUME Types, NEW e \in Entries,
         PullConflict(e) \/ PullWrite(e) \/ PullRow(e) \/ PullMerge(e) \/ PullQueue(e)
  PROVE  Types'
<1>1. PICK n \in 1..5 : At(n, e)
  BY DEF PullConflict, PullWrite, PullRow, PullMerge, PullQueue
<1>2. pull \in Applying /\ pull.pc # "idle"
  BY <1>1, PushIsAlone DEF At
<1>3. pull' = Done(e) /\ UNCHANGED <<server, push, stale, parked, cursor, rec, spent>>
  BY DEF PullConflict, PullWrite, PullRow, PullMerge, PullQueue, Written
<1>4. /\ pull' \in Applying /\ pull'.byId = pull.byId
      /\ pull'.target = pull.target /\ pull'.after = pull.after
      /\ pull'.todo \subseteq Concerned(pull'.stage, pull'.plan)
  BY <1>1, <1>3, DoneIs
<1>5. PullTypes' /\ PushTypes' /\ ServerTypes'
  BY <1>2, <1>3, <1>4, TypesPull
<1>6. /\ rows \in [Entries -> Stored] /\ rows[e] \in Stored /\ pull.plan[e] \in Plans
      /\ pull.snap[e] \in Stored /\ NewId(e) \in 1..6 /\ file \in [Entries -> Contents]
      /\ copies \subseteq Mine \union Theirs /\ cursor \in Nat /\ head \in Nat /\ cursor <= head
  BY <1>2, NewIdIsFresh DEF Types, StoreTypes, VaultTypes, ServerTypes, Applying
<1>7. /\ pull.plan[e].blob \in Contents /\ pull.plan[e].bytes \in Contents
      /\ pull.plan[e].revision \in Nat
  BY <1>6 DEF Plans
<1>8. Merged(e) \in Contents
  BY <1>7, PiecesAre DEF Merged
<1>9. rows' = rows => StoreTypes'
  BY <1>3, <1>6 DEF StoreTypes, server
<1>10. ASSUME NEW r \in Stored, rows' = [rows EXCEPT ![e] = r] PROVE StoreTypes'
  BY <1>3, <1>6, <1>10 DEF StoreTypes, server
<1>11. CASE PullConflict(e)
  <2> DEFINE old == pull.snap[e]
             c == IF old.known THEN old.local ELSE old.remote
             d == [EmptyRow EXCEPT !.revision = old.revision, !.remote = c, !.known = TRUE]
             r == IF pull.plan[e].kind = "conflict" THEN ClearById(rows[e], pull.plan[e].id) ELSE rows[e]
  <2>1. rows' = [rows EXCEPT ![e] = IF pull.plan[e].leaves THEN d ELSE r]
    BY <1>11 DEF PullConflict
  <2>2. r \in Stored
    BY <1>6, WritesAre, PiecesAre DEF ClearById
  <2>3. d \in Stored
    BY <1>6, PiecesAre DEF EmptyRow, Stored, Changes
  <2> HIDE DEF r, d
  <2>4. StoreTypes'
    BY <1>10, <2>1, <2>2, <2>3
  <2>5. VaultTypes'
    BY <1>6, <1>7, <1>11, PiecesAre DEF PullConflict, Copied, VaultTypes
  <2>6. RecorderTypes' /\ HistoryTypes'
    BY <1>3, <1>11 DEF PullConflict, Types, RecorderTypes, HistoryTypes
  <2> QED BY <1>5, <2>4, <2>5, <2>6 DEF Types
<1>12. ASSUME NEW c \in Contents, Written(e, c) PROVE Types'
  <2>1. VaultTypes' /\ StoreTypes' /\ HistoryTypes'
    BY <1>3, <1>6, <1>9, <1>12 DEF Written, VaultTypes, Types, HistoryTypes
  <2>2. events' = events \/ \E kind \in {"upsert", "delete"} :
                              events' = Append(events, [kind |-> kind, entry |-> e])
    BY <1>12 DEF Written, Happens
  <2> DEFINE Happened == [kind : {"upsert", "delete"}, entry : Entries]
  <2>3. events \in Seq(Happened) /\ \A kind \in {"upsert", "delete"} : [kind |-> kind, entry |-> e] \in Happened
    BY DEF Types, RecorderTypes
  <2> HIDE DEF Happened
  <2>4. events' \in Seq(Happened)
    BY <2>2, <2>3
  <2>5. RecorderTypes'
    BY <1>3, <2>4 DEF Types, RecorderTypes, Happened
  <2> QED BY <1>5, <2>1, <2>5 DEF Types
<1>13. CASE PullRow(e)
  <2>1. Upserted(pull.plan[e].revision, pull.plan[e].blob) \in Stored
    BY <1>7, UpsertedIs
  <2>2. StoreTypes'
    BY <1>10, <1>13, <2>1 DEF PullRow
  <2>3. VaultTypes' /\ RecorderTypes' /\ HistoryTypes'
    BY <1>3, <1>13 DEF PullRow, Types, VaultTypes, RecorderTypes, HistoryTypes, vault
  <2> QED BY <1>5, <2>2, <2>3 DEF Types
<1>14. CASE PullQueue(e)
  <2> DEFINE d == Dirty(rows[e], NewId(e), pull.plan[e].revision, pull.plan[e].blob, Merged(e))
  <2>1. d \in Stored
    BY <1>6, <1>7, <1>8, DirtyIs
  <2>2. rows' = [rows EXCEPT ![e] = Local(d, Merged(e))]
    BY <1>6, <1>14 DEF PullQueue
  <2> HIDE DEF d
  <2>3. StoreTypes'
    BY <1>8, <1>10, <2>1, <2>2, WritesAre
  <2>4. VaultTypes' /\ RecorderTypes' /\ HistoryTypes'
    BY <1>3, <1>14 DEF PullQueue, Types, VaultTypes, RecorderTypes, HistoryTypes, vault
  <2> QED BY <1>5, <2>3, <2>4 DEF Types
<1> QED BY <1>7, <1>8, <1>11, <1>12, <1>13, <1>14 DEF PullWrite, PullMerge

\* A failure is counted, and what it tears and whom it crosses is remembered.
LEMMA TornAndRaced ==
  ASSUME Types, NEW t \in SUBSET (Mine \union Theirs), NEW r \in SUBSET Entries,
         hist' = [hist EXCEPT !.torn = t, !.raced = r], spent' = [spent EXCEPT !.troubles = @ + 1]
  PROVE  HistoryTypes' /\ hist'.torn = t /\ hist'.raced = r
<1> DEFINE P == SUBSET (Mine \union Theirs)
           E == SUBSET Entries
<1>1. /\ hist \in [born : E, discarded : P, exposed : P, torn : P, raced : E]
      /\ spent \in [pieces : P, troubles : Nat] /\ t \in P /\ r \in E
  BY DEF Types, HistoryTypes
<1> HIDE DEF P, E
<1>2. hist' \in [born : E, discarded : P, exposed : P, torn : P, raced : E]
        /\ hist'.torn = t /\ hist'.raced = r
  BY <1>1
<1>3. spent' \in [pieces : P, troubles : Nat]
  BY <1>1
<1> QED BY <1>2, <1>3 DEF HistoryTypes, P, E

\* A pull ends, fails, or goes on to its next window.
LEMMA TypesPullEnds ==
  ASSUME Types, PullDone \/ PullAbort \/ PullFail
  PROVE  Types'
<1>1. pull.pc # "idle" /\ (pull \in Reading \/ pull \in Applying) /\ NoPull.pc = "idle"
        /\ NoPush.pc = "idle"
  BY PushIsAlone DEF PullDone, PullAbort, PullFail, NoPull, NoPush
<1>2. /\ IF pull.byId THEN push.pc = "recover" ELSE push.pc = "idle"
      /\ cursor <= pull.after /\ pull.after <= pull.target /\ pull.target <= head
      /\ pull.after \in Nat /\ pull.target \in Nat /\ pull.since \in Nat
      /\ cursor \in Nat /\ head \in Nat /\ pull.byId \in BOOLEAN
  BY <1>1 DEF Types, PullTypes, Reading, Applying, StoreTypes, ServerTypes
<1>3. UNCHANGED <<server, vault, events, rec, stale, parked>>
  BY DEF PullDone, PullAbort, PullFail
<1>4. ServerTypes' /\ VaultTypes' /\ RecorderTypes'
  BY <1>3 DEF Types, ServerTypes, VaultTypes, RecorderTypes, server, vault
<1>5. push' = NoPush \/ (push' = push /\ (cursor' = cursor \/ push = NoPush))
  BY <1>2, PushIsAlone DEF PullDone, PullAbort, PullFail, PushFallsToo
<1>6. PushTypes'
  BY <1>3, <1>5 DEF Types, PushTypes, Pass, server
<1>7. PullTypes'
  <2>1. CASE pull' = NoPull
    BY <1>1, <2>1 DEF PullTypes
  <2>2. CASE pull' # NoPull
    <3>1. /\ ~pull.byId /\ cursor' = pull.after /\ UNCHANGED push
          /\ pull' = [pc |-> "fetch", byId |-> FALSE, since |-> pull.since,
                      target |-> pull.target, after |-> pull.after, final |-> FALSE,
                      window |-> {}]
      BY <1>1, <2>2 DEF PullDone, PullAbort, PullFail
    <3>2. pull' \in Reading
      BY <1>2, <3>1 DEF Reading
    <3> QED BY <1>2, <1>3, <3>1, <3>2 DEF PullTypes, server
  <2> QED BY <2>1, <2>2
<1>8. StoreTypes'
  <2>1. cursor' \in Nat /\ cursor' <= head'
    BY <1>2, <1>3 DEF PullDone, PullAbort, PullFail, server
  <2>2. rows' \in [Entries -> Stored]
    <3>1. CASE PullFail
      <4>1. pull.snap \in [Entries -> Stored] /\ rows \in [Entries -> Stored]
        BY <3>1, PushIsAlone DEF PullFail, Applying, Types, StoreTypes
      <4> QED BY <3>1, <4>1 DEF PullFail
    <3>2. CASE PullDone \/ PullAbort
      BY <3>2 DEF PullDone, PullAbort, Types, StoreTypes
    <3> QED BY <3>1, <3>2
  <2> QED BY <2>1, <2>2 DEF StoreTypes
<1>9. HistoryTypes'
  <2>1. CASE PullFail
    <3>1. Torn \subseteq Mine \union Theirs
      BY <2>1, PushIsAlone, PiecesAre DEF Torn, PullFail, Applying, Plans
    <3> DEFINE t == hist.torn \union Torn
               r == hist.raced \union {e \in Entries : /\ pull.plan[e].kind # "out"
                                                       /\ rows[e] # pull.snap[e]
                                                       /\ Crosses(e)}
    <3>2. t \in SUBSET (Mine \union Theirs) /\ r \in SUBSET Entries
      BY <3>1 DEF Types, HistoryTypes
    <3>3. hist' = [hist EXCEPT !.torn = t, !.raced = r]
      BY <2>1 DEF PullFail
    <3>4. spent' = [spent EXCEPT !.troubles = @ + 1]
      BY <2>1 DEF PullFail, Trouble
    <3> HIDE DEF t, r
    <3> QED BY <3>2, <3>3, <3>4, TornAndRaced
  <2>2. CASE PullDone \/ PullAbort
    BY <2>2 DEF PullDone, PullAbort, Types, HistoryTypes
  <2> QED BY <2>1, <2>2
<1> QED BY <1>4, <1>6, <1>7, <1>8, <1>9 DEF Types

\* A change that is freed keeps all but its status.
LEMMA FreedIs ==
  ASSUME NEW r \in Stored, r.dirty.status # "none"
  PROVE  LET q == [r EXCEPT !.dirty.status = "pending"]
         IN  /\ q \in Stored /\ q.revision = r.revision /\ q.remote = r.remote
             /\ q.known = r.known /\ q.local = r.local /\ q.dirty.id = r.dirty.id
             /\ q.dirty.base = r.dirty.base /\ q.dirty.from = r.dirty.from
             /\ q.dirty.content = r.dirty.content /\ q.dirty.status = "pending"
<1> DEFINE d == [r.dirty EXCEPT !.status = "pending"]
<1>1. r.dirty \in Queued
  BY ChangesAre DEF Stored
<1>2. /\ d \in Queued /\ d.id = r.dirty.id /\ d.base = r.dirty.base /\ d.from = r.dirty.from
      /\ d.content = r.dirty.content /\ d.status = "pending"
  BY <1>1 DEF Queued, Statuses
<1>3. [r EXCEPT !.dirty.status = "pending"] = [r EXCEPT !.dirty = d]
  BY DEF Stored
<1> HIDE DEF d
<1>4. LET q == [r EXCEPT !.dirty = d]
      IN  /\ q \in Stored /\ q.revision = r.revision /\ q.remote = r.remote
          /\ q.known = r.known /\ q.local = r.local /\ q.dirty = d
  BY <1>2 DEF Stored, Changes
<1> QED BY <1>2, <1>3, <1>4

\* A parked change that gets another chance keeps all but its status.
LEMMA TypesRetry ==
  ASSUME Types, RetryQuarantined \/ RetryParked
  PROVE  /\ Types' /\ UNCHANGED <<server, vault, events, rec, cursor, push, pull, spent, hist>>
         /\ \A e \in Entries :
              /\ rows'[e].revision = rows[e].revision /\ rows'[e].remote = rows[e].remote
              /\ rows'[e].known = rows[e].known /\ rows'[e].local = rows[e].local
              /\ rows'[e].dirty.id = rows[e].dirty.id /\ rows'[e].dirty.base = rows[e].dirty.base
              /\ rows'[e].dirty.content = rows[e].dirty.content
<1>1. PICK reasons \in {{"prepare_failed"}, {"prepare_failed", "stale_unresolved"}} : Unparked(reasons)
  BY DEF RetryQuarantined, RetryParked
<1> DEFINE freed == {e \in Entries : rows[e].dirty.status \in reasons}
<1>2. /\ rows' = [e \in Entries |-> IF e \in freed THEN [rows[e] EXCEPT !.dirty.status = "pending"]
                                    ELSE rows[e]]
      /\ stale' = [e \in Entries |-> IF e \in freed THEN NoStale ELSE stale[e]]
      /\ parked' = {p \in parked : p[1] \notin freed}
      /\ UNCHANGED <<server, vault, events, rec, cursor, push, pull, spent, hist>>
  BY <1>1 DEF Unparked
<1>3. rows \in [Entries -> Stored]
  BY DEF Types, StoreTypes
<1>4. ASSUME NEW e \in Entries
      PROVE  /\ rows'[e] \in Stored
             /\ rows'[e].revision = rows[e].revision /\ rows'[e].remote = rows[e].remote
             /\ rows'[e].known = rows[e].known /\ rows'[e].local = rows[e].local
             /\ rows'[e].dirty.id = rows[e].dirty.id /\ rows'[e].dirty.base = rows[e].dirty.base
             /\ rows'[e].dirty.content = rows[e].dirty.content
  <2>1. CASE e \in freed
    <3>1. rows'[e] = [rows[e] EXCEPT !.dirty.status = "pending"] /\ rows[e].dirty.status # "none"
      BY <1>2, <2>1
    <3> QED BY <1>3, <3>1, FreedIs
  <2>2. CASE e \notin freed
    BY <1>2, <1>3, <2>2
  <2> QED BY <2>1, <2>2
<1>5. rows' \in [Entries -> Stored]
  BY <1>2, <1>4
<1>6. stale' \in [Entries -> Counts] /\ parked' \subseteq Entries \X Nat
  BY <1>2 DEF Types, PushTypes, NoStale, Counts
<1>7. ServerTypes' /\ VaultTypes' /\ RecorderTypes' /\ PullTypes' /\ HistoryTypes'
  BY <1>2 DEF Types, ServerTypes, VaultTypes, RecorderTypes, PullTypes, HistoryTypes, server, vault
<1>8. PushTypes' /\ StoreTypes'
  BY <1>2, <1>5, <1>6 DEF Types, PushTypes, Pass, StoreTypes, server
<1> QED BY <1>2, <1>4, <1>7, <1>8 DEF Types

\* What a row is after a restart: as it was, forgotten if the server never had
\* it, or with the file as it is, queued on the revision the store knows.
LEMMA ReconciledIs ==
  ASSUME Types, NEW e \in Entries
  PROVE  /\ Reconciled(e) \in Stored
         /\ \/ Reconciled(e) = rows[e]
            \/ Reconciled(e) = EmptyRow /\ rows[e].revision = 0 /\ file[e] = None
            \/ /\ Reconciled(e).revision = rows[e].revision /\ Reconciled(e).remote = rows[e].remote
               /\ Reconciled(e).known /\ Reconciled(e).local = file[e]
               /\ Reconciled(e).dirty.id = NewId(e) /\ Reconciled(e).dirty.base = rows[e].revision
               /\ Reconciled(e).dirty.content = file[e]
<1> DEFINE d == Dirty(rows[e], NewId(e), rows[e].revision, rows[e].remote, file[e])
<1>1. /\ file[e] \in Contents /\ rows[e] \in Stored /\ rows[e].revision \in Nat
      /\ rows[e].remote \in Contents /\ NewId(e) \in 1..6
  BY NewIdIsFresh DEF Types, VaultTypes, StoreTypes, Stored
<1>2. /\ d \in Stored /\ d.revision = rows[e].revision /\ d.remote = rows[e].remote
      /\ d.dirty = [id |-> NewId(e), base |-> rows[e].revision, from |-> rows[e].remote,
                    content |-> file[e], status |-> "pending"]
  BY <1>1, DirtyIs
<1>3. Reconciled(e) \in {rows[e], Local(d, file[e])}
        \/ (Reconciled(e) = EmptyRow /\ rows[e].revision = 0 /\ file[e] = None)
  BY DEF Reconciled
<1> HIDE DEF d
<1>4. /\ Local(d, file[e]) \in Stored /\ Local(d, file[e]).revision = d.revision
      /\ Local(d, file[e]).remote = d.remote /\ Local(d, file[e]).known
      /\ Local(d, file[e]).local = file[e] /\ Local(d, file[e]).dirty = d.dirty
  BY <1>1, <1>2, WritesAre
<1>5. EmptyRow \in Stored
  BY PiecesAre, UpsertedIs
<1>6. CASE Reconciled(e) = Local(d, file[e])
  BY <1>2, <1>4, <1>6
<1> QED BY <1>1, <1>3, <1>5, <1>6

\* After a restart only the store, the files and the server are left.
LEMMA TypesRestart ==
  ASSUME Types, Restart
  PROVE  Types'
<1>1. /\ rows' = [e \in Entries |-> Reconciled(e)]
      /\ push' = NoPush /\ pull' = NoPull /\ rec' = NoRec /\ events' = <<>>
      /\ stale' = [e \in Entries |-> NoStale] /\ parked' = {}
      /\ UNCHANGED <<server, vault, cursor>>
  BY DEF Restart
<1>2. rows' \in [Entries -> Stored]
  BY <1>1, ReconciledIs
<1>3. ServerTypes' /\ VaultTypes' /\ StoreTypes'
  BY <1>1, <1>2 DEF Types, ServerTypes, VaultTypes, StoreTypes, server, vault
<1>4. RecorderTypes' /\ PushTypes' /\ PullTypes'
  BY <1>1 DEF RecorderTypes, Recorders, NoRec, PushTypes, PullTypes, NoPull, NoStale, Counts
<1>5. HistoryTypes'
  <2>1. Torn \subseteq Mine \union Theirs
    BY PushIsAlone, PiecesAre DEF Torn, Applying, Plans
  <2>2. Forgotten \subseteq Entries
    BY DEF Forgotten, Types, RecorderTypes, Recorders
  <2> DEFINE t == hist.torn \union Torn
             r == hist.raced \union Forgotten
  <2>3. t \in SUBSET (Mine \union Theirs) /\ r \in SUBSET Entries
    BY <2>1, <2>2 DEF Types, HistoryTypes
  <2>4. hist' = [hist EXCEPT !.torn = t, !.raced = r] /\ spent' = [spent EXCEPT !.troubles = @ + 1]
    BY DEF Restart, Trouble
  <2> HIDE DEF t, r
  <2> QED BY <2>3, <2>4, TornAndRaced
<1> QED BY <1>3, <1>4, <1>5 DEF Types

\* Every step keeps the types.
LEMMA TypesStep == Types /\ [Next]_vars => Types'
<1> SUFFICES ASSUME Types, [Next]_vars PROVE Types'
  OBVIOUS
<1>1. CASE User
  BY <1>1, TypesUser DEF User
<1>2. CASE Others
  BY <1>2, TypesOthers DEF Others
<1>3. CASE Recorder
  BY <1>3, TypesRecorder
<1>4. CASE Pushes
  BY <1>4, TypesPushTurns, TypesPushCommit, TypesPushApply, TypesPushFinish, TypesPrepare,
     TypesPushReject DEF Pushes
<1>5. CASE Pulls
  BY <1>5, TypesPullRead, TypesPullPrepare, TypesPullEnds, TypesPullStep DEF Pulls
<1>6. CASE RetryQuarantined \/ RetryParked
  BY <1>6, TypesRetry
<1>7. CASE Restart
  BY <1>7, TypesRestart
<1>8. CASE UNCHANGED vars
  BY <1>8 DEF vars, server, Types, ServerTypes, VaultTypes, RecorderTypes, StoreTypes, PushTypes, Pass,
     PullTypes, HistoryTypes
<1> QED BY <1>1, <1>2, <1>3, <1>4, <1>5, <1>6, <1>7, <1>8 DEF Next

\* The variables are of the types above in every state the device reaches.
THEOREM TypesAreKept == Spec => []Types
<1> QED BY TypesInit, TypesStep, PTL DEF Spec

-----------------------------------------------------------------------------
(* The checkpoint has no gap: an inductive invariant.                       *)

\* The positions of the feed are of one history, and no row is ahead of it.
Positions ==
  /\ \A e, f \in Entries : feed[e].seq = feed[f].seq => e = f \/ feed[e].seq = 0
  /\ \A e \in Entries : feed[e].seq = 0 => feed[e].revision = 0
  /\ \A e \in Entries : rows[e].revision <= feed[e].revision

\* What a push was told is accepted is in the rows; what it is being told is
\* what the server has, unless the server has moved on.
ToldTruly(e) ==
  /\ \A f \in Entries \ {e} : feed[f].seq # push.got[e].seq \/ feed[f].seq = 0
  /\ rows[e].revision <= push.got[e].revision
  /\ \/ push.got[e].revision = feed[e].revision /\ push.got[e].seq = feed[e].seq
     \/ /\ push.got[e].revision < feed[e].revision /\ push.got[e].seq < feed[e].seq
        /\ feed[e].seq > cursor /\ feed[e].seq \notin push.accepted
AcceptedIsKnown ==
  push.pc # "idle" =>
    /\ \A e \in Entries \ hist.raced :
         feed[e].seq \in push.accepted => rows[e].revision = feed[e].revision
    /\ push.pc = "apply" =>
         \A e \in Entries : push.step[e] = "accepted" => ToldTruly(e)

\* What pull p was told of e is what the server has, unless e has moved on to
\* where neither this pull nor the push it works for will look.
Beyond(p, e) == feed[e].seq > p.target /\ (p.byId => feed[e].seq \notin push.accepted)
Known(p, e, revision, blob) ==
  /\ revision <= feed[e].revision
  /\ IF revision = feed[e].revision THEN blob = feed[e].blob ELSE Beyond(p, e)

WindowTrue(p) ==
  \A i \in p.window :
    /\ Known(p, i.entry, i.revision, i.blob)
    /\ rows[i.entry].revision <= i.revision
    /\ ~p.byId => i.seq <= p.after /\ (feed[i.entry].seq = i.seq \/ feed[i.entry].seq > p.target)
    /\ \A j \in p.window : i.entry = j.entry => i = j
WindowIsTrue == pull.pc \in {"fetch", "prepare"} => WindowTrue(pull)

\* Up to where a pull has read, the store has it or the window brings it.
InWindow(p, e) ==
  IF p.pc = "apply" THEN p.plan[e].kind # "out" ELSE \E i \in p.window : i.entry = e
ReadKnown(p) ==
  /\ \A e \in Entries \ hist.raced :
       feed[e].seq <= p.after => rows[e].revision = feed[e].revision \/ InWindow(p, e)
  /\ p.final => \A e \in Entries : feed[e].seq <= p.after \/ feed[e].seq > p.target
ReadIsKnown == pull.pc # "idle" /\ ~pull.byId => ReadKnown(pull)

\* A plan is of what the window brought; the row has it once it is written, and
\* what it goes back to is not older than the checkpoint.
PlanTrue(e) ==
  /\ Known(pull, e, pull.plan[e].revision, pull.plan[e].blob)
  /\ rows[e].revision <= pull.plan[e].revision
  /\ pull.snap[e].revision <= pull.plan[e].revision
  /\ e \notin hist.raced =>
       /\ feed[e].seq <= cursor => pull.snap[e].revision = feed[e].revision
       /\ rows[e].revision = IF StillTo(3, e) THEN pull.snap[e].revision
                             ELSE pull.plan[e].revision
PlanIsTrue == pull.pc = "apply" => \A e \in Entries : pull.plan[e].kind # "out" => PlanTrue(e)

NoGap == /\ Positions /\ CheckpointHasNoGap /\ AcceptedIsKnown /\ WindowIsTrue /\ ReadIsKnown
         /\ PlanIsTrue

\* What the types say of the numbers among the variables.
Numbers ==
  /\ head \in Nat /\ cursor \in Nat
  /\ \A e \in Entries : /\ feed[e].seq \in Nat /\ feed[e].revision \in Nat
                        /\ feed[e].seq <= head /\ rows[e].revision \in Nat
  /\ push.pc # "idle" => /\ push.accepted \subseteq Nat
                         /\ \A n \in push.accepted : n <= head
                         /\ \A e \in Entries : /\ push.got[e].revision \in Nat
                                               /\ push.got[e].seq \in Nat
                                               /\ push.got[e].seq <= head
  /\ pull.pc # "idle" => /\ pull.after \in Nat /\ pull.target \in Nat /\ cursor <= pull.after
                         /\ pull.after <= pull.target /\ pull.target <= head
                         /\ \A i \in pull.window : /\ i.entry \in Entries /\ i.revision \in Nat
                                                   /\ i.seq \in Nat
  /\ pull.pc = "apply" => \A e \in Entries : /\ pull.plan[e].revision \in Nat
                                             /\ pull.snap[e].revision \in Nat

\* The types, before a step and after it, give as much.
LEMMA NumbersAre == (Types => Numbers) /\ (Types' => Numbers')
<1>1. Types => Numbers
  <2> SUFFICES ASSUME Types PROVE Numbers
    OBVIOUS
  <2>1. head \in Nat /\ cursor \in Nat
    BY DEF Types, ServerTypes, StoreTypes
  <2>2. \A e \in Entries : /\ feed[e].seq \in Nat /\ feed[e].revision \in Nat
                           /\ feed[e].seq <= head /\ rows[e].revision \in Nat
    BY DEF Types, ServerTypes, StoreTypes, Served, Stored
  <2>3. push.pc # "idle" => /\ push.accepted \subseteq Nat
                            /\ \A n \in push.accepted : n <= head
                            /\ \A e \in Entries : /\ push.got[e].revision \in Nat
                                                  /\ push.got[e].seq \in Nat
                                                  /\ push.got[e].seq <= head
    BY PushIsAlone DEF Pass, Passing
  <2>4. pull.pc # "idle" => pull \in Reading \/ pull \in Applying
    BY PushIsAlone DEF Types, PullTypes
  <2>5. pull.pc # "idle" => /\ pull.after \in Nat /\ pull.target \in Nat /\ cursor <= pull.after
                            /\ pull.after <= pull.target /\ pull.target <= head
    BY <2>4 DEF Types, PullTypes, Reading, Applying
  <2>6. pull.pc # "idle" => \A i \in pull.window : /\ i.entry \in Entries /\ i.revision \in Nat
                                                   /\ i.seq \in Nat
    BY <2>4 DEF Reading, Applying, Items
  <2>7. pull.pc = "apply" => \A e \in Entries : /\ pull.plan[e].revision \in Nat
                                                /\ pull.snap[e].revision \in Nat
    BY PushIsAlone DEF Applying, Plans, Stored
  <2> QED BY <2>1, <2>2, <2>3, <2>5, <2>6, <2>7 DEF Numbers
<1> QED BY <1>1, PTL

\* A step that leaves the server, the checkpoint and what was accepted, and
\* loses no revision of an entry that was not crossed, leaves no gap.
LEMMA NoGapStill ==
  ASSUME Types, Types', NoGap, UNCHANGED <<head, feed, cursor>>, hist.raced \subseteq hist'.raced,
         \A e \in Entries : \/ rows'[e].revision = rows[e].revision
                            \/ e \in hist'.raced /\ rows'[e].revision <= rows[e].revision,
         pull' = pull \/ pull' = NoPull,
         push'.pc # "idle" => IF push.pc = "idle" THEN push'.accepted = {}
                              ELSE push'.accepted = push.accepted,
         push'.pc = "apply" => push' = push
  PROVE  NoGap'
<1> Numbers /\ Numbers'
  BY NumbersAre
<1>1. Positions'
  BY DEF NoGap, Positions, Numbers
<1>2. CheckpointHasNoGap'
  BY DEF NoGap, CheckpointHasNoGap
<1>3. AcceptedIsKnown'
  <2>1. ASSUME push'.pc # "idle", NEW e \in Entries \ hist'.raced, feed'[e].seq \in push'.accepted
        PROVE  rows'[e].revision = feed'[e].revision
    BY <2>1 DEF NoGap, AcceptedIsKnown
  <2>2. ASSUME push'.pc = "apply", NEW e \in Entries, push'.step[e] = "accepted"
        PROVE  ToldTruly(e)'
    <3>1. ToldTruly(e) /\ push' = push /\ push.pc # "idle"
      BY <2>2 DEF NoGap, AcceptedIsKnown
    <3>2. rows'[e].revision <= rows[e].revision
      BY DEF Numbers
    <3>3. rows'[e].revision <= push.got[e].revision
      BY <3>1, <3>2 DEF Numbers, ToldTruly
    <3> QED BY <3>1, <3>3 DEF ToldTruly
  <2> QED BY <2>1, <2>2 DEF AcceptedIsKnown
<1>4. pull' = NoPull => WindowIsTrue' /\ ReadIsKnown' /\ PlanIsTrue'
  BY DEF WindowIsTrue, ReadIsKnown, PlanIsTrue, NoPull
<1>5. CASE pull' = pull /\ pull.pc # "idle"
  <2>1. pull.byId => push'.accepted = push.accepted
    BY <1>5 DEF Types, PullTypes
  <2>2. \A e \in Entries : Beyond(pull, e) => Beyond(pull, e)'
    BY <1>5, <2>1 DEF Beyond
  <2>3. \A e \in Entries : \A r, b : Known(pull, e, r, b) => Known(pull, e, r, b)'
    BY <1>5, <2>2 DEF Known
  <2>4. \A e \in Entries : rows'[e].revision <= rows[e].revision
    BY DEF Numbers
  <2>5. WindowIsTrue'
    <3> SUFFICES ASSUME pull.pc \in {"fetch", "prepare"} PROVE WindowTrue(pull)'
      BY <1>5 DEF WindowIsTrue
    <3>1. WindowTrue(pull)
      BY DEF NoGap, WindowIsTrue
    <3>2. \A i \in pull.window : rows'[i.entry].revision <= i.revision
      BY <1>5, <2>4, <3>1 DEF Numbers, WindowTrue
    <3> QED BY <1>5, <2>3, <3>1, <3>2 DEF Numbers, WindowTrue
  <2>6. ReadIsKnown'
    BY <1>5 DEF NoGap, ReadIsKnown, ReadKnown, InWindow
  <2>7. PlanIsTrue'
    <3> SUFFICES ASSUME pull.pc = "apply", NEW e \in Entries, pull.plan[e].kind # "out"
                 PROVE  PlanTrue(e)'
      BY <1>5 DEF PlanIsTrue
    <3>1. PlanTrue(e)
      BY DEF NoGap, PlanIsTrue
    <3>2. rows'[e].revision <= pull.plan[e].revision
      BY <1>5, <2>4, <3>1 DEF Numbers, PlanTrue
    <3>3. Known(pull, e, pull.plan[e].revision, pull.plan[e].blob)'
      BY <1>5, <2>2, <3>1 DEF PlanTrue, Known
    <3>4. StillTo(3, e)' <=> StillTo(3, e)
      BY <1>5 DEF StillTo
    <3> QED BY <1>5, <3>1, <3>2, <3>3, <3>4 DEF PlanTrue
  <2> QED BY <1>1, <1>2, <1>3, <2>5, <2>6, <2>7 DEF NoGap
<1> QED BY <1>1, <1>2, <1>3, <1>4, <1>5, PushIsAlone DEF NoGap

\* What changes at the server goes beyond every position before.
Moved(e) == /\ feed'[e].revision = feed[e].revision + 1
            /\ head < feed'[e].seq /\ feed'[e].seq <= head'

\* A step in which only the server moves leaves no gap.
LEMMA NoGapMoves ==
  ASSUME Types, Types', NoGap, UNCHANGED <<rows, cursor, pull>>, head <= head',
         hist'.raced = hist.raced,
         \A e \in Entries : feed'[e] = feed[e] \/ Moved(e),
         \A e, f \in Entries : Moved(e) /\ Moved(f) /\ feed'[e].seq = feed'[f].seq => e = f,
         push'.pc = push.pc \/ pull.pc = "idle",
         push'.pc # "idle" => push.pc # "idle" /\ push'.accepted = push.accepted,
         push'.pc = "apply" =>
           \A e \in Entries : push'.step[e] = "accepted" => ToldTruly(e)'
  PROVE  NoGap'
<1> Numbers /\ Numbers'
  BY NumbersAre
<1>1. Positions'
  <2>1. \A e, f \in Entries : feed'[e].seq = feed'[f].seq => e = f \/ feed'[e].seq = 0
    BY DEF NoGap, Positions, Numbers, Moved
  <2>2. \A e \in Entries : feed'[e].seq = 0 => feed'[e].revision = 0
    BY DEF NoGap, Positions, Numbers, Moved
  <2>3. \A e \in Entries : rows'[e].revision <= feed'[e].revision
    BY DEF NoGap, Positions, Numbers, Moved
  <2> QED BY <2>1, <2>2, <2>3 DEF Positions
<1>2. CheckpointHasNoGap'
  <2> SUFFICES ASSUME NEW e \in Entries \ hist.raced, feed'[e].seq <= cursor
               PROVE  rows[e].revision = feed'[e].revision
    BY DEF CheckpointHasNoGap
  <2>1. feed'[e] = feed[e]
    BY DEF Moved, Numbers, Types, StoreTypes
  <2> QED BY <2>1 DEF NoGap, CheckpointHasNoGap
<1>3. AcceptedIsKnown'
  <2>1. ASSUME push'.pc # "idle", NEW e \in Entries \ hist'.raced, feed'[e].seq \in push'.accepted
        PROVE  rows'[e].revision = feed'[e].revision
    <3>1. feed'[e] = feed[e]
      BY <2>1 DEF Moved, Numbers
    <3> QED BY <2>1, <3>1 DEF NoGap, AcceptedIsKnown
  <2> QED BY <2>1 DEF AcceptedIsKnown
<1>4. CASE pull.pc = "idle"
  BY <1>1, <1>2, <1>3, <1>4 DEF NoGap, WindowIsTrue, ReadIsKnown, PlanIsTrue
<1>5. CASE pull.pc # "idle"
  <2>1. pull.byId => push.pc # "idle" /\ push'.accepted = push.accepted
    BY <1>5 DEF Types, PullTypes
  <2>2. ASSUME NEW e \in Entries, Moved(e) PROVE Beyond(pull, e)'
    BY <1>5, <2>1, <2>2 DEF Moved, Beyond, Numbers
  <2>3. ASSUME NEW e \in Entries, NEW r \in Nat, NEW b, Known(pull, e, r, b)
        PROVE  /\ r <= feed'[e].revision
               /\ IF r = feed'[e].revision THEN b = feed'[e].blob ELSE Beyond(pull, e)'
    <3>1. CASE Moved(e)
      BY <2>2, <2>3, <3>1 DEF Known, Moved, Numbers
    <3>2. CASE feed'[e] = feed[e]
      BY <2>1, <2>3, <3>2 DEF Known, Beyond
    <3> QED BY <3>1, <3>2
  <2>4. WindowIsTrue'
    <3> SUFFICES ASSUME pull.pc \in {"fetch", "prepare"}, NEW i \in pull.window
                 PROVE  /\ Known(pull, i.entry, i.revision, i.blob)'
                        /\ rows[i.entry].revision <= i.revision
                        /\ ~pull.byId => /\ i.seq <= pull.after
                                         /\ \/ feed'[i.entry].seq = i.seq
                                            \/ feed'[i.entry].seq > pull.target
                        /\ \A j \in pull.window : i.entry = j.entry => i = j
      BY DEF WindowIsTrue, WindowTrue
    <3>1. /\ Known(pull, i.entry, i.revision, i.blob) /\ rows[i.entry].revision <= i.revision
          /\ ~pull.byId => i.seq <= pull.after /\ (feed[i.entry].seq = i.seq \/ feed[i.entry].seq > pull.target)
          /\ \A j \in pull.window : i.entry = j.entry => i = j
          /\ i.entry \in Entries /\ i.revision \in Nat
      BY <1>5 DEF NoGap, WindowIsTrue, WindowTrue, Numbers
    <3>2. Known(pull, i.entry, i.revision, i.blob)'
      BY <2>3, <3>1 DEF Known
    <3>3. Moved(i.entry) => feed'[i.entry].seq > pull.target
      BY <1>5, <3>1 DEF Moved, Numbers
    <3> QED BY <3>1, <3>2, <3>3
  <2>5. ReadIsKnown'
    <3> SUFFICES ASSUME ~pull.byId PROVE ReadKnown(pull)'
      BY DEF ReadIsKnown
    <3>1. ReadKnown(pull)
      BY <1>5 DEF NoGap, ReadIsKnown
    <3>2. ASSUME NEW e \in Entries \ hist.raced, feed'[e].seq <= pull.after
          PROVE  rows[e].revision = feed'[e].revision \/ InWindow(pull, e)
      <4>1. feed'[e] = feed[e]
        BY <1>5, <3>2 DEF Moved, Numbers
      <4> QED BY <3>1, <3>2, <4>1 DEF ReadKnown
    <3>3. ASSUME pull.final, NEW e \in Entries
          PROVE  feed'[e].seq <= pull.after \/ feed'[e].seq > pull.target
      BY <1>5, <3>1, <3>3 DEF ReadKnown, Moved, Numbers
    <3> QED BY <3>2, <3>3 DEF ReadKnown, InWindow
  <2>6. PlanIsTrue'
    <3> SUFFICES ASSUME pull.pc = "apply", NEW e \in Entries, pull.plan[e].kind # "out"
                 PROVE  PlanTrue(e)'
      BY DEF PlanIsTrue
    <3>1. PlanTrue(e) /\ pull.plan[e].revision \in Nat
      BY DEF NoGap, PlanIsTrue, Numbers
    <3>2. Known(pull, e, pull.plan[e].revision, pull.plan[e].blob)'
      BY <2>3, <3>1 DEF PlanTrue, Known
    <3>3. StillTo(3, e)' <=> StillTo(3, e)
      BY DEF StillTo
    <3>4. Moved(e) => ~(feed'[e].seq <= cursor)
      BY DEF Moved, Numbers, Types, StoreTypes
    <3> QED BY <3>1, <3>2, <3>3, <3>4 DEF PlanTrue
  <2> QED BY <1>1, <1>2, <1>3, <2>4, <2>5, <2>6 DEF NoGap
<1> QED BY <1>4, <1>5

\* At the start the store has all there is up to the checkpoint.
LEMMA NoGapInit == Init => NoGap
<1> SUFFICES ASSUME Init PROVE NoGap
  OBVIOUS
<1>1. PICK synced \in BOOLEAN, place \in [Entries \ New -> 1..Cardinality(Entries \ New)] :
        /\ \A e, f \in Entries \ New : place[e] = place[f] => e = f
        /\ head = Cardinality(Entries \ New)
        /\ feed = [e \in Entries |->
                    IF e \in New THEN [revision |-> 0, blob |-> None, seq |-> 0]
                                 ELSE [revision |-> 1, blob |-> {}, seq |-> place[e]]]
        /\ rows = [e \in Entries |-> IF synced /\ e \notin New THEN Upserted(1, {}) ELSE EmptyRow]
        /\ cursor = IF synced THEN head ELSE 0
  BY StartIs, Zenon DEF Start
<1>2. Upserted(1, {}).revision = 1 /\ EmptyRow.revision = 0
  BY FirstRows
<1>3. \A e \in Entries \ New : place[e] \in Nat /\ place[e] > 0
  BY <1>1
<1>4. Positions
  BY <1>1, <1>2, <1>3 DEF Positions
<1>5. CheckpointHasNoGap
  BY <1>1, <1>2, <1>3 DEF CheckpointHasNoGap
<1>6. push.pc = "idle" /\ pull.pc = "idle"
  BY DEF Init, NoPush, NoPull
<1> QED BY <1>4, <1>5, <1>6 DEF NoGap, AcceptedIsKnown, WindowIsTrue, ReadIsKnown, PlanIsTrue

\* What the user does is no matter; what others do is beyond the checkpoint.
LEMMA NoGapUserOthers ==
  ASSUME Types, Types', NoGap, User \/ Others \/ RetryQuarantined \/ RetryParked
  PROVE  NoGap'
<1>1. CASE User
  <2>1. /\ UNCHANGED <<server, rows, cursor, push, pull>> /\ hist'.raced = hist.raced
    BY <1>1 DEF User, Edit, Delete, Types, HistoryTypes
  <2> QED BY <2>1, NoGapStill DEF server
<1>2. CASE Others
  <2>1. PICK e \in Entries : OthersDelete(e) \/ \E piece \in Theirs : OthersWrite(e, piece)
    BY <1>2 DEF Others
  <2> DEFINE n == feed'[e]
  <2>2. /\ UNCHANGED <<rows, cursor, push, pull>> /\ head' = head + 1 /\ hist'.raced = hist.raced
        /\ \A f \in Entries \ {e} : feed'[f] = feed[f]
        /\ n.revision = feed[e].revision + 1 /\ n.seq = head + 1
    BY <2>1 DEF OthersDelete, OthersWrite, Accept, Types, HistoryTypes, ServerTypes
  <2> HIDE DEF n
  <2>3. /\ \A f \in Entries : feed'[f] = feed[f] \/ (f = e /\ Moved(f))
        /\ \A f \in Entries : Moved(f) => f = e
    <3> Numbers
      BY NumbersAre
    <3>1. Moved(e)
      BY <2>2 DEF Moved, Numbers, n
    <3>2. \A f \in Entries : Moved(f) => f = e
      BY <2>2 DEF Moved, Numbers
    <3> QED BY <2>2, <3>1, <3>2
  <2>4. ASSUME push'.pc = "apply", NEW f \in Entries, push'.step[f] = "accepted"
        PROVE  ToldTruly(f)'
    <3> Numbers
      BY NumbersAre
    <3>1. ToldTruly(f) /\ push.pc = "apply"
      BY <2>2, <2>4 DEF NoGap, AcceptedIsKnown
    <3>2. \A g \in Entries \ {f} : feed'[g].seq # push.got[f].seq \/ feed'[g].seq = 0
      BY <2>3, <3>1 DEF ToldTruly, Moved, Numbers
    <3>3. CASE feed'[f] = feed[f]
      BY <2>2, <3>1, <3>2, <3>3 DEF ToldTruly
    <3>4. CASE Moved(f)
      <4>1. push.got[f].revision <= feed[f].revision
        BY <3>1 DEF ToldTruly, Numbers
      <4>2. push.got[f].revision < feed'[f].revision
        BY <3>1, <3>4, <4>1 DEF Moved, Numbers
      <4>3. push.got[f].seq < feed'[f].seq
        <5>1. push.got[f].seq \in Nat /\ push.got[f].seq <= head
          BY <3>1 DEF Numbers
        <5>2. head \in Nat /\ feed'[f].seq \in Nat /\ head < feed'[f].seq
          BY <3>4, NumbersAre DEF Moved, Numbers
        <5> QED BY <5>1, <5>2
      <4>4. feed'[f].seq > cursor
        <5>1. cursor <= head
          BY DEF Types, StoreTypes
        <5> QED BY <3>4, <5>1, NumbersAre DEF Moved, Numbers
      <4>5. feed'[f].seq \notin push.accepted
        BY <3>1, <3>4, NumbersAre DEF Moved, Numbers
      <4> QED BY <2>2, <3>1, <3>2, <4>2, <4>3, <4>4, <4>5 DEF ToldTruly
    <3> QED BY <2>3, <3>3, <3>4
  <2>5. head \in Nat /\ head <= head'
    BY <2>2, NumbersAre DEF Numbers
  <2> QED BY <2>2, <2>3, <2>4, <2>5, NoGapMoves
<1>3. CASE RetryQuarantined \/ RetryParked
  BY <1>3, TypesRetry, NoGapStill DEF server
<1> QED BY <1>1, <1>2, <1>3

\* The recorder loses a revision only where it forgets an entry it has read to
\* be none of the server's.
LEMMA NoGapRecorder ==
  ASSUME Types, Types', NoGap, Recorder
  PROVE  NoGap'
<1>1. UNCHANGED <<server, cursor, push, pull>>
  BY DEF Recorder, RecordRead, RecordUpsert, RecordQueue, RecordLocal, RecordDelete,
     RecordRemote, RecordForget, RecordGone, RecordQueueDelete, RecordChanges, RecordWrites
<1>2. hist.raced \subseteq hist'.raced
  BY DEF Recorder, RecordRead, RecordUpsert, RecordQueue, RecordLocal, RecordDelete,
     RecordRemote, RecordForget, RecordGone, RecordQueueDelete, RecordChanges, RecordWrites,
     Types, HistoryTypes
<1>3. CASE RecordRead
  BY <1>1, <1>2, <1>3, NoGapStill DEF RecordRead, server
<1>4. CASE ~RecordRead
  <2> DEFINE r == rows[rec.entry]
  <2>1. rec.entry \in Entries /\ r \in Stored /\ rows \in [Entries -> Stored] /\ rec.pc # "idle"
    BY <1>4 DEF Recorder, RecordUpsert, RecordQueue, RecordLocal, RecordDelete,
     RecordRemote, RecordForget, RecordGone, RecordQueueDelete, Types, RecorderTypes, Recorders,
     StoreTypes
  <2>2. ASSUME NEW new, rows' = [rows EXCEPT ![rec.entry] = new], new.revision = r.revision
        PROVE  NoGap'
    <3>1. \A e \in Entries : rows'[e].revision = rows[e].revision
      BY <2>1, <2>2
    <3> QED BY <1>1, <1>2, <3>1, NoGapStill DEF server
  <2>3. CASE RecordUpsert \/ RecordRemote
    BY <2>2, <2>3 DEF RecordUpsert, RecordRemote, RecordChanges, RecordWrites
  <2>4. CASE RecordQueue \/ RecordQueueDelete
    <3>1. PICK c \in Contents : rows' = [rows EXCEPT ![rec.entry] =
                  Dirty(r, NewId(rec.entry), rec.base, rec.from, c)]
      BY <2>4, PiecesAre DEF RecordQueue, RecordQueueDelete, RecordChanges, RecordWrites, Types,
         RecorderTypes, Recorders
    <3>2. rec.base \in Nat /\ rec.from \in Contents
      BY <2>4 DEF RecordQueue, RecordQueueDelete, Types, RecorderTypes, Recorders
    <3>3. Dirty(r, NewId(rec.entry), rec.base, rec.from, c).revision = r.revision
      <4>1. NewId(rec.entry) \in 1..6
        BY <2>1, NewIdIsFresh
      <4> HIDE DEF r
      <4> QED BY <2>1, <3>2, <4>1, DirtyIs
    <3> QED BY <2>2, <3>1, <3>3
  <2>5. CASE RecordLocal \/ RecordGone
    <3>1. PICK c \in Contents : rows' = [rows EXCEPT ![rec.entry] = Local(r, c)]
      BY <2>5, PiecesAre DEF RecordLocal, RecordGone, RecordChanges, RecordWrites, Types,
         RecorderTypes, Recorders
    <3> QED BY <2>1, <2>2, <3>1, WritesAre
  <2>6. CASE RecordDelete
    <3>1. Clean(r).revision = r.revision
      BY <2>1, PiecesAre, WritesAre
    <3> QED BY <2>2, <2>6, <3>1 DEF RecordDelete, RecordChanges, RecordWrites
  <2>7. CASE RecordForget
    <3>1. \A e \in Entries \ {rec.entry} : rows'[e] = rows[e]
      BY <2>1, <2>7 DEF RecordForget, RecordWrites
    <3>2. rows'[rec.entry].revision = 0 /\ r.revision \in Nat
      <4>1. rows'[rec.entry] = EmptyRow
        BY <2>1, <2>7 DEF RecordForget, RecordWrites
      <4> QED BY <2>1, <4>1, FirstRows DEF Stored
    <3>3. r.revision > 0 => rec.entry \in hist'.raced
      BY <2>7 DEF RecordForget, Types, HistoryTypes
    <3>4. \A e \in Entries : \/ rows'[e].revision = rows[e].revision
                             \/ e \in hist'.raced /\ rows'[e].revision <= rows[e].revision
      BY <3>1, <3>2, <3>3
    <3> QED BY <1>1, <1>2, <3>4, NoGapStill DEF server
  <2> QED BY <1>4, <2>3, <2>4, <2>5, <2>6, <2>7 DEF Recorder
<1> QED BY <1>3, <1>4

\* A step of a push before it asks the server, and after an answer is in.
LEMMA NoGapPushTurns ==
  ASSUME Types, Types', NoGap, PushStart \/ PushList \/ PushNothing \/ PushNext \/ PushThrow
  PROVE  NoGap'
<1>1. UNCHANGED <<server, cursor, pull, rows>> /\ hist' = hist
  BY DEF PushStart, PushList, PushNothing, PushNext, PushThrow, PushChanges, PushWrites
<1>2. push.pc # "idle" => push \in Passing
  BY PushIsAlone DEF Pass
<1>3. /\ push'.pc # "idle" => IF push.pc = "idle" THEN push'.accepted = {}
                              ELSE push'.accepted = push.accepted
      /\ push'.pc # "apply"
  <2>1. CASE PushStart
    BY <2>1 DEF PushStart, PushChanges, PushWrites
  <2>2. CASE PushList
    <3>1. push'.pc = "prepare" /\ push'.accepted = push.accepted /\ push.pc # "idle"
      BY <1>2, <2>2 DEF PushList, PushChanges, PushWrites, Passing
    <3> QED BY <3>1
  <2>3. CASE PushNothing
    <3>1. push'.pc = "list" /\ push'.accepted = push.accepted /\ push.pc # "idle"
      BY <1>2, <2>3 DEF PushNothing, AllPrepared, PushChanges, PushWrites, Passing
    <3> QED BY <3>1
  <2>4. CASE PushNext
    <3>1. push'.pc = "list" /\ push'.accepted = push.accepted /\ push.pc # "idle"
      BY <1>2, <2>4 DEF PushNext, PushChanges, PushWrites, Passing
    <3> QED BY <3>1
  <2>5. CASE PushThrow
    BY <2>5 DEF PushThrow, PushWrites, NoPush
  <2> QED BY <2>1, <2>2, <2>3, <2>4, <2>5
<1> QED BY <1>1, <1>3, NoGapStill DEF server

\* A change is prepared, or set aside, with the revisions as they were.
LEMMA NoGapPrepare ==
  ASSUME Types, Types', NoGap, NEW e \in Entries, PushPrepare(e) \/ PushUpload(e)
  PROVE  NoGap'
<1>1. push.pc = "prepare" /\ push \in Passing /\ push.step[e] # "none" /\ push.batch[e] \in Changes
  BY PushIsAlone DEF PushPrepare, PushUpload, Pass, Passing
<1>2. UNCHANGED <<server, cursor, pull>> /\ hist.raced \subseteq hist'.raced
  BY DEF PushPrepare, PushUpload, Prepared, SetAside, PushChanges, PushWrites, Types, HistoryTypes
<1>3. push'.pc = "prepare" /\ push'.accepted = push.accepted
  BY <1>1 DEF PushPrepare, PushUpload, Prepared, SetAside, PushChanges, PushWrites, Passing
<1>4. \A f \in Entries : rows'[f].revision = rows[f].revision
  <2>1. rows \in [Entries -> Stored] /\ rows[e] \in Stored
    BY DEF Types, StoreTypes
  <2>2. ClearById(rows[e], push.batch[e].id).revision = rows[e].revision
    BY <2>1, WritesAre, PiecesAre DEF ClearById
  <2>3. Requeued(e, push.batch[e]).revision = rows[e].revision
    BY <1>1, RequeuedIs
  <2>4. ASSUME NEW why \in Statuses \ {"none"}, SetAside(e, why)
        PROVE  \A f \in Entries : rows'[f].revision = rows[f].revision
    <3>1. rows' = [rows EXCEPT ![e].dirty = Blocked(push.batch[e], why)]
      BY <2>4 DEF SetAside, PushWrites
    <3> QED BY <1>1, <3>1, SetAsideIs
  <2>5. ASSUME NEW outcome, NEW r, Prepared(e, outcome, r), r.revision = rows[e].revision
        PROVE  \A f \in Entries : rows'[f].revision = rows[f].revision
    BY <2>1, <2>5 DEF Prepared, PushChanges, PushWrites
  <2>6. CASE PushPrepare(e)
    <3>1. "stale_unresolved" \in Statuses \ {"none"}
      BY DEF Statuses
    <3> QED BY <2>2, <2>3, <2>4, <2>5, <2>6, <3>1 DEF PushPrepare
  <2>7. CASE PushUpload(e)
    <3>1. "prepare_failed" \in Statuses \ {"none"}
      BY DEF Statuses
    <3>2. PushWrites([push EXCEPT !.step[e] = "none", !.stop = TRUE], rows) => rows' = rows
      BY DEF PushWrites
    <3> QED BY <2>4, <2>5, <2>7, <3>1, <3>2 DEF PushUpload
  <2> QED BY <2>6, <2>7
<1> QED BY <1>1, <1>2, <1>3, <1>4, NoGapStill DEF server

\* The answer to a commit is what the server has.
LEMMA NoGapPushCommit ==
  ASSUME Types, Types', NoGap, PushCommit
  PROVE  NoGap'
<1> Numbers /\ Numbers'
  BY NumbersAre
<1>1. push.pc = "prepare" /\ push \in Passing /\ pull.pc = "idle"
  BY PushIsAlone DEF PushCommit, AllPrepared, Pass
<1>2. UNCHANGED <<rows, cursor, pull>> /\ hist'.raced = hist.raced
  BY DEF PushCommit, Types, HistoryTypes
<1> DEFINE s == [e \in Entries |-> IF e \notin Ready THEN "none"
                   ELSE IF e \in Taken \/ Repeated(e) THEN "accepted" ELSE "stale"]
           g == [e \in Entries |-> IF e \in Ready
                  THEN [revision |-> feed'[e].revision, seq |-> feed'[e].seq] ELSE NoReply]
<1>3. push' = [push EXCEPT !.pc = "apply", !.step = s, !.got = g]
  BY DEF PushCommit
<1>4. /\ push'.pc = "apply" /\ push'.accepted = push.accepted /\ push'.step = s /\ push'.got = g
  <2> HIDE DEF s, g
  <2> QED BY <1>1, <1>3 DEF Passing
<1>5. head <= head' /\ \A e \in Entries : feed'[e] = feed[e] \/ (e \in Taken /\ Moved(e))
  <2>1. ASSUME NEW e \in Entries, e \in Taken PROVE Moved(e)
    <3>1. /\ feed'[e] = Accept(e, push.batch[e].content, feed'[e].seq)
          /\ head < feed'[e].seq /\ feed'[e].seq <= head'
      BY <2>1, CommitIs
    <3> QED BY <3>1 DEF Accept, Moved
  <2> QED BY <2>1, CommitIs
<1>6. \A e, f \in Entries : Moved(e) /\ Moved(f) /\ feed'[e].seq = feed'[f].seq => e = f
  <2>1. \A e \in Entries : Moved(e) => e \in Taken
    BY <1>5 DEF Moved, Numbers
  <2> QED BY <2>1, CommitIs
<1>7. \A e, f \in Entries : feed'[e].seq = feed'[f].seq => e = f \/ feed'[e].seq = 0
  BY <1>5, <1>6 DEF NoGap, Positions, Moved, Numbers
<1>8. ASSUME NEW e \in Entries, push'.step[e] = "accepted" PROVE ToldTruly(e)'
  <2>1. e \in Ready
    BY <1>4, <1>8
  <2>2. push'.got[e].revision = feed'[e].revision /\ push'.got[e].seq = feed'[e].seq
    BY <1>4, <2>1
  <2>3. \A f \in Entries \ {e} : feed'[f].seq # feed'[e].seq \/ feed'[f].seq = 0
    BY <1>7
  <2>4. rows'[e].revision <= feed'[e].revision
    BY <1>2, <1>5 DEF NoGap, Positions, Moved, Numbers
  <2> QED BY <2>2, <2>3, <2>4 DEF ToldTruly
<1> HIDE DEF s, g
<1> QED BY <1>1, <1>2, <1>4, <1>5, <1>6, <1>8, NoGapMoves

\* The rows take the revisions that the server gave.
LEMMA NoGapPushApply ==
  ASSUME Types, Types', NoGap, PushApply
  PROVE  NoGap'
<1> Numbers /\ Numbers'
  BY NumbersAre
<1> DEFINE done == {e \in Entries : push.step[e] = "accepted"}
<1>1. push.pc = "apply" /\ push \in Passing /\ pull.pc = "idle"
  BY PushIsAlone DEF PushApply, Pass
<1>2. UNCHANGED <<server, cursor, pull>> /\ hist' = hist
  BY DEF PushApply, PushChanges, PushWrites
<1>3. rows' = [e \in Entries |-> IF e \in done THEN AcceptedRow(e) ELSE rows[e]]
  BY DEF PushApply, PushChanges, PushWrites
<1>4. push'.accepted = push.accepted \union {push.got[e].seq : e \in done} /\ push'.pc = "reject"
  <2> DEFINE a == push.accepted \union {push.got[e].seq : e \in done}
             s == [e \in Entries |-> IF e \in done THEN "none" ELSE push.step[e]]
  <2>1. push' = [push EXCEPT !.pc = "reject", !.step = s, !.accepted = a]
    BY DEF PushApply, PushChanges, PushWrites
  <2> HIDE DEF a, s
  <2>2. push'.accepted = a /\ push'.pc = "reject"
    BY <1>1, <2>1 DEF Passing
  <2> QED BY <2>2 DEF a
<1>5. \A e \in Entries : rows'[e].revision = IF e \in done THEN push.got[e].revision ELSE rows[e].revision
  BY <1>1, <1>3, AcceptedRowIs
<1>6. \A e \in done : ToldTruly(e)
  BY <1>1 DEF NoGap, AcceptedIsKnown
<1>7. Positions'
  BY <1>2, <1>5, <1>6 DEF NoGap, Positions, ToldTruly, Numbers, server
<1>8. CheckpointHasNoGap'
  <2> SUFFICES ASSUME NEW e \in Entries \ hist.raced, feed[e].seq <= cursor
               PROVE  rows'[e].revision = feed[e].revision
    BY <1>2 DEF CheckpointHasNoGap, server
  <2>1. CASE e \in done
    BY <1>1, <1>5, <1>6, <2>1 DEF ToldTruly, Numbers
  <2>2. CASE e \notin done
    BY <1>5, <2>2 DEF NoGap, CheckpointHasNoGap
  <2> QED BY <2>1, <2>2
<1>9. AcceptedIsKnown'
  <2> SUFFICES ASSUME NEW e \in Entries \ hist.raced, feed[e].seq \in push'.accepted
               PROVE  rows'[e].revision = feed[e].revision
    BY <1>2, <1>4 DEF AcceptedIsKnown, server
  <2>1. CASE feed[e].seq \in push.accepted
    <3>1. CASE e \in done
      BY <1>5, <1>6, <2>1, <3>1 DEF ToldTruly
    <3>2. CASE e \notin done
      BY <1>1, <1>5, <2>1, <3>2 DEF NoGap, AcceptedIsKnown
    <3> QED BY <3>1, <3>2
  <2>2. CASE feed[e].seq \notin push.accepted
    <3>1. PICK f \in done : feed[e].seq = push.got[f].seq
      BY <1>4, <2>2
    <3>2. CASE f = e
      BY <1>1, <1>5, <1>6, <3>1, <3>2 DEF ToldTruly, Numbers
    <3>3. CASE f # e
      <4>1. feed[e].seq = 0 /\ feed[e].revision = 0
        BY <1>6, <3>1, <3>3 DEF ToldTruly, NoGap, Positions
      <4>2. rows'[e].revision \in Nat /\ rows'[e].revision <= feed'[e].revision
        BY <1>7 DEF Positions, Numbers
      <4> QED BY <1>2, <4>1, <4>2 DEF server
    <3> QED BY <3>2, <3>3
  <2> QED BY <2>1, <2>2
<1> QED BY <1>1, <1>2, <1>7, <1>8, <1>9 DEF NoGap, WindowIsTrue, ReadIsKnown, PlanIsTrue

\* The checkpoint of a push: up to the first position it did not accept.
LEMMA NoGapPushFinish ==
  ASSUME Types, Types', NoGap, PushFinish
  PROVE  NoGap'
<1> Numbers /\ Numbers'
  BY NumbersAre
<1>1. push.pc = "list" /\ Pass(push) /\ pull.pc = "idle" /\ push.accepted \in SUBSET Nat
  BY PushIsAlone DEF PushFinish, Pass, Passing
<1>2. /\ UNCHANGED <<server, rows, pull, hist>> /\ push' = NoPush
      /\ cursor' = Contiguous(cursor, push.accepted)
  BY TypesPushFinish DEF PushFinish
<1>3. cursor + 1..cursor' \subseteq push.accepted
  <2>1. \A n \in push.accepted : n <= head
    BY <1>1 DEF Pass
  <2> QED BY <1>1, <1>2, <2>1, ContiguousIs DEF Numbers
<1>4. CheckpointHasNoGap'
  <2> SUFFICES ASSUME NEW e \in Entries \ hist.raced, feed[e].seq <= cursor'
               PROVE  rows[e].revision = feed[e].revision
    BY <1>2 DEF CheckpointHasNoGap, server
  <2>1. CASE feed[e].seq <= cursor
    BY <2>1 DEF NoGap, CheckpointHasNoGap
  <2>2. CASE ~(feed[e].seq <= cursor)
    <3>1. feed[e].seq \in cursor + 1..cursor'
      BY <2>2 DEF Numbers
    <3> QED BY <1>1, <1>3, <3>1 DEF NoGap, AcceptedIsKnown
  <2> QED BY <2>1, <2>2
<1> QED BY <1>1, <1>2, <1>4 DEF NoGap, Positions, AcceptedIsKnown, WindowIsTrue, ReadIsKnown,
           PlanIsTrue, NoPush, server

\* A rejection leaves every revision as it was; the pull it may start by id is
\* of what the server has.
LEMMA NoGapPushReject ==
  ASSUME Types, Types', NoGap, NEW e \in Entries, PushReject(e) \/ PushRecovered(e)
  PROVE  NoGap'
<1>1. UNCHANGED <<server, cursor, hist>> /\ push.pc # "idle" /\ push.step[e] # "none" /\ pull.pc = "idle"
  BY PushIsAlone DEF PushReject, PushRecovered
<1>2. rows' = rows \/ Park(e)
  BY RejectIs DEF PushRecovered
<1>3. \A f \in Entries : rows'[f].revision = rows[f].revision
  BY <1>1, <1>2, ParkIs
<1>4. push'.accepted = push.accepted /\ push'.pc # "apply"
  <2>1. CASE PushReject(e)
    BY <2>1, RejectIs
  <2>2. CASE Park(e)
    BY <1>1, <2>2, ParkIs
  <2>3. CASE PushRecovered(e) /\ ~Park(e)
    <3>1. push \in Passing
      BY <1>1, PushIsAlone DEF Pass
    <3> QED BY <2>3, <3>1 DEF PushRecovered, Passing
  <2> QED BY <2>1, <2>2, <2>3
<1>5. CASE pull' = pull
  BY <1>1, <1>3, <1>4, <1>5, NoGapStill DEF server
<1>6. CASE pull' # pull
  <2>1. /\ pull' = [pc |-> "prepare", byId |-> TRUE, since |-> cursor, target |-> cursor,
                    after |-> cursor, final |-> TRUE, window |-> {Item(e)}]
    BY <1>6, RejectIs DEF PushRecovered
  <2>2. /\ pull'.pc = "prepare" /\ pull'.byId /\ pull'.window = {Item(e)}
    BY <2>1
  <2>3. Positions' /\ CheckpointHasNoGap'
    BY <1>1, <1>3 DEF NoGap, Positions, CheckpointHasNoGap, server
  <2>4. AcceptedIsKnown'
    BY <1>1, <1>3, <1>4 DEF NoGap, AcceptedIsKnown, server
  <2>5. WindowIsTrue'
    <3>1. /\ Item(e).entry = e /\ Item(e).revision = feed'[e].revision /\ Item(e).blob = feed'[e].blob
      BY <1>1, ItemIs DEF server
    <3>2. rows'[e].revision <= feed'[e].revision /\ feed'[e].revision \in Nat
      BY <2>3, NumbersAre DEF Positions, Numbers
    <3>3. Known(pull, e, Item(e).revision, Item(e).blob)'
      BY <3>1, <3>2 DEF Known, Item, server
    <3> QED BY <1>1, <2>2, <3>1, <3>2 DEF WindowIsTrue, WindowTrue, Known
  <2> QED BY <2>2, <2>3, <2>4, <2>5 DEF NoGap, ReadIsKnown, PlanIsTrue
<1> QED BY <1>5, <1>6

\* A page brings the next entry: what is behind it is in the window.
LEMMA NoGapPullRead ==
  ASSUME Types, Types', NoGap, PullStart \/ PullPage
  PROVE  NoGap'
<1> Numbers /\ Numbers'
  BY NumbersAre
<1>1. UNCHANGED <<server, rows, cursor, push, hist>>
  BY DEF PullStart, PullPage, PullChanges
<1>2. PICK p \in Reading : /\ pull' = PageRead(p) /\ p.after \in Nat /\ p.target \in Nat /\ ~p.byId
                           /\ p.after <= p.target
                           /\ WindowTrue(p)
                           /\ \A e \in Entries \ hist.raced :
                                feed[e].seq <= p.after => rows[e].revision = feed[e].revision
                                                            \/ \E i \in p.window : i.entry = e
  <2>1. CASE PullStart
    <3> DEFINE p == [pc |-> "fetch", byId |-> FALSE, since |-> cursor, target |-> head,
                     after |-> cursor, final |-> FALSE, window |-> {}]
    <3>1. cursor \in Nat /\ head \in Nat /\ cursor <= head
      BY DEF Types, ServerTypes, StoreTypes
    <3>2. p \in Reading /\ p.window = {} /\ p.after = cursor /\ p.target = head /\ ~p.byId
      BY <3>1 DEF Reading
    <3>3. pull' = PageRead(p)
      BY <2>1 DEF PullStart, PullChanges
    <3> HIDE DEF p
    <3>4. WindowTrue(p)
      BY <3>2 DEF WindowTrue
    <3> QED BY <3>1, <3>2, <3>3, <3>4 DEF NoGap, CheckpointHasNoGap
  <2>2. CASE PullPage
    <3>1. pull \in Reading /\ pull.pc = "fetch" /\ ~pull.byId /\ pull' = PageRead(pull)
      BY <2>2, PushIsAlone DEF PullPage, PullChanges, Types, PullTypes
    <3>2. WindowTrue(pull) /\ ReadKnown(pull)
      BY <3>1 DEF NoGap, WindowIsTrue, ReadIsKnown
    <3> QED BY <3>1, <3>2 DEF ReadKnown, InWindow, Numbers
  <2> QED BY <2>1, <2>2
<1> DEFINE due == {e \in Entries : feed[e].seq > p.after /\ feed[e].seq <= p.target}
<1>3. /\ pull' \in Reading /\ ~pull'.byId /\ pull'.target = p.target
      /\ \/ due = {} /\ pull'.window = p.window /\ pull'.after = p.after
         \/ \E e \in due : /\ \A f \in due : feed[e].seq <= feed[f].seq
                           /\ pull'.window = p.window \union {Item(e)}
                           /\ pull'.after = feed[e].seq
                           /\ pull'.final => due = {e}
  BY <1>2, PageIs
<1>4. Positions' /\ CheckpointHasNoGap' /\ AcceptedIsKnown'
  BY <1>1 DEF NoGap, Positions, CheckpointHasNoGap, AcceptedIsKnown, ToldTruly, server
<1>5. pull'.pc \in {"fetch", "prepare"}
  BY <1>3 DEF Reading
<1>6. \A i \in p.window : i.entry \in Entries /\ i.revision \in Nat /\ i.seq \in Nat
  BY DEF Reading, Items
<1>7. \A i \in p.window : /\ Known(p, i.entry, i.revision, i.blob)
                          /\ rows[i.entry].revision <= i.revision /\ i.seq <= p.after
                          /\ feed[i.entry].seq = i.seq \/ feed[i.entry].seq > p.target
                          /\ \A j \in p.window : i.entry = j.entry => i = j
  BY <1>2 DEF WindowTrue
<1>8. \A i \in p.window : Known(pull', i.entry, i.revision, i.blob)
  BY <1>2, <1>3, <1>7 DEF Known, Beyond
<1>9. CASE due = {} /\ pull'.window = p.window /\ pull'.after = p.after
  <2>1. WindowTrue(pull')
    BY <1>3, <1>7, <1>8, <1>9 DEF WindowTrue
  <2>2. \A e \in Entries \ hist.raced :
          feed[e].seq <= pull'.after => rows[e].revision = feed[e].revision
                                          \/ \E i \in pull'.window : i.entry = e
    BY <1>2, <1>9
  <2>3. \A e \in Entries : feed[e].seq <= pull'.after \/ feed[e].seq > pull'.target
    BY <1>2, <1>3, <1>9 DEF Numbers
  <2>4. WindowIsTrue' /\ ReadIsKnown'
    BY <1>1, <1>5, <2>1, <2>2, <2>3 DEF WindowIsTrue, WindowTrue, Known, Beyond, ReadIsKnown,
       ReadKnown, InWindow, server
  <2> QED BY <1>4, <1>5, <2>4 DEF NoGap, PlanIsTrue
<1>10. ASSUME NEW n \in due, \A f \in due : feed[n].seq <= feed[f].seq,
              pull'.window = p.window \union {Item(n)}, pull'.after = feed[n].seq,
              pull'.final => due = {n}
       PROVE  NoGap'
  <2> n \in Entries /\ feed[n].seq > p.after /\ feed[n].seq <= p.target
    OBVIOUS
  <2> HIDE DEF due
  <2>1. /\ Item(n).entry = n /\ Item(n).revision = feed[n].revision
        /\ Item(n).blob = feed[n].blob /\ Item(n).seq = feed[n].seq
    BY ItemIs
  <2>2. \A i \in p.window : i.entry # n
    BY <1>2, <1>6, <1>7 DEF Numbers
  <2>3. Known(pull', n, feed[n].revision, feed[n].blob) /\ rows[n].revision <= feed[n].revision
    BY DEF Known, NoGap, Positions, Numbers
  <2>4. \A i \in p.window : i.seq <= feed[n].seq
    BY <1>2, <1>6, <1>7 DEF Numbers
  <2>5. WindowTrue(pull')
    <3> SUFFICES ASSUME NEW i \in pull'.window
                 PROVE  /\ Known(pull', i.entry, i.revision, i.blob)
                        /\ rows[i.entry].revision <= i.revision /\ i.seq <= feed[n].seq
                        /\ feed[i.entry].seq = i.seq \/ feed[i.entry].seq > pull'.target
                        /\ \A j \in pull'.window : i.entry = j.entry => i = j
      BY <1>10 DEF WindowTrue
    <3>1. CASE i \in p.window
      BY <1>3, <1>7, <1>8, <1>10, <2>1, <2>2, <2>4, <3>1
    <3>2. CASE i = Item(n)
      BY <1>10, <2>1, <2>2, <2>3, <3>2 DEF Numbers
    <3> QED BY <1>10, <3>1, <3>2
  <2>6. \A e \in Entries \ hist.raced :
          feed[e].seq <= pull'.after => rows[e].revision = feed[e].revision
                                          \/ \E i \in pull'.window : i.entry = e
    <3> SUFFICES ASSUME NEW e \in Entries \ hist.raced, feed[e].seq <= feed[n].seq, 
                        rows[e].revision # feed[e].revision
                 PROVE  \E i \in pull'.window : i.entry = e
      BY <1>10
    <3>1. CASE feed[e].seq <= p.after
      BY <1>2, <1>10, <3>1
    <3>2. CASE ~(feed[e].seq <= p.after)
      <4>1. e \in due
        BY <1>2, <3>2 DEF Numbers, due
      <4>2. feed[e].seq = feed[n].seq /\ feed[e].seq # 0
        BY <1>2, <1>10, <3>2, <4>1 DEF Numbers
      <4>3. e = n
        BY <4>2 DEF NoGap, Positions
      <4> QED BY <1>10, <2>1, <4>3
    <3> QED BY <3>1, <3>2
  <2>7. ASSUME pull'.final, NEW e \in Entries
        PROVE  feed[e].seq <= pull'.after \/ feed[e].seq > pull'.target
    <3>1. CASE e = n
      BY <1>10, <3>1 DEF Numbers
    <3>2. CASE e # n
      <4>1. e \notin due
        BY <1>10, <2>7, <3>2
      <4> QED BY <1>2, <1>3, <1>10, <4>1 DEF Numbers, due
    <3> QED BY <3>1, <3>2
  <2>8. WindowIsTrue' /\ ReadIsKnown'
    BY <1>1, <1>5, <2>5, <2>6, <2>7 DEF WindowIsTrue, WindowTrue, Known, Beyond, ReadIsKnown,
       ReadKnown, InWindow, server
  <2> QED BY <1>4, <1>5, <2>8 DEF NoGap, PlanIsTrue
<1> QED BY <1>3, <1>9, <1>10

\* A window that is prepared is planned: nothing of it is written yet.
LEMMA NoGapPullPrepare ==
  ASSUME Types, Types', NoGap, PullPrepare
  PROVE  NoGap'
<1> Numbers /\ Numbers'
  BY NumbersAre
<1>1. UNCHANGED <<server, rows, cursor, push>> /\ hist'.raced = hist.raced /\ pull.pc = "prepare"
  BY DEF PullPrepare, Types, HistoryTypes
<1>2. PICK kind \in [pull.window -> {"skip", "plain", "conflict", "merge"}] :
        /\ pull' \in Applying /\ pull'.plan = PlanOf(kind) /\ pull'.snap = rows
        /\ pull'.byId = pull.byId /\ pull'.target = pull.target /\ pull'.after = pull.after
        /\ pull'.final = pull.final
        /\ \A j \in 1..5 : \A e \in Concerned(j, pull'.plan) : Ahead(pull', j, e)
  BY PreparedIs
<1>3. Positions' /\ CheckpointHasNoGap' /\ AcceptedIsKnown'
  BY <1>1 DEF NoGap, Positions, CheckpointHasNoGap, AcceptedIsKnown, ToldTruly, server
<1>4. pull'.pc = "apply"
  BY <1>2 DEF Applying
<1>5. WindowTrue(pull)
  BY <1>1 DEF NoGap, WindowIsTrue
<1>6. PlanIsTrue'
  <2> SUFFICES ASSUME NEW e \in Entries, pull'.plan[e].kind # "out" PROVE PlanTrue(e)'
    BY DEF PlanIsTrue
  <2>1. PICK i \in pull.window : /\ i.entry = e /\ pull'.plan[e].revision = i.revision
                                 /\ pull'.plan[e].blob = i.blob
    BY <1>1, <1>2, PlanOfIs
  <2>2. Known(pull, e, i.revision, i.blob) /\ rows[e].revision <= i.revision
    BY <1>5, <2>1 DEF WindowTrue
  <2>3. Known(pull, e, pull.plan[e].revision, pull.plan[e].blob)'
    BY <1>1, <1>2, <2>1, <2>2 DEF Known, Beyond, server
  <2>4. StillTo(3, e)'
    <3>1. e \in Concerned(3, pull'.plan)
      BY DEF Concerned
    <3>2. Ahead(pull', 3, e)
      BY <1>2, <3>1
    <3> QED BY <3>2 DEF Ahead, StillTo
  <2>5. e \notin hist.raced /\ feed[e].seq <= cursor => rows[e].revision = feed[e].revision
    BY DEF NoGap, CheckpointHasNoGap
  <2> QED BY <1>1, <1>2, <2>1, <2>2, <2>3, <2>4, <2>5 DEF PlanTrue, server
<1>7. ReadIsKnown'
  <2> SUFFICES ASSUME ~pull.byId PROVE ReadKnown(pull)'
    BY <1>2 DEF ReadIsKnown
  <2>1. ReadKnown(pull)
    BY <1>1 DEF NoGap, ReadIsKnown
  <2>2. ASSUME NEW e \in Entries, InWindow(pull, e) PROVE InWindow(pull, e)'
    <3>1. \E i \in pull.window : i.entry = e
      BY <1>1, <2>2 DEF InWindow
    <3>2. pull'.plan[e].kind # "out"
      BY <1>1, <1>2, <3>1, PlanOfIs
    <3> QED BY <1>4, <3>2 DEF InWindow
  <2> QED BY <1>1, <1>2, <2>1, <2>2 DEF ReadKnown, server
<1> QED BY <1>3, <1>4, <1>6, <1>7 DEF NoGap, WindowIsTrue

\* What a step of a window leaves of a row: its revision, the one to go back to
\* where the row gives up its path, or the one of the plan.
LEMMA PullStepIs ==
  ASSUME Types, NEW e \in Entries,
         PullConflict(e) \/ PullWrite(e) \/ PullRow(e) \/ PullMerge(e) \/ PullQueue(e)
  PROVE  /\ pull.pc = "apply" /\ pull' = Done(e) /\ UNCHANGED <<server, push, cursor>>
         /\ \A f \in Entries \ {e} : rows'[f] = rows[f]
         /\ hist'.raced = hist.raced \/ PullRow(e)
         /\ hist.raced \subseteq hist'.raced
         /\ \E n \in 1..5 :
              /\ At(n, e) /\ pull.plan[e].kind # "out"
              /\ IF n = 3 THEN rows'[e] = Upserted(pull.plan[e].revision, pull.plan[e].blob)
                 ELSE \/ rows'[e].revision = rows[e].revision
                      \/ n = 1 /\ rows'[e].revision = pull.snap[e].revision
<1>1. rows \in [Entries -> Stored] /\ rows[e] \in Stored
  BY DEF Types, StoreTypes
<1>2. /\ pull' = Done(e) /\ UNCHANGED <<server, push, cursor>>
      /\ hist'.raced = hist.raced \/ PullRow(e)
      /\ \A f \in Entries \ {e} : rows'[f] = rows[f]
  BY <1>1 DEF PullConflict, PullWrite, PullRow, PullMerge, PullQueue, Written
<1>3. hist.raced \subseteq hist'.raced
  BY DEF PullConflict, PullWrite, PullRow, PullMerge, PullQueue, Written, Types, HistoryTypes
<1>4. ASSUME NEW n \in 1..5, At(n, e)
      PROVE  pull \in Applying /\ pull.plan[e] \in Plans /\ pull.pc = "apply" /\ pull.plan[e].kind # "out"
  <2>1. pull \in Applying
    BY <1>4, PushIsAlone DEF At
  <2> QED BY <1>4, <2>1 DEF At, Types, PullTypes, Concerned, Applying
<1>5. CASE PullConflict(e)
  <2> DEFINE old == pull.snap[e]
             c == IF old.known THEN old.local ELSE old.remote
             d == [EmptyRow EXCEPT !.revision = old.revision, !.remote = c, !.known = TRUE]
             r == IF pull.plan[e].kind = "conflict" THEN ClearById(rows[e], pull.plan[e].id) ELSE rows[e]
  <2>1. At(1, e) /\ rows' = [rows EXCEPT ![e] = IF pull.plan[e].leaves THEN d ELSE r]
    BY <1>5 DEF PullConflict
  <2>2. r.revision = rows[e].revision
    BY <1>1, WritesAre, PiecesAre DEF ClearById
  <2>3. d.revision = pull.snap[e].revision
    BY DEF EmptyRow
  <2> HIDE DEF r, d
  <2> QED BY <1>1, <1>2, <1>3, <1>4, <2>1, <2>2, <2>3
<1>6. CASE PullRow(e)
  <2>1. At(3, e) /\ rows'[e] = Upserted(pull.plan[e].revision, pull.plan[e].blob)
    BY <1>1, <1>6 DEF PullRow
  <2> QED BY <1>2, <1>3, <1>4, <2>1
<1>7. CASE PullWrite(e) \/ PullMerge(e)
  BY <1>2, <1>3, <1>4, <1>7 DEF PullWrite, PullMerge, Written
<1>8. CASE PullQueue(e)
  <2> DEFINE d == Dirty(rows[e], NewId(e), pull.plan[e].revision, pull.plan[e].blob, Merged(e))
  <2>1. At(5, e) /\ rows' = [rows EXCEPT ![e] = Local(d, Merged(e))]
    BY <1>1, <1>8 DEF PullQueue
  <2>2. d.revision = rows[e].revision
    BY DEF Dirty
  <2> HIDE DEF d
  <2>3. Local(d, Merged(e)).revision = d.revision
    BY DEF Local
  <2> QED BY <1>1, <1>2, <1>3, <1>4, <2>1, <2>2, <2>3
<1> QED BY <1>5, <1>6, <1>7, <1>8

\* A step of a window takes no row beyond its plan, and none back.
LEMMA NoGapPullStep ==
  ASSUME Types, Types', NoGap, NEW e \in Entries,
         PullConflict(e) \/ PullWrite(e) \/ PullRow(e) \/ PullMerge(e) \/ PullQueue(e)
  PROVE  NoGap'
<1> Numbers /\ Numbers'
  BY NumbersAre
<1>1. /\ pull.pc = "apply" /\ pull' = Done(e) /\ UNCHANGED <<head, feed, replay, push, cursor>>
      /\ \A f \in Entries \ {e} : rows'[f] = rows[f]
      /\ hist.raced \subseteq hist'.raced
  BY PullStepIs DEF server
<1>2. PICK n \in 1..5 :
        /\ At(n, e) /\ pull.plan[e].kind # "out"
        /\ IF n = 3 THEN rows'[e] = Upserted(pull.plan[e].revision, pull.plan[e].blob)
           ELSE \/ rows'[e].revision = rows[e].revision
                \/ n = 1 /\ rows'[e].revision = pull.snap[e].revision
  BY PullStepIs
<1>3. /\ pull' \in Applying /\ pull'.byId = pull.byId /\ pull'.target = pull.target
      /\ pull'.after = pull.after /\ pull'.final = pull.final
      /\ pull'.plan = pull.plan /\ pull'.snap = pull.snap
      /\ \A j \in 1..5 : \A f \in Concerned(j, pull'.plan) :
           Ahead(pull', j, f) <=> Ahead(pull, j, f) /\ ~(j = n /\ f = e)
  BY <1>1, <1>2, DoneIs
<1>4. pull'.pc = "apply"
  BY <1>3 DEF Applying
<1>5. ASSUME NEW f \in Entries, pull.plan[f].kind # "out"
      PROVE  StillTo(3, f)' <=> StillTo(3, f) /\ ~(n = 3 /\ f = e)
  <2>1. f \in Concerned(3, pull'.plan)
    BY <1>3, <1>5 DEF Concerned
  <2>2. Ahead(pull', 3, f) <=> Ahead(pull, 3, f) /\ ~(n = 3 /\ f = e)
    BY <1>3, <2>1
  <2> QED BY <2>2 DEF Ahead, StillTo
<1>6. PlanTrue(e)
  BY <1>1, <1>2 DEF NoGap, PlanIsTrue
<1>7. rows'[e].revision <= pull.plan[e].revision
  <2>1. CASE n = 3
    <3>1. rows'[e].revision = pull.plan[e].revision
      BY <1>2, <2>1 DEF Upserted, EmptyRow
    <3> QED BY <1>1, <3>1 DEF Numbers
  <2>2. CASE n # 3
    BY <1>2, <1>6, <2>2 DEF PlanTrue
  <2> QED BY <2>1, <2>2
<1>8. e \notin hist.raced => IF n = 3 THEN rows'[e].revision = pull.plan[e].revision
                             ELSE rows'[e].revision = rows[e].revision
  <2>1. CASE n = 3
    BY <1>2, <2>1 DEF Upserted, EmptyRow
  <2>2. CASE n # 3
    <3>1. n = 1 => StillTo(3, e)
      BY <1>2 DEF At, StillTo
    <3> QED BY <1>2, <1>6, <2>2, <3>1 DEF PlanTrue
  <2> QED BY <2>1, <2>2
<1>9. Known(pull, e, pull.plan[e].revision, pull.plan[e].blob)
  BY <1>6 DEF PlanTrue
<1>10. Positions'
  BY <1>1, <1>7, <1>9 DEF NoGap, Positions, Known, Numbers
\* Where the row was what the server has, it still is.
<1>11. ASSUME e \notin hist.raced, rows[e].revision = feed[e].revision
       PROVE  rows'[e].revision = feed[e].revision
  <2>1. CASE n = 3
    BY <1>1, <1>6, <1>8, <1>9, <1>11, <2>1 DEF PlanTrue, Known, Numbers
  <2>2. CASE n # 3
    BY <1>8, <1>11, <2>2
  <2> QED BY <2>1, <2>2
<1>12. CheckpointHasNoGap'
  BY <1>1, <1>11 DEF NoGap, CheckpointHasNoGap
<1>13. AcceptedIsKnown'
  <2>1. push.pc # "apply"
    BY <1>1 DEF Types, PullTypes
  <2> QED BY <1>1, <1>11, <2>1 DEF NoGap, AcceptedIsKnown
<1>14. ReadIsKnown'
  <2> SUFFICES ASSUME ~pull.byId PROVE ReadKnown(pull)'
    BY <1>3 DEF ReadIsKnown
  <2>1. ReadKnown(pull)
    BY <1>1 DEF NoGap, ReadIsKnown
  <2>2. \A f \in Entries : InWindow(pull, f)' <=> InWindow(pull, f)
    BY <1>1, <1>3, <1>4 DEF InWindow
  <2>3. InWindow(pull, e)
    BY <1>1, <1>2 DEF InWindow
  <2> QED BY <1>1, <1>3, <2>1, <2>2, <2>3 DEF ReadKnown
<1>15. ASSUME NEW f \in Entries, pull.plan[f].kind # "out" PROVE PlanTrue(f)'
  <2>1. PlanTrue(f)
    BY <1>1, <1>15 DEF NoGap, PlanIsTrue
  <2>2. Known(pull, f, pull.plan[f].revision, pull.plan[f].blob)'
    BY <1>1, <1>3, <2>1 DEF PlanTrue, Known, Beyond
  <2>3. CASE f # e
    BY <1>1, <1>3, <1>5, <1>15, <2>1, <2>2, <2>3 DEF PlanTrue
  <2>4. CASE f = e
    <3>1. StillTo(3, e)' <=> StillTo(3, e) /\ n # 3
      BY <1>2, <1>5
    <3>2. e \notin hist.raced => rows'[e].revision = IF StillTo(3, e)' THEN pull.snap[e].revision
                                                     ELSE pull.plan[e].revision
      BY <1>6, <1>8, <3>1 DEF PlanTrue
    <3> QED BY <1>1, <1>3, <1>7, <2>1, <2>2, <2>4, <3>2 DEF PlanTrue
  <2> QED BY <2>3, <2>4
<1>16. PlanIsTrue'
  BY <1>3, <1>15 DEF PlanIsTrue
<1> QED BY <1>4, <1>10, <1>12, <1>13, <1>14, <1>16 DEF NoGap, WindowIsTrue

\* A pull that ends: the checkpoint moves to where it has read, or stays where
\* it was and the rows go back to what they were.
LEMMA NoGapPullEnds ==
  ASSUME Types, Types', NoGap, PullDone \/ PullAbort \/ PullFail
  PROVE  NoGap'
<1> Numbers /\ Numbers'
  BY NumbersAre
<1>1. /\ UNCHANGED server /\ hist.raced \subseteq hist'.raced /\ pull.pc # "idle"
      /\ NoPush.pc = "idle" /\ NoPull.pc = "idle"
  <2>1. hist.raced \subseteq hist'.raced
    <3>1. CASE PullFail
      <4> DEFINE t == hist.torn \union Torn
                 r == hist.raced \union {e \in Entries : /\ pull.plan[e].kind # "out"
                                                         /\ rows[e] # pull.snap[e]
                                                         /\ Crosses(e)}
      <4>1. hist' = [hist EXCEPT !.torn = t, !.raced = r] /\ hist.raced \subseteq r
        BY <3>1 DEF PullFail
      <4> HIDE DEF t, r
      <4>2. hist'.raced = r
        BY <4>1 DEF Types, HistoryTypes
      <4> QED BY <4>1, <4>2
    <3>2. CASE PullDone \/ PullAbort
      BY <3>2 DEF PullDone, PullAbort
    <3> QED BY <3>1, <3>2
  <2>2. UNCHANGED server /\ pull.pc # "idle"
    BY DEF PullDone, PullAbort, PullFail
  <2> QED BY <2>1, <2>2 DEF NoPush, NoPull
<1>2. push' = NoPush \/ push' = push
  BY DEF PullDone, PullAbort, PullFail, PushFallsToo
<1>3. push.pc # "apply" /\ (~pull.byId => push.pc = "idle")
  BY <1>1 DEF Types, PullTypes
<1>4. CASE UNCHANGED <<rows, cursor>>
  <2>1. CASE pull' = NoPull
    BY <1>1, <1>2, <1>3, <1>4, <2>1, NoGapStill DEF server
  <2>2. CASE pull' # NoPull
    <3>1. /\ ~pull.byId /\ cursor = pull.after /\ UNCHANGED <<push, hist>>
          /\ pull' = [pc |-> "fetch", byId |-> FALSE, since |-> pull.since,
                      target |-> pull.target, after |-> pull.after, final |-> FALSE,
                      window |-> {}]
      BY <1>4, <2>2 DEF PullDone, PullAbort, PullFail
    <3>2. Positions' /\ CheckpointHasNoGap' /\ AcceptedIsKnown'
      BY <1>1, <1>4, <3>1 DEF NoGap, Positions, CheckpointHasNoGap, AcceptedIsKnown, ToldTruly, server
    <3>3. pull'.window = {} /\ pull'.pc = "fetch" /\ ~pull'.final /\ pull'.after = cursor'
      BY <1>4, <3>1
    <3>4. WindowIsTrue' /\ PlanIsTrue'
      BY <3>3 DEF WindowIsTrue, WindowTrue, PlanIsTrue
    <3>5. ReadIsKnown'
      BY <3>2, <3>3 DEF ReadIsKnown, ReadKnown, CheckpointHasNoGap
    <3> QED BY <3>2, <3>4, <3>5 DEF NoGap
  <2> QED BY <2>1, <2>2
<1>5. CASE PullDone /\ ~pull.byId
  <2>1. /\ pull.pc = "apply" /\ pull.stage = 6 /\ UNCHANGED <<rows, push, hist>>
        /\ \/ pull.final /\ pull' = NoPull /\ cursor' = pull.target
           \/ /\ cursor' = pull.after
              /\ pull' = [pc |-> "fetch", byId |-> FALSE, since |-> pull.since,
                          target |-> pull.target, after |-> pull.after, final |-> FALSE,
                          window |-> {}]
    BY <1>5 DEF PullDone
  <2>2. ReadKnown(pull)
    BY <1>5, <2>1 DEF NoGap, ReadIsKnown
  <2>3. ASSUME NEW e \in Entries, pull.plan[e].kind # "out"
        PROVE  PlanTrue(e) /\ ~StillTo(3, e)
    <3>1. pull \in Applying /\ pull.todo \subseteq Concerned(6, pull.plan)
      BY <2>1, PushIsAlone DEF Types, PullTypes
    <3>2. PlanTrue(e)
      BY <2>1, <2>3 DEF NoGap, PlanIsTrue
    <3> QED BY <2>1, <3>2 DEF StillTo
  <2>4. ASSUME NEW e \in Entries \ hist.raced, feed[e].seq <= pull.after
        PROVE  rows[e].revision = feed[e].revision
    <3>1. CASE pull.plan[e].kind # "out"
      <4>1. PlanTrue(e) /\ rows[e].revision = pull.plan[e].revision
        BY <2>3, <3>1 DEF PlanTrue
      <4>2. ~(feed[e].seq > pull.target)
        BY <1>1, <2>4 DEF Numbers
      <4> QED BY <4>1, <4>2 DEF PlanTrue, Known, Beyond
    <3>2. CASE pull.plan[e].kind = "out"
      BY <2>1, <2>2, <2>4, <3>2 DEF ReadKnown, InWindow
    <3> QED BY <3>1, <3>2
  <2>5. ASSUME NEW e \in Entries \ hist.raced, feed[e].seq <= cursor'
        PROVE  rows[e].revision = feed[e].revision
    <3>1. feed[e].seq <= pull.after
      <4>1. CASE cursor' = pull.after
        BY <2>5, <4>1
      <4>2. CASE pull.final /\ cursor' = pull.target
        BY <1>1, <2>2, <2>5, <4>2 DEF ReadKnown, Numbers
      <4> QED BY <2>1, <4>1, <4>2
    <3> QED BY <2>4, <3>1
  <2>6. CheckpointHasNoGap'
    BY <1>1, <2>1, <2>5 DEF CheckpointHasNoGap, server
  <2>7. Positions' /\ AcceptedIsKnown'
    BY <1>1, <1>3, <1>5, <2>1 DEF NoGap, Positions, AcceptedIsKnown, server
  <2>8. CASE pull' = NoPull
    BY <1>1, <2>6, <2>7, <2>8 DEF NoGap, WindowIsTrue, ReadIsKnown, PlanIsTrue
  <2>9. CASE /\ cursor' = pull.after
             /\ pull' = [pc |-> "fetch", byId |-> FALSE, since |-> pull.since,
                         target |-> pull.target, after |-> pull.after, final |-> FALSE,
                         window |-> {}]
    BY <2>6, <2>7, <2>9 DEF NoGap, WindowIsTrue, WindowTrue, ReadIsKnown, ReadKnown, PlanIsTrue,
       InWindow, CheckpointHasNoGap
  <2> QED BY <2>1, <2>8, <2>9
<1>6. CASE PullFail
  <2>1. /\ pull.pc = "apply" /\ cursor' = cursor /\ pull' = NoPull
        /\ rows' = [e \in Entries |-> IF pull.plan[e].kind = "out" THEN rows[e] ELSE pull.snap[e]]
    BY <1>6 DEF PullFail
  <2>2. \A e \in Entries : pull.plan[e].kind # "out" => PlanTrue(e)
    BY <2>1 DEF NoGap, PlanIsTrue
  <2>3. push'.pc = "idle"
    BY <1>1, <1>3, <1>6, PushIsAlone DEF PullFail, PushFallsToo
  <2>4. Positions'
    <3>1. ASSUME NEW e \in Entries PROVE rows'[e].revision <= feed[e].revision
      <4>1. CASE pull.plan[e].kind = "out"
        BY <2>1, <4>1 DEF NoGap, Positions
      <4>2. CASE pull.plan[e].kind # "out"
        BY <2>1, <2>2, <4>2 DEF PlanTrue, Known, Numbers
      <4> QED BY <4>1, <4>2
    <3> QED BY <1>1, <3>1 DEF NoGap, Positions, server
  <2>5. CheckpointHasNoGap'
    BY <1>1, <2>1, <2>2 DEF NoGap, CheckpointHasNoGap, PlanTrue, server
  <2> QED BY <1>1, <2>1, <2>3, <2>4, <2>5 DEF NoGap, AcceptedIsKnown, WindowIsTrue, ReadIsKnown, PlanIsTrue
<1>7. CASE PullAbort \/ (PullDone /\ pull.byId)
  BY <1>4, <1>7 DEF PullAbort, PullDone
<1> QED BY <1>5, <1>6, <1>7

\* A restart forgets only what the server never had.
LEMMA NoGapRestart ==
  ASSUME Types, Types', NoGap, Restart
  PROVE  NoGap'
<1>1. /\ rows' = [e \in Entries |-> Reconciled(e)] /\ push' = NoPush /\ pull' = NoPull
      /\ UNCHANGED <<server, cursor>>
  BY DEF Restart
<1>2. hist.raced \subseteq hist'.raced
  BY DEF Restart, Types, HistoryTypes
<1>3. \A e \in Entries : rows'[e].revision = rows[e].revision
  BY <1>1, ReconciledIs, PiecesAre, UpsertedIs
<1> QED BY <1>1, <1>2, <1>3, NoGapStill DEF server, NoPush

\* No step breaks the invariant.
LEMMA NoGapStep == Types /\ Types' /\ NoGap /\ [Next]_vars => NoGap'
<1> SUFFICES ASSUME Types, Types', NoGap, [Next]_vars PROVE NoGap'
  OBVIOUS
<1>1. CASE User \/ Others \/ RetryQuarantined \/ RetryParked
  BY <1>1, NoGapUserOthers
<1>2. CASE Recorder
  BY <1>2, NoGapRecorder
<1>3. CASE Pushes
  BY <1>3, NoGapPushTurns, NoGapPrepare, NoGapPushCommit, NoGapPushApply, NoGapPushFinish,
     NoGapPushReject DEF Pushes
<1>4. CASE Pulls
  BY <1>4, NoGapPullRead, NoGapPullPrepare, NoGapPullEnds, NoGapPullStep DEF Pulls
<1>5. CASE Restart
  BY <1>5, NoGapRestart
<1>6. CASE UNCHANGED vars
  BY <1>6, NoGapStill DEF vars
<1> QED BY <1>1, <1>2, <1>3, <1>4, <1>5, <1>6 DEF Next

\* The checkpoint has no gap, whatever the recorder, a push, a pull, a restart
\* and other devices do in between (pull-service 326-348, push-service 933-947).
THEOREM CheckpointIsKept == Spec => []CheckpointHasNoGap
<1>1. NoGap => CheckpointHasNoGap
  BY DEF NoGap
<1> QED BY TypesInit, TypesStep, NoGapInit, NoGapStep, <1>1, PTL DEF Spec

-----------------------------------------------------------------------------
(* What other devices wrote: an inductive invariant.                        *)

\* The revisions that the store has of e, or that a change of e is built on;
\* the changes of e; the revisions that a pull brings of it.
Bases(e) ==
  {rows[e].revision, rows[e].dirty.base}
    \union (IF rec.pc \in {"queue", "gone", "queueDelete"} /\ rec.entry = e THEN {rec.base} ELSE {})
    \union (IF push.pc = "idle" THEN {} ELSE {push.batch[e].base})
    \union (IF pull.pc = "apply" THEN {pull.snap[e].revision, pull.snap[e].dirty.base} ELSE {})
Queue(e) ==
  {rows[e].dirty}
    \union (IF push.pc = "idle" THEN {} ELSE {push.batch[e]})
    \union (IF pull.pc = "apply" THEN {pull.snap[e].dirty} ELSE {})
Brought(e) ==
  IF pull.pc = "apply" THEN IF pull.plan[e].kind = "out" THEN {} ELSE {pull.plan[e].revision}
  ELSE IF pull.pc = "idle" THEN {} ELSE {i.revision : i \in {j \in pull.window : j.entry = e}}

\* The file of e has all that the server has, or there is none.
FileHolds(e) == file[e] = None \/ Pieces(feed[e].blob) \subseteq file[e]

\* A change built on n is refused, or the file it was read from had what the
\* server has; what a pull brings is not older.
Sound(e, n) ==
  /\ n <= feed[e].revision
  /\ n = feed[e].revision => FileHolds(e)
  /\ \A r \in Brought(e) : n <= r
BasesAreSound == \A e \in Entries : \A n \in Bases(e) : Sound(e, n)

\* A file that a pull has written, and that it brings up to date.
WrittenHolds ==
  pull.pc = "apply" => \A e \in Entries :
    /\ /\ pull.plan[e].kind # "out" /\ ~StillTo(2, e)
       /\ pull.plan[e].revision = feed[e].revision
       => FileHolds(e)
    /\ pull.plan[e].kind = "skip" => pull.plan[e].revision = pull.snap[e].revision

\* A change about to be sent has what the server had at its base; one that is
\* accepted is in the file, or the file is gone.
BatchHolds ==
  /\ push.pc = "prepare" => \A e \in Entries :
       push.step[e] \in {"uploading", "ready"} /\ push.batch[e].content # None =>
         /\ e \notin New \ hist.born
         /\ file[e] = None \/ push.batch[e].content \subseteq file[e]
         /\ push.batch[e].base = feed[e].revision =>
              Pieces(feed[e].blob) \subseteq push.batch[e].content
  /\ push.pc = "apply" => \A e \in Entries :
       push.step[e] = "accepted" /\ push.got[e].revision = feed[e].revision => FileHolds(e)

\* Nobody has anything of an entry that this device is still to create.
Unborn(e) ==
  /\ file[e] = None /\ feed[e].blob = None
  /\ pull.pc = "apply" => pull.plan[e].blob = None /\ pull.plan[e].kind # "merge"
  /\ pull.pc \in {"fetch", "prepare"} => \A i \in pull.window : i.entry = e => i.blob = None
NoneBefore ==
  /\ \A e \in New \ hist.born : Unborn(e)
  /\ \A e \in Entries : feed[e].revision = 0 => feed[e].blob = None

\* An id stands for one content, which is the server's if it took it last.
OneContent(e) ==
  /\ \A m \in Queue(e) : m.id # 0 /\ m.id = replay[e] => m.content = feed[e].blob
  /\ \A m, n \in Queue(e) : m.id # 0 /\ m.id = n.id => m.content = n.content
IdsAgree == \A e \in Entries : OneContent(e)

Keep == BasesAreSound /\ WrittenHolds /\ BatchHolds /\ NoneBefore /\ IdsAgree

\* What the types say of what the invariant is about.
Kept ==
  \A e \in Entries :
    /\ Bases(e) \subseteq Nat /\ Queue(e) \subseteq Changes /\ Brought(e) \subseteq Nat
    /\ feed[e].revision \in Nat /\ feed[e].blob \in Contents /\ file[e] \in Contents
    /\ replay[e] \in 0..6 /\ rows[e] \in Stored
    /\ replay[e] \in InUse(e) /\ \A m \in Queue(e) : m.id \in InUse(e)
    /\ 0 \in InUse(e) /\ NewId(e) \in 1..6 /\ NewId(e) \notin InUse(e)

\* The types, before a step and after it, give as much.
LEMMA KeptAre == (Types => Kept) /\ (Types' => Kept')
<1>1. Types => Kept
  <2> SUFFICES ASSUME Types, NEW e \in Entries
               PROVE  /\ Bases(e) \subseteq Nat /\ Queue(e) \subseteq Changes
                      /\ Brought(e) \subseteq Nat
                      /\ feed[e].revision \in Nat /\ feed[e].blob \in Contents /\ file[e] \in Contents
                      /\ replay[e] \in 0..6 /\ rows[e] \in Stored
                      /\ replay[e] \in InUse(e) /\ \A m \in Queue(e) : m.id \in InUse(e)
                      /\ 0 \in InUse(e) /\ NewId(e) \in 1..6 /\ NewId(e) \notin InUse(e)
    BY DEF Kept
  <2>1. /\ feed[e].revision \in Nat /\ feed[e].blob \in Contents /\ file[e] \in Contents
        /\ replay[e] \in 0..6 /\ rows[e] \in Stored
    BY DEF Types, ServerTypes, VaultTypes, StoreTypes, Served
  <2>2. rows[e].revision \in Nat /\ rows[e].dirty \in Changes
    BY <2>1 DEF Stored
  <2>3. push.pc # "idle" => push.batch[e] \in Changes
    BY PushIsAlone DEF Pass, Passing
  <2>4. pull.pc = "apply" => /\ pull.snap[e].revision \in Nat /\ pull.snap[e].dirty \in Changes
                             /\ pull.plan[e].revision \in Nat
    BY PushIsAlone DEF Applying, Stored, Plans
  <2>5. rec.pc \in {"queue", "gone", "queueDelete"} => rec.base \in Nat
    BY DEF Types, RecorderTypes, Recorders
  <2>6. pull.pc \in {"fetch", "prepare"} => \A i \in pull.window : i.revision \in Nat
    BY PushIsAlone DEF Reading, Items
  <2>7. pull.pc \in {"idle", "fetch", "prepare", "apply"}
    BY DEF Types, PullTypes, NoPull, Reading, Applying
  <2>8. \A m \in Changes : m.base \in Nat
    BY ChangesAre
  <2>9. Queue(e) \subseteq Changes
    BY <2>2, <2>3, <2>4 DEF Queue
  <2>10. Bases(e) \subseteq Nat
    BY <2>2, <2>3, <2>4, <2>5, <2>8 DEF Bases
  <2>11. Brought(e) \subseteq Nat
    BY <2>4, <2>6, <2>7 DEF Brought
  <2>12. replay[e] \in InUse(e) /\ 0 \in InUse(e) /\ \A m \in Queue(e) : m.id \in InUse(e)
    BY DEF InUse, Queue
  <2> QED BY <2>1, <2>9, <2>10, <2>11, <2>12, NewIdIsFresh
<1> QED BY <1>1, PTL

\* A step that leaves the server keeps all of it if what it builds on, brings,
\* queues, writes and sends is as it should be.
LEMMA KeepIf ==
  ASSUME Types, Types', Keep, UNCHANGED <<feed, replay>>,
         \A e \in Entries : feed[e].revision \in Bases(e) /\ FileHolds(e) => FileHolds(e)',
         \A e \in Entries : \A r \in Brought(e)' : r \in Brought(e) \/ r = feed[e].revision,
         \A e \in Entries : \A n \in Bases(e)' : \/ n = 0 \/ n \in Bases(e)
                                                \/ Sound(e, n)',
         \A e \in Entries : \A m \in Queue(e)' :
           \/ m.id = 0
           \/ \E k \in Queue(e) : k.id = m.id /\ k.content = m.content
           \/ m.id = NewId(e) /\ \A k \in Queue(e)' : k.id = m.id => k.content = m.content,
         WrittenHolds', BatchHolds', \A e \in New \ hist'.born : Unborn(e)'
  PROVE  Keep'
<1> Kept /\ Kept'
  BY KeptAre
<1>1. BasesAreSound'
  <2> SUFFICES ASSUME NEW e \in Entries, NEW n \in Bases(e)' PROVE Sound(e, n)'
    BY DEF BasesAreSound
  <2>1. /\ n \in Nat /\ feed[e].revision \in Nat /\ Brought(e)' \subseteq Nat /\ feed'[e] = feed[e]
    BY DEF Kept
  <2>2. CASE n = 0
    <3>1. n = feed[e].revision => FileHolds(e)'
      <4>1. n = feed[e].revision => feed'[e].blob = None
        BY <2>2 DEF Keep, NoneBefore
      <4> QED BY <4>1, PiecesAre DEF FileHolds
    <3> QED BY <2>1, <2>2, <3>1 DEF Sound
  <2>3. CASE n \in Bases(e)
    <3>1. Sound(e, n)
      BY <2>3 DEF Keep, BasesAreSound
    <3>2. n = feed[e].revision => FileHolds(e)'
      BY <2>3, <3>1 DEF Sound
    <3>3. \A r \in Brought(e)' : n <= r
      BY <3>1 DEF Sound
    <3> QED BY <2>1, <3>1, <3>2, <3>3 DEF Sound
  <2> QED BY <2>2, <2>3
<1>2. NoneBefore'
  BY DEF Keep, NoneBefore
<1>3. IdsAgree'
  <2> SUFFICES ASSUME NEW e \in Entries PROVE OneContent(e)'
    BY DEF IdsAgree
  <2>1. OneContent(e) /\ feed'[e] = feed[e] /\ replay'[e] = replay[e]
    BY DEF Keep, IdsAgree
  <2>2. \A m \in Queue(e) : m.id # NewId(e)
    BY DEF Kept
  <2>3. ASSUME NEW m \in Queue(e)', m.id # 0, m.id = replay[e] PROVE m.content = feed[e].blob
    <3>1. m.id # NewId(e)
      BY <2>3 DEF Kept
    <3>2. PICK k \in Queue(e) : k.id = m.id /\ k.content = m.content
      BY <2>3, <3>1
    <3> QED BY <2>1, <2>3, <3>2 DEF OneContent
  <2>4. ASSUME NEW m \in Queue(e)', NEW n \in Queue(e)', m.id # 0, m.id = n.id
        PROVE  m.content = n.content
    <3>1. CASE m.id = NewId(e)
      <4>1. \A k \in Queue(e)' : k.id = m.id => k.content = m.content
        BY <2>2, <2>4, <3>1
      <4> QED BY <2>4, <4>1
    <3>2. CASE m.id # NewId(e)
      <4>1. PICK k \in Queue(e) : k.id = m.id /\ k.content = m.content
        BY <2>4, <3>2
      <4>2. PICK l \in Queue(e) : l.id = n.id /\ l.content = n.content
        BY <2>4, <3>2
      <4> QED BY <2>1, <2>4, <4>1, <4>2 DEF OneContent
    <3> QED BY <3>1, <3>2
  <2> QED BY <2>1, <2>3, <2>4 DEF OneContent
<1> QED BY <1>1, <1>2, <1>3 DEF Keep

\* A step that changes one row, and leaves the files and the server.
LEMMA KeepRow ==
  ASSUME Types, Types', Keep, NEW e \in Entries,
         UNCHANGED <<feed, replay, file>>, hist'.born = hist.born,
         pull' = pull \/ pull' = NoPull,
         push'.pc # "idle" => push.pc # "idle" /\ push'.batch = push.batch,
         \A f \in Entries \ {e} : rows'[f] = rows[f],
         rows'[e].revision \in Bases(e) \union {0},
         rows'[e].dirty.base \in Bases(e) \union {0},
         \/ rows'[e].dirty.id \in {0, NewId(e)}
         \/ \E k \in Queue(e) : k.id = rows'[e].dirty.id /\ k.content = rows'[e].dirty.content,
         \/ rec' = rec
         \/ rec'.pc \in {"queue", "gone", "queueDelete"} =>
              rec'.entry \in Entries /\ rec'.base \in Bases(rec'.entry),
         BatchHolds'
  PROVE  Keep'
<1> Kept /\ Kept'
  BY KeptAre
<1>1. NoPull.pc = "idle"
  BY DEF NoPull
<1>2. \A f \in Entries : FileHolds(f)' <=> FileHolds(f)
  BY DEF FileHolds
<1>3. \A f \in Entries : Brought(f)' \subseteq Brought(f)
  BY <1>1 DEF Brought
<1>4. ASSUME NEW f \in Entries, NEW n \in Bases(f)' PROVE n = 0 \/ n \in Bases(f)
  <2>1. \/ n \in {rows'[f].revision, rows'[f].dirty.base}
        \/ rec'.pc \in {"queue", "gone", "queueDelete"} /\ rec'.entry = f /\ n = rec'.base
        \/ push'.pc # "idle" /\ n = push'.batch[f].base
        \/ pull'.pc = "apply" /\ n \in {pull'.snap[f].revision, pull'.snap[f].dirty.base}
    BY <1>4 DEF Bases
  <2>2. CASE n \in {rows'[f].revision, rows'[f].dirty.base}
    <3>1. CASE f = e
      BY <2>2, <3>1
    <3>2. CASE f # e
      BY <2>2, <3>2 DEF Bases
    <3> QED BY <3>1, <3>2
  <2>3. CASE rec'.pc \in {"queue", "gone", "queueDelete"} /\ rec'.entry = f /\ n = rec'.base
    BY <2>3 DEF Bases
  <2>4. CASE push'.pc # "idle" /\ n = push'.batch[f].base
    BY <2>4 DEF Bases
  <2>5. CASE pull'.pc = "apply" /\ n \in {pull'.snap[f].revision, pull'.snap[f].dirty.base}
    BY <1>1, <2>5 DEF Bases
  <2> QED BY <2>1, <2>2, <2>3, <2>4, <2>5
<1>5. \A f \in Entries : \A m \in Queue(f)' : m \in Queue(f) \/ (f = e /\ m = rows'[e].dirty)
  BY <1>1 DEF Queue
<1>6. ASSUME NEW f \in Entries, NEW m \in Queue(f)'
      PROVE  \/ m.id = 0
             \/ \E k \in Queue(f) : k.id = m.id /\ k.content = m.content
             \/ m.id = NewId(f) /\ \A k \in Queue(f)' : k.id = m.id => k.content = m.content
  <2>1. CASE m \in Queue(f)
    BY <2>1
  <2>2. CASE f = e /\ m = rows'[e].dirty
    <3>1. CASE m.id = NewId(e)
      <4>1. \A k \in Queue(e) : k.id # NewId(e)
        BY DEF Kept
      <4> QED BY <1>5, <2>2, <3>1, <4>1
    <3> QED BY <2>2, <3>1
  <2> QED BY <1>5, <2>1, <2>2
<1>7. WrittenHolds'
  <2>1. CASE pull' = pull
    BY <1>2, <2>1 DEF Keep, WrittenHolds, StillTo
  <2> QED BY <1>1, <2>1 DEF WrittenHolds
<1>8. \A f \in New \ hist'.born : Unborn(f)'
  <2>1. CASE pull' = pull
    BY <2>1 DEF Keep, NoneBefore, Unborn
  <2> QED BY <1>1, <2>1 DEF Keep, NoneBefore, Unborn
<1> QED BY <1>2, <1>3, <1>4, <1>6, <1>7, <1>8, KeepIf

\* A step that leaves the push leaves what it is about to send.
LEMMA BatchStill ==
  ASSUME Keep, UNCHANGED <<push, feed, file>>, hist'.born = hist.born
  PROVE  BatchHolds'
BY DEF Keep, BatchHolds, FileHolds

\* At the start the files are what the server has, or there is none.
LEMMA KeepInit == Init => Keep
<1> SUFFICES ASSUME Init PROVE Keep
  OBVIOUS
<1> PICK synced \in BOOLEAN, place \in [Entries \ New -> 1..Cardinality(Entries \ New)] :
      Start(synced, place)
  BY StartIs, Zenon
<1>1. /\ feed = [e \in Entries |->
                  IF e \in New THEN [revision |-> 0, blob |-> None, seq |-> 0]
                               ELSE [revision |-> 1, blob |-> {}, seq |-> place[e]]]
      /\ file = [e \in Entries |-> IF synced /\ e \notin New THEN {} ELSE None]
      /\ rows = [e \in Entries |-> IF synced /\ e \notin New THEN Upserted(1, {}) ELSE EmptyRow]
  BY DEF Start
<1>2. push.pc = "idle" /\ pull.pc = "idle" /\ rec.pc = "idle" /\ hist.born = {}
        /\ \A e \in Entries : replay[e] = 0
  BY DEF Init, NoPush, NoPull, NoRec
<1>3. /\ Upserted(1, {}).revision = 1 /\ Upserted(1, {}).dirty = NoMutation
      /\ EmptyRow.revision = 0 /\ EmptyRow.dirty = NoMutation
      /\ NoMutation.base = 0 /\ NoMutation.id = 0
  <2>1. NoMutation.base = 0 /\ NoMutation.id = 0
    BY DEF NoMutation
  <2> QED BY <2>1, FirstRows
<1>4. ASSUME NEW e \in Entries
      PROVE  /\ Bases(e) \subseteq {rows[e].revision, 0} /\ Queue(e) = {NoMutation} /\ Brought(e) = {}
             /\ FileHolds(e) /\ rows[e].revision \in Nat /\ feed[e].revision \in Nat
             /\ rows[e].revision <= feed[e].revision
             /\ feed[e].revision = 0 => feed[e].blob = None
             /\ e \in New => file[e] = None /\ feed[e].blob = None
  <2>1. CASE e \in New
    <3>1. rows[e] = EmptyRow /\ file[e] = None /\ feed[e].revision = 0 /\ feed[e].blob = None
      BY <1>1, <2>1
    <3> QED BY <1>2, <1>3, <3>1 DEF Bases, Queue, Brought, FileHolds
  <2>2. CASE e \notin New
    <3>1. /\ rows[e] \in {Upserted(1, {}), EmptyRow} /\ feed[e].revision = 1 /\ feed[e].blob = {}
      BY <1>1, <2>2
    <3> QED BY <1>2, <1>3, <2>2, <3>1, PiecesAre DEF Bases, Queue, Brought, FileHolds, Pieces
  <2> QED BY <2>1, <2>2
<1>5. BasesAreSound
  BY <1>4 DEF BasesAreSound, Sound
<1>6. WrittenHolds /\ BatchHolds
  BY <1>2 DEF WrittenHolds, BatchHolds
<1>7. NoneBefore
  BY <1>2, <1>4, DeviceSets DEF NoneBefore, Unborn
<1>8. IdsAgree
  BY <1>3, <1>4 DEF IdsAgree, OneContent
<1> QED BY <1>5, <1>6, <1>7, <1>8 DEF Keep

\* A file grows or goes when the user works on it.
LEMMA KeepUser ==
  ASSUME Types, Types', Keep, User
  PROVE  Keep'
<1> Kept /\ Kept'
  BY KeptAre
<1>1. PICK e \in Entries : Delete(e) \/ \E piece \in Mine : Edit(e, piece)
  BY DEF User
<1>2. UNCHANGED <<feed, replay, rec, rows, push, pull>>
  BY <1>1 DEF Delete, Edit, server
<1>3. /\ \A f \in Entries \ {e} : file'[f] = file[f]
      /\ hist.born \subseteq hist'.born
      /\ \/ file'[e] = None /\ hist'.born = hist.born
         \/ /\ file[e] # None => file[e] \subseteq file'[e]
            /\ e \in hist'.born /\ (file[e] = None => e \in New \ hist.born)
  <2>1. /\ file \in [Entries -> Contents] /\ file[e] \in Contents
        /\ hist.born \subseteq Entries
        /\ hist \in [born : SUBSET Entries, discarded : SUBSET (Mine \union Theirs),
               exposed : SUBSET (Mine \union Theirs), torn : SUBSET (Mine \union Theirs),
               raced : SUBSET Entries]
    BY DEF Types, VaultTypes, HistoryTypes
  <2>2. CASE Delete(e)
    BY <2>1, <2>2 DEF Delete
  <2>3. ASSUME NEW piece \in Mine, Edit(e, piece)
        PROVE  /\ \A f \in Entries \ {e} : file'[f] = file[f]
               /\ hist.born \subseteq hist'.born /\ e \in hist'.born
               /\ file[e] # None => file[e] \subseteq file'[e]
               /\ file[e] = None => e \in New \ hist.born
    <3>1. file' = [file EXCEPT ![e] = Pieces(@) \union {piece}]
      BY <2>3 DEF Edit
    <3>2. file[e] # None => Pieces(file[e]) = file[e]
      BY <2>1, PiecesAre
    <3>3. e \in hist'.born /\ hist.born \subseteq hist'.born
      <4> DEFINE x == hist.exposed \union IF Overwrites(e) THEN {piece} ELSE {}
                 b == hist.born \union {e}
      <4>1. hist' = [hist EXCEPT !.born = b, !.exposed = x]
        BY <2>3 DEF Edit
      <4> HIDE DEF x, b
      <4>2. hist'.born = b
        BY <2>1, <4>1
      <4> QED BY <4>2 DEF b
    <3>4. file[e] = None => e \in New \ hist.born
      BY <2>3 DEF Edit
    <3> QED BY <2>1, <3>1, <3>2, <3>3, <3>4
  <2> QED BY <1>1, <2>2, <2>3
<1>4. \A f \in New \ hist.born : feed[f].blob = None /\ file[f] = None
  BY DEF Keep, NoneBefore, Unborn
<1>5. ASSUME NEW f \in Entries, FileHolds(f) PROVE FileHolds(f)'
  <2>1. CASE f = e /\ file[e] = None
    BY <1>2, <1>3, <1>4, <2>1, PiecesAre DEF FileHolds
  <2>2. CASE ~(f = e /\ file[e] = None)
    BY <1>2, <1>3, <1>5, <2>2 DEF FileHolds
  <2> QED BY <2>1, <2>2
<1>6. \A f \in Entries : Bases(f)' = Bases(f) /\ Queue(f)' = Queue(f) /\ Brought(f)' = Brought(f)
  BY <1>2 DEF Bases, Queue, Brought
<1>7. WrittenHolds'
  BY <1>2, <1>5 DEF Keep, WrittenHolds, StillTo
<1>8. BatchHolds'
  <2>1. ASSUME push.pc = "prepare", NEW f \in Entries, push.step[f] \in {"uploading", "ready"},
               push.batch[f].content # None
        PROVE  /\ f \notin New \ hist'.born
               /\ file'[f] = None \/ push.batch[f].content \subseteq file'[f]
               /\ push.batch[f].base = feed[f].revision =>
                    Pieces(feed[f].blob) \subseteq push.batch[f].content
    <3>1. /\ f \notin New \ hist.born
          /\ file[f] = None \/ push.batch[f].content \subseteq file[f]
          /\ push.batch[f].base = feed[f].revision =>
               Pieces(feed[f].blob) \subseteq push.batch[f].content
      BY <2>1 DEF Keep, BatchHolds
    <3>2. file'[f] = None \/ push.batch[f].content \subseteq file'[f]
      BY <1>3, <3>1
    <3> QED BY <1>3, <3>1, <3>2
  <2>2. ASSUME push.pc = "apply", NEW f \in Entries, push.step[f] = "accepted",
               push.got[f].revision = feed[f].revision
        PROVE  FileHolds(f)'
    BY <1>5, <2>2 DEF Keep, BatchHolds
  <2> QED BY <1>2, <2>1, <2>2 DEF BatchHolds
<1>9. \A f \in New \ hist'.born : Unborn(f)'
  <2> SUFFICES ASSUME NEW f \in New \ hist'.born PROVE Unborn(f)'
    OBVIOUS
  <2>1. Unborn(f) /\ f \in Entries
    BY <1>3, DeviceSets DEF Keep, NoneBefore
  <2>2. file'[f] = None
    BY <1>3, <2>1 DEF Unborn
  <2> QED BY <1>2, <2>1, <2>2 DEF Unborn
<1> QED BY <1>2, <1>5, <1>6, <1>7, <1>8, <1>9, KeepIf

\* What is accepted leaves every base of its entry behind.
LEMMA KeepMoves ==
  ASSUME Types, Types', NoGap, Keep, UNCHANGED <<file, rec, rows, pull>>, hist'.born = hist.born,
         push'.pc = "idle" <=> push.pc = "idle", push'.pc # "idle" => push'.batch = push.batch,
         \A e \in Entries : \/ feed'[e] = feed[e] /\ replay'[e] = replay[e]
                            \/ Moved(e) /\ (e \in New \ hist.born => feed'[e].blob = None),
         \A e \in Entries : Moved(e) =>
           \A m \in Queue(e) : m.id # 0 /\ m.id = replay'[e] => m.content = feed'[e].blob,
         BatchHolds'
  PROVE  Keep'
<1> Kept /\ Kept'
  BY KeptAre
<1>1. \A e \in Entries : Bases(e)' = Bases(e) /\ Queue(e)' = Queue(e) /\ Brought(e)' = Brought(e)
  BY DEF Bases, Queue, Brought
<1>2. BasesAreSound'
  <2> SUFFICES ASSUME NEW e \in Entries, NEW n \in Bases(e) PROVE Sound(e, n)'
    BY <1>1 DEF BasesAreSound
  <2>1. Sound(e, n) /\ n \in Nat
    BY DEF Keep, BasesAreSound, Kept
  <2>2. CASE feed'[e] = feed[e]
    BY <1>1, <2>1, <2>2 DEF Sound, FileHolds
  <2>3. CASE Moved(e)
    BY <1>1, <2>1, <2>3 DEF Sound, Moved, Kept
  <2> QED BY <2>2, <2>3
<1>3. WrittenHolds'
  <2> SUFFICES ASSUME pull.pc = "apply", NEW e \in Entries, pull.plan[e].kind # "out", ~StillTo(2, e),
                      pull.plan[e].revision = feed'[e].revision
               PROVE  FileHolds(e)'
    BY DEF Keep, WrittenHolds, StillTo
  <2>1. pull.plan[e].revision <= feed[e].revision /\ pull.plan[e].revision \in Nat
    BY NumbersAre DEF NoGap, PlanIsTrue, PlanTrue, Known, Numbers
  <2>2. feed'[e] = feed[e]
    BY <2>1 DEF Moved, Kept
  <2> QED BY <2>2 DEF Keep, WrittenHolds, FileHolds
<1>4. NoneBefore'
  <2>1. \A e \in New \ hist'.born : Unborn(e)'
    BY DeviceSets DEF Keep, NoneBefore, Unborn
  <2>2. \A e \in Entries : feed'[e].revision = 0 => feed'[e].blob = None
    BY DEF Keep, NoneBefore, Moved, Kept
  <2> QED BY <2>1, <2>2 DEF NoneBefore
<1>5. IdsAgree'
  <2> SUFFICES ASSUME NEW e \in Entries PROVE OneContent(e)'
    BY DEF IdsAgree
  <2>1. OneContent(e)
    BY DEF Keep, IdsAgree
  <2> QED BY <1>1, <2>1 DEF OneContent
<1> QED BY <1>2, <1>3, <1>4, <1>5 DEF Keep

\* Other devices.
LEMMA KeepOthers ==
  ASSUME Types, Types', NoGap, Keep, Others
  PROVE  Keep'
<1> Kept /\ Kept' /\ Numbers
  BY KeptAre, NumbersAre
<1>1. PICK e \in Entries : OthersDelete(e) \/ \E piece \in Theirs : OthersWrite(e, piece)
  BY DEF Others
<1> DEFINE n == feed'[e]
<1>2. /\ UNCHANGED <<file, rec, rows, push, pull>> /\ head' = head + 1 /\ hist'.born = hist.born
      /\ \A f \in Entries \ {e} : feed'[f] = feed[f] /\ replay'[f] = replay[f]
      /\ n.revision = feed[e].revision + 1 /\ n.seq = head + 1 /\ replay'[e] = 0
      /\ feed[e].blob # None
  BY <1>1 DEF OthersDelete, OthersWrite, Accept, Types, HistoryTypes, ServerTypes, vault
<1> HIDE DEF n
<1>3. Moved(e) /\ e \notin New \ hist.born
  BY <1>2 DEF Moved, Numbers, n, Keep, NoneBefore, Unborn
<1>4. \A f \in Entries : Moved(f) => f = e
  BY <1>2 DEF Moved, Numbers
<1>5. BatchHolds'
  <2>1. ASSUME push.pc = "prepare", NEW f \in Entries, push.step[f] \in {"uploading", "ready"},
               push.batch[f].content # None
        PROVE  /\ f \notin New \ hist.born
               /\ file[f] = None \/ push.batch[f].content \subseteq file[f]
               /\ push.batch[f].base = feed'[f].revision =>
                    Pieces(feed'[f].blob) \subseteq push.batch[f].content
    <3>1. /\ f \notin New \ hist.born
          /\ file[f] = None \/ push.batch[f].content \subseteq file[f]
          /\ push.batch[f].base = feed[f].revision =>
               Pieces(feed[f].blob) \subseteq push.batch[f].content
      BY <2>1 DEF Keep, BatchHolds
    <3>2. push.batch[f].base \in Bases(f)
      BY <2>1 DEF Bases
    <3>3. push.batch[f].base \in Nat /\ push.batch[f].base <= feed[f].revision
      BY <3>2 DEF Keep, BasesAreSound, Sound, Kept
    <3>4. f = e => push.batch[f].base # feed'[f].revision
      BY <1>3, <3>3 DEF Moved, Kept
    <3> QED BY <1>2, <3>1, <3>4
  <2>2. ASSUME push.pc = "apply", NEW f \in Entries, push.step[f] = "accepted",
               push.got[f].revision = feed'[f].revision
        PROVE  FileHolds(f)'
    <3>1. push.got[f].revision <= feed[f].revision
      <4>1. ToldTruly(f)
        BY <2>2 DEF NoGap, AcceptedIsKnown
      <4> QED BY <2>2, <4>1 DEF ToldTruly, Numbers
    <3>2. f # e
      BY <1>3, <2>2, <3>1 DEF Moved, Kept
    <3> QED BY <1>2, <2>2, <3>2 DEF Keep, BatchHolds, FileHolds
  <2> QED BY <1>2, <2>1, <2>2 DEF BatchHolds
<1> QED BY <1>2, <1>3, <1>4, <1>5, KeepMoves

\* The recorder builds on what the store has of the server.
LEMMA KeepRecorder ==
  ASSUME Types, Types', Keep, Recorder
  PROVE  Keep'
<1>1. UNCHANGED <<feed, replay, file, push, pull>> /\ hist'.born = hist.born
  BY DEF Recorder, RecordRead, RecordUpsert, RecordQueue, RecordLocal, RecordDelete,
     RecordRemote, RecordForget, RecordGone, RecordQueueDelete, RecordChanges, RecordWrites,
     Types, HistoryTypes, server, vault
<1>2. BatchHolds'
  BY <1>1, BatchStill
<1>3. CASE RecordRead
  <2>1. /\ rows' = rows /\ events # <<>>
        /\ rec'.pc \notin {"queue", "gone", "queueDelete"}
    BY <1>3 DEF RecordRead, NoRec
  <2>2. Head(events).entry \in Entries
    <3> DEFINE Happened == [kind : {"upsert", "delete"}, entry : Entries]
    <3>1. events \in Seq(Happened)
      BY DEF Types, RecorderTypes
    <3> HIDE DEF Happened
    <3>2. Head(events) \in Happened
      BY <2>1, <3>1
    <3> QED BY <3>2 DEF Happened
  <2> DEFINE e == Head(events).entry
  <2>3. /\ rows'[e].revision \in Bases(e) /\ rows'[e].dirty.base \in Bases(e)
        /\ rows'[e].dirty \in Queue(e)
    BY <2>1 DEF Bases, Queue
  <2> HIDE DEF e
  <2> QED BY <1>1, <1>2, <2>1, <2>2, <2>3, KeepRow DEF e
<1>4. CASE ~RecordRead
  <2> DEFINE e == rec.entry
             r == rows[e]
  <2>1. e \in Entries /\ r \in Stored /\ rows \in [Entries -> Stored] /\ rec.pc # "idle"
    BY <1>4 DEF Recorder, RecordUpsert, RecordQueue, RecordLocal, RecordDelete,
     RecordRemote, RecordForget, RecordGone, RecordQueueDelete, Types, RecorderTypes, Recorders,
     StoreTypes
  <2>2. r.revision \in Bases(e) /\ r.dirty.base \in Bases(e) /\ r.dirty \in Queue(e)
    BY DEF Bases, Queue
  <2>3. ASSUME NEW new, rows' = [rows EXCEPT ![e] = new],
               new.revision \in Bases(e) \union {0}, new.dirty.base \in Bases(e) \union {0},
               new.dirty = r.dirty \/ new.dirty.id \in {0, NewId(e)},
               rec'.pc \in {"queue", "gone", "queueDelete"} =>
                 rec'.entry = e /\ rec'.base \in Bases(e)
        PROVE  Keep'
    <3>1. rows'[e] = new /\ \A f \in Entries \ {e} : rows'[f] = rows[f]
      BY <2>1, <2>3
    <3> HIDE DEF r
    <3> QED BY <1>1, <1>2, <2>1, <2>2, <2>3, <3>1, KeepRow DEF r
  <2>4. CASE RecordUpsert
    <3>1. rows' = [rows EXCEPT ![e] = r]
      BY <2>4 DEF RecordUpsert, RecordChanges, RecordWrites
    <3>2. rec'.pc \in {"queue", "gone", "queueDelete"} => rec'.entry = e /\ rec'.base = r.revision
      BY <2>4 DEF RecordUpsert, RecordChanges, RecordWrites, NoRec
    <3> QED BY <2>2, <2>3, <3>1, <3>2
  <2>5. CASE RecordQueue \/ RecordQueueDelete
    <3>1. PICK c \in Contents : rows' = [rows EXCEPT ![e] = Dirty(r, NewId(e), rec.base, rec.from, c)]
      BY <2>5, PiecesAre DEF RecordQueue, RecordQueueDelete, RecordChanges, RecordWrites, Types,
         RecorderTypes, Recorders
    <3>2. rec.base \in Nat /\ rec.from \in Contents /\ rec.base \in Bases(e)
      BY <2>5 DEF RecordQueue, RecordQueueDelete, Types, RecorderTypes, Recorders, Bases
    <3>3. NewId(e) \in 1..6
      BY <2>1, NewIdIsFresh
    <3>4. rec'.pc \notin {"queue", "gone", "queueDelete"}
      <4>1. CASE RecordQueueDelete
        BY <4>1 DEF RecordQueueDelete, RecordChanges, RecordWrites, NoRec
      <4>2. CASE RecordQueue
        <5>1. rec \in [pc : {"queue", "local"}, entry : Entries, bytes : Contents \ {None},
                       base : Nat, from : Contents]
          BY <4>2 DEF RecordQueue, Types, RecorderTypes, Recorders
        <5> QED BY <4>2, <5>1 DEF RecordQueue, RecordChanges, RecordWrites
      <4> QED BY <2>5, <4>1, <4>2
    <3> DEFINE d == Dirty(r, NewId(e), rec.base, rec.from, c)
    <3>5. d.revision = r.revision /\ d.dirty.id = NewId(e) /\ d.dirty.base = rec.base
      <4> HIDE DEF r, e
      <4>1. /\ d.revision = r.revision
            /\ d.dirty = [id |-> NewId(e), base |-> rec.base, from |-> rec.from, content |-> c,
                          status |-> "pending"]
        BY <2>1, <3>2, <3>3, DirtyIs
      <4> HIDE DEF d
      <4> QED BY <4>1
    <3> HIDE DEF d
    <3> QED BY <2>2, <2>3, <3>1, <3>2, <3>4, <3>5 DEF d
  <2>6. CASE RecordLocal \/ RecordGone
    <3>1. PICK c \in Contents : rows' = [rows EXCEPT ![e] = Local(r, c)]
      BY <2>6, PiecesAre DEF RecordLocal, RecordGone, RecordChanges, RecordWrites, Types,
         RecorderTypes, Recorders
    <3>2. Local(r, c).revision = r.revision /\ Local(r, c).dirty = r.dirty
      <4> HIDE DEF r, e
      <4> QED BY <2>1, WritesAre
    <3>3. rec'.pc \in {"queue", "gone", "queueDelete"} => rec'.entry = e /\ rec'.base \in Bases(e)
      <4>1. CASE RecordLocal
        BY <4>1 DEF RecordLocal, RecordChanges, RecordWrites, NoRec
      <4>2. CASE RecordGone
        <5>1. rec \in [pc : {"gone", "queueDelete"}, entry : Entries, base : Nat, from : Contents]
                /\ rec.pc = "gone"
          BY <4>2 DEF RecordGone, Types, RecorderTypes, Recorders
        <5>2. rec'.entry = rec.entry /\ rec'.base = rec.base
          BY <4>2, <5>1 DEF RecordGone, RecordChanges, RecordWrites
        <5> QED BY <5>1, <5>2 DEF Bases
      <4> QED BY <2>6, <4>1, <4>2
    <3> QED BY <2>2, <2>3, <3>1, <3>2, <3>3
  <2>7. CASE RecordDelete
    <3>1. Clean(r).revision = r.revision /\ Clean(r).dirty = NoMutation /\ NoMutation.id = 0
            /\ NoMutation.base = 0
      BY DEF Clean, NoMutation
    <3>2. rows' = [rows EXCEPT ![e] = r] \/ rows' = [rows EXCEPT ![e] = Clean(r)]
      BY <2>7 DEF RecordDelete, RecordChanges, RecordWrites
    <3>3. rec'.pc \notin {"queue", "gone", "queueDelete"}
      <4>1. rec \in [pc : {"delete", "remote", "forget"}, entry : Entries]
        BY <2>7 DEF RecordDelete, Types, RecorderTypes, Recorders
      <4>2. rec' = NoRec \/ rec' = [rec EXCEPT !.pc = "remote"]
        BY <2>7 DEF RecordDelete, RecordChanges, RecordWrites
      <4> QED BY <4>1, <4>2 DEF NoRec
    <3> QED BY <2>2, <2>3, <3>1, <3>2, <3>3
  <2>8. CASE RecordRemote
    <3>1. rows' = [rows EXCEPT ![e] = r]
      BY <2>8 DEF RecordRemote, RecordChanges, RecordWrites
    <3>2. rec'.pc \in {"queue", "gone", "queueDelete"} => rec'.entry = e /\ rec'.base = r.revision
      <4>1. rec \in [pc : {"delete", "remote", "forget"}, entry : Entries]
        BY <2>8 DEF RecordRemote, Types, RecorderTypes, Recorders
      <4> QED BY <2>8, <4>1 DEF RecordRemote, RecordChanges, RecordWrites
    <3> QED BY <2>2, <2>3, <3>1, <3>2
  <2>9. CASE RecordForget
    <3>1. rows' = [rows EXCEPT ![e] = EmptyRow] /\ rec'.pc = "idle"
      BY <2>9 DEF RecordForget, RecordWrites, NoRec
    <3>2. EmptyRow.revision = 0 /\ EmptyRow.dirty.id = 0 /\ EmptyRow.dirty.base = 0
      BY DEF EmptyRow, NoMutation
    <3> QED BY <2>3, <3>1, <3>2
  <2> QED BY <1>4, <2>4, <2>5, <2>6, <2>7, <2>8, <2>9 DEF Recorder
<1> QED BY <1>3, <1>4

\* A change is taken up for a push as the store has it.
LEMMA KeepPushTurns ==
  ASSUME Types, Types', Keep,
         PushStart \/ PushList \/ PushNothing \/ PushNext \/ PushThrow \/ PushFinish
  PROVE  Keep'
<1> Kept /\ Kept'
  BY KeptAre
<1>1. UNCHANGED <<feed, replay, file, pull, rows, rec>> /\ hist' = hist
  BY DEF PushStart, PushList, PushNothing, PushNext, PushThrow, PushFinish, PushChanges,
     PushWrites, server, vault
<1>2. push.pc # "idle" => push \in Passing
  BY PushIsAlone DEF Pass
<1>3. /\ push'.pc # "idle" =>
           \A e \in Entries :
             \/ push'.batch[e] \in {NoMutation, rows[e].dirty}
             \/ push.pc # "idle" /\ push'.batch[e] = push.batch[e]
      /\ push'.pc # "apply"
      /\ push'.pc = "prepare" => \A e \in Entries : push'.step[e] \in {"none", "todo"}
  <2>1. CASE PushStart
    <3>1. push' = [pc |-> "list", start |-> cursor, accepted |-> {}, stop |-> FALSE,
                   batch |-> [e \in Entries |-> NoMutation], step |-> Nothing,
                   got |-> [e \in Entries |-> NoReply]]
      BY <2>1 DEF PushStart, PushChanges, PushWrites
    <3> QED BY <3>1
  <2>2. CASE PushList
    <3> DEFINE b == [e \in Entries |-> IF Pending(e) THEN rows[e].dirty ELSE NoMutation]
               s == [e \in Entries |-> IF Pending(e) THEN "todo" ELSE "none"]
               g == [e \in Entries |-> NoReply]
    <3>1. push' = [push EXCEPT !.pc = "prepare", !.batch = b, !.step = s, !.got = g]
            /\ push.pc # "idle"
      BY <2>2 DEF PushList, PushChanges, PushWrites
    <3> HIDE DEF b, s, g
    <3>2. push'.pc = "prepare" /\ push'.batch = b /\ push'.step = s
      BY <1>2, <3>1 DEF Passing
    <3> QED BY <3>2 DEF b, s
  <2>3. CASE PushNothing
    <3>1. push'.pc = "list" /\ push'.batch = push.batch /\ push.pc # "idle"
      BY <1>2, <2>3 DEF PushNothing, AllPrepared, PushChanges, PushWrites, Passing
    <3> QED BY <3>1
  <2>4. CASE PushNext
    <3> DEFINE b == [e \in Entries |-> NoMutation]
               g == [e \in Entries |-> NoReply]
    <3>1. push' = [push EXCEPT !.pc = "list", !.step = Nothing, !.batch = b, !.got = g]
            /\ push.pc # "idle"
      BY <2>4 DEF PushNext, PushChanges, PushWrites
    <3> HIDE DEF b, g
    <3>2. push'.pc = "list" /\ push'.batch = b
      BY <1>2, <3>1 DEF Passing
    <3> QED BY <3>2 DEF b
  <2>5. CASE PushThrow \/ PushFinish
    BY <2>5 DEF PushThrow, PushFinish, PushWrites, NoPush
  <2> QED BY <2>1, <2>2, <2>3, <2>4, <2>5
<1>4. BatchHolds'
  BY <1>3 DEF BatchHolds
<1>5. \A e \in Entries : FileHolds(e)' <=> FileHolds(e)
  BY <1>1 DEF FileHolds
<1>6. \A e \in Entries : Brought(e)' = Brought(e)
  BY <1>1 DEF Brought
<1>7. NoMutation.id = 0 /\ NoMutation.base = 0
  BY DEF NoMutation
<1>8. \A e \in Entries : \A n \in Bases(e)' : n = 0 \/ n \in Bases(e)
  BY <1>1, <1>3, <1>7 DEF Bases
<1>9. \A e \in Entries : \A m \in Queue(e)' : m.id = 0 \/ m \in Queue(e)
  BY <1>1, <1>3, <1>7 DEF Queue
<1>10. WrittenHolds'
  BY <1>1, <1>5 DEF Keep, WrittenHolds, StillTo
<1>11. \A e \in New \ hist'.born : Unborn(e)'
  BY <1>1 DEF Keep, NoneBefore, Unborn
<1> QED BY <1>1, <1>4, <1>5, <1>6, <1>8, <1>9, <1>10, <1>11, KeepIf

\* A change that is prepared was read from the file as it is.
LEMMA KeepPrepare ==
  ASSUME Types, Types', Keep, NEW e \in Entries, PushPrepare(e) \/ PushUpload(e)
  PROVE  Keep'
<1> Kept
  BY KeptAre
<1>1. push.pc = "prepare" /\ push \in Passing /\ push.step[e] # "none" /\ push.batch[e] \in Changes
        /\ push.step[e] \in {"todo", "uploading"}
  BY PushIsAlone DEF PushPrepare, PushUpload, Pass, Passing
<1> DEFINE m == push.batch[e]
           r == rows[e]
<1>2. /\ UNCHANGED <<feed, replay, file, pull, rec>> /\ hist'.born = hist.born
  BY DEF PushPrepare, PushUpload, Prepared, SetAside, PushChanges, PushWrites, Types, HistoryTypes,
     server, vault
<1>3. /\ r.revision \in Bases(e) /\ r.dirty.base \in Bases(e) /\ r.dirty \in Queue(e)
      /\ m.base \in Bases(e) /\ m \in Queue(e) /\ rows \in [Entries -> Stored] /\ r \in Stored
  BY <1>1 DEF Bases, Queue, Types, StoreTypes
<1>4. ASSUME NEW s, push' = [push EXCEPT !.step[e] = s] \/ push' = [push EXCEPT !.step[e] = s, !.stop = TRUE],
             s \in {"uploading", "ready"} =>
               \/ m.content = None
               \/ push.step[e] = "uploading"
               \/ m.content = file[e],
             \A f \in Entries \ {e} : rows'[f] = rows[f],
             rows'[e].revision \in Bases(e), rows'[e].dirty.base \in Bases(e) \union {0},
             \/ rows'[e].dirty.id \in {0, NewId(e)}
             \/ \E k \in Queue(e) : k.id = rows'[e].dirty.id /\ k.content = rows'[e].dirty.content
      PROVE  Keep'
  <2>1. /\ push'.pc = "prepare" /\ push'.batch = push.batch /\ push'.step[e] = s
        /\ \A f \in Entries \ {e} : push'.step[f] = push.step[f]
    BY <1>1, <1>4 DEF Passing
  <2>2. ASSUME NEW f \in Entries, push'.step[f] \in {"uploading", "ready"}, push.batch[f].content # None
        PROVE  /\ f \notin New \ hist.born
               /\ file[f] = None \/ push.batch[f].content \subseteq file[f]
               /\ push.batch[f].base = feed[f].revision =>
                    Pieces(feed[f].blob) \subseteq push.batch[f].content
    <3>1. CASE push.step[f] \in {"uploading", "ready"}
      BY <1>1, <2>2, <3>1 DEF Keep, BatchHolds
    <3>2. CASE f = e /\ m.content = file[e]
      <4>1. e \notin New \ hist.born
        BY <2>2, <3>2 DEF Keep, NoneBefore, Unborn
      <4>2. m.base = feed[e].revision => FileHolds(e)
        BY <1>3 DEF Keep, BasesAreSound, Sound
      <4> QED BY <2>2, <3>2, <4>1, <4>2 DEF FileHolds
    <3> QED BY <1>1, <1>4, <2>1, <2>2, <3>1, <3>2
  <2>3. BatchHolds'
    BY <1>2, <2>1, <2>2 DEF BatchHolds
  <2> QED BY <1>1, <1>2, <1>4, <2>1, <2>3, KeepRow
<1>5. ASSUME NEW s, NEW new, Prepared(e, s, new),
             s \in {"uploading", "ready"} =>
               \/ m.content = None
               \/ push.step[e] = "uploading"
               \/ m.content = file[e],
             new.revision = r.revision, new.dirty.base \in Bases(e) \union {0},
             new.dirty.id \in {0, NewId(e)} \/ new.dirty = r.dirty
      PROVE  Keep'
  <2>1. push' = [push EXCEPT !.step[e] = s] /\ rows' = [rows EXCEPT ![e] = new]
    BY <1>5 DEF Prepared, PushChanges, PushWrites
  <2>2. rows'[e] = new /\ \A f \in Entries \ {e} : rows'[f] = rows[f]
    BY <1>3, <2>1
  <2>3. \/ rows'[e].dirty.id \in {0, NewId(e)}
        \/ \E k \in Queue(e) : k.id = rows'[e].dirty.id /\ k.content = rows'[e].dirty.content
    BY <1>3, <1>5, <2>2
  <2> HIDE DEF m, r
  <2> QED BY <1>3, <1>4, <1>5, <2>1, <2>2, <2>3
<1>6. ASSUME NEW why \in Statuses \ {"none"}, SetAside(e, why) PROVE Keep'
  <2>1. push' = [push EXCEPT !.step[e] = "none"]
          /\ rows' = [rows EXCEPT ![e].dirty = Blocked(push.batch[e], why)]
    BY <1>6 DEF SetAside, PushWrites
  <2>2. /\ \A f \in Entries \ {e} : rows'[f] = rows[f]
        /\ rows'[e].revision = r.revision /\ rows'[e].dirty.base = m.base
        /\ rows'[e].dirty.id = m.id /\ rows'[e].dirty.content = m.content
    BY <1>1, <2>1, SetAsideIs
  <2> HIDE DEF m, r
  <2> QED BY <1>3, <1>4, <2>1, <2>2
<1>7. CASE PushPrepare(e)
  <2>1. "stale_unresolved" \in Statuses \ {"none"}
    BY DEF Statuses
  <2>2. /\ ClearById(r, m.id).revision = r.revision
        /\ ClearById(r, m.id).dirty = r.dirty \/ (/\ ClearById(r, m.id).dirty.id = 0
                                                  /\ ClearById(r, m.id).dirty.base = 0)
    BY <1>3 DEF ClearById, Clean, NoMutation, Stored
  <2>3. /\ Requeued(e, m).revision = r.revision /\ Requeued(e, m).dirty.id = NewId(e)
        /\ Requeued(e, m).dirty.base \in {r.revision, m.base}
    BY <1>1, RequeuedIs
  <2>4. \/ SetAside(e, "stale_unresolved")
        \/ m.content = None /\ Prepared(e, "ready", r)
        \/ Prepared(e, "none", ClearById(r, m.id))
        \/ Prepared(e, "none", Requeued(e, m))
        \/ m.content = file[e] /\ Prepared(e, "uploading", r)
    BY <1>7 DEF PushPrepare
  <2> HIDE DEF m, r
  <2> QED BY <1>3, <1>5, <1>6, <2>1, <2>2, <2>3, <2>4
<1>8. CASE PushUpload(e)
  <2>1. "prepare_failed" \in Statuses \ {"none"} /\ push.step[e] = "uploading"
    BY <1>8 DEF Statuses, PushUpload
  <2>2. \/ SetAside(e, "prepare_failed")
        \/ Prepared(e, "ready", r)
        \/ PushWrites([push EXCEPT !.step[e] = "none", !.stop = TRUE], rows)
    BY <1>8 DEF PushUpload
  <2>3. CASE PushWrites([push EXCEPT !.step[e] = "none", !.stop = TRUE], rows)
    <3>1. push' = [push EXCEPT !.step[e] = "none", !.stop = TRUE] /\ rows' = rows
      BY <2>3 DEF PushWrites
    <3> QED BY <1>3, <1>4, <3>1
  <2> HIDE DEF m, r
  <2> QED BY <1>3, <1>5, <1>6, <2>1, <2>2, <2>3
<1> QED BY <1>7, <1>8

\* What the server takes is in the file it was read from, or the file is gone.
LEMMA KeepPushCommit ==
  ASSUME Types, Types', NoGap, Keep, PushCommit
  PROVE  Keep'
<1> Kept
  BY KeptAre
<1>1. push.pc = "prepare" /\ push \in Passing /\ Pass(push) /\ pull.pc = "idle"
  BY PushIsAlone DEF PushCommit, AllPrepared, Pass
<1>2. UNCHANGED <<file, rec, rows, pull>> /\ hist'.born = hist.born
  BY DEF PushCommit, Types, HistoryTypes, vault
<1> DEFINE s == [e \in Entries |-> IF e \notin Ready THEN "none"
                   ELSE IF e \in Taken \/ Repeated(e) THEN "accepted" ELSE "stale"]
           g == [e \in Entries |-> IF e \in Ready
                  THEN [revision |-> feed'[e].revision, seq |-> feed'[e].seq] ELSE NoReply]
<1>3. push' = [push EXCEPT !.pc = "apply", !.step = s, !.got = g]
  BY DEF PushCommit
<1>4. /\ push'.pc = "apply" /\ push'.batch = push.batch /\ push'.step = s
  <2> HIDE DEF s, g
  <2> QED BY <1>1, <1>3 DEF Passing
<1>5. replay' = [e \in Entries |-> IF e \in Taken THEN push.batch[e].id ELSE replay[e]]
  BY DEF PushCommit
<1>6. ASSUME NEW e \in Entries, e \in Ready
      PROVE  /\ push.batch[e] \in Queue(e) /\ push.batch[e].id # 0 /\ push.batch[e].content \in Contents
             /\ push.batch[e].content # None =>
                  /\ e \notin New \ hist.born
                  /\ file[e] = None \/ push.batch[e].content \subseteq file[e]
  <2>1. push.step[e] = "ready"
    BY <1>6 DEF Ready
  <2>2. push.batch[e] \in Changes /\ push.batch[e].id # 0
    BY <1>1, <2>1 DEF Pass, Passing
  <2> QED BY <1>1, <2>1, <2>2, ChangesAre DEF Queue, Keep, BatchHolds
<1>7. ASSUME NEW e \in Taken
      PROVE  /\ e \in Entries /\ e \in Ready /\ Moved(e) /\ feed'[e].blob = push.batch[e].content
  <2>1. e \in Entries /\ e \in Ready
    BY DEF Taken, Ready
  <2>2. /\ feed'[e] = Accept(e, push.batch[e].content, feed'[e].seq)
        /\ head < feed'[e].seq /\ feed'[e].seq <= head'
    BY CommitIs
  <2> QED BY <2>1, <2>2 DEF Accept, Moved
<1>8. \A e \in Entries \ Taken : feed'[e] = feed[e] /\ replay'[e] = replay[e]
  BY <1>5, CommitIs
<1>9. \A e \in Entries : Moved(e) => e \in Taken
  BY <1>8 DEF Moved, Kept
<1>10. ASSUME NEW e \in Entries, Moved(e), NEW k \in Queue(e), k.id # 0, k.id = replay'[e]
       PROVE  k.content = feed'[e].blob
  <2>1. e \in Taken /\ e \in Ready /\ feed'[e].blob = push.batch[e].content
    BY <1>7, <1>9, <1>10
  <2>2. k.id = push.batch[e].id /\ push.batch[e] \in Queue(e)
    BY <1>5, <1>6, <1>10, <2>1
  <2> QED BY <1>10, <2>1, <2>2 DEF Keep, IdsAgree, OneContent
<1>11. ASSUME NEW e \in Entries, push'.step[e] = "accepted" PROVE FileHolds(e)'
  <2>1. e \in Ready /\ (e \in Taken \/ Repeated(e))
    BY <1>4, <1>11
  <2>2. feed'[e].blob = push.batch[e].content
    <3>1. CASE e \in Taken
      BY <1>7, <3>1
    <3>2. CASE e \notin Taken
      <4>1. replay[e] = push.batch[e].id /\ feed'[e] = feed[e]
        BY <1>8, <2>1, <3>2 DEF Repeated
      <4> QED BY <1>6, <2>1, <4>1 DEF Keep, IdsAgree, OneContent
    <3> QED BY <3>1, <3>2
  <2>3. CASE push.batch[e].content = None
    BY <2>2, <2>3, PiecesAre DEF FileHolds
  <2>4. CASE push.batch[e].content # None
    BY <1>2, <1>6, <2>1, <2>2, <2>4, PiecesAre DEF FileHolds
  <2> QED BY <2>3, <2>4
<1>12. BatchHolds'
  BY <1>4, <1>11 DEF BatchHolds
<1>13. \A e \in Entries : \/ feed'[e] = feed[e] /\ replay'[e] = replay[e]
                          \/ Moved(e) /\ (e \in New \ hist.born => feed'[e].blob = None)
  <2>1. ASSUME NEW e \in Taken, e \in New \ hist.born PROVE feed'[e].blob = None
    BY <1>6, <1>7, <2>1
  <2> QED BY <1>7, <1>8, <2>1
<1> HIDE DEF s
<1> QED BY <1>1, <1>2, <1>4, <1>10, <1>12, <1>13, KeepMoves

\* What was accepted is in the file as long as the server has nothing newer.
LEMMA KeepPushApply ==
  ASSUME Types, Types', NoGap, Keep, PushApply
  PROVE  Keep'
<1> Kept /\ Kept'
  BY KeptAre
<1> DEFINE done == {e \in Entries : push.step[e] = "accepted"}
<1>1. push.pc = "apply" /\ push \in Passing /\ pull.pc = "idle"
  BY PushIsAlone DEF PushApply, Pass
<1>2. UNCHANGED <<feed, replay, file, rec, pull>> /\ hist' = hist
  BY DEF PushApply, PushChanges, PushWrites, server, vault
<1>3. rows' = [e \in Entries |-> IF e \in done THEN AcceptedRow(e) ELSE rows[e]]
  BY DEF PushApply, PushChanges, PushWrites
<1>4. push'.batch = push.batch /\ push'.pc = "reject" /\ push'.got = push.got
  <2> DEFINE a == push.accepted \union {push.got[e].seq : e \in done}
             s == [e \in Entries |-> IF e \in done THEN "none" ELSE push.step[e]]
  <2>1. push' = [push EXCEPT !.pc = "reject", !.step = s, !.accepted = a]
    BY DEF PushApply, PushChanges, PushWrites
  <2> HIDE DEF a, s
  <2> QED BY <1>1, <2>1 DEF Passing
<1>5. ASSUME NEW e \in done
      PROVE  /\ push.got[e].revision <= feed[e].revision
             /\ push.got[e].revision = feed[e].revision => FileHolds(e)
  <2>1. ToldTruly(e)
    BY <1>1 DEF NoGap, AcceptedIsKnown
  <2>2. push.got[e].revision \in Nat
    BY <1>1 DEF Passing
  <2> QED BY <1>1, <2>1, <2>2 DEF ToldTruly, Keep, BatchHolds, Kept
<1>6. \A e \in Entries : FileHolds(e)' <=> FileHolds(e)
  BY <1>2 DEF FileHolds
<1>7. \A e \in Entries : Brought(e)' = {} /\ Brought(e) = {}
  BY <1>1, <1>2 DEF Brought
<1>8. ASSUME NEW e \in done, NEW n, n = push.got[e].revision PROVE Sound(e, n)'
  <2>1. Brought(e)' = {} /\ feed'[e] = feed[e]
    BY <1>2, <1>7
  <2>2. n <= feed[e].revision /\ (n = feed[e].revision => FileHolds(e)')
    BY <1>5, <1>6, <1>8
  <2> QED BY <2>1, <2>2 DEF Sound
<1>9. NoMutation.id = 0 /\ NoMutation.base = 0
  BY DEF NoMutation
<1>10. ASSUME NEW e \in Entries
       PROVE  /\ \/ rows'[e] = rows[e]
                 \/ /\ e \in done /\ rows'[e].revision = push.got[e].revision
                    /\ \/ rows'[e].dirty = NoMutation
                       \/ /\ rows'[e].dirty.id = rows[e].dirty.id
                          /\ rows'[e].dirty.content = rows[e].dirty.content
                          /\ rows'[e].dirty.base = push.got[e].revision
  BY <1>1, <1>3, AcceptedRowIs
<1> HIDE DEF done
<1>11. ASSUME NEW e \in Entries, NEW n \in Bases(e)'
       PROVE  n = 0 \/ n \in Bases(e) \/ Sound(e, n)'
  <2>1. n \in {rows'[e].revision, rows'[e].dirty.base} \/ n \in Bases(e)
    BY <1>1, <1>2, <1>4, <1>11 DEF Bases
  <2>2. rows[e].revision \in Bases(e) /\ rows[e].dirty.base \in Bases(e)
    BY DEF Bases
  <2>3. CASE n \in {rows'[e].revision, rows'[e].dirty.base}
    BY <1>8, <1>9, <1>10, <2>2, <2>3
  <2> QED BY <2>1, <2>3
<1>12. ASSUME NEW e \in Entries, NEW m \in Queue(e)'
       PROVE  m.id = 0 \/ \E k \in Queue(e) : k.id = m.id /\ k.content = m.content
  <2>1. m = rows'[e].dirty \/ m \in Queue(e)
    BY <1>1, <1>2, <1>4 DEF Queue
  <2>2. rows[e].dirty \in Queue(e)
    BY DEF Queue
  <2> QED BY <1>9, <1>10, <2>1, <2>2
<1>13. BatchHolds'
  BY <1>4 DEF BatchHolds
<1>14. WrittenHolds' /\ \A e \in New \ hist'.born : Unborn(e)'
  BY <1>1, <1>2 DEF WrittenHolds, Keep, NoneBefore, Unborn
<1> QED BY <1>2, <1>6, <1>7, <1>11, <1>12, <1>13, <1>14, KeepIf

\* A change that is refused stays as it was queued; the pull it may start brings
\* what the server has.
LEMMA KeepPushReject ==
  ASSUME Types, Types', NoGap, Keep, NEW e \in Entries, PushReject(e) \/ PushRecovered(e)
  PROVE  Keep'
<1> Kept /\ Kept'
  BY KeptAre
<1>1. /\ push.pc # "idle" /\ push.step[e] # "none" /\ pull.pc = "idle" /\ push \in Passing
      /\ UNCHANGED <<feed, replay, file, rec>> /\ hist' = hist
  BY PushIsAlone DEF PushReject, PushRecovered, Pass, server, vault
<1>2. rows' = rows \/ Park(e)
  BY RejectIs DEF PushRecovered
<1>3. push'.batch = push.batch /\ push'.pc \in {"reject", "recover"}
  <2>1. CASE PushReject(e)
    BY <2>1, RejectIs
  <2>2. CASE Park(e)
    BY <1>1, <2>2, ParkIs
  <2>3. CASE PushRecovered(e) /\ ~Park(e)
    BY <1>1, <2>3 DEF PushRecovered, Passing
  <2> QED BY <2>1, <2>2, <2>3
<1>4. BatchHolds'
  BY <1>3 DEF BatchHolds
<1>5. /\ \A f \in Entries \ {e} : rows'[f] = rows[f]
      /\ rows'[e].revision = rows[e].revision /\ rows'[e].dirty.base = rows[e].dirty.base
      /\ rows'[e].dirty.id = rows[e].dirty.id /\ rows'[e].dirty.content = rows[e].dirty.content
  BY <1>1, <1>2, ParkIs
<1>6. rows[e].revision \in Bases(e) /\ rows[e].dirty.base \in Bases(e) /\ rows[e].dirty \in Queue(e)
  BY DEF Bases, Queue
<1>7. CASE pull' = pull
  BY <1>1, <1>3, <1>4, <1>5, <1>6, <1>7, KeepRow
<1>8. CASE pull' # pull
  <2>1. /\ rows' = rows
        /\ pull' = [pc |-> "prepare", byId |-> TRUE, since |-> cursor, target |-> cursor,
                    after |-> cursor, final |-> TRUE, window |-> {Item(e)}]
    BY <1>8, RejectIs DEF PushRecovered
  <2>2. pull'.pc = "prepare" /\ pull'.window = {Item(e)}
    BY <2>1
  <2>3. Item(e).entry = e /\ Item(e).revision = feed[e].revision /\ Item(e).blob = feed[e].blob
    BY ItemIs
  <2>4. \A f \in Entries : FileHolds(f)' <=> FileHolds(f)
    BY <1>1 DEF FileHolds
  <2>5. \A f \in Entries : \A r \in Brought(f)' : r = feed[f].revision
    BY <2>2, <2>3 DEF Brought
  <2>6. \A f \in Entries : Bases(f)' \subseteq Bases(f) /\ Queue(f)' \subseteq Queue(f)
    BY <1>1, <1>3, <2>1, <2>2 DEF Bases, Queue
  <2>7. WrittenHolds'
    BY <2>2 DEF WrittenHolds
  <2>8. \A f \in New \ hist'.born : Unborn(f)'
    BY <1>1, <2>2, <2>3 DEF Keep, NoneBefore, Unborn
  <2> QED BY <1>1, <1>4, <2>4, <2>5, <2>6, <2>7, <2>8, KeepIf
<1> QED BY <1>7, <1>8

\* A page brings what the server has.
LEMMA KeepPullRead ==
  ASSUME Types, Types', NoGap, Keep, PullStart \/ PullPage
  PROVE  Keep'
<1> Kept /\ Kept'
  BY KeptAre
<1>1. UNCHANGED <<feed, replay, file, rows, rec, push, hist>>
  BY DEF PullStart, PullPage, PullChanges, server, vault
<1>2. PICK p \in Reading :
        /\ pull' = PageRead(p)
        /\ pull.pc \in {"idle", "fetch"}
        /\ \A i \in p.window : pull.pc = "fetch" /\ i \in pull.window
  <2>1. CASE PullStart
    <3> DEFINE p == [pc |-> "fetch", byId |-> FALSE, since |-> cursor, target |-> head,
                     after |-> cursor, final |-> FALSE, window |-> {}]
    <3>1. cursor \in Nat /\ head \in Nat
      BY DEF Types, ServerTypes, StoreTypes
    <3>2. p \in Reading /\ p.window = {}
      BY <3>1 DEF Reading
    <3>3. pull' = PageRead(p) /\ pull.pc = "idle"
      BY <2>1 DEF PullStart, PullChanges
    <3> HIDE DEF p
    <3> QED BY <3>2, <3>3
  <2>2. CASE PullPage
    <3>1. pull \in Reading /\ pull.pc = "fetch" /\ pull' = PageRead(pull)
      BY <2>2, PushIsAlone DEF PullPage, PullChanges
    <3> QED BY <3>1
  <2> QED BY <2>1, <2>2
<1>3. /\ pull' \in Reading
      /\ \/ pull'.window = p.window
         \/ \E e \in Entries : pull'.window = p.window \union {Item(e)}
  BY <1>2, PageIs
<1>4. pull'.pc \in {"fetch", "prepare"}
  BY <1>3 DEF Reading
<1>5. \A i \in pull'.window : \/ pull.pc = "fetch" /\ i \in pull.window
                              \/ i.revision = feed[i.entry].revision /\ i.blob = feed[i.entry].blob
  BY <1>2, <1>3, ItemIs
<1>6. \A e \in Entries : FileHolds(e)' <=> FileHolds(e)
  BY <1>1 DEF FileHolds
<1>7. ASSUME NEW e \in Entries, NEW r \in Brought(e)' PROVE r \in Brought(e) \/ r = feed[e].revision
  <2>1. PICK i \in pull'.window : i.entry = e /\ r = i.revision
    BY <1>4, <1>7 DEF Brought
  <2>2. CASE pull.pc = "fetch" /\ i \in pull.window
    BY <2>1, <2>2 DEF Brought
  <2> QED BY <1>5, <2>1, <2>2
<1>8. \A e \in Entries : Bases(e)' \subseteq Bases(e) /\ Queue(e)' \subseteq Queue(e)
  BY <1>1, <1>4 DEF Bases, Queue
<1>9. WrittenHolds'
  BY <1>4 DEF WrittenHolds
<1>10. BatchHolds'
  BY <1>1, BatchStill
<1>11. \A e \in New \ hist'.born : Unborn(e)'
  BY <1>1, <1>4, <1>5 DEF Keep, NoneBefore, Unborn
<1> QED BY <1>1, <1>6, <1>7, <1>8, <1>9, <1>10, <1>11, KeepIf

\* A plan is skipped only where the row has what it brings.
LEMMA KeepPullPrepare ==
  ASSUME Types, Types', NoGap, Keep, PullPrepare
  PROVE  Keep'
<1> Kept /\ Kept'
  BY KeptAre
<1>1. UNCHANGED <<feed, replay, file, rows, rec, push>> /\ hist'.born = hist.born /\ pull.pc = "prepare"
  BY DEF PullPrepare, Types, HistoryTypes, server, vault
<1>2. PICK kind \in [pull.window -> {"skip", "plain", "conflict", "merge"}] :
        /\ \A i \in pull.window : kind[i] \in Kinds(rows[i.entry], i.entry, i)
        /\ pull' \in Applying /\ pull'.plan = PlanOf(kind) /\ pull'.snap = rows
        /\ \A j \in 1..5 : \A e \in Concerned(j, pull'.plan) : Ahead(pull', j, e)
  BY PreparedIs
<1>3. pull'.pc = "apply"
  BY <1>2 DEF Applying
<1>4. ASSUME NEW e \in Entries, pull'.plan[e].kind # "out"
      PROVE  \E i \in pull.window :
               /\ i.entry = e /\ pull'.plan[e].kind = kind[i] /\ pull'.plan[e].revision = i.revision
               /\ pull'.plan[e].blob = i.blob /\ kind[i] \in Kinds(rows[e], e, i)
  <2>1. PICK i \in pull.window : /\ i.entry = e /\ pull'.plan[e].kind = kind[i]
                                 /\ pull'.plan[e].revision = i.revision
                                 /\ pull'.plan[e].blob = i.blob
    BY <1>1, <1>2, <1>4, PlanOfIs
  <2> QED BY <1>2, <2>1
<1>5. \A e \in Entries : FileHolds(e)' <=> FileHolds(e)
  BY <1>1 DEF FileHolds
<1>6. \A e \in Entries : Brought(e)' \subseteq Brought(e)
  BY <1>1, <1>3, <1>4 DEF Brought
<1>7. \A e \in Entries : Bases(e)' \subseteq Bases(e) /\ Queue(e)' \subseteq Queue(e)
  BY <1>1, <1>2, <1>3 DEF Bases, Queue
<1>8. ASSUME NEW e \in Entries, pull'.plan[e].kind = "skip"
      PROVE  pull'.plan[e].revision = rows[e].revision
  <2>1. PICK i \in pull.window : pull'.plan[e].revision = i.revision /\ "skip" \in Kinds(rows[e], e, i)
    BY <1>4, <1>8
  <2>2. AlreadyApplied(rows[e], i)
    BY <2>1 DEF Kinds
  <2> QED BY <2>1, <2>2 DEF AlreadyApplied
<1>9. ASSUME NEW e \in Entries, pull'.plan[e].kind # "out", ~StillTo(2, e)'
      PROVE  pull'.plan[e].kind = "skip"
  <2>1. ~Ahead(pull', 2, e)
    BY <1>9 DEF StillTo, Ahead
  <2>2. e \notin Concerned(2, pull'.plan)
    BY <1>2, <2>1
  <2> QED BY <1>9, <2>2 DEF Concerned
<1>10. WrittenHolds'
  <2> SUFFICES ASSUME NEW e \in Entries
               PROVE  /\ /\ pull'.plan[e].kind # "out" /\ ~StillTo(2, e)'
                         /\ pull'.plan[e].revision = feed'[e].revision
                         => FileHolds(e)'
                      /\ pull'.plan[e].kind = "skip" =>
                           pull'.plan[e].revision = pull'.snap[e].revision
    BY DEF WrittenHolds
  <2>1. rows[e].revision \in Bases(e)
    BY DEF Bases
  <2>2. rows[e].revision = feed[e].revision => FileHolds(e)
    BY <2>1 DEF Keep, BasesAreSound, Sound
  <2> QED BY <1>1, <1>2, <1>5, <1>8, <1>9, <2>2
<1>11. BatchHolds'
  BY <1>1, BatchStill
<1>12. ASSUME NEW e \in New \ hist'.born PROVE Unborn(e)'
  <2>1. e \in Entries /\ Unborn(e)
    BY <1>1, <1>12, DeviceSets DEF Keep, NoneBefore
  <2>2. pull'.plan[e].blob = None /\ pull'.plan[e].kind # "merge"
    <3>1. CASE pull'.plan[e].kind = "out"
      <4>1. pull'.plan[e] = NoPlan
        BY <1>1, <1>2, <2>1, <3>1, PlanOfIs
      <4> QED BY <4>1 DEF NoPlan
    <3>2. CASE pull'.plan[e].kind # "out"
      <4>1. PICK i \in pull.window : /\ i.entry = e /\ pull'.plan[e].kind = kind[i]
                                     /\ pull'.plan[e].blob = i.blob
                                     /\ kind[i] \in Kinds(rows[e], e, i)
        BY <1>4, <2>1, <3>2
      <4>2. i.blob = None
        BY <1>1, <2>1, <4>1 DEF Unborn
      <4>3. ~Mergeable(rows[e], e, i)
        BY <4>2 DEF Mergeable
      <4>4. "merge" \notin Kinds(rows[e], e, i)
        BY <4>3 DEF Kinds
      <4> QED BY <4>1, <4>2, <4>4
    <3> QED BY <3>1, <3>2
  <2> QED BY <1>1, <1>3, <2>1, <2>2 DEF Unborn
<1> QED BY <1>1, <1>5, <1>6, <1>7, <1>10, <1>11, <1>12, KeepIf

\* What a step of a window makes of the file, and of the change of its entry.
LEMMA PullStepWrites ==
  ASSUME Types, NEW e \in Entries,
         PullConflict(e) \/ PullWrite(e) \/ PullRow(e) \/ PullMerge(e) \/ PullQueue(e)
  PROVE  /\ At(pull.stage, e) /\ pull.stage \in 1..5
         /\ UNCHANGED <<feed, replay, rec, push>> /\ hist'.born = hist.born
         /\ \A f \in Entries \ {e} : file'[f] = file[f]
         /\ \/ pull.stage = 2 /\ file'[e] = pull.plan[e].blob
            \/ pull.stage = 4 /\ file'[e] = Merged(e)
            \/ pull.stage \notin {2, 4} /\ file'[e] = file[e]
         /\ \/ rows'[e].dirty \in {rows[e].dirty, NoMutation}
            \/ /\ pull.stage = 5 /\ rows'[e].dirty.id = NewId(e)
               /\ rows'[e].dirty.base = pull.plan[e].revision
<1>1. rows \in [Entries -> Stored] /\ rows[e] \in Stored /\ file \in [Entries -> Contents]
  BY DEF Types, StoreTypes, VaultTypes
<1>2. /\ UNCHANGED <<feed, replay, rec, push>> /\ hist'.born = hist.born
      /\ \A f \in Entries \ {e} : file'[f] = file[f]
  BY <1>1 DEF PullConflict, PullWrite, PullRow, PullMerge, PullQueue, Written, server, vault, Types,
     HistoryTypes
<1>3. CASE PullConflict(e)
  <2> DEFINE old == pull.snap[e]
             c == IF old.known THEN old.local ELSE old.remote
             d == [EmptyRow EXCEPT !.revision = old.revision, !.remote = c, !.known = TRUE]
             r == IF pull.plan[e].kind = "conflict" THEN ClearById(rows[e], pull.plan[e].id) ELSE rows[e]
  <2>1. /\ At(1, e) /\ rows' = [rows EXCEPT ![e] = IF pull.plan[e].leaves THEN d ELSE r]
        /\ file' = file
    BY <1>3 DEF PullConflict
  <2>2. r.dirty \in {rows[e].dirty, NoMutation}
    BY <1>1 DEF ClearById, Clean, Stored
  <2>3. d.dirty = NoMutation
    BY DEF EmptyRow
  <2> HIDE DEF r, d
  <2>4. rows'[e].dirty \in {rows[e].dirty, NoMutation}
    BY <1>1, <2>1, <2>2, <2>3
  <2> QED BY <1>2, <2>1, <2>4 DEF At
<1>4. CASE PullRow(e)
  <2>1. At(3, e) /\ rows'[e] = Upserted(pull.plan[e].revision, pull.plan[e].blob) /\ file' = file
    BY <1>1, <1>4 DEF PullRow, vault
  <2>2. rows'[e].dirty = NoMutation
    BY <2>1 DEF Upserted, EmptyRow
  <2> QED BY <1>2, <2>1, <2>2 DEF At
<1>5. CASE PullWrite(e)
  BY <1>1, <1>2, <1>5 DEF PullWrite, Written, At
<1>6. CASE PullMerge(e)
  BY <1>1, <1>2, <1>6 DEF PullMerge, Written, At
<1>7. CASE PullQueue(e)
  <2> DEFINE d == Dirty(rows[e], NewId(e), pull.plan[e].revision, pull.plan[e].blob, Merged(e))
  <2>1. At(5, e) /\ rows' = [rows EXCEPT ![e] = Local(d, Merged(e))] /\ file' = file
    BY <1>1, <1>7 DEF PullQueue, vault
  <2>2. d.dirty.id = NewId(e) /\ d.dirty.base = pull.plan[e].revision
    BY <1>1 DEF Dirty, Stored
  <2> HIDE DEF d
  <2>3. Local(d, Merged(e)).dirty = d.dirty
    BY DEF Local
  <2>4. rows'[e].dirty = d.dirty
    BY <1>1, <2>1, <2>3
  <2> QED BY <1>2, <2>1, <2>2, <2>4 DEF At
<1> QED BY <1>3, <1>4, <1>5, <1>6, <1>7

\* A pull writes over a file what the server has, or all of it merged.
LEMMA KeepPullStep ==
  ASSUME Types, Types', NoGap, Keep, NEW e \in Entries,
         PullConflict(e) \/ PullWrite(e) \/ PullRow(e) \/ PullMerge(e) \/ PullQueue(e)
  PROVE  Keep'
<1> Kept /\ Kept'
  BY KeptAre
<1> DEFINE p == pull.plan[e]
<1>1. /\ pull.pc = "apply" /\ pull' = Done(e) /\ p.kind # "out"
      /\ \A f \in Entries \ {e} : rows'[f] = rows[f]
      /\ IF pull.stage = 3 THEN rows'[e] = Upserted(p.revision, p.blob)
         ELSE rows'[e].revision \in {rows[e].revision, pull.snap[e].revision}
  BY PullStepIs DEF At
<1>2. /\ At(pull.stage, e) /\ pull.stage \in 1..5
      /\ UNCHANGED <<feed, replay, rec, push>> /\ hist'.born = hist.born
      /\ \A f \in Entries \ {e} : file'[f] = file[f]
      /\ \/ pull.stage = 2 /\ file'[e] = p.blob
         \/ pull.stage = 4 /\ file'[e] = Merged(e)
         \/ pull.stage \notin {2, 4} /\ file'[e] = file[e]
      /\ \/ rows'[e].dirty \in {rows[e].dirty, NoMutation}
         \/ /\ pull.stage = 5 /\ rows'[e].dirty.id = NewId(e)
            /\ rows'[e].dirty.base = p.revision
  BY PullStepWrites
<1>3. /\ pull'.pc = "apply" /\ pull'.plan = pull.plan /\ pull'.snap = pull.snap
      /\ \A f \in Concerned(2, pull.plan) :
           Ahead(pull', 2, f) <=> Ahead(pull, 2, f) /\ ~(pull.stage = 2 /\ f = e)
  <2>1. /\ pull' \in Applying /\ pull'.plan = pull.plan /\ pull'.snap = pull.snap
        /\ \A j \in 1..5 : \A f \in Concerned(j, pull'.plan) :
             Ahead(pull', j, f) <=> Ahead(pull, j, f) /\ ~(j = pull.stage /\ f = e)
    BY <1>1, <1>2, DoneIs
  <2> QED BY <2>1 DEF Applying
<1>4. /\ push'.pc \notin {"prepare", "apply"}
      /\ pull.stage \in {4, 5} => p.kind = "merge"
      /\ pull.stage = 2 => p.kind # "skip"
  BY <1>1, <1>2 DEF Types, PullTypes, At, Concerned
<1>5. /\ p.revision <= feed[e].revision /\ Brought(e) = {p.revision} /\ p.revision \in Nat
      /\ p.revision = feed[e].revision => p.blob = feed[e].blob
  <2>1. PlanTrue(e)
    BY <1>1 DEF NoGap, PlanIsTrue
  <2> QED BY <1>1, <2>1, NumbersAre DEF PlanTrue, Known, Brought, Numbers
<1>6. \A f \in Entries : Brought(f)' = Brought(f)
  BY <1>1, <1>3 DEF Brought
<1>7. p.revision = feed[e].revision /\ pull.stage \in {2, 4} => FileHolds(e)'
  BY <1>2, <1>5, PiecesAre DEF FileHolds, Merged, Pieces
<1>8. \A f \in Entries : FileHolds(f) => FileHolds(f)' \/ (f = e /\ pull.stage \in {2, 4})
  BY <1>2 DEF FileHolds
<1>9. ASSUME NEW f \in Entries, feed[f].revision \in Bases(f), FileHolds(f) PROVE FileHolds(f)'
  <2>1. CASE f = e /\ pull.stage \in {2, 4}
    <3>1. feed[e].revision <= p.revision
      BY <1>5, <1>9, <2>1 DEF Keep, BasesAreSound, Sound
    <3> QED BY <1>5, <1>7, <2>1, <3>1 DEF Kept
  <2> QED BY <1>8, <1>9, <2>1
<1>10. ASSUME NEW f \in Entries, pull.plan[f].kind = "skip", pull.plan[f].revision = feed[f].revision
       PROVE  FileHolds(f)
  <2>1. pull.snap[f].revision = feed[f].revision
    BY <1>1, <1>10 DEF Keep, WrittenHolds
  <2>2. pull.snap[f].revision \in Bases(f)
    BY <1>1 DEF Bases
  <2> QED BY <2>1, <2>2 DEF Keep, BasesAreSound, Sound
<1>11. WrittenHolds'
  <2>1. ASSUME NEW f \in Entries, pull.plan[f].kind # "out", ~StillTo(2, f)',
               pull.plan[f].revision = feed[f].revision
        PROVE  FileHolds(f)'
    <3>1. CASE f = e /\ pull.stage \in {2, 4}
      BY <1>7, <2>1, <3>1
    <3>2. CASE pull.plan[f].kind = "skip" /\ ~(f = e /\ pull.stage \in {2, 4})
      BY <1>8, <1>10, <2>1, <3>2
    <3>3. CASE pull.plan[f].kind # "skip" /\ ~(f = e /\ pull.stage \in {2, 4})
      <4>1. f \in Concerned(2, pull.plan)
        BY <2>1, <3>3 DEF Concerned
      <4>2. ~Ahead(pull', 2, f)
        BY <2>1 DEF StillTo, Ahead
      <4>3. ~StillTo(2, f)
        BY <1>3, <3>3, <4>1, <4>2 DEF StillTo, Ahead
      <4>4. FileHolds(f)
        BY <1>1, <2>1, <4>3 DEF Keep, WrittenHolds
      <4> QED BY <1>8, <3>3, <4>4
    <3> QED BY <3>1, <3>2, <3>3
  <2>2. \A f \in Entries : pull.plan[f].kind = "skip" =>
                             pull.plan[f].revision = pull.snap[f].revision
    BY <1>1 DEF Keep, WrittenHolds
  <2> QED BY <1>2, <1>3, <2>1, <2>2 DEF WrittenHolds
<1>12. BatchHolds'
  BY <1>4 DEF BatchHolds
<1>13. ASSUME NEW f \in New \ hist'.born PROVE Unborn(f)'
  <2>1. f \in Entries /\ Unborn(f)
    BY <1>2, <1>13, DeviceSets DEF Keep, NoneBefore
  <2>2. file'[f] = None
    <3>1. CASE f = e
      <4>1. p.blob = None /\ p.kind # "merge"
        BY <1>1, <2>1, <3>1 DEF Unborn
      <4> QED BY <1>2, <1>4, <2>1, <3>1, <4>1 DEF Unborn
    <3>2. CASE f # e
      BY <1>2, <2>1, <3>2 DEF Unborn
    <3> QED BY <3>1, <3>2
  <2> QED BY <1>1, <1>2, <1>3, <2>1, <2>2 DEF Unborn
<1>14. ASSUME pull.stage \in {3, 5}, NEW n, n = p.revision PROVE Sound(e, n)'
  <2>1. ~StillTo(2, e)
    BY <1>2, <1>14 DEF StillTo
  <2>2. p.revision = feed[e].revision => FileHolds(e)
    BY <1>1, <2>1 DEF Keep, WrittenHolds
  <2>3. n = feed'[e].revision => FileHolds(e)'
    BY <1>2, <1>8, <1>14, <2>2
  <2> QED BY <1>2, <1>5, <1>6, <1>14, <2>3 DEF Sound
<1>15. NoMutation.id = 0 /\ NoMutation.base = 0
  BY DEF NoMutation
<1>16. rows'[e].revision \in Bases(e) \/ (pull.stage = 3 /\ rows'[e].revision = p.revision)
  <2>1. CASE pull.stage = 3
    <3>1. Upserted(p.revision, p.blob).revision = p.revision
      BY DEF Upserted, EmptyRow
    <3> QED BY <1>1, <2>1, <3>1
  <2>2. CASE pull.stage # 3
    BY <1>1, <2>2 DEF Bases
  <2> QED BY <2>1, <2>2
<1>17. \/ rows'[e].dirty.base \in Bases(e) \union {0}
       \/ pull.stage = 5 /\ rows'[e].dirty.base = p.revision
  BY <1>2, <1>15 DEF Bases
<1>18. ASSUME NEW f \in Entries, NEW n \in Bases(f)' PROVE n = 0 \/ n \in Bases(f) \/ Sound(f, n)'
  <2>1. n \in Bases(f) \/ n \in {rows'[f].revision, rows'[f].dirty.base}
    BY <1>1, <1>2, <1>3, <1>18 DEF Bases
  <2>2. CASE f = e
    BY <1>14, <1>16, <1>17, <2>1, <2>2
  <2>3. CASE f # e
    BY <1>1, <2>1, <2>3 DEF Bases
  <2> QED BY <2>2, <2>3
<1>19. ASSUME NEW f \in Entries, NEW m \in Queue(f)'
       PROVE  m \in Queue(f) \/ (f = e /\ m = rows'[e].dirty)
  BY <1>1, <1>2, <1>3, <1>19 DEF Queue
<1>20. ASSUME NEW f \in Entries, NEW m \in Queue(f)'
       PROVE  \/ m.id = 0
              \/ \E k \in Queue(f) : k.id = m.id /\ k.content = m.content
              \/ m.id = NewId(f) /\ \A k \in Queue(f)' : k.id = m.id => k.content = m.content
  <2>1. CASE m \in Queue(f)
    BY <2>1
  <2>2. CASE f = e /\ m = rows'[e].dirty
    <3>1. CASE m.id = NewId(e)
      <4>1. \A k \in Queue(e) : k.id # NewId(e)
        BY DEF Kept
      <4>2. \A k \in Queue(e)' : k.id = m.id => k = m
        BY <1>19, <2>2, <3>1, <4>1
      <4> QED BY <2>2, <3>1, <4>2
    <3>2. CASE m.id # NewId(e)
      <4>1. m \in {rows[e].dirty, NoMutation}
        BY <1>2, <2>2, <3>2
      <4> QED BY <1>15, <2>2, <4>1 DEF Queue
    <3> QED BY <3>1, <3>2
  <2> QED BY <1>19, <1>20, <2>1, <2>2
<1> QED BY <1>2, <1>6, <1>9, <1>11, <1>12, <1>13, <1>18, <1>20, KeepIf

\* A pull that ends leaves the changes and the rows there are, or goes back to
\* the ones it kept.
LEMMA KeepPullEnds ==
  ASSUME Types, Types', Keep, PullDone \/ PullAbort \/ PullFail
  PROVE  Keep'
<1> Kept /\ Kept'
  BY KeptAre
<1>1. /\ UNCHANGED <<feed, replay, file, rec>> /\ hist'.born = hist.born
      /\ NoPull.pc = "idle" /\ NoPush.pc = "idle"
  BY DEF PullDone, PullAbort, PullFail, Types, HistoryTypes, server, vault, NoPull, NoPush
<1>2. push' = push \/ push' = NoPush
  BY DEF PullDone, PullAbort, PullFail, PushFallsToo
<1>3. pull' = NoPull \/ (pull'.pc = "fetch" /\ pull'.window = {})
  BY DEF PullDone, PullAbort, PullFail
<1>4. pull.pc # "idle" => push.pc \notin {"prepare", "apply"}
  BY DEF Types, PullTypes
<1>5. pull.pc # "idle"
  BY DEF PullDone, PullAbort, PullFail
<1>6. \A e \in Entries : rows'[e] = rows[e] \/ (pull.pc = "apply" /\ rows'[e] = pull.snap[e])
  BY DEF PullDone, PullAbort, PullFail
<1>7. \A e \in Entries : FileHolds(e)' <=> FileHolds(e)
  BY <1>1 DEF FileHolds
<1>8. \A e \in Entries : Brought(e)' = {}
  BY <1>1, <1>3 DEF Brought
<1>9. \A e \in Entries : Bases(e)' \subseteq Bases(e)
  BY <1>1, <1>2, <1>3, <1>6 DEF Bases
<1>10. \A e \in Entries : Queue(e)' \subseteq Queue(e)
  BY <1>1, <1>2, <1>3, <1>6 DEF Queue
<1>11. WrittenHolds' /\ BatchHolds'
  BY <1>1, <1>2, <1>3, <1>4, <1>5 DEF WrittenHolds, BatchHolds
<1>12. \A e \in New \ hist'.born : Unborn(e)'
  BY <1>1, <1>3 DEF Keep, NoneBefore, Unborn
<1> QED BY <1>1, <1>7, <1>8, <1>9, <1>10, <1>11, <1>12, KeepIf

\* A parked change gets another chance as it is; after a restart the file is
\* queued on the revision that the store has.
LEMMA KeepRestart ==
  ASSUME Types, Types', Keep, RetryQuarantined \/ RetryParked \/ Restart
  PROVE  Keep'
<1> Kept /\ Kept'
  BY KeptAre
<1>1. UNCHANGED <<feed, replay, file>> /\ hist'.born = hist.born
  BY TypesRetry DEF Restart, Types, HistoryTypes, server, vault
<1>2. \A e \in Entries : FileHolds(e)' <=> FileHolds(e)
  BY <1>1 DEF FileHolds
<1>3. CASE RetryQuarantined \/ RetryParked
  <2>1. UNCHANGED <<rec, push, pull>>
    BY <1>3, TypesRetry
  <2>2. ASSUME NEW e \in Entries
        PROVE  /\ rows'[e].revision = rows[e].revision /\ rows'[e].dirty.base = rows[e].dirty.base
               /\ rows'[e].dirty.id = rows[e].dirty.id /\ rows'[e].dirty.content = rows[e].dirty.content
    BY <1>3, TypesRetry
  <2>3. \A e \in Entries : Brought(e)' = Brought(e) /\ Bases(e)' = Bases(e)
    BY <2>1, <2>2 DEF Brought, Bases
  <2>4. \A e \in Entries : \A m \in Queue(e)' :
          \E k \in Queue(e) : k.id = m.id /\ k.content = m.content
    BY <2>1, <2>2 DEF Queue
  <2>5. WrittenHolds'
    BY <1>1, <1>2, <2>1 DEF Keep, WrittenHolds, StillTo
  <2>6. BatchHolds'
    BY <1>1, <2>1, BatchStill
  <2>7. \A e \in New \ hist'.born : Unborn(e)'
    BY <1>1, <2>1 DEF Keep, NoneBefore, Unborn
  <2> QED BY <1>1, <1>2, <2>3, <2>4, <2>5, <2>6, <2>7, KeepIf
<1>4. CASE Restart
  <2>1. /\ push'.pc = "idle" /\ pull'.pc = "idle" /\ rec'.pc = "idle"
        /\ rows' = [e \in Entries |-> Reconciled(e)]
    BY <1>4 DEF Restart, NoPush, NoPull, NoRec
  <2>2. EmptyRow.revision = 0 /\ EmptyRow.dirty.id = 0 /\ EmptyRow.dirty.base = 0
    BY DEF EmptyRow, NoMutation
  <2>3. ASSUME NEW e \in Entries
        PROVE  /\ rows'[e].revision \in {rows[e].revision, 0}
               /\ rows'[e].dirty.base \in {rows[e].revision, rows[e].dirty.base, 0}
               /\ rows'[e].dirty = rows[e].dirty \/ rows'[e].dirty.id \in {0, NewId(e)}
    BY <2>1, <2>2, ReconciledIs
  <2>4. \A e \in Entries : /\ Brought(e)' = {} /\ Queue(e)' = {rows'[e].dirty}
                           /\ Bases(e)' = {rows'[e].revision, rows'[e].dirty.base}
    BY <2>1 DEF Brought, Queue, Bases
  <2>5. \A e \in Entries : /\ rows[e].dirty \in Queue(e)
                           /\ rows[e].revision \in Bases(e) /\ rows[e].dirty.base \in Bases(e)
    BY DEF Queue, Bases
  <2>6. WrittenHolds' /\ BatchHolds'
    BY <2>1 DEF WrittenHolds, BatchHolds
  <2>7. \A e \in New \ hist'.born : Unborn(e)'
    BY <1>1, <2>1 DEF Keep, NoneBefore, Unborn
  <2>8. \A e \in Entries : \A r \in Brought(e)' : r \in Brought(e) \/ r = feed[e].revision
    BY <2>4
  <2>9. \A e \in Entries : \A n \in Bases(e)' : n = 0 \/ n \in Bases(e)
    BY <2>3, <2>4, <2>5
  <2>10. \A e \in Entries : \A m \in Queue(e)' :
           \/ m.id = 0
           \/ \E k \in Queue(e) : k.id = m.id /\ k.content = m.content
           \/ m.id = NewId(e) /\ \A k \in Queue(e)' : k.id = m.id => k.content = m.content
    BY <2>3, <2>4, <2>5
  <2> QED BY <1>1, <1>2, <2>6, <2>7, <2>8, <2>9, <2>10, KeepIf
<1> QED BY <1>3, <1>4

\* Every step keeps what other devices wrote where it was.
LEMMA KeepStep == Types /\ Types' /\ NoGap /\ Keep /\ [Next]_vars => Keep'
<1> SUFFICES ASSUME Types, Types', NoGap, Keep, [Next]_vars PROVE Keep'
  OBVIOUS
<1>1. CASE UNCHANGED vars
  <2> Kept /\ Kept'
    BY KeptAre
  <2>1. UNCHANGED <<feed, replay, file, rec, rows, push, pull, hist>>
    BY <1>1 DEF vars
  <2>2. \A e \in Entries : /\ FileHolds(e)' <=> FileHolds(e)
                           /\ Brought(e)' = Brought(e)
                           /\ Bases(e)' = Bases(e) /\ Queue(e)' = Queue(e)
    BY <2>1 DEF FileHolds, Brought, Bases, Queue
  <2>3. WrittenHolds'
    BY <2>1, <2>2 DEF Keep, WrittenHolds, StillTo
  <2>4. BatchHolds'
    BY <2>1, BatchStill
  <2>5. \A e \in New \ hist'.born : Unborn(e)'
    BY <2>1 DEF Keep, NoneBefore, Unborn
  <2> QED BY <2>1, <2>2, <2>3, <2>4, <2>5, KeepIf
<1>2. CASE User
  BY <1>2, KeepUser
<1>3. CASE Others
  BY <1>3, KeepOthers
<1>4. CASE Recorder
  BY <1>4, KeepRecorder
<1>5. CASE Pushes
  BY <1>5, KeepPushTurns, KeepPushCommit, KeepPushApply, KeepPrepare, KeepPushReject DEF Pushes
<1>6. CASE Pulls
  BY <1>6, KeepPullRead, KeepPullPrepare, KeepPullEnds, KeepPullStep DEF Pulls
<1>7. CASE RetryQuarantined \/ RetryParked \/ Restart
  BY <1>7, KeepRestart
<1> QED BY <1>1, <1>2, <1>3, <1>4, <1>5, <1>6, <1>7 DEF Next

\* Nobody else changes what the server has.
LEMMA OnlyTheServerMoves ==
  ASSUME Types, [Next]_vars, ~Others, ~PushCommit
  PROVE  feed' = feed
BY TypesRetry, RejectIs DEF Next, vars, User, Edit, Delete, Recorder, RecordRead, RecordUpsert,
   RecordQueue, RecordLocal, RecordDelete, RecordRemote, RecordForget, RecordGone,
   RecordQueueDelete, RecordChanges, RecordWrites, Pushes, PushStart, PushList, PushNothing,
   PushApply, PushNext, PushFinish, PushThrow, PushPrepare, PushUpload, PushReject,
   PushRecovered, Prepared, SetAside, PushChanges, PushWrites, Pulls, PullStart, PullPage,
   PullChanges, PullPrepare, PullDone, PullAbort, PullFail, PullConflict, PullWrite, PullRow,
   PullMerge, PullQueue, Written, Restart, server

\* A change of this device that the server takes has all that the entry had
\* there, or deletes it; the changes of others add to it.
LEMMA NothingTaken ==
  ASSUME Types, Keep, [Next]_vars, NEW e \in Entries, feed'[e] # feed[e], feed'[e].blob # None
  PROVE  Pieces(feed[e].blob) \subseteq feed'[e].blob
<1>1. feed \in [Entries -> Served]
  BY DEF Types, ServerTypes
<1>2. CASE Others
  <2>1. PICK f \in Entries : OthersDelete(f) \/ \E piece \in Theirs : OthersWrite(f, piece)
    BY <1>2 DEF Others
  <2>2. CASE OthersDelete(f)
    BY <1>1, <2>2 DEF OthersDelete, Accept
  <2>3. ASSUME NEW piece \in Theirs, OthersWrite(f, piece)
        PROVE  Pieces(feed[e].blob) \subseteq feed'[e].blob
    <3>1. feed' = [feed EXCEPT ![f] = Accept(f, Pieces(feed[f].blob) \union {piece}, head + 1)]
      BY <1>1, <2>3 DEF OthersWrite
    <3>2. f = e /\ feed'[e] = Accept(f, Pieces(feed[f].blob) \union {piece}, head + 1)
      BY <1>1, <3>1
    <3> QED BY <3>2 DEF Accept
  <2> QED BY <2>1, <2>2, <2>3
<1>3. CASE PushCommit
  <2>1. e \in Taken
    BY <1>3, CommitIs
  <2>2. /\ feed'[e] = Accept(e, push.batch[e].content, feed'[e].seq)
        /\ push.step[e] = "ready" /\ push.batch[e].base = feed[e].revision
        /\ push.pc = "prepare"
    BY <1>3, <2>1, CommitIs DEF Taken, Ready, PushCommit, AllPrepared
  <2>3. feed'[e].blob = push.batch[e].content
    BY <2>2 DEF Accept
  <2> QED BY <2>2, <2>3 DEF Keep, BatchHolds
<1>4. CASE ~Others /\ ~PushCommit
  BY <1>4, OnlyTheServerMoves
<1> QED BY <1>2, <1>3, <1>4

\* For every number of entries and of pieces: no change of this device takes
\* from the server what another device wrote, unless it deletes the file
\* (engine/push-service, engine/pull-service, coordinator/mutation-store).
THEOREM OthersAreKept == Spec => KeepsOtherDevices
<1>1. Types /\ Keep /\ [Next]_vars =>
        [\A e \in Entries : feed'[e] # feed[e] /\ feed'[e].blob # None =>
                              Pieces(feed[e].blob) \subseteq feed'[e].blob]_vars
  BY NothingTaken
<1> QED BY TypesInit, TypesStep, NoGapInit, NoGapStep, KeepInit, KeepStep, <1>1, PTL
        DEF Spec, KeepsOtherDevices

-----------------------------------------------------------------------------
(* The type invariant of Device.                                            *)

\* Neither the checkpoint nor a row of the store is ahead of the server
\* (store/dexie), and every variable is of its type.
THEOREM TypeOKIsKept == Spec => []TypeOK
<1>1. Types /\ NoGap => TypeOK
  <2> SUFFICES ASSUME Types, NoGap PROVE TypeOK
    OBVIOUS
  <2>1. head \in Nat /\ cursor \in 0..head
    BY DEF Types, ServerTypes, StoreTypes
  <2>2. feed \in [Entries -> [revision : Nat, blob : Contents, seq : 0..head]]
    BY <2>1 DEF Types, ServerTypes, Served
  <2>3. \A i \in DOMAIN events : events[i] \in [kind : {"upsert", "delete"}, entry : Entries]
    <3> DEFINE Happened == [kind : {"upsert", "delete"}, entry : Entries]
    <3>1. events \in Seq(Happened)
      BY DEF Types, RecorderTypes
    <3> HIDE DEF Happened
    <3>2. \A i \in DOMAIN events : events[i] \in Happened
      BY <3>1
    <3> QED BY <3>2 DEF Happened
  <2>4. rows \in [Entries -> Rows]
    <3>1. Changes \subseteq Mutations
      BY PiecesAre DEF Changes, Queued, Mutations, NoMutation, Statuses
    <3> QED BY <3>1 DEF Types, StoreTypes, Stored, Rows
  <2>5. \A e \in Entries : rows[e].revision <= feed[e].revision
    BY DEF NoGap, Positions
  <2> QED BY <2>1, <2>2, <2>3, <2>4, <2>5 DEF TypeOK, Types, ServerTypes, VaultTypes, PushTypes
<1> QED BY TypesInit, TypesStep, NoGapInit, NoGapStep, <1>1, PTL DEF Spec

-----------------------------------------------------------------------------
(* What the user wrote: an inductive invariant, as long as nothing crossed. *)

\* Where a piece is for good: in a conflict copy, on the server, or accounted
\* for.
Safe == copies \union (UNION {Pieces(feed[e].blob) : e \in Entries})
          \union hist.discarded \union hist.exposed \union hist.torn

\* What a merge of e holds in memory only; where a piece of e can be.
TornOf(e) ==
  IF pull.pc = "apply" /\ pull.plan[e].kind = "merge" /\ ~StillTo(2, e) /\ StillTo(4, e)
  THEN Pieces(pull.plan[e].bytes) ELSE {}
Reach(e) == Pieces(file[e]) \union Safe \union TornOf(e)

\* What was read from the file of e, or written into it.
Copies(e) ==
  {rows[e].local}
    \union (IF rec.pc \in {"upsert", "queue", "local"} /\ rec.entry = e THEN {rec.bytes} ELSE {})
    \union (IF pull.pc = "apply" THEN {pull.snap[e].local, pull.plan[e].bytes} ELSE {})
CopiesReach == \A e \in Entries : \A c \in Copies(e) : Pieces(c) \subseteq Reach(e)
PiecesReach == spent.pieces \subseteq UNION {Reach(e) : e \in Entries}

\* What a pull brings is on the server, or was.
BroughtIsSafe ==
  /\ pull.pc \in {"fetch", "prepare"} => \A i \in pull.window : Pieces(i.blob) \subseteq Safe
  /\ pull.pc = "apply" => \A e \in Entries : Pieces(pull.plan[e].blob) \subseteq Safe

\* What a pull writes over is safe, or the plan has it; a conflict has its copy.
Spares(e) ==
  LET p == pull.plan[e]
  IN  /\ StillTo(2, e) =>
           /\ p.kind = "plain" => Pieces(file[e]) \subseteq Safe
           /\ p.kind \in {"conflict", "merge"} => Pieces(file[e]) \subseteq Safe \union Pieces(p.bytes)
      /\ p.kind = "conflict" /\ ~StillTo(1, e) => Pieces(p.bytes) \subseteq Safe
      /\ p.kind = "merge" /\ ~StillTo(2, e) /\ StillTo(4, e) => Pieces(file[e]) \subseteq Safe
      /\ p.kind \in {"skip", "merge"} => ~p.leaves
PullSpares == pull.pc = "apply" => \A e \in Entries : Spares(e)

\* The file as it is recorded, or about to be, is in S.
RecordedIn(e, S) ==
  /\ Pieces(rows[e].local) \subseteq S
  /\ rec.pc = "local" /\ rec.entry = e => Pieces(rec.bytes) \subseteq S

\* A file that is recorded with no content queued is safe.
RecordedSafe(e) ==
  /\ rows[e].dirty.content = None => RecordedIn(e, Safe)
  /\ pull.pc = "apply" /\ pull.snap[e].dirty.content = None =>
       Pieces(pull.snap[e].local) \subseteq Safe
  /\ rec.pc = "queueDelete" /\ rec.entry = e => Pieces(rows[e].local) \subseteq Safe

\* A change that is sent has the file that is recorded; accepted, it is safe.
Sent(e) == push.pc \in {"prepare", "apply"} /\ push.step[e] \in {"uploading", "ready", "accepted"}
Accepted(e) == push.pc = "apply" /\ push.step[e] = "accepted"
SentHas(e) ==
  /\ Sent(e) /\ rows[e].dirty.id = push.batch[e].id =>
       RecordedIn(e, Safe \union Pieces(push.batch[e].content))
  /\ Accepted(e) => Pieces(push.batch[e].content) \subseteq Safe

\* The recorder of a deletion finds no file, unless nothing else is queued, or
\* a conflict is about to take it off the queue; once a pull has written the
\* row of an entry, no recorder is at work on it.
Deletes(e) == rec.pc \in {"remote", "gone", "queueDelete", "forget"} /\ rec.entry = e
Asks(e) == /\ push.pc = "prepare" /\ push.step[e] \in {"todo", "uploading"}
           /\ push.batch[e].content # None
DeletesGone(e) ==
  /\ Deletes(e) \/ (rec.pc = "delete" /\ rec.entry = e) => e \notin New \ hist.born
  /\ Deletes(e) /\ rows[e].dirty.content # None =>
       /\ file[e] = None
       /\ Gated(e) => /\ pull.plan[e].kind = "conflict" /\ StillTo(1, e)
                      /\ rows[e].dirty.id = pull.plan[e].id
  /\ Deletes(e) /\ Asks(e) => file[e] = None
  /\ Gated(e) /\ ~StillTo(3, e) => ~Recording(e)
DeletedWasBorn ==
  \A i \in DOMAIN events : events[i].kind = "delete" => events[i].entry \notin New \ hist.born

Edits == /\ CopiesReach /\ PiecesReach /\ BroughtIsSafe /\ PullSpares /\ DeletedWasBorn
         /\ \A e \in Entries : RecordedSafe(e) /\ SentHas(e) /\ DeletesGone(e)

\* Nothing leaves the history, or the conflict copies.
LEMMA HistoryGrows ==
  ASSUME Types, [Next]_vars
  PROVE  /\ copies \subseteq copies' /\ hist.discarded \subseteq hist'.discarded
         /\ hist.exposed \subseteq hist'.exposed /\ hist.torn \subseteq hist'.torn
         /\ hist.raced \subseteq hist'.raced /\ hist.born \subseteq hist'.born
<1> DEFINE Grows == /\ copies \subseteq copies' /\ hist.discarded \subseteq hist'.discarded
                    /\ hist.exposed \subseteq hist'.exposed /\ hist.torn \subseteq hist'.torn
                    /\ hist.raced \subseteq hist'.raced /\ hist.born \subseteq hist'.born
<1> DEFINE P == SUBSET (Mine \union Theirs)
           E == SUBSET Entries
<1>1. hist \in [born : E, discarded : P, exposed : P, torn : P, raced : E]
  BY DEF Types, HistoryTypes
<1> HIDE DEF P, E
<1>2. CASE hist' = hist /\ copies \subseteq copies'
  BY <1>2
<1>3. ASSUME copies' = copies, NEW S,
             \/ hist' = [hist EXCEPT !.discarded = @ \union S]
             \/ hist' = [hist EXCEPT !.raced = @ \union S]
             \/ hist' = [hist EXCEPT !.exposed = @ \union S]
      PROVE  Grows
  BY <1>1, <1>3
<1>4. CASE User
  <2>1. PICK e \in Entries : Delete(e) \/ \E piece \in Mine : Edit(e, piece)
    BY <1>4 DEF User
  <2>2. CASE Delete(e)
    BY <1>3, <2>2 DEF Delete
  <2>3. ASSUME NEW piece \in Mine, Edit(e, piece) PROVE Grows
    <3> DEFINE s == IF Overwrites(e) THEN {piece} ELSE {}
    <3>1. hist' = [hist EXCEPT !.born = @ \union {e}, !.exposed = @ \union s] /\ copies' = copies
      BY <2>3 DEF Edit
    <3> HIDE DEF s
    <3> QED BY <1>1, <3>1
  <2> QED BY <2>1, <2>2, <2>3
<1>5. CASE Others
  BY <1>2, <1>3, <1>5 DEF Others, OthersWrite, OthersDelete, vault
<1>6. CASE Recorder
  BY <1>2, <1>3, <1>6 DEF Recorder, RecordRead, RecordUpsert, RecordQueue, RecordLocal, RecordDelete,
     RecordRemote, RecordForget, RecordGone, RecordQueueDelete, RecordChanges, RecordWrites, vault
<1>7. CASE Pushes
  <2>1. ASSUME NEW e \in Entries, PushPrepare(e) \/ PushUpload(e) \/ PushReject(e) \/ PushRecovered(e)
        PROVE  Grows
    BY <1>2, <1>3, <2>1 DEF PushPrepare, PushUpload, PushReject, PushRecovered, Prepared, SetAside,
       PushChanges, PushWrites, vault
  <2>2. CASE PushStart \/ PushList \/ PushNothing \/ PushCommit \/ PushApply \/ PushNext
               \/ PushFinish \/ PushThrow
    BY <1>2, <1>3, <2>2 DEF PushStart, PushList, PushNothing, PushCommit, PushApply, PushNext,
       PushFinish, PushThrow, PushChanges, PushWrites, vault
  <2> QED BY <1>7, <2>1, <2>2 DEF Pushes
<1>8. ASSUME NEW t, NEW r, hist' = [hist EXCEPT !.torn = @ \union t, !.raced = @ \union r],
             copies' = copies
      PROVE  Grows
  BY <1>1, <1>8
<1>9. CASE Pulls
  <2>1. ASSUME NEW e \in Entries,
               PullConflict(e) \/ PullWrite(e) \/ PullRow(e) \/ PullMerge(e) \/ PullQueue(e)
        PROVE  Grows
    BY <1>2, <1>3, <2>1 DEF PullConflict, PullWrite, PullRow, PullMerge, PullQueue, Written, vault
  <2>2. CASE PullPrepare
    BY <1>3, <2>2 DEF PullPrepare, vault
  <2>3. CASE PullStart \/ PullPage \/ PullDone \/ PullAbort
    BY <1>2, <2>3 DEF PullStart, PullPage, PullChanges, PullDone, PullAbort, vault
  <2>4. CASE PullFail
    BY <1>8, <2>4 DEF PullFail, vault
  <2> QED BY <1>9, <2>1, <2>2, <2>3, <2>4 DEF Pulls
<1>10. CASE RetryQuarantined \/ RetryParked
  BY <1>2, <1>10, TypesRetry DEF vault
<1>11. CASE Restart
  BY <1>8, <1>11 DEF Restart, vault
<1>12. CASE UNCHANGED vars
  BY <1>2, <1>12 DEF vars
<1> QED BY <1>4, <1>5, <1>6, <1>7, <1>9, <1>10, <1>11, <1>12 DEF Next

\* What is safe, one part at a time.
PartsAreSafe ==
  /\ copies \subseteq Safe /\ hist.discarded \subseteq Safe /\ hist.exposed \subseteq Safe
  /\ hist.torn \subseteq Safe
  /\ \A e \in Entries : Pieces(feed[e].blob) \subseteq Safe
LEMMA SafeHas == PartsAreSafe /\ PartsAreSafe'
<1> DEFINE served == UNION {Pieces(feed[e].blob) : e \in Entries}
<1>1. Safe = copies \union served \union hist.discarded \union hist.exposed \union hist.torn
  BY DEF Safe
<1>2. \A e \in Entries : Pieces(feed[e].blob) \subseteq served
  OBVIOUS
<1> HIDE DEF served
<1>3. /\ copies \subseteq Safe /\ hist.discarded \subseteq Safe /\ hist.exposed \subseteq Safe
      /\ hist.torn \subseteq Safe
  BY <1>1
<1>4. served \subseteq Safe
  BY <1>1
<1>5. \A e \in Entries : Pieces(feed[e].blob) \subseteq Safe
  BY <1>2, <1>4
<1>6. PartsAreSafe
  BY <1>3, <1>5 DEF PartsAreSafe
<1> QED BY <1>6, PTL

\* What is safe stays so: the server gives nothing up that is not discarded.
LEMMA SafeGrows ==
  ASSUME Types, Keep, [Next]_vars
  PROVE  Safe \subseteq Safe'
<1>1. /\ copies \subseteq copies' /\ hist.discarded \subseteq hist'.discarded
      /\ hist.exposed \subseteq hist'.exposed /\ hist.torn \subseteq hist'.torn
  BY HistoryGrows
<1>2. ASSUME NEW e \in Entries PROVE Pieces(feed[e].blob) \subseteq Safe'
  <2>1. CASE feed'[e] = feed[e]
    BY <2>1, SafeHas DEF PartsAreSafe
  <2>2. CASE feed'[e] # feed[e] /\ feed'[e].blob # None
    <3>1. Pieces(feed[e].blob) \subseteq feed'[e].blob
      BY <2>2, NothingTaken
    <3>2. Pieces(feed[e].blob) \subseteq Pieces(feed'[e].blob)
      BY <3>1 DEF Pieces, None
    <3> QED BY <3>2, SafeHas DEF PartsAreSafe
  <2>3. CASE feed'[e] # feed[e] /\ feed'[e].blob = None
    <3> DEFINE P == SUBSET (Mine \union Theirs)
               E == SUBSET Entries
    <3>1. /\ hist \in [born : E, discarded : P, exposed : P, torn : P, raced : E]
          /\ feed \in [Entries -> Served]
      BY DEF Types, HistoryTypes, ServerTypes
    <3> HIDE DEF P, E
    <3>2. CASE Others
      <4>1. PICK f \in Entries : OthersDelete(f) \/ \E piece \in Theirs : OthersWrite(f, piece)
        BY <3>2 DEF Others
      <4>2. CASE OthersDelete(f)
        <5>1. hist' = [hist EXCEPT !.discarded = @ \union Pieces(feed[f].blob)] /\ f = e
          BY <2>3, <3>1, <4>2 DEF OthersDelete
        <5>2. Pieces(feed[e].blob) \subseteq hist'.discarded
          BY <3>1, <5>1
        <5> QED BY <5>2, SafeHas DEF PartsAreSafe
      <4>3. ASSUME NEW piece \in Theirs, OthersWrite(f, piece) PROVE FALSE
        <5>1. feed' = [feed EXCEPT ![f] = Accept(f, Pieces(feed[f].blob) \union {piece}, head + 1)]
          BY <3>1, <4>3 DEF OthersWrite
        <5>2. f = e /\ feed'[e].blob = Pieces(feed[f].blob) \union {piece}
          BY <2>3, <3>1, <5>1 DEF Accept
        <5>3. Pieces(feed[f].blob) \union {piece} # None
          BY <4>3, PiecesAre, DevicePieces DEF None
        <5> QED BY <2>3, <5>2, <5>3
      <4> QED BY <4>1, <4>2, <4>3
    <3>3. CASE PushCommit
      <4> DEFINE d == UNION {Pieces(feed[f].blob) : f \in {k \in Taken : push.batch[k].content = None}}
      <4>1. hist' = [hist EXCEPT !.discarded = @ \union d]
        BY <3>3 DEF PushCommit
      <4>2. e \in Taken /\ feed'[e] = Accept(e, push.batch[e].content, feed'[e].seq)
        BY <2>3, <3>3, CommitIs
      <4>3. push.batch[e].content = None
        BY <2>3, <4>2 DEF Accept
      <4>4. Pieces(feed[e].blob) \subseteq d
        BY <4>2, <4>3
      <4> HIDE DEF d
      <4>5. d \subseteq hist'.discarded
        BY <3>1, <4>1
      <4> QED BY <4>4, <4>5, SafeHas DEF PartsAreSafe
    <3>4. CASE ~Others /\ ~PushCommit
      <4>1. feed' = feed
        BY <3>4, OnlyTheServerMoves
      <4> QED BY <2>3, <4>1
    <3> QED BY <3>2, <3>3, <3>4
  <2> QED BY <2>1, <2>2, <2>3
<1> DEFINE served == UNION {Pieces(feed[e].blob) : e \in Entries}
<1>3. Safe = copies \union served \union hist.discarded \union hist.exposed \union hist.torn
  BY DEF Safe
<1>4. served \subseteq Safe'
  BY <1>2
<1> HIDE DEF served
<1>5. /\ copies \subseteq Safe' /\ hist.discarded \subseteq Safe' /\ hist.exposed \subseteq Safe'
      /\ hist.torn \subseteq Safe'
  BY <1>1, SafeHas DEF PartsAreSafe
<1> QED BY <1>3, <1>4, <1>5

\* A step after which a pass has no more of f than it had.
SendsNoMore(f) ==
  /\ Sent(f)' => Sent(f) /\ push'.batch[f] = push.batch[f]
  /\ Accepted(f)' => \/ Accepted(f) /\ push'.batch[f] = push.batch[f]
                     \/ Pieces(push'.batch[f].content) \subseteq Safe'
  /\ Asks(f)' => Asks(f)

\* A step that leaves of a row what the file was and what is to be sent.
KeepsRow(f) == /\ rows'[f].local = rows[f].local
               /\ rows'[f].dirty.id = rows[f].dirty.id
               /\ rows'[f].dirty.content = rows[f].dirty.content

\* A step that leaves an entry, and brings nothing new of it, leaves what is
\* said of its record and of its change.
LEMMA EntryStill ==
  ASSUME Safe \subseteq Safe', hist.born \subseteq hist'.born, NEW f \in Entries,
         RecordedSafe(f), SentHas(f), DeletesGone(f),
         KeepsRow(f),
         file[f] = None /\ f \notin New \ hist.born => file'[f] = None,
         rec'.pc # "idle" /\ rec'.entry = f => rec' = rec,
         SendsNoMore(f),
         pull'.pc = "apply" =>
           /\ pull.pc = "apply" /\ pull'.plan[f] = pull.plan[f] /\ pull'.snap[f] = pull.snap[f]
           /\ \A n \in {1, 3} : StillTo(n, f) /\ f \in Concerned(n, pull.plan) => StillTo(n, f)'
  PROVE  RecordedSafe(f)' /\ SentHas(f)' /\ DeletesGone(f)'
<1>1. \A S, T : S \subseteq T /\ RecordedIn(f, S) =>
        /\ Pieces(rows'[f].local) \subseteq T
        /\ rec'.pc = "local" /\ rec'.entry = f => Pieces(rec'.bytes) \subseteq T
  BY DEF RecordedIn, KeepsRow
<1>2. RecordedSafe(f)'
  BY <1>1 DEF RecordedSafe, RecordedIn, KeepsRow
<1>3. SentHas(f)'
  <2>1. Safe \union Pieces(push.batch[f].content) \subseteq Safe' \union Pieces(push.batch[f].content)
    OBVIOUS
  <2> QED BY <1>1, <2>1 DEF SentHas, RecordedIn, SendsNoMore, KeepsRow
<1>4. DeletesGone(f)'
  <2>1. /\ Deletes(f)' => Deletes(f)
        /\ rec'.pc = "delete" /\ rec'.entry = f => rec.pc = "delete" /\ rec.entry = f
        /\ Recording(f)' => Recording(f)
    BY DEF Deletes, Recording
  <2>2. Gated(f)' => Gated(f) /\ pull'.plan[f] = pull.plan[f]
    BY DEF Gated
  <2>3. Gated(f) => /\ f \in Concerned(3, pull.plan)
                    /\ pull.plan[f].kind = "conflict" => f \in Concerned(1, pull.plan)
    BY DEF Gated, Concerned
  <2>4. /\ Gated(f)' /\ pull.plan[f].kind = "conflict" /\ StillTo(1, f) => StillTo(1, f)'
        /\ Gated(f)' /\ StillTo(3, f) => StillTo(3, f)'
    BY <2>2, <2>3 DEF Gated
  <2> QED BY <2>1, <2>2, <2>4 DEF DeletesGone, SendsNoMore, KeepsRow
<1> QED BY <1>2, <1>3, <1>4

\* Nothing is lost if the places a piece can be at keep what they have.
LEMMA EditsIf ==
  ASSUME Edits,
         \A e \in Entries : Reach(e) \subseteq Reach(e)',
         \A e \in Entries : \A c \in Copies(e)' : c \in Copies(e) \/ Pieces(c) \subseteq Reach(e)',
         \A x \in spent'.pieces \ spent.pieces : \E e \in Entries : x \in Reach(e)',
         BroughtIsSafe', PullSpares', DeletedWasBorn',
         \A e \in Entries : RecordedSafe(e)' /\ SentHas(e)' /\ DeletesGone(e)'
  PROVE  Edits'
<1>1. CopiesReach'
  <2> SUFFICES ASSUME NEW e \in Entries, NEW c \in Copies(e)' PROVE Pieces(c) \subseteq Reach(e)'
    BY DEF CopiesReach
  <2>1. c \in Copies(e) => Pieces(c) \subseteq Reach(e)
    BY DEF Edits, CopiesReach
  <2> QED BY <2>1
<1>2. PiecesReach'
  <2>1. ASSUME NEW x \in spent'.pieces PROVE \E e \in Entries : x \in Reach(e)'
    <3>1. x \in spent.pieces => \E e \in Entries : x \in Reach(e)
      BY DEF Edits, PiecesReach
    <3> QED BY <2>1, <3>1
  <2> QED BY <2>1 DEF PiecesReach
<1> QED BY <1>1, <1>2 DEF Edits

\* What can be reached of an entry: what it is made of.
LEMMA ReachIs ==
  ASSUME NEW e \in Entries
  PROVE  /\ Safe \subseteq Reach(e) /\ Pieces(file[e]) \subseteq Reach(e) /\ TornOf(e) \subseteq Reach(e)
         /\ Safe' \subseteq Reach(e)' /\ Pieces(file'[e]) \subseteq Reach(e)'
         /\ TornOf(e)' \subseteq Reach(e)'
         /\ \A S : Reach(e) \subseteq S <=>
                     Safe \subseteq S /\ Pieces(file[e]) \subseteq S /\ TornOf(e) \subseteq S
BY DEF Reach

\* What a pull that stays where it is has brought, and writes over.
LEMMA PullStill ==
  ASSUME Edits, Safe \subseteq Safe', UNCHANGED <<file, pull>>
  PROVE  /\ BroughtIsSafe' /\ PullSpares'
         /\ \A e \in Entries : TornOf(e)' = TornOf(e) /\ Reach(e) \subseteq Reach(e)'
<1>1. \A n, e : StillTo(n, e)' <=> StillTo(n, e)
  BY DEF StillTo
<1>2. BroughtIsSafe'
  BY DEF Edits, BroughtIsSafe
<1>3. PullSpares'
  <2> SUFFICES ASSUME pull.pc = "apply", NEW e \in Entries PROVE Spares(e)'
    BY DEF PullSpares
  <2>1. Spares(e)
    BY DEF Edits, PullSpares
  <2> QED BY <1>1, <2>1 DEF Spares
<1>4. ASSUME NEW e \in Entries PROVE TornOf(e)' = TornOf(e) /\ Reach(e) \subseteq Reach(e)'
  <2>1. TornOf(e)' = TornOf(e)
    BY <1>1 DEF TornOf
  <2> QED BY <2>1 DEF Reach
<1> QED BY <1>2, <1>3, <1>4

\* A step that leaves the files and the pull, and writes one row at most.
LEMMA EditsRow ==
  ASSUME Edits, Safe \subseteq Safe', hist.born \subseteq hist'.born, NEW e \in Entries,
         UNCHANGED <<file, pull>>, spent'.pieces = spent.pieces,
         \A f \in Entries \ {e} :
           /\ rows'[f] = rows[f] /\ SendsNoMore(f)
           /\ rec'.pc # "idle" /\ rec'.entry = f => rec' = rec,
         Pieces(rows'[e].local) \subseteq Reach(e)',
         rec'.pc \in {"upsert", "queue", "local"} /\ rec'.entry = e =>
           Pieces(rec'.bytes) \subseteq Reach(e)',
         DeletedWasBorn',
         RecordedSafe(e)' /\ SentHas(e)' /\ DeletesGone(e)'
  PROVE  Edits'
<1>1. /\ BroughtIsSafe' /\ PullSpares'
      /\ \A f \in Entries : Reach(f) \subseteq Reach(f)'
  BY PullStill
<1>2. ASSUME NEW f \in Entries \ {e} PROVE RecordedSafe(f)' /\ SentHas(f)' /\ DeletesGone(f)'
  <2>1. \A n : StillTo(n, f)' <=> StillTo(n, f)
    BY DEF StillTo
  <2>2. RecordedSafe(f) /\ SentHas(f) /\ DeletesGone(f)
    BY DEF Edits
  <2>3. KeepsRow(f)
    BY DEF KeepsRow
  <2> QED BY <2>1, <2>2, <2>3, EntryStill
<1>3. ASSUME NEW f \in Entries, NEW c \in Copies(f)' PROVE c \in Copies(f) \/ Pieces(c) \subseteq Reach(f)'
  <2>1. \/ c = rows'[f].local
        \/ rec'.pc \in {"upsert", "queue", "local"} /\ rec'.entry = f /\ c = rec'.bytes
        \/ pull'.pc = "apply" /\ c \in {pull'.snap[f].local, pull'.plan[f].bytes}
    BY DEF Copies
  <2>2. CASE pull'.pc = "apply" /\ c \in {pull'.snap[f].local, pull'.plan[f].bytes}
    BY <2>2 DEF Copies
  <2>3. CASE f = e
    BY <2>1, <2>2, <2>3
  <2>4. CASE f # e
    BY <2>1, <2>2, <2>4 DEF Copies
  <2> QED BY <2>3, <2>4
<1> QED BY <1>1, <1>2, <1>3, EditsIf

\* At the start nothing has been written.
LEMMA EditsInit == Init => Edits
<1> SUFFICES ASSUME Init PROVE Edits
  OBVIOUS
<1>1. /\ push.pc = "idle" /\ pull.pc = "idle" /\ rec.pc = "idle" /\ events = <<>>
      /\ spent.pieces = {}
  BY DEF Init, NoPush, NoPull, NoRec
<1>2. \A e \in Entries : Pieces(rows[e].local) = {}
  <2>1. \A e \in Entries : rows[e] \in {Upserted(1, {}), EmptyRow}
    BY DEF Init
  <2>2. Upserted(1, {}).local = {} /\ EmptyRow.local = None
    BY FirstRows
  <2>3. Pieces({}) = {} /\ Pieces(None) = {}
    BY PiecesAre
  <2> QED BY <2>1, <2>2, <2>3
<1>3. CopiesReach
  <2>1. \A e \in Entries : \A c \in Copies(e) : c = rows[e].local
    BY <1>1 DEF Copies
  <2> QED BY <1>2, <2>1 DEF CopiesReach
<1>4. PiecesReach /\ BroughtIsSafe /\ PullSpares
  BY <1>1 DEF PiecesReach, BroughtIsSafe, PullSpares
<1>5. DeletedWasBorn
  BY <1>1 DEF DeletedWasBorn
<1>6. ASSUME NEW e \in Entries PROVE RecordedSafe(e) /\ SentHas(e) /\ DeletesGone(e)
  BY <1>1, <1>2 DEF RecordedSafe, RecordedIn, SentHas, Sent, Accepted, DeletesGone, Deletes, Gated
<1> QED BY <1>3, <1>4, <1>5, <1>6 DEF Edits

\* The last event in a queue is the one that has happened.
LEMMA HappensIs ==
  ASSUME Types, NEW kind \in {"upsert", "delete"}, NEW e \in Entries, Happens(kind, e)
  PROVE  \A i \in DOMAIN events' :
           \/ i \in DOMAIN events /\ events'[i] = events[i]
           \/ events'[i].kind = kind /\ events'[i].entry = e
<1> DEFINE ev == [kind |-> kind, entry |-> e]
           Happened == [kind : {"upsert", "delete"}, entry : Entries]
<1>1. events \in Seq(Happened) /\ ev \in Happened /\ events' = Append(events, ev)
  BY DEF Types, RecorderTypes, Happens
<1>2. ev.kind = kind /\ ev.entry = e
  OBVIOUS
<1> HIDE DEF ev, Happened
<1>3. ASSUME NEW i \in DOMAIN events'
      PROVE  (i \in DOMAIN events /\ events'[i] = events[i]) \/ events'[i] = ev
  BY <1>1, <1>3
<1> QED BY <1>2, <1>3

\* The user writes a piece into a file that nothing writes over, or exposes it.
LEMMA EditsEdit ==
  ASSUME Types, Keep, Edits, Safe \subseteq Safe', hist.born \subseteq hist'.born,
         NEW e \in Entries, NEW piece \in Mine, Edit(e, piece)
  PROVE  Edits'
<1>1. /\ file'[e] = Pieces(file[e]) \union {piece}
      /\ \A f \in Entries \ {e} : file'[f] = file[f]
      /\ file[e] # None \/ e \in New \ hist.born
      /\ spent'.pieces = spent.pieces \union {piece}
      /\ UNCHANGED <<rec, rows, push, pull>>
      /\ Happens("upsert", e)
      /\ Overwrites(e) => piece \in hist'.exposed
  <2>1. file \in [Entries -> Contents] /\ spent.pieces \in SUBSET (Mine \union Theirs)
    BY DEF Types, VaultTypes, HistoryTypes
  <2>2. spent' = [spent EXCEPT !.pieces = @ \union {piece}] /\ DOMAIN spent = {"pieces", "troubles"}
    BY DEF Edit, Types, HistoryTypes
  <2>3. Overwrites(e) => piece \in hist'.exposed
    <3> DEFINE P == SUBSET (Mine \union Theirs)
               E == SUBSET Entries
    <3>1. hist \in [born : E, discarded : P, exposed : P, torn : P, raced : E]
      BY DEF Types, HistoryTypes
    <3> HIDE DEF P, E
    <3> QED BY <3>1 DEF Edit
  <2> QED BY <2>1, <2>2, <2>3 DEF Edit
<1>2. Pieces(file'[e]) = Pieces(file[e]) \union {piece}
  BY <1>1, PiecesAre, DevicePieces DEF Types, VaultTypes, Pieces, None
<1>3. \A n, f : StillTo(n, f)' <=> StillTo(n, f)
  BY <1>1 DEF StillTo
<1>4. \A f \in Entries : TornOf(f)' = TornOf(f)
  BY <1>1, <1>3 DEF TornOf
<1>5. ASSUME NEW f \in Entries PROVE Reach(f) \subseteq Reach(f)'
  <2>1. Pieces(file[f]) \subseteq Pieces(file'[f])
    BY <1>1, <1>2
  <2> QED BY <1>4, <2>1 DEF Reach
<1>6. \A x \in spent'.pieces \ spent.pieces : \E f \in Entries : x \in Reach(f)'
  BY <1>1, <1>2 DEF Reach
<1>7. \A f \in Entries : \A c \in Copies(f)' : c \in Copies(f)
  BY <1>1 DEF Copies
<1>8. BroughtIsSafe'
  BY <1>1 DEF Edits, BroughtIsSafe
<1>9. PullSpares'
  <2> SUFFICES ASSUME pull.pc = "apply", NEW f \in Entries PROVE Spares(f)'
    BY <1>1 DEF PullSpares
  <2>1. Spares(f)
    BY DEF Edits, PullSpares
  <2>2. CASE f # e
    BY <1>1, <1>3, <2>1, <2>2 DEF Spares
  <2>3. CASE f = e /\ Overwrites(e)
    <3>1. piece \in Safe'
      BY <1>1, <2>3, SafeHas DEF PartsAreSafe
    <3> QED BY <1>1, <1>2, <1>3, <2>1, <2>3, <3>1 DEF Spares
  <2>4. CASE f = e /\ ~Overwrites(e)
    BY <1>1, <1>3, <2>1, <2>4 DEF Spares, Overwrites, Gated
  <2> QED BY <2>2, <2>3, <2>4
<1>10. DeletedWasBorn'
  BY <1>1, HappensIs DEF Edits, DeletedWasBorn
<1>11. ASSUME NEW f \in Entries PROVE RecordedSafe(f)' /\ SentHas(f)' /\ DeletesGone(f)'
  <2>1. SendsNoMore(f)
    BY <1>1 DEF SendsNoMore, Sent, Accepted, Asks
  <2>2. file[f] = None /\ f \notin New \ hist.born => file'[f] = None
    BY <1>1
  <2>3. RecordedSafe(f) /\ SentHas(f) /\ DeletesGone(f) /\ KeepsRow(f)
    BY <1>1 DEF Edits, KeepsRow
  <2> QED BY <1>1, <1>3, <2>1, <2>2, <2>3, EntryStill
<1> QED BY <1>5, <1>6, <1>7, <1>8, <1>9, <1>10, <1>11, EditsIf

\* A deletion takes what it is meant for: all there is of the entry but what is
\* safe.
LEMMA EditsDelete ==
  ASSUME Types, Keep, Edits, Safe \subseteq Safe', hist.born \subseteq hist'.born,
         NEW e \in Entries, Delete(e)
  PROVE  Edits'
<1>1. /\ file'[e] = None /\ file[e] # None /\ \A f \in Entries \ {e} : file'[f] = file[f]
      /\ UNCHANGED <<rec, rows, push, pull>> /\ spent'.pieces = spent.pieces
      /\ Happens("delete", e) /\ hist'.born = hist.born
      /\ Held(e) \subseteq hist'.discarded
  <2>1. file \in [Entries -> Contents]
    BY DEF Types, VaultTypes
  <2>2. hist'.born = hist.born /\ Held(e) \subseteq hist'.discarded
    <3> DEFINE P == SUBSET (Mine \union Theirs)
               E == SUBSET Entries
    <3>1. hist \in [born : E, discarded : P, exposed : P, torn : P, raced : E]
      BY DEF Types, HistoryTypes
    <3>2. hist' = [hist EXCEPT !.discarded = @ \union Held(e)]
      BY DEF Delete
    <3> HIDE DEF P, E
    <3> QED BY <3>1, <3>2
  <2>3. spent'.pieces = spent.pieces
    BY DEF Delete, Trouble, Types, HistoryTypes
  <2> QED BY <2>1, <2>2, <2>3 DEF Delete
<1>2. Held(e) \subseteq Safe' /\ Pieces(file'[e]) = {}
  BY <1>1, SafeHas, PiecesAre DEF PartsAreSafe
<1>3. \A n, f : StillTo(n, f)' <=> StillTo(n, f)
  BY <1>1 DEF StillTo
<1>4. \A f \in Entries : TornOf(f)' = TornOf(f)
  BY <1>1, <1>3 DEF TornOf
<1>5. ASSUME NEW f \in Entries PROVE Reach(f) \subseteq Reach(f)'
  <2>1. CASE f = e
    <3>1. Pieces(file[e]) \subseteq Safe' /\ TornOf(e) \subseteq Safe'
      BY <1>2 DEF Held, TornOf
    <3> QED BY <2>1, <3>1 DEF Reach
  <2>2. CASE f # e
    BY <1>1, <1>4, <2>2 DEF Reach
  <2> QED BY <2>1, <2>2
<1>6. \A f \in Entries : \A c \in Copies(f)' : c \in Copies(f)
  BY <1>1 DEF Copies
<1>7. BroughtIsSafe'
  BY <1>1 DEF Edits, BroughtIsSafe
<1>8. PullSpares'
  <2> SUFFICES ASSUME pull.pc = "apply", NEW f \in Entries PROVE Spares(f)'
    BY <1>1 DEF PullSpares
  <2>1. Spares(f)
    BY DEF Edits, PullSpares
  <2>2. Pieces(file'[f]) \subseteq Pieces(file[f])
    BY <1>1, <1>2
  <2> QED BY <1>1, <1>3, <2>1, <2>2 DEF Spares
<1>9. DeletedWasBorn'
  <2>1. e \notin New \ hist.born
    BY <1>1 DEF Keep, NoneBefore, Unborn
  <2> QED BY <1>1, <2>1, HappensIs DEF Edits, DeletedWasBorn
<1>10. ASSUME NEW f \in Entries PROVE RecordedSafe(f)' /\ SentHas(f)' /\ DeletesGone(f)'
  <2>1. SendsNoMore(f)
    BY <1>1 DEF SendsNoMore, Sent, Accepted, Asks
  <2>2. file[f] = None /\ f \notin New \ hist.born => file'[f] = None
    BY <1>1
  <2>3. RecordedSafe(f) /\ SentHas(f) /\ DeletesGone(f) /\ KeepsRow(f)
    BY <1>1 DEF Edits, KeepsRow
  <2> QED BY <1>1, <1>3, <2>1, <2>2, <2>3, EntryStill
<1> QED BY <1>1, <1>5, <1>6, <1>7, <1>8, <1>9, <1>10, EditsIf

\* A step that leaves the files and the recorder, and of a pull at most that it
\* begins or ends, leaves what is said of all of them.
LEMMA EditsStill ==
  ASSUME Edits, Safe \subseteq Safe', hist.born \subseteq hist'.born,
         UNCHANGED <<file, events, rec>>, \A f \in Entries : KeepsRow(f) /\ SendsNoMore(f),
         \/ pull' = pull
         \/ pull'.pc # "apply" /\ BroughtIsSafe' /\ \A f \in Entries : TornOf(f) \subseteq Safe',
         \A x \in spent'.pieces \ spent.pieces : x \in Safe' /\ Entries # {}
  PROVE  Edits'
<1>1. /\ BroughtIsSafe' /\ PullSpares'
      /\ \A f \in Entries : Reach(f) \subseteq Reach(f)'
  <2>1. CASE pull' = pull
    BY <2>1, PullStill
  <2>2. CASE pull'.pc # "apply" /\ BroughtIsSafe' /\ \A f \in Entries : TornOf(f) \subseteq Safe'
    BY <2>2 DEF PullSpares, Reach
  <2> QED BY <2>1, <2>2
<1>2. ASSUME NEW f \in Entries, NEW c \in Copies(f)' PROVE c \in Copies(f)
  <2>1. rows'[f].local = rows[f].local /\ (pull'.pc = "apply" => pull' = pull)
    BY DEF KeepsRow
  <2> QED BY <1>2, <2>1 DEF Copies
<1>3. \A x \in spent'.pieces \ spent.pieces : \E f \in Entries : x \in Reach(f)'
  BY DEF Reach
<1>4. DeletedWasBorn'
  BY DEF Edits, DeletedWasBorn
<1>5. ASSUME NEW f \in Entries PROVE RecordedSafe(f)' /\ SentHas(f)' /\ DeletesGone(f)'
  <2>1. pull'.pc = "apply" => pull' = pull /\ \A n : StillTo(n, f)' <=> StillTo(n, f)
    BY DEF StillTo
  <2>2. RecordedSafe(f) /\ SentHas(f) /\ DeletesGone(f)
    BY DEF Edits
  <2> QED BY <2>1, <2>2, EntryStill
<1> QED BY <1>1, <1>2, <1>3, <1>4, <1>5, EditsIf

\* What another device writes is on the server.
LEMMA EditsOthers ==
  ASSUME Types, Edits, Safe \subseteq Safe', hist.born \subseteq hist'.born, Others
  PROVE  Edits'
<1>1. PICK e \in Entries : OthersDelete(e) \/ \E piece \in Theirs : OthersWrite(e, piece)
  BY DEF Others
<1>2. UNCHANGED <<file, events, rec, rows, push, pull>>
  BY <1>1 DEF OthersDelete, OthersWrite, vault
<1>3. \A f \in Entries : SendsNoMore(f)
  BY <1>2 DEF SendsNoMore, Sent, Accepted, Asks
<1>4. ASSUME NEW x \in spent'.pieces \ spent.pieces PROVE x \in Safe'
  <2>1. spent \in [pieces : SUBSET (Mine \union Theirs), troubles : Nat]
    BY DEF Types, HistoryTypes
  <2>2. CASE OthersDelete(e)
    BY <1>4, <2>1, <2>2 DEF OthersDelete, Trouble
  <2>3. ASSUME NEW piece \in Theirs, OthersWrite(e, piece) PROVE x \in Safe'
    <3>1. spent'.pieces = spent.pieces \union {piece}
      BY <2>1, <2>3 DEF OthersWrite
    <3>2. feed'[e].blob = Pieces(feed[e].blob) \union {piece}
      BY <2>3 DEF OthersWrite, Accept, Types, ServerTypes
    <3>3. piece \in Pieces(feed'[e].blob)
      BY <2>3, <3>2, DevicePieces DEF Pieces, None
    <3> QED BY <1>4, <3>1, <3>3, SafeHas DEF PartsAreSafe
  <2> QED BY <1>1, <2>2, <2>3
<1>5. \A f \in Entries : KeepsRow(f)
  BY <1>2 DEF KeepsRow
<1> QED BY <1>1, <1>2, <1>3, <1>4, <1>5, EditsStill

\* A change that is sent has an id, and no new one has it.
LEMMA SentIsOld ==
  ASSUME Types, NEW e \in Entries, Sent(e)
  PROVE  push.batch[e].id \notin {0, NewId(e)} /\ pull.pc = "idle"
<1>1. push.pc \notin {"idle", "recover"} /\ push.step[e] # "none"
  BY DEF Sent
<1>2. Pass(push) /\ pull.pc = "idle"
  BY <1>1, PushIsAlone
<1> QED BY <1>1, <1>2, NewIdIsFresh DEF Pass, InUse

\* A turn of the recorder of e that writes a row as it should.
LEMMA EditsRecord ==
  ASSUME Types, Edits, Safe \subseteq Safe', UNCHANGED <<events, file, push, pull, spent>>,
         hist'.born = hist.born, NEW e \in Entries, rec.pc # "idle", rec.entry = e,
         NEW new, rows' = [rows EXCEPT ![e] = new],
         Pieces(new.local) \subseteq Reach(e),
         rec'.pc \in {"idle", "queue", "local", "remote", "forget", "gone", "queueDelete"},
         rec'.pc # "idle" => rec'.entry = e,
         rec'.pc \in {"queue", "local"} => Pieces(rec'.bytes) \subseteq Reach(e),
         new.dirty.content = None =>
           /\ Pieces(new.local) \subseteq Safe
           /\ rec'.pc = "local" => Pieces(rec'.bytes) \subseteq Safe,
         rec'.pc = "queueDelete" => Pieces(new.local) \subseteq Safe,
         \/ new.dirty.id \in {0, NewId(e)}
         \/ /\ new.dirty.id = rows[e].dirty.id
            /\ \A S : RecordedIn(e, S) =>
                 /\ Pieces(new.local) \subseteq S
                 /\ rec'.pc = "local" => Pieces(rec'.bytes) \subseteq S,
         Deletes(e)' =>
           \/ Deletes(e) /\ new.dirty = rows[e].dirty
           \/ new.dirty.content = None /\ e \notin New \ hist.born /\ (file[e] = None \/ Deletes(e)),
         Recording(e)' => Recording(e) \/ ~Gated(e)
  PROVE  Edits'
<1>1. rows'[e] = new /\ \A f \in Entries \ {e} : rows'[f] = rows[f]
  BY DEF Types, StoreTypes
<1>2. \A f \in Entries : Reach(f) \subseteq Reach(f)'
  BY PullStill
<1>3. \A f \in Entries : SendsNoMore(f)
  BY DEF SendsNoMore, Sent, Accepted, Asks
<1>4. RecordedSafe(e) /\ SentHas(e) /\ DeletesGone(e)
  BY DEF Edits
<1>5. DeletedWasBorn'
  BY DEF Edits, DeletedWasBorn
<1>6. RecordedSafe(e)'
  BY <1>1, <1>4 DEF RecordedSafe, RecordedIn
<1>7. SentHas(e)'
  <2>1. Accepted(e)' => Pieces(push'.batch[e].content) \subseteq Safe'
    BY <1>3, <1>4 DEF SentHas, SendsNoMore
  <2>2. ASSUME Sent(e)', rows'[e].dirty.id = push'.batch[e].id
        PROVE  RecordedIn(e, Safe \union Pieces(push.batch[e].content))'
    <3>1. Sent(e) /\ new.dirty.id = push.batch[e].id
      BY <1>1, <1>3, <2>2 DEF SendsNoMore
    <3>2. new.dirty.id \notin {0, NewId(e)}
      BY <3>1, SentIsOld
    <3>3. RecordedIn(e, Safe \union Pieces(push.batch[e].content))
      BY <1>4, <3>1, <3>2 DEF SentHas
    <3> DEFINE S == Safe \union Pieces(push.batch[e].content)
               T == Safe' \union Pieces(push.batch[e].content)
    <3>4. /\ Pieces(new.local) \subseteq S
          /\ rec'.pc = "local" => Pieces(rec'.bytes) \subseteq S
      BY <3>2, <3>3
    <3>5. S \subseteq T
      OBVIOUS
    <3> HIDE DEF S, T
    <3>6. /\ Pieces(new.local) \subseteq T
          /\ rec'.pc = "local" => Pieces(rec'.bytes) \subseteq T
      BY <3>4, <3>5
    <3> QED BY <1>1, <3>6 DEF RecordedIn, T
  <2> QED BY <2>1, <2>2 DEF SentHas
<1>8. DeletesGone(e)'
  <2>1. /\ \A n : StillTo(n, e)' <=> StillTo(n, e)
        /\ Gated(e)' <=> Gated(e)
        /\ Asks(e)' <=> Asks(e)
    BY DEF StillTo, Gated, Asks
  <2>2. rec'.pc # "delete"
    OBVIOUS
  <2> QED BY <1>1, <1>4, <2>1, <2>2 DEF DeletesGone
<1> QED BY <1>1, <1>2, <1>3, <1>5, <1>6, <1>7, <1>8, EditsRow

\* The recorder takes an event up.
LEMMA EditsRecordRead ==
  ASSUME Types, Edits, Safe \subseteq Safe', RecordRead
  PROVE  Edits'
<1> DEFINE Happened == [kind : {"upsert", "delete"}, entry : Entries]
           ev == Head(events)
<1>1. events \in Seq(Happened) /\ events # <<>> /\ events' = Tail(events)
  BY DEF Types, RecorderTypes, RecordRead
<1>2. ev \in Happened /\ 1 \in DOMAIN events /\ events[1] = ev
  <2> HIDE DEF Happened
  <2> QED BY <1>1
<1>3. PICK e \in Entries : e = ev.entry
  BY <1>2
<1>4. DeletedWasBorn'
  <2>1. \A i \in DOMAIN events' : i + 1 \in DOMAIN events /\ events'[i] = events[i + 1]
    <3> HIDE DEF Happened
    <3> QED BY <1>1
  <2>2. hist' = hist
    BY DEF RecordRead
  <2> QED BY <2>1, <2>2 DEF Edits, DeletedWasBorn
<1>5. ev.kind = "delete" => e \notin New \ hist.born
  BY <1>2, <1>3 DEF Edits, DeletedWasBorn
<1>6. UNCHANGED <<file, rows, push, pull, spent, hist>>
  BY DEF RecordRead, vault
<1>7. /\ rec'.pc \in {"idle", "delete", "upsert"} /\ (rec'.pc # "idle" => rec'.entry = e)
      /\ rec'.pc = "delete" => ev.kind = "delete"
      /\ rec'.pc = "upsert" => rec'.bytes = file[e]
  BY <1>2, <1>3 DEF RecordRead, NoRec
<1> HIDE DEF ev
<1>8. \A f \in Entries : SendsNoMore(f)
  BY <1>6 DEF SendsNoMore, Sent, Accepted, Asks
<1>9. RecordedSafe(e) /\ SentHas(e) /\ DeletesGone(e)
  BY DEF Edits
<1>10. Reach(e) \subseteq Reach(e)'
  BY <1>6, PullStill
<1>11. \A S, T : RecordedIn(e, S) /\ S \subseteq T => Pieces(rows'[e].local) \subseteq T
  BY <1>6 DEF RecordedIn
<1>12. RecordedSafe(e)'
  BY <1>6, <1>7, <1>9, <1>11 DEF RecordedSafe, RecordedIn
<1>13. SentHas(e)'
  <2>1. Safe \union Pieces(push.batch[e].content) \subseteq Safe' \union Pieces(push.batch[e].content)
    OBVIOUS
  <2> QED BY <1>6, <1>7, <1>8, <1>9, <1>11, <2>1 DEF SentHas, RecordedIn, SendsNoMore
<1>14. DeletesGone(e)'
  <2>1. ~Deletes(e)' /\ ~Recording(e)'
    BY <1>7 DEF Deletes, Recording
  <2> QED BY <1>5, <1>6, <1>7, <2>1 DEF DeletesGone
<1>15. Pieces(rows'[e].local) \subseteq Reach(e)'
  <2>1. Pieces(rows[e].local) \subseteq Reach(e)
    BY DEF Edits, CopiesReach, Copies
  <2> QED BY <1>6, <1>10, <2>1
<1>16. Pieces(file[e]) \subseteq Reach(e)'
  BY <1>6 DEF Reach
<1> QED BY <1>4, <1>6, <1>7, <1>8, <1>12, <1>13, <1>14, <1>15, <1>16, EditsRow

\* The recorder records and queues what it has read of a file, or the deletion
\* of one that is gone.
LEMMA EditsRecorder ==
  ASSUME Types, Edits, Safe \subseteq Safe', hist'.raced = {}, Recorder
  PROVE  Edits'
<1>1. CASE RecordRead
  BY <1>1, EditsRecordRead
<1>2. CASE ~RecordRead
  <2>1. rec.entry \in Entries /\ rows \in [Entries -> Stored] /\ rec.pc # "idle"
    BY <1>2 DEF Recorder, RecordUpsert, RecordQueue, RecordLocal, RecordDelete,
     RecordRemote, RecordForget, RecordGone, RecordQueueDelete, Types, RecorderTypes, Recorders,
     StoreTypes
  <2>2. UNCHANGED <<events, file, push, pull, spent>> /\ hist'.born = hist.born
    BY <1>2 DEF Recorder, RecordUpsert, RecordQueue, RecordLocal, RecordDelete,
     RecordRemote, RecordForget, RecordGone, RecordQueueDelete, RecordChanges, RecordWrites,
     Types, HistoryTypes, vault
  <2> SUFFICES ASSUME NEW e \in Entries, rec.entry = e, NEW r \in Stored, r = rows[e] PROVE Edits'
    BY <2>1
  <2>3. /\ Pieces(r.local) \subseteq Reach(e)
        /\ rec.pc \in {"upsert", "queue", "local"} => Pieces(rec.bytes) \subseteq Reach(e)
    BY DEF Edits, CopiesReach, Copies
  <2>4. RecordedSafe(e) /\ DeletesGone(e)
    BY DEF Edits
  <2>5. ASSUME rows' = [rows EXCEPT ![e] = r],
               rec'.pc \in {"idle", "queue", "local", "remote", "forget", "gone"},
               rec'.pc # "idle" => rec'.entry = e,
               rec'.pc \in {"queue", "local"} =>
                 /\ rec'.bytes = rec.bytes /\ rec.pc \in {"upsert", "queue", "local"}
                 /\ rec'.pc = "queue",
               Deletes(e)' => Deletes(e),
               Recording(e)' => Recording(e) \/ ~Gated(e)
        PROVE  Edits'
    <3>1. \A S : RecordedIn(e, S) => Pieces(r.local) \subseteq S
      BY DEF RecordedIn
    <3>2. r.dirty.content = None => Pieces(r.local) \subseteq Safe
      BY <2>4, <3>1 DEF RecordedSafe
    <3> QED BY <2>1, <2>2, <2>3, <2>5, <3>1, <3>2, EditsRecord
  <2>6. CASE RecordUpsert
    <3>1. rows' = [rows EXCEPT ![e] = r]
      BY <2>6 DEF RecordUpsert, RecordChanges, RecordWrites
    <3>2. /\ rec'.pc \in {"idle", "queue"} /\ rec.pc = "upsert"
          /\ rec'.pc = "queue" => rec'.entry = e /\ rec'.bytes = rec.bytes /\ ~Gated(e)
      BY <2>6 DEF RecordUpsert, RecordChanges, RecordWrites, NoRec
    <3>3. ~Deletes(e)' /\ (Recording(e)' => ~Gated(e))
      BY <3>2 DEF Deletes, Recording
    <3> QED BY <2>5, <3>1, <3>2, <3>3
  <2>7. CASE RecordQueue
    <3>1. rec \in [pc : {"queue", "local"}, entry : Entries, bytes : Contents \ {None},
                   base : Nat, from : Contents] /\ rec.pc = "queue"
      BY <2>7 DEF RecordQueue, Types, RecorderTypes, Recorders
    <3>2. rec'.pc = "local" /\ rec'.entry = e /\ rec'.bytes = rec.bytes
      BY <2>7, <3>1 DEF RecordQueue, RecordChanges, RecordWrites
    <3> DEFINE new == Dirty(r, NewId(e), rec.base, rec.from, rec.bytes)
    <3>3. rows' = [rows EXCEPT ![e] = new]
      BY <2>7 DEF RecordQueue, RecordChanges, RecordWrites
    <3>4. NewId(e) \in 1..6
      BY NewIdIsFresh
    <3>5. /\ new.local = r.local
          /\ new.dirty = [id |-> NewId(e), base |-> rec.base, from |-> rec.from,
                          content |-> rec.bytes, status |-> "pending"]
      BY <3>1, <3>4, DirtyIs
    <3> HIDE DEF new
    <3>6. new.dirty.id = NewId(e) /\ new.dirty.content # None
      BY <3>1, <3>5
    <3>7. ~Deletes(e)' /\ Recording(e)
      BY <3>1, <3>2 DEF Deletes, Recording
    <3> QED BY <2>1, <2>2, <2>3, <3>1, <3>2, <3>3, <3>5, <3>6, <3>7, EditsRecord
  <2>8. CASE RecordLocal
    <3>1. rec.pc = "local" /\ rec.bytes \in Contents
      BY <2>8 DEF RecordLocal, Types, RecorderTypes, Recorders
    <3> DEFINE new == Local(r, rec.bytes)
    <3>2. rows' = [rows EXCEPT ![e] = new] /\ rec'.pc = "idle"
      BY <2>8 DEF RecordLocal, RecordChanges, RecordWrites, NoRec
    <3>3. new.local = rec.bytes /\ new.dirty = r.dirty
      BY <3>1, WritesAre
    <3> HIDE DEF new
    <3>4. \A S : RecordedIn(e, S) => Pieces(rec.bytes) \subseteq S
      BY <3>1 DEF RecordedIn
    <3>5. new.dirty.content = None => Pieces(new.local) \subseteq Safe
      BY <2>4, <3>3, <3>4 DEF RecordedSafe
    <3>6. ~Deletes(e)' /\ ~Recording(e)'
      BY <3>2 DEF Deletes, Recording
    <3> QED BY <2>1, <2>2, <2>3, <3>1, <3>2, <3>3, <3>4, <3>5, <3>6, EditsRecord
  <2>9. CASE RecordDelete
    <3>1. rec \in [pc : {"delete", "remote", "forget"}, entry : Entries] /\ rec.pc = "delete"
      BY <2>9 DEF RecordDelete, Types, RecorderTypes, Recorders
    <3>2. CASE Gated(e) \/ ~FoundByPath(r)
      <4>1. rows' = [rows EXCEPT ![e] = r] /\ rec'.pc = "idle"
        BY <2>9, <3>2 DEF RecordDelete, RecordChanges, RecordWrites, NoRec
      <4>2. ~Deletes(e)' /\ ~Recording(e)'
        BY <4>1 DEF Deletes, Recording
      <4> QED BY <2>5, <4>1, <4>2
    <3>3. CASE ~Gated(e) /\ FoundByPath(r)
      <4>1. /\ rec' = [rec EXCEPT !.pc = "remote"] /\ rows' = [rows EXCEPT ![e] = Clean(r)]
            /\ hist' = [hist EXCEPT !.raced = @ \union IF file[e] = None THEN {} ELSE {e}]
        BY <2>9, <3>3 DEF RecordDelete, RecordWrites
      <4>2. rec'.pc = "remote" /\ rec'.entry = e
        BY <3>1, <4>1
      <4>3. file[e] = None
        <5> DEFINE s == IF file[e] = None THEN {} ELSE {e}
                   P == SUBSET (Mine \union Theirs)
                   E == SUBSET Entries
        <5>1. hist \in [born : E, discarded : P, exposed : P, torn : P, raced : E]
          BY DEF Types, HistoryTypes
        <5>2. hist' = [hist EXCEPT !.raced = @ \union s]
          BY <4>1
        <5> HIDE DEF s, P, E
        <5>3. s \subseteq hist'.raced
          BY <5>1, <5>2
        <5> QED BY <5>3 DEF s
      <4>4. Reach(e) = Safe
        <5>1. TornOf(e) = {} /\ Pieces(file[e]) = {}
          BY <3>3, <4>3, PiecesAre DEF TornOf, Gated
        <5> QED BY <5>1 DEF Reach
      <4> DEFINE new == Clean(r)
      <4>5. new.local = r.local /\ new.dirty = NoMutation
        BY DEF Clean, Stored
      <4>6. new.dirty.id = 0 /\ new.dirty.content = None
        BY <4>5 DEF NoMutation
      <4> HIDE DEF new
      <4>7. e \notin New \ hist.born
        BY <2>4, <3>1 DEF DeletesGone
      <4>8. rows' = [rows EXCEPT ![e] = new]
        BY <4>1 DEF new
      <4> QED BY <2>1, <2>2, <2>3, <3>3, <4>2, <4>3, <4>4, <4>5, <4>6, <4>7, <4>8, EditsRecord
    <3> QED BY <3>2, <3>3
  <2>10. CASE RecordRemote
    <3>1. rec \in [pc : {"delete", "remote", "forget"}, entry : Entries] /\ rec.pc = "remote"
      BY <2>10 DEF RecordRemote, Types, RecorderTypes, Recorders
    <3>2. rows' = [rows EXCEPT ![e] = r] /\ rec'.pc \in {"forget", "gone"} /\ rec'.entry = e
      BY <2>10, <3>1 DEF RecordRemote, RecordChanges, RecordWrites
    <3>3. Deletes(e) /\ Recording(e)
      BY <3>1 DEF Deletes, Recording
    <3> QED BY <2>5, <3>2, <3>3
  <2>11. CASE RecordForget
    <3>1. rows' = [rows EXCEPT ![e] = EmptyRow] /\ rec'.pc = "idle"
      BY <2>11 DEF RecordForget, RecordWrites, NoRec
    <3> DEFINE new == EmptyRow
    <3>2. Pieces(new.local) = {} /\ new.dirty.id = 0 /\ rows' = [rows EXCEPT ![e] = new]
      BY <3>1, PiecesAre DEF EmptyRow, NoMutation
    <3> HIDE DEF new
    <3>3. ~Deletes(e)' /\ ~Recording(e)'
      BY <3>1 DEF Deletes, Recording
    <3> QED BY <2>1, <2>2, <3>1, <3>2, <3>3, EditsRecord
  <2>12. CASE RecordGone
    <3>1. rec \in [pc : {"gone", "queueDelete"}, entry : Entries, base : Nat, from : Contents]
            /\ rec.pc = "gone"
      BY <2>12 DEF RecordGone, Types, RecorderTypes, Recorders
    <3> DEFINE new == Local(r, None)
    <3>2. rec'.pc = "queueDelete" /\ rec'.entry = e /\ rows' = [rows EXCEPT ![e] = new]
      BY <2>12, <3>1 DEF RecordGone, RecordChanges, RecordWrites
    <3>3. Pieces(new.local) = {} /\ new.dirty = r.dirty
      <4>1. None \in Contents /\ Pieces(None) = {}
        BY PiecesAre
      <4>2. new.local = None /\ new.dirty = r.dirty
        BY <4>1, WritesAre
      <4> QED BY <4>1, <4>2
    <3> HIDE DEF new
    <3>4. Deletes(e) /\ Recording(e)
      BY <3>1 DEF Deletes, Recording
    <3> QED BY <2>1, <2>2, <3>2, <3>3, <3>4, EditsRecord
  <2>13. CASE RecordQueueDelete
    <3>1. rec.pc = "queueDelete" /\ rec.base \in Nat /\ rec.from \in Contents
      BY <2>13 DEF RecordQueueDelete, Types, RecorderTypes, Recorders
    <3> DEFINE new == Dirty(r, NewId(e), rec.base, rec.from, None)
    <3>2. rows' = [rows EXCEPT ![e] = new] /\ rec'.pc = "idle"
      BY <2>13 DEF RecordQueueDelete, RecordChanges, RecordWrites, NoRec
    <3>3. NewId(e) \in 1..6
      BY NewIdIsFresh
    <3>4. /\ new.local = r.local
          /\ new.dirty = [id |-> NewId(e), base |-> rec.base, from |-> rec.from,
                          content |-> None, status |-> "pending"]
      BY <3>1, <3>3, DirtyIs, PiecesAre
    <3> HIDE DEF new
    <3>5. new.dirty.id = NewId(e)
      BY <3>4
    <3>6. Pieces(new.local) \subseteq Safe
      BY <2>4, <3>1, <3>4 DEF RecordedSafe
    <3>7. ~Deletes(e)' /\ ~Recording(e)'
      BY <3>2 DEF Deletes, Recording
    <3> QED BY <2>1, <2>2, <2>3, <3>2, <3>4, <3>5, <3>6, <3>7, EditsRecord
  <2> QED BY <1>2, <2>6, <2>7, <2>8, <2>9, <2>10, <2>11, <2>12, <2>13 DEF Recorder
<1> QED BY <1>1, <1>2

\* What is recorded is in a larger set, too.
LEMMA RecordedStill ==
  ASSUME NEW e \in Entries, NEW S, NEW T, S \subseteq T, RecordedIn(e, S),
         rows'[e].local = rows[e].local, rec' = rec
  PROVE  /\ Pieces(rows'[e].local) \subseteq T
         /\ rec'.pc = "local" /\ rec'.entry = e => Pieces(rec'.bytes) \subseteq T
BY DEF RecordedIn

\* A step that prepares the change of e, and writes its row as it should.
LEMMA EditsPass ==
  ASSUME Types, Edits, Safe \subseteq Safe', UNCHANGED <<events, file, rec, pull>>,
         spent'.pieces = spent.pieces, hist'.born = hist.born, NEW e \in Entries,
         push.pc = "prepare", push.step[e] \in {"todo", "uploading"},
         NEW s, push' = [push EXCEPT !.step[e] = s] \/ push' = [push EXCEPT !.step[e] = s, !.stop = TRUE],
         \A f \in Entries \ {e} : rows'[f] = rows[f],
         \/ rows'[e].local = rows[e].local
         \/ rows'[e].local = file[e] /\ rows'[e].dirty.content # None /\ ~Deletes(e),
         rows'[e].dirty.content = None => RecordedIn(e, Safe),
         s # "none" => /\ s \in {"uploading", "ready"} /\ rows'[e] = rows[e]
                       /\ rows[e].dirty.id = push.batch[e].id =>
                            RecordedIn(e, Safe \union Pieces(push.batch[e].content)),
         Deletes(e) /\ rows'[e].dirty.content # None => file[e] = None
  PROVE  Edits'
<1>1. push \in Passing /\ pull.pc = "idle"
  BY PushIsAlone DEF Pass
<1>2. /\ push'.pc = "prepare" /\ push'.batch = push.batch /\ push'.step[e] = s
      /\ \A f \in Entries \ {e} : push'.step[f] = push.step[f]
  BY <1>1 DEF Passing
<1>3. \A f \in Entries \ {e} : SendsNoMore(f)
  BY <1>2 DEF SendsNoMore, Sent, Accepted, Asks
<1>4. RecordedSafe(e) /\ SentHas(e) /\ DeletesGone(e)
  BY DEF Edits
<1>5. Reach(e) \subseteq Reach(e)'
  BY PullStill
<1>6. DeletedWasBorn'
  BY DEF Edits, DeletedWasBorn
<1>7. Pieces(rows'[e].local) \subseteq Reach(e)'
  <2>1. Pieces(rows[e].local) \subseteq Reach(e) /\ Pieces(file[e]) \subseteq Reach(e)
    BY DEF Edits, CopiesReach, Copies, Reach
  <2> QED BY <1>5, <2>1
<1>8. rec'.pc \in {"upsert", "queue", "local"} /\ rec'.entry = e => Pieces(rec'.bytes) \subseteq Reach(e)'
  <2>1. rec.pc \in {"upsert", "queue", "local"} /\ rec.entry = e => Pieces(rec.bytes) \subseteq Reach(e)
    BY DEF Edits, CopiesReach, Copies
  <2> QED BY <1>5, <2>1
<1>9. RecordedSafe(e)'
  <2>1. rows'[e].dirty.content = None => RecordedIn(e, Safe)'
    BY RecordedStill DEF RecordedIn
  <2>2. rec.pc = "queueDelete" /\ rec.entry = e => Deletes(e) /\ Pieces(rows[e].local) \subseteq Safe
    BY <1>4 DEF Deletes, RecordedSafe
  <2> QED BY <1>1, <2>1, <2>2 DEF RecordedSafe
<1>10. SentHas(e)'
  <2>1. ASSUME s # "none", rows[e].dirty.id = push.batch[e].id
        PROVE  RecordedIn(e, Safe \union Pieces(push.batch[e].content))'
    <3>1. Safe \union Pieces(push.batch[e].content) \subseteq Safe' \union Pieces(push'.batch[e].content)
      BY <1>2
    <3> QED BY <2>1, <3>1, RecordedStill DEF RecordedIn
  <2> QED BY <1>2, <2>1 DEF SentHas, Sent, Accepted
<1>11. DeletesGone(e)'
  <2>1. Asks(e)' => Asks(e)
    BY <1>2 DEF Asks
  <2> QED BY <1>1, <1>4, <2>1 DEF DeletesGone, Deletes, Gated
<1> QED BY <1>3, <1>6, <1>7, <1>8, <1>9, <1>10, <1>11, EditsRow

\* A change is prepared from the file as it is: what is taken off the queue is
\* safe, and what is sent is all there is.
LEMMA EditsPrepare ==
  ASSUME Types, Keep, Edits, Safe \subseteq Safe', hist'.raced = {}, NEW e \in Entries,
         PushPrepare(e) \/ PushUpload(e)
  PROVE  Edits'
<1>1. /\ push.pc = "prepare" /\ push.step[e] # "none" /\ push.batch[e] \in Changes
      /\ push.step[e] \in {"todo", "uploading"} /\ pull.pc = "idle" /\ push.batch[e].id # 0
  BY PushIsAlone DEF PushPrepare, PushUpload, Pass, Passing
<1>2. /\ UNCHANGED <<events, file, rec, pull>> /\ hist'.born = hist.born /\ spent'.pieces = spent.pieces
  BY DEF PushPrepare, PushUpload, Prepared, SetAside, PushChanges, PushWrites, Trouble, Types,
     HistoryTypes, vault
<1> SUFFICES ASSUME NEW m \in Changes, m = push.batch[e], NEW r \in Stored, r = rows[e] PROVE Edits'
  BY <1>1 DEF Types, StoreTypes
<1>3. rows \in [Entries -> Stored]
  BY DEF Types, StoreTypes
<1>4. RecordedSafe(e) /\ SentHas(e) /\ DeletesGone(e)
  BY DEF Edits
<1>5. r.dirty.id = m.id => r.dirty.content = m.content
  <2>1. r.dirty \in Queue(e) /\ m \in Queue(e)
    BY <1>1 DEF Queue
  <2> QED BY <1>1, <2>1 DEF Keep, IdsAgree, OneContent
<1>6. r.dirty.content = None => RecordedIn(e, Safe)
  BY <1>4 DEF RecordedSafe
<1>7. Reach(e) = Pieces(file[e]) \union Safe
  BY <1>1 DEF Reach, TornOf
<1>8. \A S : Reach(e) \subseteq S => RecordedIn(e, S)
  BY DEF Edits, CopiesReach, Copies, RecordedIn
<1>9. m.content # None /\ Deletes(e) => file[e] = None
  BY <1>1, <1>4 DEF DeletesGone, Asks
<1>10. r.dirty.content # None /\ Deletes(e) => file[e] = None
  BY <1>4 DEF DeletesGone
<1>11. ASSUME NEW s, NEW new, push' = [push EXCEPT !.step[e] = s], rows' = [rows EXCEPT ![e] = new],
              \/ new.local = r.local
              \/ new.local = file[e] /\ new.dirty.content # None /\ ~Deletes(e),
              new.dirty.content = None => RecordedIn(e, Safe),
              s # "none" => /\ s \in {"uploading", "ready"} /\ new = r
                            /\ r.dirty.id = m.id => RecordedIn(e, Safe \union Pieces(m.content)),
              Deletes(e) /\ new.dirty.content # None => file[e] = None
       PROVE  Edits'
  <2>1. rows'[e] = new /\ \A f \in Entries \ {e} : rows'[f] = rows[f]
    BY <1>3, <1>11
  <2> QED BY <1>1, <1>2, <1>11, <2>1, EditsPass
<1>12. ASSUME NEW why \in Statuses \ {"none"}, SetAside(e, why) PROVE Edits'
  <2> DEFINE new == [r EXCEPT !.dirty = Blocked(m, why)]
  <2>1. push' = [push EXCEPT !.step[e] = "none"] /\ rows' = [rows EXCEPT ![e] = new]
    BY <1>12 DEF SetAside, PushWrites
  <2>2. new.local = r.local /\ new.dirty = Blocked(m, why)
    BY DEF Stored
  <2> HIDE DEF new
  <2>3. new.dirty.content = m.content
    BY <1>1, <2>2, BlockedIs
  <2>4. r.dirty.id \in {0, m.id}
    <3> DEFINE t == IF r.dirty.id \in {0, m.id} THEN {} ELSE {e}
               P == SUBSET (Mine \union Theirs)
               E == SUBSET Entries
    <3>1. hist \in [born : E, discarded : P, exposed : P, torn : P, raced : E]
      BY DEF Types, HistoryTypes
    <3>2. hist' = [hist EXCEPT !.raced = @ \union t]
      BY <1>12 DEF SetAside
    <3> HIDE DEF t, P, E
    <3>3. t \subseteq hist'.raced
      BY <3>1, <3>2
    <3> QED BY <3>3 DEF t
  <2>5. r.dirty.content = None \/ r.dirty.content = m.content
    BY <1>5, <2>4, ChangesAre DEF Stored, NoMutation
  <2> QED BY <1>6, <1>9, <1>11, <2>1, <2>2, <2>3, <2>5
<1>13. ASSUME NEW s, NEW new, Prepared(e, s, new)
       PROVE  push' = [push EXCEPT !.step[e] = s] /\ rows' = [rows EXCEPT ![e] = new]
  BY <1>13 DEF Prepared, PushChanges, PushWrites
<1>14. CASE PushPrepare(e)
  <2>1. "stale_unresolved" \in Statuses \ {"none"}
    BY DEF Statuses
  <2>2. CASE m.content = None /\ Prepared(e, "ready", r)
    <3>1. r.dirty.id = m.id => RecordedIn(e, Safe \union Pieces(m.content))
      BY <1>5, <1>6, <2>2 DEF RecordedIn
    <3> QED BY <1>6, <1>10, <1>11, <1>13, <2>2, <3>1
  <2>3. CASE file[e] = None /\ Prepared(e, "none", ClearById(r, m.id))
    <3> DEFINE new == ClearById(r, m.id)
    <3>1. new.local = r.local
      BY DEF ClearById, Clean, Stored
    <3>2. RecordedIn(e, Safe)
      <4>1. Pieces(file[e]) = {}
        BY <2>3, PiecesAre
      <4> QED BY <1>7, <1>8, <4>1
    <3> HIDE DEF new
    <3> QED BY <1>11, <1>13, <2>3, <3>1, <3>2 DEF new
  <2>4. CASE m.content # None /\ file[e] # None /\ Prepared(e, "none", Requeued(e, m))
    <3> DEFINE new == Requeued(e, m)
    <3>1. new.local = file[e] /\ new.dirty.content = file[e]
      BY RequeuedIs
    <3> HIDE DEF new
    <3> QED BY <1>9, <1>11, <1>13, <2>4, <3>1 DEF new
  <2>5. CASE m.content # None /\ file[e] = m.content /\ Prepared(e, "uploading", r)
    <3>1. RecordedIn(e, Safe \union Pieces(m.content))
      BY <1>7, <1>8, <2>5
    <3> QED BY <1>6, <1>10, <1>11, <1>13, <2>5, <3>1
  <2> QED BY <1>12, <1>14, <2>1, <2>2, <2>3, <2>4, <2>5 DEF PushPrepare
<1>15. CASE PushUpload(e)
  <2>1. "prepare_failed" \in Statuses \ {"none"} /\ push.step[e] = "uploading"
    BY <1>15 DEF Statuses, PushUpload
  <2>2. CASE Prepared(e, "ready", r)
    <3>1. r.dirty.id = m.id => RecordedIn(e, Safe \union Pieces(m.content))
      BY <1>1, <1>4, <2>1 DEF SentHas, Sent
    <3> QED BY <1>6, <1>10, <1>11, <1>13, <2>2, <3>1
  <2>3. CASE PushWrites([push EXCEPT !.step[e] = "none", !.stop = TRUE], rows)
    <3>1. push' = [push EXCEPT !.step[e] = "none", !.stop = TRUE] /\ rows' = rows
      BY <2>3 DEF PushWrites
    <3> QED BY <1>1, <1>2, <1>6, <1>10, <3>1, EditsPass
  <2> QED BY <1>12, <1>15, <2>1, <2>2, <2>3 DEF PushUpload
<1> QED BY <1>14, <1>15

\* A pass that lists, ends or gives up leaves what is recorded.
LEMMA EditsPushTurns ==
  ASSUME Types, Edits, Safe \subseteq Safe',
         PushStart \/ PushList \/ PushNothing \/ PushNext \/ PushThrow \/ PushFinish
  PROVE  Edits'
<1>1. UNCHANGED <<file, events, rec, rows, pull>> /\ hist'.born = hist.born /\ spent'.pieces = spent.pieces
  BY DEF PushStart, PushList, PushNothing, PushNext, PushThrow, PushFinish, PushChanges, PushWrites,
     Trouble, vault, Types, HistoryTypes
<1>2. push.pc # "idle" => push \in Passing
  BY PushIsAlone DEF Pass
<1>3. \A f \in Entries : KeepsRow(f)
  BY <1>1 DEF KeepsRow
<1>4. CASE ~PushList
  <2>1. push'.pc \in {"idle", "list"}
    <3>1. CASE PushThrow \/ PushFinish \/ PushStart
      BY <3>1 DEF PushThrow, PushFinish, PushStart, PushChanges, PushWrites, NoPush
    <3>2. CASE PushNothing
      BY <1>2, <3>2 DEF PushNothing, AllPrepared, PushChanges, PushWrites, Passing
    <3>3. CASE PushNext
      <4>1. push \in Passing /\ push'.pc = "list"
        BY <1>2, <3>3 DEF PushNext, PushChanges, PushWrites, Passing
      <4> QED BY <4>1
    <3> QED BY <1>4, <3>1, <3>2, <3>3
  <2>2. \A f \in Entries : SendsNoMore(f)
    BY <2>1 DEF SendsNoMore, Sent, Accepted, Asks
  <2> QED BY <1>1, <1>3, <2>2, EditsStill
<1>5. CASE PushList
  <2> DEFINE b == [f \in Entries |-> IF Pending(f) THEN rows[f].dirty ELSE NoMutation]
             s == [f \in Entries |-> IF Pending(f) THEN "todo" ELSE "none"]
             g == [f \in Entries |-> NoReply]
  <2>1. push' = [push EXCEPT !.pc = "prepare", !.batch = b, !.step = s, !.got = g] /\ push.pc = "list"
    BY <1>5 DEF PushList, PushChanges, PushWrites
  <2>2. \A f \in Entries : /\ b[f] = IF Pending(f) THEN rows[f].dirty ELSE NoMutation
                           /\ s[f] = IF Pending(f) THEN "todo" ELSE "none"
    OBVIOUS
  <2> HIDE DEF b, s, g
  <2>3. push'.pc = "prepare" /\ push'.batch = b /\ push'.step = s
    BY <1>2, <2>1 DEF Passing
  <2>4. ASSUME NEW f \in Entries PROVE RecordedSafe(f)' /\ SentHas(f)' /\ DeletesGone(f)'
    <3>1. RecordedSafe(f) /\ DeletesGone(f)
      BY DEF Edits
    <3>2. ~Sent(f)' /\ ~Accepted(f)'
      BY <2>2, <2>3 DEF Sent, Accepted
    <3>3. RecordedSafe(f)'
      <4>1. \A S : RecordedIn(f, S) => RecordedIn(f, S)'
        BY <1>1 DEF RecordedIn
      <4>2. RecordedIn(f, Safe) => RecordedIn(f, Safe)'
        BY <1>1 DEF RecordedIn
      <4> QED BY <1>1, <3>1, <4>2 DEF RecordedSafe
    <3>4. Asks(f)' => rows[f].dirty.content # None
      BY <2>2, <2>3 DEF Asks
    <3>5. DeletesGone(f)'
      <4>1. \A n : StillTo(n, f)' <=> StillTo(n, f)
        BY <1>1 DEF StillTo
      <4> QED BY <1>1, <3>1, <3>4, <4>1 DEF DeletesGone, Deletes, Gated, Recording
    <3> QED BY <3>2, <3>3, <3>5 DEF SentHas
  <2>5. /\ BroughtIsSafe' /\ PullSpares' /\ \A f \in Entries : Reach(f) \subseteq Reach(f)'
    BY <1>1, PullStill
  <2>6. DeletedWasBorn' /\ \A f \in Entries : \A c \in Copies(f)' : c \in Copies(f)
    BY <1>1 DEF Edits, DeletedWasBorn, Copies
  <2> QED BY <1>1, <2>4, <2>5, <2>6, EditsIf
<1> QED BY <1>4, <1>5

\* What the server takes is on the server.
LEMMA EditsPushCommit ==
  ASSUME Types, Keep, Edits, Safe \subseteq Safe', hist.born \subseteq hist'.born, PushCommit
  PROVE  Edits'
<1>1. push.pc = "prepare" /\ push \in Passing /\ Pass(push)
  BY PushIsAlone DEF PushCommit, AllPrepared, Pass
<1>2. UNCHANGED <<file, events, rec, rows, pull, spent>>
  BY DEF PushCommit, vault
<1> DEFINE s == [e \in Entries |-> IF e \notin Ready THEN "none"
                   ELSE IF e \in Taken \/ Repeated(e) THEN "accepted" ELSE "stale"]
           g == [e \in Entries |-> IF e \in Ready
                  THEN [revision |-> feed'[e].revision, seq |-> feed'[e].seq] ELSE NoReply]
<1>3. push' = [push EXCEPT !.pc = "apply", !.step = s, !.got = g]
  BY DEF PushCommit
<1>4. push'.pc = "apply" /\ push'.batch = push.batch /\ push'.step = s
  <2> HIDE DEF s, g
  <2> QED BY <1>1, <1>3 DEF Passing
<1>5. ASSUME NEW e \in Entries, push'.step[e] = "accepted"
      PROVE  Sent(e) /\ Pieces(push.batch[e].content) \subseteq Safe'
  <2>1. e \in Ready /\ (e \in Taken \/ Repeated(e))
    BY <1>4, <1>5
  <2>2. push.step[e] = "ready"
    BY <2>1 DEF Ready
  <2>3. CASE e \in Taken
    <3>1. feed'[e].blob = push.batch[e].content
      <4>1. feed'[e] = Accept(e, push.batch[e].content, feed'[e].seq)
        BY <2>3, CommitIs
      <4> QED BY <4>1 DEF Accept
    <3> QED BY <1>1, <2>2, <3>1, SafeHas DEF Sent, PartsAreSafe
  <2>4. CASE Repeated(e)
    <3>1. push.batch[e] \in Queue(e) /\ push.batch[e].id # 0 /\ push.batch[e].id = replay[e]
      BY <1>1, <2>2, <2>4 DEF Queue, Pass, Repeated
    <3>2. push.batch[e].content = feed[e].blob
      BY <3>1 DEF Keep, IdsAgree, OneContent
    <3> QED BY <1>1, <2>2, <3>2, SafeHas DEF Sent, PartsAreSafe
  <2> QED BY <2>1, <2>3, <2>4
<1>6. ASSUME NEW e \in Entries PROVE SendsNoMore(e) /\ KeepsRow(e)
  <2>1. push'.step[e] \in {"none", "accepted", "stale"}
    BY <1>4
  <2> HIDE DEF s
  <2> QED BY <1>2, <1>4, <1>5, <2>1 DEF SendsNoMore, Sent, Accepted, Asks, KeepsRow
<1> QED BY <1>2, <1>6, EditsStill

\* The row of what was accepted has the file as it was, or what was accepted.
LEMMA AcceptedRowHas ==
  ASSUME Types, push.pc # "idle", NEW e \in Entries
  PROVE  AcceptedRow(e).local \in {rows[e].local, push.batch[e].content}
<1> DEFINE c == push.batch[e].content
           r == [rows[e] EXCEPT !.revision = push.got[e].revision, !.remote = c]
           a == Answered(e)
<1>1. rows[e] \in Stored
  BY DEF Types, StoreTypes
<1>2. r.local = rows[e].local /\ Local(r, c).local = c
  BY <1>1 DEF Stored, Local
<1>3. a.local \in {rows[e].local, c}
  BY <1>2 DEF Answered
<1>4. a \in Stored
  BY AnsweredIs
<1> HIDE DEF a
<1>5. Clean(a).local = a.local
  BY <1>4 DEF Clean, Stored
<1>6. [a EXCEPT !.dirty.base = push.got[e].revision, !.dirty.from = c].local = a.local
  BY <1>4 DEF Stored
<1> QED BY <1>3, <1>5, <1>6 DEF AcceptedRow, a

\* What was accepted needs no queue any more: it is on the server, and so is
\* the file it was read from.
LEMMA EditsPushApply ==
  ASSUME Types, Edits, Safe \subseteq Safe', PushApply
  PROVE  Edits'
<1> DEFINE done == {e \in Entries : push.step[e] = "accepted"}
<1>1. push.pc = "apply" /\ push \in Passing /\ pull.pc = "idle"
  BY PushIsAlone DEF PushApply, Pass
<1>2. UNCHANGED <<file, events, rec, pull, hist, spent>>
  BY DEF PushApply, PushChanges, PushWrites, vault
<1>3. rows' = [e \in Entries |-> IF e \in done THEN AcceptedRow(e) ELSE rows[e]]
  BY DEF PushApply, PushChanges, PushWrites
<1>4. push'.pc = "reject"
  <2> DEFINE a == push.accepted \union {push.got[e].seq : e \in done}
             s == [e \in Entries |-> IF e \in done THEN "none" ELSE push.step[e]]
  <2>1. push' = [push EXCEPT !.pc = "reject", !.step = s, !.accepted = a]
    BY DEF PushApply, PushChanges, PushWrites
  <2> HIDE DEF a, s
  <2> QED BY <1>1, <2>1 DEF Passing
<1>5. \A e \in Entries : SendsNoMore(e) /\ ~Sent(e)' /\ ~Accepted(e)' /\ ~Asks(e)'
  BY <1>4 DEF SendsNoMore, Sent, Accepted, Asks
<1>6. /\ BroughtIsSafe' /\ PullSpares' /\ \A e \in Entries : Reach(e) \subseteq Reach(e)'
  BY <1>2, PullStill
<1>7. ASSUME NEW e \in done
      PROVE  /\ e \in Entries /\ Pieces(push.batch[e].content) \subseteq Safe
             /\ rows'[e].local \in {rows[e].local, push.batch[e].content}
             /\ \/ rows'[e].dirty.content = None /\ rows[e].dirty.id \in {0, push.batch[e].id}
                \/ rows'[e].dirty.content = rows[e].dirty.content
  <2>1. e \in Entries /\ Accepted(e)
    BY <1>1 DEF Accepted
  <2>2. SentHas(e)
    BY <2>1 DEF Edits
  <2>3. rows'[e] = AcceptedRow(e)
    BY <1>3, <2>1
  <2>4. \/ AcceptedRow(e).dirty = NoMutation /\ rows[e].dirty.id \in {0, push.batch[e].id}
        \/ AcceptedRow(e).dirty.content = rows[e].dirty.content
    <3>1. CASE rows[e].dirty.id \in {0, push.batch[e].id}
      <4>1. AcceptedRow(e) = Clean(Answered(e)) /\ Answered(e) \in Stored
        BY <1>1, <2>1, <3>1, AnsweredIs DEF AcceptedRow
      <4> QED BY <3>1, <4>1 DEF Clean, Stored
    <3>2. CASE rows[e].dirty.id \notin {0, push.batch[e].id}
      <4>1. rows[e].dirty \in Changes /\ rows[e].dirty.id # 0
        BY <2>1, <3>2 DEF Types, StoreTypes, Stored
      <4> DEFINE a == Answered(e)
                 d == [a.dirty EXCEPT !.base = push.got[e].revision, !.from = push.batch[e].content]
      <4>2. AcceptedRow(e) = [a EXCEPT !.dirty.base = push.got[e].revision,
                                       !.dirty.from = push.batch[e].content]
        BY <3>2 DEF AcceptedRow
      <4>3. a \in Stored /\ a.dirty = rows[e].dirty
        BY <1>1, <2>1, AnsweredIs
      <4> HIDE DEF a
      <4>4. d.content = rows[e].dirty.content
        BY <4>1, <4>3 DEF Changes, Queued, NoMutation
      <4>5. AcceptedRow(e) = [a EXCEPT !.dirty = d]
        BY <4>1, <4>2, <4>3 DEF Stored
      <4> HIDE DEF d
      <4> QED BY <4>3, <4>4, <4>5 DEF Stored
    <3> QED BY <3>1, <3>2
  <2>5. NoMutation.content = None
    BY DEF NoMutation
  <2>6. AcceptedRow(e).local \in {rows[e].local, push.batch[e].content}
    BY <1>1, <2>1, AcceptedRowHas
  <2> QED BY <2>1, <2>2, <2>3, <2>4, <2>5, <2>6 DEF SentHas
<1>8. ASSUME NEW e \in Entries PROVE RecordedSafe(e)' /\ SentHas(e)' /\ DeletesGone(e)'
  <2>1. RecordedSafe(e) /\ SentHas(e) /\ DeletesGone(e)
    BY DEF Edits
  <2>2. CASE e \in done
    <3>1. \A S : RecordedIn(e, S) /\ S \subseteq Safe => RecordedIn(e, Safe)'
      BY <1>2, <1>7, <2>2 DEF RecordedIn
    <3>2. rows'[e].dirty.content = None => RecordedIn(e, Safe)'
      <4>1. CASE rows[e].dirty.content = None
        BY <2>1, <3>1, <4>1 DEF RecordedSafe
      <4>2. CASE rows[e].dirty.content # None
        <5>1. rows'[e].dirty.content = None => rows[e].dirty.id = push.batch[e].id
          BY <1>7, <2>2, <4>2, ChangesAre DEF Types, StoreTypes, Stored, NoMutation
        <5>2. Sent(e)
          BY <1>1, <2>2 DEF Sent
        <5>3. rows'[e].dirty.content = None =>
                RecordedIn(e, Safe \union Pieces(push.batch[e].content))
          BY <2>1, <5>1, <5>2 DEF SentHas
        <5>4. Safe \union Pieces(push.batch[e].content) \subseteq Safe
          BY <1>7, <2>2
        <5> QED BY <3>1, <5>3, <5>4
      <4> QED BY <4>1, <4>2
    <3>3. RecordedSafe(e)'
      BY <1>1, <1>2, <1>7, <2>1, <2>2, <3>2 DEF RecordedSafe
    <3>4. SentHas(e)'
      BY <1>5 DEF SentHas
    <3>5. DeletesGone(e)'
      BY <1>1, <1>2, <1>5, <1>7, <2>1, <2>2 DEF DeletesGone, Deletes, Gated
    <3> QED BY <3>3, <3>4, <3>5
  <2>3. CASE e \notin done
    <3>1. KeepsRow(e)
      BY <1>3, <2>3 DEF KeepsRow
    <3> QED BY <1>1, <1>2, <1>5, <2>1, <3>1, EntryStill
  <2> QED BY <2>2, <2>3
<1>9. ASSUME NEW e \in Entries, NEW c \in Copies(e)' PROVE c \in Copies(e) \/ Pieces(c) \subseteq Reach(e)'
  <2>1. c = rows'[e].local \/ c \in Copies(e)
    BY <1>2, <1>9 DEF Copies
  <2>2. rows'[e].local \in {rows[e].local, push.batch[e].content}
    BY <1>3, <1>7
  <2>3. CASE c = push.batch[e].content /\ e \in done
    BY <1>7, <2>3 DEF Reach
  <2>4. CASE e \notin done
    BY <1>3, <2>1, <2>4 DEF Copies
  <2> QED BY <1>7, <2>1, <2>2, <2>3, <2>4 DEF Copies
<1>10. DeletedWasBorn'
  BY <1>2 DEF Edits, DeletedWasBorn
<1> HIDE DEF done
<1> QED BY <1>2, <1>6, <1>8, <1>9, <1>10, EditsIf

\* A rejection leaves what is recorded, and brings what the server has.
LEMMA EditsPushReject ==
  ASSUME Types, Edits, Safe \subseteq Safe', NEW e \in Entries, PushReject(e) \/ PushRecovered(e)
  PROVE  Edits'
<1>1. /\ push.pc # "idle" /\ push.step[e] # "none" /\ pull.pc = "idle" /\ push \in Passing
      /\ UNCHANGED <<feed, file, events, rec, spent, hist>>
  BY PushIsAlone DEF PushReject, PushRecovered, Pass, server, vault
<1>2. rows' = rows \/ Park(e)
  BY RejectIs DEF PushRecovered
<1>3. push'.pc \in {"reject", "recover"}
  <2>1. CASE PushReject(e)
    BY <2>1, RejectIs
  <2>2. CASE Park(e)
    BY <1>1, <2>2, ParkIs
  <2>3. CASE PushRecovered(e) /\ ~Park(e)
    BY <1>1, <2>3 DEF PushRecovered, Passing
  <2> QED BY <2>1, <2>2, <2>3
<1>4. ASSUME NEW f \in Entries PROVE KeepsRow(f) /\ SendsNoMore(f)
  <2>1. KeepsRow(f)
    <3>1. CASE rows' = rows
      BY <3>1 DEF KeepsRow
    <3>2. CASE Park(e) /\ f = e
      BY <1>1, <3>2, ParkIs DEF KeepsRow
    <3>3. CASE Park(e) /\ f # e
      BY <1>1, <3>3, ParkIs DEF KeepsRow
    <3> QED BY <1>2, <3>1, <3>2, <3>3
  <2> QED BY <1>3, <2>1 DEF SendsNoMore, Sent, Accepted, Asks
<1>5. CASE pull' = pull
  BY <1>1, <1>4, <1>5, EditsStill
<1>6. CASE pull' # pull
  <2>1. pull' = [pc |-> "prepare", byId |-> TRUE, since |-> cursor, target |-> cursor,
                 after |-> cursor, final |-> TRUE, window |-> {Item(e)}]
    BY <1>6, RejectIs DEF PushRecovered
  <2>2. pull'.pc = "prepare" /\ pull'.window = {Item(e)}
    BY <2>1
  <2>3. Pieces(Item(e).blob) \subseteq Safe'
    BY <1>1, ItemIs, SafeHas DEF PartsAreSafe
  <2>4. BroughtIsSafe' /\ \A f \in Entries : TornOf(f) \subseteq Safe'
    BY <1>1, <2>2, <2>3 DEF BroughtIsSafe, TornOf
  <2> QED BY <1>1, <1>4, <2>2, <2>4, EditsStill
<1> QED BY <1>5, <1>6

\* A parked change that gets another chance keeps what it has.
LEMMA EditsRetry ==
  ASSUME Types, Edits, Safe \subseteq Safe', RetryQuarantined \/ RetryParked
  PROVE  Edits'
<1>1. UNCHANGED <<file, events, rec, push, pull, spent, hist>>
  BY TypesRetry DEF vault
<1>2. \A f \in Entries : KeepsRow(f) /\ SendsNoMore(f)
  BY <1>1, TypesRetry DEF KeepsRow, SendsNoMore, Sent, Accepted, Asks
<1> QED BY <1>1, <1>2, EditsStill

\* A page brings what the server has.
LEMMA EditsPullRead ==
  ASSUME Types, Edits, Safe \subseteq Safe', PullStart \/ PullPage
  PROVE  Edits'
<1>1. UNCHANGED <<feed, file, rows, events, rec, push, spent, hist>>
  BY DEF PullStart, PullPage, PullChanges, server, vault
<1>2. PICK p \in Reading :
        /\ pull' = PageRead(p)
        /\ pull.pc \in {"idle", "fetch"}
        /\ \A i \in p.window : pull.pc = "fetch" /\ i \in pull.window
  <2>1. CASE PullStart
    <3> DEFINE p == [pc |-> "fetch", byId |-> FALSE, since |-> cursor, target |-> head,
                     after |-> cursor, final |-> FALSE, window |-> {}]
    <3>1. cursor \in Nat /\ head \in Nat
      BY DEF Types, ServerTypes, StoreTypes
    <3>2. p \in Reading /\ p.window = {}
      BY <3>1 DEF Reading
    <3>3. pull' = PageRead(p) /\ pull.pc = "idle"
      BY <2>1 DEF PullStart, PullChanges
    <3> HIDE DEF p
    <3> QED BY <3>2, <3>3
  <2>2. CASE PullPage
    <3>1. pull \in Reading /\ pull.pc = "fetch" /\ pull' = PageRead(pull)
      BY <2>2, PushIsAlone DEF PullPage, PullChanges
    <3> QED BY <3>1
  <2> QED BY <2>1, <2>2
<1>3. /\ pull' \in Reading
      /\ \/ pull'.window = p.window
         \/ \E e \in Entries : pull'.window = p.window \union {Item(e)}
  BY <1>2, PageIs
<1>4. pull'.pc \in {"fetch", "prepare"}
  BY <1>3 DEF Reading
<1>5. \A e \in Entries : Pieces(Item(e).blob) \subseteq Safe'
  BY <1>1, ItemIs, SafeHas DEF PartsAreSafe
<1>6. ASSUME NEW i \in pull'.window PROVE Pieces(i.blob) \subseteq Safe'
  <2>1. \/ pull.pc = "fetch" /\ i \in pull.window
        \/ \E e \in Entries : i = Item(e)
    BY <1>2, <1>3, <1>6
  <2>2. pull.pc = "fetch" => \A j \in pull.window : Pieces(j.blob) \subseteq Safe
    BY DEF Edits, BroughtIsSafe
  <2> QED BY <1>5, <2>1, <2>2
<1>7. BroughtIsSafe' /\ \A f \in Entries : TornOf(f) \subseteq Safe'
  BY <1>2, <1>4, <1>6 DEF BroughtIsSafe, TornOf
<1>8. \A f \in Entries : KeepsRow(f) /\ SendsNoMore(f)
  BY <1>1 DEF KeepsRow, SendsNoMore, Sent, Accepted, Asks
<1> QED BY <1>1, <1>4, <1>7, <1>8, EditsStill

\* A pull that is through with its window, or gives it up before it has begun
\* to apply it, leaves nothing in memory.
LEMMA EditsPullDone ==
  ASSUME Types, Edits, Safe \subseteq Safe', PullDone \/ PullAbort
  PROVE  Edits'
<1>1. /\ UNCHANGED <<file, rows, events, rec, spent, hist>>
      /\ NoPull.pc = "idle" /\ NoPush.pc = "idle"
  BY DEF PullDone, PullAbort, vault, NoPull, NoPush
<1>2. push' = push \/ push' = NoPush
  BY DEF PullDone, PullAbort, PushFallsToo
<1>3. pull' = NoPull \/ (pull'.pc = "fetch" /\ pull'.window = {})
  BY DEF PullDone, PullAbort
<1>4. \A f \in Entries : TornOf(f) = {}
  BY DEF PullDone, PullAbort, TornOf, StillTo
<1>5. BroughtIsSafe' /\ \A f \in Entries : TornOf(f) \subseteq Safe'
  BY <1>1, <1>3, <1>4 DEF BroughtIsSafe
<1>6. \A f \in Entries : KeepsRow(f) /\ SendsNoMore(f)
  BY <1>1, <1>2 DEF KeepsRow, SendsNoMore, Sent, Accepted, Asks
<1> QED BY <1>1, <1>3, <1>5, <1>6, EditsStill

\* A pull that fails, or a plugin that stops, remembers what it tears.
LEMMA TornIsSafe ==
  ASSUME Types, hist' = [hist EXCEPT !.torn = @ \union Torn, !.raced = hist'.raced],
         NEW e \in Entries
  PROVE  TornOf(e) \subseteq Safe'
<1> DEFINE P == SUBSET (Mine \union Theirs)
           E == SUBSET Entries
<1>1. hist \in [born : E, discarded : P, exposed : P, torn : P, raced : E]
  BY DEF Types, HistoryTypes
<1> HIDE DEF P, E
<1>2. Torn \subseteq hist'.torn
  BY <1>1
<1>3. TornOf(e) \subseteq Torn
  BY DEF TornOf, Torn
<1> QED BY <1>2, <1>3, SafeHas DEF PartsAreSafe

\* A window that fails gives back the rows as they were, and what they had.
LEMMA EditsPullFail ==
  ASSUME Types, Edits, Safe \subseteq Safe', hist'.raced = {}, PullFail
  PROVE  Edits'
<1>1. /\ UNCHANGED <<file, events, rec>> /\ spent'.pieces = spent.pieces /\ hist'.born = hist.born
      /\ pull.pc = "apply" /\ pull' = NoPull /\ NoPull.pc = "idle" /\ NoPush.pc = "idle"
      /\ push' = push \/ push' = NoPush
  BY DEF PullFail, PushFallsToo, Trouble, Types, HistoryTypes, vault, NoPull, NoPush
<1>2. push'.pc \notin {"prepare", "apply"}
  BY <1>1 DEF Types, PullTypes
<1>3. \A e \in Entries : rows'[e] = rows[e] \/ rows'[e] = pull.snap[e]
  BY DEF PullFail
<1> DEFINE crossed == {e \in Entries : /\ pull.plan[e].kind # "out" /\ rows[e] # pull.snap[e]
                                       /\ Crosses(e)}
           P == SUBSET (Mine \union Theirs)
           E == SUBSET Entries
<1>4. /\ hist \in [born : E, discarded : P, exposed : P, torn : P, raced : E]
      /\ hist' = [hist EXCEPT !.torn = @ \union Torn, !.raced = @ \union crossed]
  BY DEF Types, HistoryTypes, PullFail
<1>5. rows' = [e \in Entries |-> IF pull.plan[e].kind = "out" THEN rows[e] ELSE pull.snap[e]]
  BY DEF PullFail
<1> HIDE DEF P, E
<1>6. crossed = {}
  <2> HIDE DEF crossed
  <2> QED BY <1>4
<1>7. ASSUME NEW e \in Entries, rows'[e] # rows[e] PROVE ~Recording(e) /\ rows'[e] = pull.snap[e]
  <2>1. e \notin crossed
    BY <1>6
  <2> QED BY <1>5, <1>7, <2>1 DEF Crosses
<1>8. ASSUME NEW e \in Entries PROVE TornOf(e) \subseteq Safe'
  <2> HIDE DEF crossed
  <2>1. hist' = [hist EXCEPT !.torn = @ \union Torn, !.raced = hist'.raced]
    BY <1>4
  <2> QED BY <2>1, TornIsSafe
<1>9. \A e \in Entries : Reach(e) \subseteq Reach(e)'
  BY <1>1, <1>8 DEF Reach
<1>10. \A e \in Entries : \A c \in Copies(e)' : c \in Copies(e)
  BY <1>1, <1>3 DEF Copies
<1>11. BroughtIsSafe' /\ PullSpares'
  BY <1>1 DEF BroughtIsSafe, PullSpares
<1>12. DeletedWasBorn'
  BY <1>1 DEF Edits, DeletedWasBorn
<1>13. ASSUME NEW e \in Entries PROVE RecordedSafe(e)' /\ SentHas(e)' /\ DeletesGone(e)'
  <2>1. RecordedSafe(e) /\ DeletesGone(e)
    BY DEF Edits
  <2>2. SentHas(e)' /\ ~Asks(e)' /\ ~Gated(e)'
    BY <1>1, <1>2 DEF SentHas, Sent, Accepted, Asks, Gated
  <2>3. CASE rows'[e] = rows[e]
    <3>1. RecordedIn(e, Safe) => RecordedIn(e, Safe)'
      BY <1>1, <2>3 DEF RecordedIn
    <3> QED BY <1>1, <2>1, <2>2, <2>3, <3>1 DEF RecordedSafe, DeletesGone, Deletes
  <2>4. CASE rows'[e] # rows[e]
    <3>1. ~Recording(e) /\ rows'[e] = pull.snap[e] /\ ~Deletes(e)
      BY <1>7, <2>4 DEF Recording, Deletes
    <3>2. RecordedSafe(e)'
      BY <1>1, <2>1, <3>1 DEF RecordedSafe, RecordedIn, Recording
    <3> QED BY <1>1, <2>1, <2>2, <3>1, <3>2 DEF DeletesGone, Deletes
  <2> QED BY <2>3, <2>4
<1> HIDE DEF crossed
<1> QED BY <1>1, <1>9, <1>10, <1>11, <1>12, <1>13, EditsIf

\* After a restart a row has the file, or what it had of it.
LEMMA EditsRestart ==
  ASSUME Types, Edits, Safe \subseteq Safe', Restart
  PROVE  Edits'
<1>1. /\ file' = file /\ spent'.pieces = spent.pieces
      /\ pull'.pc = "idle" /\ push'.pc = "idle" /\ rec'.pc = "idle" /\ events' = <<>>
      /\ rows' = [e \in Entries |-> Reconciled(e)]
  BY DEF Restart, Trouble, Types, HistoryTypes, vault, NoPull, NoPush, NoRec
<1>2. \A e \in Entries : TornOf(e) \subseteq Safe'
  <2> DEFINE P == SUBSET (Mine \union Theirs)
             E == SUBSET Entries
  <2>1. /\ hist \in [born : E, discarded : P, exposed : P, torn : P, raced : E]
        /\ hist' = [hist EXCEPT !.torn = @ \union Torn, !.raced = @ \union Forgotten]
    BY DEF Types, HistoryTypes, Restart
  <2> HIDE DEF P, E
  <2>2. hist' = [hist EXCEPT !.torn = @ \union Torn, !.raced = hist'.raced]
    BY <2>1
  <2> QED BY <2>2, TornIsSafe
<1>3. \A e \in Entries : Reach(e) \subseteq Reach(e)'
  BY <1>1, <1>2 DEF Reach
<1>4. EmptyRow.local = None /\ EmptyRow.dirty.content = None /\ Pieces(None) = {}
  BY PiecesAre DEF EmptyRow, NoMutation
<1>5. ASSUME NEW e \in Entries
      PROVE  \/ rows'[e] = rows[e]
             \/ rows'[e].local = None
             \/ rows'[e].local = file[e] /\ rows'[e].dirty.content = file[e]
  BY <1>1, <1>4, ReconciledIs
<1>6. ASSUME NEW e \in Entries, NEW c \in Copies(e)' PROVE c \in Copies(e) \/ Pieces(c) \subseteq Reach(e)'
  <2>1. c = rows'[e].local
    BY <1>1, <1>6 DEF Copies
  <2>2. rows[e].local \in Copies(e) /\ Pieces(file[e]) \subseteq Reach(e)'
    BY <1>1 DEF Copies, Reach
  <2> QED BY <1>4, <1>5, <2>1, <2>2
<1>7. BroughtIsSafe' /\ PullSpares'
  BY <1>1 DEF BroughtIsSafe, PullSpares
<1>8. DeletedWasBorn'
  BY <1>1 DEF DeletedWasBorn
<1>9. ASSUME NEW e \in Entries PROVE RecordedSafe(e)' /\ SentHas(e)' /\ DeletesGone(e)'
  <2>1. SentHas(e)' /\ DeletesGone(e)'
    BY <1>1 DEF SentHas, Sent, Accepted, DeletesGone, Deletes, Asks, Gated
  <2>2. rows[e].dirty.content = None => Pieces(rows[e].local) \subseteq Safe
    BY DEF Edits, RecordedSafe, RecordedIn
  <2>3. rows'[e].dirty.content = None => Pieces(rows'[e].local) \subseteq Safe'
    BY <1>4, <1>5, <2>2
  <2>4. RecordedSafe(e)'
    BY <1>1, <2>3 DEF RecordedSafe, RecordedIn
  <2> QED BY <2>1, <2>4
<1> QED BY <1>1, <1>3, <1>6, <1>7, <1>8, <1>9, EditsIf

\* A step of a window is one step less to come, on one entry.
LEMMA WindowIs ==
  ASSUME Types, Edits, Safe \subseteq Safe', NEW e \in Entries,
         PullConflict(e) \/ PullWrite(e) \/ PullRow(e) \/ PullMerge(e) \/ PullQueue(e)
  PROVE  /\ At(pull.stage, e) /\ pull.stage \in 1..5 /\ pull.plan[e].kind # "out"
         /\ pull.stage = 1 => pull.plan[e].kind = "conflict" \/ pull.plan[e].leaves
         /\ pull.stage = 2 => pull.plan[e].kind # "skip"
         /\ pull.stage \in {4, 5} => pull.plan[e].kind = "merge"
         /\ UNCHANGED <<feed, rec, push>> /\ hist'.born = hist.born /\ spent'.pieces = spent.pieces
         /\ \A f \in Entries \ {e} : rows'[f] = rows[f] /\ file'[f] = file[f]
         /\ pull.pc = "apply" /\ pull'.pc = "apply"
         /\ pull'.plan = pull.plan /\ pull'.snap = pull.snap
         /\ \A n \in 1..5 : \A f \in Concerned(n, pull.plan) :
              StillTo(n, f)' <=> StillTo(n, f) /\ ~(n = pull.stage /\ f = e)
         /\ push.pc \notin {"prepare", "apply"}
         /\ BroughtIsSafe' /\ Spares(e) /\ Pieces(pull.plan[e].blob) \subseteq Safe
         /\ rows[e] \in Stored /\ rows \in [Entries -> Stored] /\ pull.plan[e] \in Plans
<1>1. /\ At(pull.stage, e) /\ pull.stage \in 1..5
      /\ UNCHANGED <<feed, rec, push>> /\ hist'.born = hist.born
      /\ \A f \in Entries \ {e} : file'[f] = file[f]
  BY PullStepWrites
<1>2. /\ pull.pc = "apply" /\ pull' = Done(e) /\ pull.plan[e].kind # "out"
      /\ \A f \in Entries \ {e} : rows'[f] = rows[f]
  BY PullStepIs
<1>3. /\ pull'.pc = "apply" /\ pull'.plan = pull.plan /\ pull'.snap = pull.snap
      /\ \A n \in 1..5 : \A f \in Concerned(n, pull.plan) :
           StillTo(n, f)' <=> StillTo(n, f) /\ ~(n = pull.stage /\ f = e)
  <2>1. /\ pull' \in Applying /\ pull'.plan = pull.plan /\ pull'.snap = pull.snap
        /\ \A n \in 1..5 : \A f \in Concerned(n, pull'.plan) :
             Ahead(pull', n, f) <=> Ahead(pull, n, f) /\ ~(n = pull.stage /\ f = e)
    BY <1>1, <1>2, DoneIs
  <2>2. \A n, f : (StillTo(n, f) <=> Ahead(pull, n, f)) /\ (StillTo(n, f)' <=> Ahead(pull', n, f))
    BY DEF StillTo, Ahead
  <2> QED BY <2>1, <2>2 DEF Applying
<1>4. e \in Concerned(pull.stage, pull.plan)
  BY <1>1, <1>2 DEF Types, PullTypes, At
<1>5. /\ pull.stage = 1 => pull.plan[e].kind = "conflict" \/ pull.plan[e].leaves
      /\ pull.stage = 2 => pull.plan[e].kind # "skip"
      /\ pull.stage \in {4, 5} => pull.plan[e].kind = "merge"
  BY <1>4 DEF Concerned
<1>6. push.pc \notin {"prepare", "apply"}
  BY <1>2 DEF Types, PullTypes
<1>7. Spares(e) /\ \A f \in Entries : Pieces(pull.plan[f].blob) \subseteq Safe
  BY <1>2 DEF Edits, PullSpares, BroughtIsSafe
<1>8. BroughtIsSafe'
  BY <1>3, <1>7 DEF BroughtIsSafe
<1>9. spent'.pieces = spent.pieces
  BY DEF PullConflict, PullWrite, PullRow, PullMerge, PullQueue, Written
<1>10. rows[e] \in Stored /\ rows \in [Entries -> Stored] /\ pull.plan[e] \in Plans
  BY <1>2, PushIsAlone DEF Types, StoreTypes, Applying
<1> QED BY <1>1, <1>2, <1>3, <1>5, <1>6, <1>7, <1>8, <1>9, <1>10

\* A step of a window that leaves one entry as it should.
LEMMA EditsWindow ==
  ASSUME Types, Edits, Safe \subseteq Safe', NEW e \in Entries,
         PullConflict(e) \/ PullWrite(e) \/ PullRow(e) \/ PullMerge(e) \/ PullQueue(e),
         Pieces(file[e]) \subseteq Reach(e)', TornOf(e) \subseteq Reach(e)',
         Pieces(rows'[e].local) \subseteq Reach(e)',
         Spares(e)', DeletedWasBorn', RecordedSafe(e)',
         Deletes(e) => rows'[e].dirty.content = None,
         ~StillTo(3, e)' => ~Recording(e)
  PROVE  Edits'
<1>1. /\ pull.plan[e].kind # "out"
      /\ UNCHANGED <<feed, rec, push>> /\ hist'.born = hist.born /\ spent'.pieces = spent.pieces
      /\ \A f \in Entries \ {e} : rows'[f] = rows[f] /\ file'[f] = file[f]
      /\ pull.pc = "apply" /\ pull'.pc = "apply"
      /\ pull'.plan = pull.plan /\ pull'.snap = pull.snap
      /\ \A n \in 1..5 : \A f \in Concerned(n, pull.plan) :
              StillTo(n, f)' <=> StillTo(n, f) /\ ~(n = pull.stage /\ f = e)
      /\ push.pc \notin {"prepare", "apply"} /\ BroughtIsSafe'
  BY WindowIs
<1>2. \A f \in Entries : /\ pull.plan[f].kind \in {"plain", "conflict", "merge"} => f \in Concerned(2, pull.plan)
                         /\ pull.plan[f].kind = "conflict" => f \in Concerned(1, pull.plan)
                         /\ pull.plan[f].kind = "merge" => f \in Concerned(4, pull.plan)
  BY DEF Concerned
<1>3. ASSUME NEW f \in Entries, f # e PROVE Spares(f)' /\ TornOf(f)' = TornOf(f)
  <2>1. /\ pull.plan[f].kind \in {"plain", "conflict", "merge"} => (StillTo(2, f)' <=> StillTo(2, f))
        /\ pull.plan[f].kind = "conflict" => (StillTo(1, f)' <=> StillTo(1, f))
        /\ pull.plan[f].kind = "merge" => (StillTo(4, f)' <=> StillTo(4, f))
    BY <1>1, <1>2, <1>3
  <2>2. Spares(f)
    BY <1>1 DEF Edits, PullSpares
  <2>3. TornOf(f)' = TornOf(f)
    BY <1>1, <2>1 DEF TornOf
  <2>4. Spares(f)'
    BY <1>1, <1>3, <2>1, <2>2 DEF Spares
  <2> QED BY <2>3, <2>4
<1>4. PullSpares'
  BY <1>3 DEF PullSpares
<1>5. ASSUME NEW f \in Entries PROVE Reach(f) \subseteq Reach(f)'
  <2>1. CASE f = e
    BY <2>1, ReachIs
  <2>2. CASE f # e
    BY <1>1, <1>3, <2>2 DEF Reach
  <2> QED BY <2>1, <2>2
<1>6. ASSUME NEW f \in Entries, NEW c \in Copies(f)' PROVE c \in Copies(f) \/ Pieces(c) \subseteq Reach(f)'
  <2>1. c = rows'[f].local \/ c \in Copies(f)
    BY <1>1, <1>6 DEF Copies
  <2>2. f # e => rows'[f].local \in Copies(f)
    BY <1>1 DEF Copies
  <2> QED BY <2>1, <2>2
<1>7. ASSUME NEW f \in Entries PROVE RecordedSafe(f)' /\ SentHas(f)' /\ DeletesGone(f)'
  <2>1. RecordedSafe(f) /\ SentHas(f) /\ DeletesGone(f)
    BY DEF Edits
  <2>2. CASE f = e
    <3>1. SentHas(e)' /\ ~Asks(e)'
      BY <1>1 DEF SentHas, Sent, Accepted, Asks
    <3>2. DeletesGone(e)'
      BY <1>1, <2>1, <2>2, <3>1 DEF DeletesGone, Deletes, Recording
    <3> QED BY <2>2, <3>1, <3>2
  <2>3. CASE f # e
    <3>1. KeepsRow(f) /\ SendsNoMore(f)
      BY <1>1, <2>3 DEF KeepsRow, SendsNoMore, Sent, Accepted, Asks
    <3>2. \A n \in {1, 3} : StillTo(n, f) /\ f \in Concerned(n, pull.plan) => StillTo(n, f)'
      BY <1>1, <2>3
    <3>3. file'[f] = file[f] /\ rec' = rec /\ hist.born \subseteq hist'.born
      BY <1>1, <2>3
    <3> QED BY <1>1, <2>1, <3>1, <3>2, <3>3, EntryStill
  <2> QED BY <2>2, <2>3
<1> QED BY <1>1, <1>4, <1>5, <1>6, <1>7, EditsIf

\* What conflicts is copied before it is taken off the queue, and the row of
\* what is to go has nothing of it.
LEMMA EditsPullConflict ==
  ASSUME Types, Edits, Safe \subseteq Safe', NEW e \in Entries, PullConflict(e)
  PROVE  Edits'
<1> DEFINE p == pull.plan[e]
<1>1. /\ pull.stage = 1 /\ p.kind \in {"plain", "conflict"}
      /\ UNCHANGED <<rec, push>> /\ hist'.born = hist.born
      /\ pull.pc = "apply" /\ pull'.pc = "apply"
      /\ pull'.plan = pull.plan /\ pull'.snap = pull.snap
      /\ \A n \in 1..5 : \A f \in Concerned(n, pull.plan) :
              StillTo(n, f)' <=> StillTo(n, f) /\ ~(n = pull.stage /\ f = e)
      /\ Spares(e) /\ rows[e] \in Stored /\ rows \in [Entries -> Stored]
  <2>1. pull.stage = 1
    BY DEF PullConflict, At
  <2>2. p.kind \in PlanKinds
    BY WindowIs DEF Plans
  <2>3. p.kind \in {"plain", "conflict"}
    BY <2>1, <2>2, WindowIs DEF Spares, PlanKinds
  <2> QED BY <2>1, <2>3, WindowIs
<1>2. StillTo(2, e) /\ StillTo(2, e)' /\ StillTo(3, e)'
  <2>1. e \in Concerned(2, pull.plan) /\ e \in Concerned(3, pull.plan)
    BY <1>1 DEF Concerned
  <2> QED BY <1>1, <2>1 DEF StillTo
<1> DEFINE d == [EmptyRow EXCEPT !.revision = pull.snap[e].revision,
                                 !.remote = IF pull.snap[e].known THEN pull.snap[e].local
                                            ELSE pull.snap[e].remote,
                                 !.known = TRUE]
           r == IF p.kind = "conflict" THEN ClearById(rows[e], p.id) ELSE rows[e]
<1>3. /\ UNCHANGED <<file, events>> /\ copies' = copies \union Copied(p)
      /\ rows' = [rows EXCEPT ![e] = IF p.leaves THEN d ELSE r]
  BY DEF PullConflict
<1>4. d.local = None /\ d.dirty.content = None
  BY DEF EmptyRow, NoMutation
<1>5. /\ r.local = rows[e].local
      /\ r.dirty = IF p.kind = "conflict" /\ rows[e].dirty.id = p.id THEN NoMutation ELSE rows[e].dirty
  BY <1>1 DEF ClearById, Clean, Stored
<1> HIDE DEF d, r
<1>6. /\ rows'[e].local \in {None, rows[e].local}
      /\ \/ rows'[e].dirty.content = None
         \/ /\ rows'[e].dirty = rows[e].dirty
            /\ p.kind = "conflict" => rows[e].dirty.id # p.id
  <2>1. rows'[e] = d \/ rows'[e] = r
    BY <1>1, <1>3
  <2>2. NoMutation.content = None
    BY DEF NoMutation
  <2> QED BY <1>4, <1>5, <2>1, <2>2
<1>7. p.kind = "conflict" => Pieces(p.bytes) \subseteq Safe'
  BY <1>3, SafeHas DEF Copied, PartsAreSafe
<1>8. Pieces(file[e]) \subseteq Safe' /\ TornOf(e) = {}
  BY <1>1, <1>2, <1>7 DEF Spares, TornOf
<1>9. Reach(e) \subseteq Safe'
  BY <1>8 DEF Reach
<1>10. /\ Pieces(rows[e].local) \subseteq Safe' /\ Pieces(None) = {}
       /\ rec.pc = "local" /\ rec.entry = e => Pieces(rec.bytes) \subseteq Safe'
  BY <1>9, PiecesAre DEF Edits, CopiesReach, Copies
<1>11. Pieces(rows'[e].local) \subseteq Safe'
  BY <1>6, <1>10
<1>12. RecordedSafe(e)'
  BY <1>1, <1>10, <1>11 DEF Edits, RecordedSafe, RecordedIn
<1>13. Spares(e)'
  BY <1>1, <1>3, <1>7, <1>8, <1>2 DEF Spares
<1>14. DeletedWasBorn'
  BY <1>1, <1>3 DEF Edits, DeletedWasBorn
<1>15. Deletes(e) => rows'[e].dirty.content = None
  BY <1>1, <1>6 DEF Edits, DeletesGone, Gated
<1>16. Safe' \subseteq Reach(e)'
  BY DEF Reach
<1>17. Pieces(file[e]) \subseteq Reach(e)' /\ TornOf(e) \subseteq Reach(e)' /\ Pieces(rows'[e].local) \subseteq Reach(e)'
  BY <1>8, <1>11, <1>16
<1> QED BY <1>2, <1>12, <1>13, <1>14, <1>15, <1>17, EditsWindow

\* The vault tells of what a pull writes, and of an entry that was there, if it
\* is removed.
LEMMA WrittenHappens ==
  ASSUME Types, Keep, Edits, NEW e \in Entries, NEW c, Written(e, c), hist'.born = hist.born
  PROVE  DeletedWasBorn'
<1>1. CASE c # None
  BY <1>1, HappensIs DEF Edits, DeletedWasBorn, Written
<1>2. CASE c = None /\ file[e] # None
  <2>1. e \notin New \ hist.born
    BY <1>2 DEF Keep, NoneBefore, Unborn
  <2>2. Happens("delete", e)
    BY <1>2 DEF Written
  <2> QED BY <2>1, <2>2, HappensIs DEF Edits, DeletedWasBorn
<1>3. CASE c = None /\ file[e] = None
  BY <1>3 DEF Edits, DeletedWasBorn, Written
<1> QED BY <1>1, <1>2, <1>3

\* What a pull writes over is safe, or the merge still has it.
LEMMA EditsPullWrite ==
  ASSUME Types, Keep, Edits, Safe \subseteq Safe', NEW e \in Entries, PullWrite(e)
  PROVE  Edits'
<1> DEFINE p == pull.plan[e]
<1>1. /\ pull.stage = 2 /\ p.kind \in {"plain", "conflict", "merge"}
      /\ UNCHANGED <<rec, push>> /\ hist'.born = hist.born
      /\ pull.pc = "apply" /\ pull'.pc = "apply"
      /\ pull'.plan = pull.plan /\ pull'.snap = pull.snap
      /\ \A n \in 1..5 : \A f \in Concerned(n, pull.plan) :
              StillTo(n, f)' <=> StillTo(n, f) /\ ~(n = pull.stage /\ f = e)
      /\ Spares(e) /\ Pieces(p.blob) \subseteq Safe /\ e \in pull.todo
  <2>1. pull.stage = 2 /\ e \in pull.todo
    BY DEF PullWrite, At
  <2>2. p.kind \in PlanKinds
    BY WindowIs DEF Plans
  <2>3. p.kind \in {"plain", "conflict", "merge"}
    BY <2>1, <2>2, WindowIs DEF PlanKinds
  <2> QED BY <2>1, <2>3, WindowIs
<1>2. /\ StillTo(2, e) /\ ~StillTo(1, e) /\ ~StillTo(2, e)' /\ StillTo(3, e)'
      /\ p.kind = "merge" => StillTo(4, e)'
      /\ p.kind = "conflict" => ~StillTo(1, e)'
  <2>1. /\ e \in Concerned(2, pull.plan) /\ e \in Concerned(3, pull.plan)
        /\ p.kind = "merge" => e \in Concerned(4, pull.plan)
        /\ p.kind = "conflict" => e \in Concerned(1, pull.plan)
    BY <1>1 DEF Concerned
  <2>2. StillTo(2, e) /\ ~StillTo(1, e) /\ StillTo(3, e) /\ StillTo(4, e)
    BY <1>1 DEF StillTo
  <2> QED BY <1>1, <2>1, <2>2
<1>3. file'[e] = p.blob /\ rows' = rows /\ Written(e, p.blob)
  BY DEF PullWrite, Written, Types, VaultTypes
<1>4. Pieces(file[e]) \subseteq Reach(e)' /\ TornOf(e) \subseteq Reach(e)'
  <2>1. TornOf(e) = {} /\ (p.kind = "merge" => TornOf(e)' = Pieces(p.bytes))
    BY <1>1, <1>2 DEF TornOf
  <2>2. /\ p.kind \in {"plain", "conflict"} => Pieces(file[e]) \subseteq Safe
        /\ p.kind = "merge" => Pieces(file[e]) \subseteq Safe \union Pieces(p.bytes)
    BY <1>1, <1>2 DEF Spares
  <2>3. Safe' \subseteq Reach(e)' /\ TornOf(e)' \subseteq Reach(e)'
    BY ReachIs
  <2> QED BY <1>1, <2>1, <2>2, <2>3
<1>5. Pieces(rows'[e].local) \subseteq Reach(e)'
  <2>1. Reach(e) \subseteq Reach(e)'
    BY <1>4, ReachIs
  <2>2. Pieces(rows[e].local) \subseteq Reach(e)
    BY DEF Edits, CopiesReach, Copies
  <2> QED BY <1>3, <2>1, <2>2
<1>6. Spares(e)'
  <2>1. p.kind = "conflict" => Pieces(p.bytes) \subseteq Safe
    BY <1>1, <1>2 DEF Spares
  <2>2. Pieces(file'[e]) \subseteq Safe'
    BY <1>1, <1>3
  <2> QED BY <1>1, <1>2, <2>1, <2>2 DEF Spares
<1>7. DeletedWasBorn'
  BY <1>1, <1>3, WrittenHappens
<1>8. RecordedSafe(e)'
  <2>1. RecordedIn(e, Safe) => RecordedIn(e, Safe)'
    BY <1>1, <1>3 DEF RecordedIn
  <2> QED BY <1>1, <1>3, <2>1 DEF Edits, RecordedSafe
<1>9. Deletes(e) => rows'[e].dirty.content = None
  BY <1>1, <1>2, <1>3 DEF Edits, DeletesGone, Gated
<1> QED BY <1>2, <1>4, <1>5, <1>6, <1>7, <1>8, <1>9, EditsWindow

\* A row that is written has what the server has, and nothing crossed it.
LEMMA EditsPullRow ==
  ASSUME Types, Edits, Safe \subseteq Safe', hist'.raced = {}, NEW e \in Entries, PullRow(e)
  PROVE  Edits'
<1> DEFINE p == pull.plan[e]
<1>1. /\ pull.stage = 3 /\ p.kind \in PlanKinds \ {"out"}
      /\ UNCHANGED <<rec, push>> /\ hist'.born = hist.born
      /\ pull.pc = "apply" /\ pull'.pc = "apply"
      /\ pull'.plan = pull.plan /\ pull'.snap = pull.snap
      /\ \A n \in 1..5 : \A f \in Concerned(n, pull.plan) :
              StillTo(n, f)' <=> StillTo(n, f) /\ ~(n = pull.stage /\ f = e)
      /\ Spares(e) /\ Pieces(p.blob) \subseteq Safe /\ rows \in [Entries -> Stored]
  <2>1. pull.stage = 3
    BY DEF PullRow, At
  <2>2. p.kind \in PlanKinds
    BY WindowIs DEF Plans
  <2> QED BY <2>1, <2>2, WindowIs
<1>2. /\ p.kind # "skip" => (StillTo(2, e)' <=> StillTo(2, e))
      /\ p.kind = "conflict" => (StillTo(1, e)' <=> StillTo(1, e))
      /\ p.kind = "merge" => (StillTo(4, e)' <=> StillTo(4, e))
  <2>1. /\ p.kind # "skip" => e \in Concerned(2, pull.plan)
        /\ p.kind = "conflict" => e \in Concerned(1, pull.plan)
        /\ p.kind = "merge" => e \in Concerned(4, pull.plan)
    BY <1>1 DEF Concerned
  <2> QED BY <1>1, <2>1
<1>3. /\ UNCHANGED <<file, events>>
      /\ rows'[e].local = p.blob /\ rows'[e].dirty.content = None
  <2> DEFINE u == Upserted(p.revision, p.blob)
  <2>1. UNCHANGED <<file, events>> /\ rows' = [rows EXCEPT ![e] = u]
    BY DEF PullRow, vault
  <2>2. u.local = p.blob /\ u.dirty.content = None
    BY DEF Upserted, EmptyRow, NoMutation
  <2> HIDE DEF u
  <2> QED BY <1>1, <2>1, <2>2
<1>4. ~Recording(e)
  <2> DEFINE c == IF Crosses(e) THEN {e} ELSE {}
             P == SUBSET (Mine \union Theirs)
             E == SUBSET Entries
  <2>1. /\ hist \in [born : E, discarded : P, exposed : P, torn : P, raced : E]
        /\ hist' = [hist EXCEPT !.raced = @ \union c]
    BY DEF Types, HistoryTypes, PullRow
  <2>2. c # {} => Crosses(e) /\ c = {e}
    OBVIOUS
  <2>3. Crosses(e) => c = {e}
    OBVIOUS
  <2> HIDE DEF P, E, c
  <2>4. c = {}
    BY <2>1
  <2> QED BY <2>3, <2>4 DEF Crosses
<1>5. TornOf(e)' = TornOf(e)
  BY <1>1, <1>2 DEF TornOf
<1>6. Safe' \subseteq Reach(e)' /\ Pieces(file'[e]) \subseteq Reach(e)' /\ TornOf(e)' \subseteq Reach(e)'
  BY ReachIs
<1>7. Pieces(file[e]) \subseteq Reach(e)' /\ TornOf(e) \subseteq Reach(e)' /\ Pieces(rows'[e].local) \subseteq Reach(e)'
  BY <1>1, <1>3, <1>5, <1>6
<1>8. Spares(e)'
  BY <1>1, <1>2, <1>3 DEF Spares
<1>9. DeletedWasBorn'
  BY <1>1, <1>3 DEF Edits, DeletedWasBorn
<1>10. Pieces(rows'[e].local) \subseteq Safe' /\ ~Deletes(e)
  BY <1>1, <1>3, <1>4 DEF Deletes, Recording
<1>11. RecordedSafe(e)'
  BY <1>1, <1>4, <1>10 DEF Edits, RecordedSafe, RecordedIn, Recording
<1> QED BY <1>4, <1>7, <1>8, <1>9, <1>10, <1>11, EditsWindow

\* A merge that is written has what the file had, and what was in memory.
LEMMA EditsPullMerge ==
  ASSUME Types, Keep, Edits, Safe \subseteq Safe', NEW e \in Entries, PullMerge(e)
  PROVE  Edits'
<1> DEFINE p == pull.plan[e]
<1>1. /\ pull.stage = 4 /\ p.kind = "merge"
      /\ UNCHANGED <<rec, push>> /\ hist'.born = hist.born
      /\ pull.pc = "apply" /\ pull'.pc = "apply"
      /\ pull'.plan = pull.plan /\ pull'.snap = pull.snap
      /\ \A n \in 1..5 : \A f \in Concerned(n, pull.plan) :
              StillTo(n, f)' <=> StillTo(n, f) /\ ~(n = pull.stage /\ f = e)
      /\ Spares(e) /\ p \in Plans /\ e \in pull.todo
  <2>1. pull.stage = 4 /\ e \in pull.todo
    BY DEF PullMerge, At
  <2> QED BY <2>1, WindowIs
<1>2. ~StillTo(2, e) /\ StillTo(4, e) /\ ~StillTo(3, e) /\ ~StillTo(2, e)' /\ ~StillTo(4, e)'
  <2>1. e \in Concerned(2, pull.plan) /\ e \in Concerned(4, pull.plan)
    BY <1>1 DEF Concerned
  <2>2. ~StillTo(2, e) /\ StillTo(4, e) /\ ~StillTo(3, e)
    BY <1>1 DEF StillTo
  <2> QED BY <1>1, <2>1, <2>2
<1>3. file'[e] = Merged(e) /\ rows' = rows /\ Written(e, Merged(e))
  BY DEF PullMerge, Written, Types, VaultTypes
<1>4. Pieces(p.bytes) \subseteq Pieces(file'[e])
  BY <1>3 DEF Merged, Pieces
<1>5. Pieces(file[e]) \subseteq Reach(e)' /\ TornOf(e) \subseteq Reach(e)'
  <2>1. TornOf(e) = Pieces(p.bytes) /\ Pieces(file[e]) \subseteq Safe
    BY <1>1, <1>2 DEF TornOf, Spares
  <2>2. Safe' \subseteq Reach(e)' /\ Pieces(file'[e]) \subseteq Reach(e)'
    BY ReachIs
  <2> QED BY <1>4, <2>1, <2>2
<1>6. Pieces(rows'[e].local) \subseteq Reach(e)'
  <2>1. Reach(e) \subseteq Reach(e)'
    BY <1>5, ReachIs
  <2>2. Pieces(rows[e].local) \subseteq Reach(e)
    BY DEF Edits, CopiesReach, Copies
  <2> QED BY <1>3, <2>1, <2>2
<1>7. Spares(e)'
  BY <1>1, <1>2 DEF Spares
<1>8. DeletedWasBorn'
  BY <1>1, <1>3, WrittenHappens
<1>9. RecordedSafe(e)'
  <2>1. RecordedIn(e, Safe) => RecordedIn(e, Safe)'
    BY <1>1, <1>3 DEF RecordedIn
  <2> QED BY <1>1, <1>3, <2>1 DEF Edits, RecordedSafe
<1>10. ~Recording(e) /\ ~Deletes(e)
  <2>1. ~Recording(e)
    BY <1>1, <1>2 DEF Edits, DeletesGone, Gated
  <2> QED BY <2>1 DEF Recording, Deletes
<1> QED BY <1>5, <1>6, <1>7, <1>8, <1>9, <1>10, EditsWindow

\* A merge is queued with all that it is made of.
LEMMA EditsPullQueue ==
  ASSUME Types, Edits, Safe \subseteq Safe', NEW e \in Entries, PullQueue(e)
  PROVE  Edits'
<1> DEFINE p == pull.plan[e]
<1>1. /\ pull.stage = 5 /\ p.kind = "merge"
      /\ UNCHANGED <<rec, push>> /\ hist'.born = hist.born
      /\ pull.pc = "apply" /\ pull'.pc = "apply"
      /\ pull'.plan = pull.plan /\ pull'.snap = pull.snap
      /\ \A n \in 1..5 : \A f \in Concerned(n, pull.plan) :
              StillTo(n, f)' <=> StillTo(n, f) /\ ~(n = pull.stage /\ f = e)
      /\ Spares(e) /\ Pieces(p.blob) \subseteq Safe
      /\ rows \in [Entries -> Stored] /\ rows[e] \in Stored
  <2>1. pull.stage = 5
    BY DEF PullQueue, At
  <2> QED BY <2>1, WindowIs
<1>2. ~StillTo(3, e) /\ ~StillTo(2, e)' /\ ~StillTo(4, e) /\ ~StillTo(4, e)'
  <2>1. e \in Concerned(2, pull.plan) /\ e \in Concerned(4, pull.plan)
    BY <1>1 DEF Concerned
  <2>2. ~StillTo(2, e) /\ ~StillTo(3, e) /\ ~StillTo(4, e)
    BY <1>1 DEF StillTo
  <2> QED BY <1>1, <2>1, <2>2
<1>3. /\ UNCHANGED <<file, events>>
      /\ rows'[e].local = Merged(e) /\ rows'[e].dirty.content = Merged(e)
  <2> DEFINE d == Dirty(rows[e], NewId(e), p.revision, p.blob, Merged(e))
             q == Local(d, Merged(e))
  <2>1. UNCHANGED <<file, events>> /\ rows' = [rows EXCEPT ![e] = q]
    BY <1>1 DEF PullQueue, vault
  <2>2. d.dirty.content = Merged(e) /\ DOMAIN d = DOMAIN rows[e]
    BY <1>1 DEF Dirty, Stored
  <2>3. DOMAIN rows[e] = {"revision", "remote", "known", "local", "dirty"}
    BY <1>1 DEF Stored
  <2> HIDE DEF d
  <2>4. q.local = Merged(e) /\ q.dirty = d.dirty
    BY <2>2, <2>3 DEF Local
  <2> HIDE DEF q
  <2> QED BY <1>1, <2>1, <2>2, <2>4
<1>4. Merged(e) # None /\ Pieces(Merged(e)) \subseteq Pieces(p.bytes) \union Safe
  BY <1>1 DEF Merged, Pieces, None
<1>5. TornOf(e) = {}
  BY <1>2 DEF TornOf
<1>6. Reach(e) \subseteq Reach(e)'
  BY <1>3, <1>5 DEF Reach
<1>7. Pieces(rows'[e].local) \subseteq Reach(e)'
  <2>1. Pieces(p.bytes) \subseteq Reach(e) /\ Safe \subseteq Reach(e)
    BY <1>1 DEF Edits, CopiesReach, Copies, Reach
  <2> QED BY <1>3, <1>4, <1>6, <2>1
<1>8. Spares(e)'
  BY <1>1, <1>2 DEF Spares
<1>9. DeletedWasBorn'
  BY <1>1, <1>3 DEF Edits, DeletedWasBorn
<1>10. ~Recording(e) /\ ~Deletes(e)
  <2>1. ~Recording(e)
    BY <1>1, <1>2 DEF Edits, DeletesGone, Gated
  <2> QED BY <2>1 DEF Recording, Deletes
<1>11. RecordedSafe(e)'
  BY <1>1, <1>3, <1>4, <1>10 DEF Edits, RecordedSafe, Recording
<1>12. Pieces(file[e]) \subseteq Reach(e)' /\ TornOf(e) \subseteq Reach(e)'
  BY <1>5, <1>6, ReachIs
<1> QED BY <1>7, <1>8, <1>9, <1>10, <1>11, <1>12, EditsWindow

\* What is planned for an entry, in full.
LEMMA PlannedIs ==
  ASSUME Types, pull.pc = "prepare",
         NEW kind \in [pull.window -> {"skip", "plain", "conflict", "merge"}],
         NEW e \in Entries
  PROVE  \/ PlanOf(kind)[e] = NoPlan
         \/ \E i \in pull.window : i.entry = e /\ PlanOf(kind)[e] = Plan(e, i, kind[i])
<1>1. CASE \A i \in pull.window : i.entry # e
  BY <1>1 DEF PlanOf
<1>2. ASSUME NEW j \in pull.window, j.entry = e
      PROVE  \E i \in pull.window : i.entry = e /\ PlanOf(kind)[e] = Plan(e, i, kind[i])
  <2> DEFINE i == CHOOSE i \in pull.window : i.entry = e
  <2>1. i \in pull.window /\ i.entry = e
    BY <1>2
  <2>2. PlanOf(kind)[e] = Plan(e, i, kind[i])
    BY <1>2 DEF PlanOf
  <2> HIDE DEF i
  <2> QED BY <2>1, <2>2
<1> QED BY <1>1, <1>2

\* What the recorder has not seen of a file is accounted for; the rest of it is
\* safe, or in the plan.
LEMMA PlannedSpares ==
  ASSUME Types, Edits, Safe \subseteq Safe', NEW e \in Entries, NEW i \in Items,
         Pieces(i.blob) \subseteq Safe,
         NEW kind \in Kinds(rows[e], e, i), NEW p, p = Plan(e, i, kind),
         Unseen(e, p) \subseteq Safe'
  PROVE  /\ p.kind = kind /\ p.kind \in {"skip", "plain", "conflict", "merge"}
         /\ p.id = rows[e].dirty.id /\ p.blob = i.blob /\ p.bytes \in {file[e], None}
         /\ p.kind = "plain" => Pieces(file[e]) \subseteq Safe'
         /\ p.kind \in {"conflict", "merge"} => Pieces(file[e]) \subseteq Safe' \union Pieces(p.bytes)
         /\ p.kind \in {"skip", "merge"} => ~p.leaves
         /\ file[e] = None /\ rows[e].dirty.content # None => p.kind = "conflict"
<1> DEFINE b == IF kind = "merge" \/ (kind = "conflict" /\ rows[e].dirty.content # None)
                THEN file[e] ELSE None
<1>1. /\ p.kind = kind /\ p.id = rows[e].dirty.id /\ p.blob = i.blob /\ p.bytes = b
      /\ p.leaves = Leaves(rows[e], i)
  BY DEF Plan
<1>2. b \in {file[e], None}
  OBVIOUS
<1> HIDE DEF b
<1>3. kind \in {"skip", "plain", "conflict", "merge"} /\ (kind \in {"conflict", "merge"} => rows[e].dirty.id # 0)
  BY DEF Kinds
<1>4. rows[e].dirty \in Changes
  BY DEF Types, StoreTypes, Stored
<1>5. CASE p.id = 0
  <2>1. rows[e].dirty.content = None
    <3>1. rows[e].dirty = NoMutation
      BY <1>1, <1>4, <1>5, ChangesAre
    <3> QED BY <3>1 DEF NoMutation
  <2>2. Pieces(rows[e].local) \subseteq Safe
    BY <2>1 DEF Edits, RecordedSafe, RecordedIn
  <2>3. p.kind = "plain" => Pieces(file[e]) \ Pieces(rows[e].local) \subseteq Safe'
    BY <1>5 DEF Unseen
  <2>4. p.kind = "plain" => Pieces(file[e]) \subseteq Safe'
    BY <2>2, <2>3
  <2>5. kind = "skip" => ~Leaves(rows[e], i)
    BY <1>1, <1>5 DEF Kinds, AlreadyApplied, Leaves
  <2> QED BY <1>1, <1>2, <1>3, <1>5, <2>1, <2>4, <2>5
<1>6. CASE p.id # 0
  <2>1. p.kind = "plain" => Pieces(file[e]) \ Pieces(i.blob) \subseteq Safe'
    BY <1>1, <1>6 DEF Unseen
  <2>2. p.kind \in {"conflict", "merge"} => Pieces(file[e]) \ Pieces(p.bytes) \subseteq Safe'
    BY <1>1, <1>6 DEF Unseen
  <2>3. kind \in {"skip", "merge"} => ~Leaves(rows[e], i)
    BY <1>1, <1>6 DEF Kinds, Mergeable, Leaves
  <2>4. file[e] = None /\ rows[e].dirty.content # None => p.kind = "conflict"
    BY <1>1, <1>6 DEF Kinds, Mergeable, AlreadyRemote
  <2> QED BY <1>1, <1>2, <1>3, <2>1, <2>2, <2>3, <2>4
<1> QED BY <1>5, <1>6

\* A plan writes over nothing that is not safe, in the plan, or accounted for.
LEMMA EditsPullPrepare ==
  ASSUME Types, Edits, Safe \subseteq Safe', PullPrepare
  PROVE  Edits'
<1>1. /\ UNCHANGED <<feed, file, events, rows, rec, push, spent>> /\ hist'.born = hist.born
      /\ pull.pc = "prepare"
  BY DEF PullPrepare, Types, HistoryTypes, server, vault
<1>2. PICK kind \in [pull.window -> {"skip", "plain", "conflict", "merge"}] :
        /\ \A i \in pull.window : kind[i] \in Kinds(rows[i.entry], i.entry, i)
        /\ pull' \in Applying /\ pull'.plan = PlanOf(kind) /\ pull'.snap = rows
        /\ \A j \in 1..5 : \A e \in Concerned(j, pull'.plan) : Ahead(pull', j, e)
        /\ hist' = [hist EXCEPT !.exposed =
                      @ \union UNION {Unseen(e, PlanOf(kind)[e]) : e \in Entries}]
  BY PreparedIs
<1>3. pull'.pc = "apply" /\ push.pc \notin {"prepare", "apply"} /\ pull.window \subseteq Items
  <2>1. pull.window \subseteq Items
    BY <1>1, PushIsAlone DEF Reading
  <2> QED BY <1>1, <1>2, <2>1 DEF Applying, Types, PullTypes
<1>4. ASSUME NEW e \in Entries PROVE Unseen(e, pull'.plan[e]) \subseteq Safe'
  <2> DEFINE u == UNION {Unseen(f, PlanOf(kind)[f]) : f \in Entries}
             P == SUBSET (Mine \union Theirs)
             E == SUBSET Entries
  <2>1. /\ hist \in [born : E, discarded : P, exposed : P, torn : P, raced : E]
        /\ hist' = [hist EXCEPT !.exposed = @ \union u]
    BY <1>2 DEF Types, HistoryTypes
  <2>2. Unseen(e, pull'.plan[e]) \subseteq u
    BY <1>2
  <2> HIDE DEF P, E, u
  <2>3. u \subseteq hist'.exposed
    BY <2>1
  <2> QED BY <2>2, <2>3, SafeHas DEF PartsAreSafe
<1>5. ASSUME NEW e \in Entries, pull'.plan[e] # NoPlan
      PROVE  LET p == pull'.plan[e]
             IN  /\ p.kind \in {"skip", "plain", "conflict", "merge"}
                 /\ p.id = rows[e].dirty.id /\ Pieces(p.blob) \subseteq Safe
                 /\ p.bytes \in {file[e], None}
                 /\ p.kind = "plain" => Pieces(file[e]) \subseteq Safe'
                 /\ p.kind \in {"conflict", "merge"} =>
                      Pieces(file[e]) \subseteq Safe' \union Pieces(p.bytes)
                 /\ p.kind \in {"skip", "merge"} => ~p.leaves
                 /\ file[e] = None /\ rows[e].dirty.content # None => p.kind = "conflict"
  <2>1. PICK i \in pull.window : i.entry = e /\ PlanOf(kind)[e] = Plan(e, i, kind[i])
    BY <1>1, <1>2, <1>5, PlannedIs
  <2>2. Pieces(i.blob) \subseteq Safe
    BY <1>1 DEF Edits, BroughtIsSafe
  <2>3. i \in Items /\ kind[i] \in Kinds(rows[e], e, i) /\ pull'.plan[e] = Plan(e, i, kind[i])
    BY <1>2, <1>3, <2>1
  <2>4. Unseen(e, pull'.plan[e]) \subseteq Safe'
    BY <1>4
  <2> HIDE DEF Plan, Kinds, Unseen, Pieces
  <2>5. \A p : p = pull'.plan[e] => p.blob = i.blob
    BY <2>2, <2>3, <2>4, PlannedSpares
  <2>6. Pieces(pull'.plan[e].blob) \subseteq Safe
    BY <2>2, <2>5
  <2> QED BY <2>2, <2>3, <2>4, <2>6, PlannedSpares
<1>6. /\ NoPlan.kind = "out" /\ NoPlan.blob = None /\ NoPlan.bytes = None /\ Pieces(None) = {}
  BY PiecesAre DEF NoPlan
<1>7. ASSUME NEW e \in Entries
      PROVE  /\ pull'.plan[e].kind = "conflict" => StillTo(1, e)'
             /\ pull'.plan[e].kind \in {"plain", "conflict", "merge"} => StillTo(2, e)' /\ StillTo(3, e)'
  <2>1. /\ pull'.plan[e].kind = "conflict" => e \in Concerned(1, pull'.plan)
        /\ pull'.plan[e].kind \in {"plain", "conflict", "merge"} =>
             e \in Concerned(2, pull'.plan) /\ e \in Concerned(3, pull'.plan)
    BY DEF Concerned
  <2> QED BY <1>2, <2>1 DEF StillTo, Ahead
<1>8. BroughtIsSafe'
  BY <1>3, <1>5, <1>6 DEF BroughtIsSafe
<1>9. PullSpares'
  <2> SUFFICES ASSUME NEW e \in Entries PROVE Spares(e)'
    BY DEF PullSpares
  <2>1. CASE pull'.plan[e] = NoPlan
    BY <1>6, <2>1 DEF Spares
  <2>2. CASE pull'.plan[e] # NoPlan
    BY <1>1, <1>5, <1>7, <2>2 DEF Spares
  <2> QED BY <2>1, <2>2
<1>10. \A e \in Entries : Reach(e) \subseteq Reach(e)'
  BY <1>1 DEF Reach, TornOf
<1>11. ASSUME NEW e \in Entries, NEW c \in Copies(e)' PROVE c \in Copies(e) \/ Pieces(c) \subseteq Reach(e)'
  <2>1. c \in Copies(e) \/ c = pull'.plan[e].bytes
    BY <1>1, <1>2, <1>11 DEF Copies
  <2>2. pull'.plan[e].bytes \in {file[e], None}
    BY <1>5, <1>6
  <2> QED BY <1>1, <1>6, <2>1, <2>2 DEF Reach
<1>12. DeletedWasBorn'
  BY <1>1 DEF Edits, DeletedWasBorn
<1>13. ASSUME NEW e \in Entries PROVE RecordedSafe(e)' /\ SentHas(e)' /\ DeletesGone(e)'
  <2>1. RecordedSafe(e) /\ DeletesGone(e)
    BY DEF Edits
  <2>2. SentHas(e)' /\ ~Asks(e)'
    BY <1>1, <1>3 DEF SentHas, Sent, Accepted, Asks
  <2>3. RecordedSafe(e)'
    <3>1. RecordedIn(e, Safe) => RecordedIn(e, Safe)'
      BY <1>1 DEF RecordedIn
    <3>2. rows[e].dirty.content = None => Pieces(rows[e].local) \subseteq Safe'
      BY <2>1 DEF RecordedSafe, RecordedIn
    <3> QED BY <1>1, <1>2, <2>1, <3>1, <3>2 DEF RecordedSafe
  <2>4. Gated(e)' => pull'.plan[e] # NoPlan /\ pull'.plan[e].kind \in {"plain", "conflict", "merge"}
    BY <1>5, <1>6 DEF Gated
  <2>5. Deletes(e) /\ rows[e].dirty.content # None =>
          /\ file[e] = None
          /\ Gated(e)' => /\ pull'.plan[e].kind = "conflict" /\ StillTo(1, e)'
                          /\ rows[e].dirty.id = pull'.plan[e].id
    BY <1>5, <1>7, <2>1, <2>4 DEF DeletesGone
  <2>6. DeletesGone(e)'
    BY <1>1, <1>7, <2>1, <2>2, <2>4, <2>5 DEF DeletesGone, Deletes
  <2> QED BY <2>2, <2>3, <2>6
<1> QED BY <1>1, <1>8, <1>9, <1>10, <1>11, <1>12, <1>13, EditsIf

\* The invariant, as long as nothing crossed.
EditsUncrossed == hist.raced = {} => Edits

\* Every step keeps what the user wrote in one of these places.
LEMMA EditsStep ==
  Types /\ Types' /\ NoGap /\ Keep /\ EditsUncrossed /\ [Next]_vars => EditsUncrossed'
<1> SUFFICES ASSUME Types, Types', NoGap, Keep, hist.raced = {} => Edits, [Next]_vars, hist'.raced = {}
             PROVE  Edits'
  BY DEF EditsUncrossed
<1>1. Edits /\ hist.born \subseteq hist'.born
  BY HistoryGrows
<1>2. Safe \subseteq Safe'
  BY SafeGrows
<1>3. CASE UNCHANGED vars
  <2>1. UNCHANGED <<file, events, rec, rows, push, pull, spent>>
    BY <1>3 DEF vars
  <2>2. \A f \in Entries : KeepsRow(f) /\ SendsNoMore(f)
    BY <2>1 DEF KeepsRow, SendsNoMore, Sent, Accepted, Asks
  <2> QED BY <1>1, <1>2, <2>1, <2>2, EditsStill
<1>4. CASE User
  BY <1>1, <1>2, <1>4, EditsEdit, EditsDelete DEF User
<1>5. CASE Others
  BY <1>1, <1>2, <1>5, EditsOthers
<1>6. CASE Recorder
  BY <1>1, <1>2, <1>6, EditsRecorder
<1>7. CASE Pushes
  <2>1. CASE PushStart \/ PushList \/ PushNothing \/ PushNext \/ PushThrow \/ PushFinish
    BY <1>1, <1>2, <2>1, EditsPushTurns
  <2>2. CASE PushCommit
    BY <1>1, <1>2, <2>2, EditsPushCommit
  <2>3. CASE PushApply
    BY <1>1, <1>2, <2>3, EditsPushApply
  <2>4. ASSUME NEW e \in Entries, PushPrepare(e) \/ PushUpload(e) PROVE Edits'
    BY <1>1, <1>2, <2>4, EditsPrepare
  <2>5. ASSUME NEW e \in Entries, PushReject(e) \/ PushRecovered(e) PROVE Edits'
    BY <1>1, <1>2, <2>5, EditsPushReject
  <2> QED BY <1>7, <2>1, <2>2, <2>3, <2>4, <2>5 DEF Pushes
<1>8. CASE Pulls
  <2>1. CASE PullStart \/ PullPage
    BY <1>1, <1>2, <2>1, EditsPullRead
  <2>2. CASE PullPrepare
    BY <1>1, <1>2, <2>2, EditsPullPrepare
  <2>3. CASE PullDone \/ PullAbort
    BY <1>1, <1>2, <2>3, EditsPullDone
  <2>4. CASE PullFail
    BY <1>1, <1>2, <2>4, EditsPullFail
  <2>5. ASSUME NEW e \in Entries,
               PullConflict(e) \/ PullWrite(e) \/ PullRow(e) \/ PullMerge(e) \/ PullQueue(e)
        PROVE  Edits'
    BY <1>1, <1>2, <2>5, EditsPullConflict, EditsPullWrite, EditsPullRow, EditsPullMerge, EditsPullQueue
  <2> QED BY <1>8, <2>1, <2>2, <2>3, <2>4, <2>5 DEF Pulls
<1>9. CASE RetryQuarantined \/ RetryParked
  BY <1>1, <1>2, <1>9, EditsRetry
<1>10. CASE Restart
  BY <1>1, <1>2, <1>10, EditsRestart
<1> QED BY <1>3, <1>4, <1>5, <1>6, <1>7, <1>8, <1>9, <1>10 DEF Next

\* What is in none of the places a user would look was exposed, or torn.
LEMMA EditsFound == Edits => Lost \subseteq hist.exposed \union hist.torn
<1> SUFFICES ASSUME Edits, NEW x \in Lost PROVE x \in hist.exposed \union hist.torn
  OBVIOUS
<1> DEFINE served == UNION {Pieces(feed[e].blob) : e \in Entries}
<1>1. /\ x \in spent.pieces /\ x \notin Union(file) /\ x \notin copies /\ x \notin served
      /\ x \notin Torn /\ x \notin hist.discarded
  BY DEF Lost
<1>2. PICK e \in Entries : x \in Reach(e)
  BY <1>1 DEF Edits, PiecesReach
<1>3. Safe = copies \union served \union hist.discarded \union hist.exposed \union hist.torn
  BY DEF Safe
<1>4. Pieces(file[e]) \subseteq Union(file)
  BY DEF Union
<1>5. TornOf(e) \subseteq Torn
  BY DEF TornOf, Torn
<1> HIDE DEF served
<1> QED BY <1>1, <1>2, <1>3, <1>4, <1>5 DEF Reach

\* For every number of entries and of pieces: what the user wrote is in a file,
\* in a conflict copy or on the server, unless a deletion took it, it was
\* written while a pull wrote over the same file, or a pull stopped half-way
\* through a merge; but for the places where the recorder and a pass cross
\* (engine/pull-pending-mutation-handler, engine/push-service,
\* engine/event-recorder).
THEOREM EditsAreKept == Spec => []EditsSurvive
<1>1. Init => EditsUncrossed
  BY EditsInit DEF EditsUncrossed
<1>2. EditsUncrossed => EditsSurvive
  BY EditsFound DEF EditsUncrossed, EditsSurvive
<1> QED BY TypesInit, TypesStep, NoGapInit, NoGapStep, KeepInit, KeepStep, EditsStep, <1>1, <1>2,
        PTL DEF Spec
=============================================================================
