------------------------------- MODULE Device -------------------------------
(***************************************************************************)
(* One device and its vault on the server: the recorder of file events,    *)
(* the store of entries with their queued changes, push and pull           *)
(* (apps/obsidian-plugin/src/sync: engine/event-recorder, engine/push-*,   *)
(* engine/pull-*, engine/local-reconcile-service, core/mutation-queue,     *)
(* store/dexie).  Other devices appear as changes on the server.           *)
(*                                                                         *)
(* The recorder runs one event at a time, and so does the sync loop with   *)
(* its push or pull; the two interleave at every await that touches the    *)
(* files, the store or the server, and the user edits at any time.         *)
(*                                                                         *)
(* A content is the set of the pieces written into it.  An edit adds a     *)
(* piece, a merge is a union, and what is lost is a piece found nowhere.   *)
(*                                                                         *)
(* Not covered: renames and two entries at one path, excluded paths, a     *)
(* deleted file created anew, entries that do not decrypt, limits on size  *)
(* and quota (blocked like any change that cannot be prepared).            *)
(***************************************************************************)
EXTENDS Naturals, FiniteSets, Sequences

CONSTANTS
  Entries,     \* each with one path for good
  Text,        \* the entries whose versions can be merged
  New,         \* the entries this device creates; the others exist
  Mine,        \* the pieces the user writes on this device
  Theirs,      \* the pieces other devices write
  Gone,        \* stands for the content of a file that does not exist
  WindowSize,  \* entries a pull applies at a time
  MaxStaleRejections,
  MaxTroubles  \* bound: deletions, restarts, and failures that leave something
               \* half done, all together

ASSUME DeviceSets == Text \subseteq Entries /\ New \subseteq Entries /\ IsFiniteSet(Entries)
ASSUME DevicePieces == Gone \notin Mine \union Theirs /\ Mine \intersect Theirs = {}
ASSUME DeviceBounds ==
  /\ WindowSize \in Nat \ {0} /\ MaxStaleRejections \in Nat \ {0}
  /\ MaxTroubles \in Nat

VARIABLES
  head, feed,  \* the server: its last position, its entries (see ChangeFeed)
  replay,      \* the server: the last mutation accepted, per entry
  file,        \* the vault on this device
  copies,      \* the pieces in conflict copies
  events,      \* file events not handled yet
  rec,         \* the recorder, at work on one event
  rows,        \* the store: what is known of each entry
  cursor,      \* the store: lastPulledCursor
  push, pull,  \* the sync loop's pass
  stale,       \* staleRejections, in memory
  parked,      \* parkedStaleBases, in memory: pairs of an entry and a base
  spent,       \* how much of each bound is used up
  hist         \* history, for the properties

server == <<head, feed, replay>>
vault == <<file, copies>>
vars == <<head, feed, replay, file, copies, events, rec, rows, cursor, push, pull,
          stale, parked, spent, hist>>

-----------------------------------------------------------------------------
(* Contents, queued changes, rows. *)

None == {Gone}
Contents == (SUBSET (Mine \union Theirs)) \union {None}
Pieces(c) == c \ None
Union(f) == UNION {Pieces(f[e]) : e \in Entries}

\* mutationId, op (None deletes), base revision and base content, status.
NoMutation == [id |-> 0, base |-> 0, from |-> None, content |-> None, status |-> "none"]
Statuses == {"none", "pending", "prepare_failed", "stale_unresolved"}

\* What the store knows of an entry: the server's state, if remote is not 0,
\* the file last recorded, if known, and the queued change.
EmptyRow == [revision |-> 0, remote |-> None, known |-> FALSE, local |-> None,
             dirty |-> NoMutation]

Local(r, c) == [r EXCEPT !.known = TRUE, !.local = c]
Clean(r) == [r EXCEPT !.dirty = NoMutation]
ClearById(r, id) == IF r.dirty.id = id THEN Clean(r) ELSE r
Dirty(r, id, base, from, c) ==
  [r EXCEPT !.dirty = [id |-> id, base |-> base, from |-> from, content |-> c,
                       status |-> "pending"]]
Blocked(m, why) == [m EXCEPT !.status = why]

\* upsertEntry writes the row anew: whatever was queued is gone.
Upserted(revision, c) ==
  [EmptyRow EXCEPT !.revision = revision, !.remote = c, !.known = TRUE, !.local = c]

NoRec == [pc |-> "idle"]
NoPush == [pc |-> "idle"]
NoPull == [pc |-> "idle"]
NoStale == [server |-> 0, base |-> 0, rejections |-> 0, tried |-> FALSE]

\* randomUUID: an id that nothing refers to any more will do as a new one.
InUse(e) ==
  {0, rows[e].dirty.id, replay[e]}
    \union (IF push.pc = "idle" THEN {} ELSE {push.batch[e].id})
    \union (IF pull.pc = "apply" THEN {pull.plan[e].id, pull.snap[e].dirty.id} ELSE {})
NewId(e) == CHOOSE id \in 1..6 : id \notin InUse(e)

Init ==
  \* Either the device is in sync with the server, or it has nothing yet.
  \E synced \in BOOLEAN, place \in [Entries \ New -> 1..Cardinality(Entries \ New)] :
    /\ \A e, f \in Entries \ New : place[e] = place[f] => e = f
    /\ head = Cardinality(Entries \ New)
    /\ feed = [e \in Entries |->
                IF e \in New THEN [revision |-> 0, blob |-> None, seq |-> 0]
                             ELSE [revision |-> 1, blob |-> {}, seq |-> place[e]]]
    /\ replay = [e \in Entries |-> 0]
    /\ file = [e \in Entries |-> IF synced /\ e \notin New THEN {} ELSE None]
    /\ copies = {}
    /\ events = <<>>
    /\ rec = NoRec
    /\ rows = [e \in Entries |-> IF synced /\ e \notin New THEN Upserted(1, {}) ELSE EmptyRow]
    /\ cursor = IF synced THEN head ELSE 0
    /\ push = NoPush
    /\ pull = NoPull
    /\ stale = [e \in Entries |-> NoStale]
    /\ parked = {}
    /\ spent = [pieces |-> {}, troubles |-> 0]
    /\ hist = [born |-> {}, discarded |-> {}, exposed |-> {}, torn |-> {}, raced |-> {}]

-----------------------------------------------------------------------------
(* The user, and other devices. *)

\* suppressPaths: events of the files a pull writes are dropped.
Gated(e) == pull.pc = "apply" /\ pull.plan[e].kind \notin {"out", "skip"}

\* The pull has decided on the file of e and is still to do step n on it.
StillTo(n, e) == pull.stage < n \/ (pull.stage = n /\ e \in pull.todo)
Overwrites(e) == Gated(e) /\ (StillTo(2, e) \/ (pull.plan[e].kind = "merge" /\ StillTo(4, e)))

Trouble ==
  /\ spent.troubles < MaxTroubles
  /\ spent' = [spent EXCEPT !.troubles = @ + 1]

Happens(kind, e) == events' = Append(events, [kind |-> kind, entry |-> e])

Edit(e, piece) ==
  /\ piece \in Mine \ spent.pieces
  /\ file[e] # None \/ e \in New \ hist.born
  /\ file' = [file EXCEPT ![e] = Pieces(@) \union {piece}]
  /\ Happens("upsert", e)
  /\ spent' = [spent EXCEPT !.pieces = @ \union {piece}]
  /\ hist' = [hist EXCEPT !.born = @ \union {e},
                          !.exposed = @ \union IF Overwrites(e) THEN {piece} ELSE {}]
  /\ UNCHANGED <<server, copies, rec, rows, cursor, push, pull, stale, parked>>

\* A deletion is meant for the note, whatever a pull is doing to its file.
Held(e) == Pieces(file[e]) \union Pieces(rows[e].local)
             \union IF pull.pc = "apply" THEN Pieces(pull.plan[e].bytes) ELSE {}

Delete(e) ==
  /\ file[e] # None
  /\ Trouble
  /\ file' = [file EXCEPT ![e] = None]
  /\ Happens("delete", e)
  /\ hist' = [hist EXCEPT !.discarded = @ \union Held(e)]
  /\ UNCHANGED <<server, copies, rec, rows, cursor, push, pull, stale, parked>>

\* An accepted change, whoever made it.
Accept(e, c, seq) == [revision |-> feed[e].revision + 1, blob |-> c, seq |-> seq]

OthersWrite(e, piece) ==
  /\ piece \in Theirs \ spent.pieces
  /\ feed[e].blob # None
  /\ head' = head + 1
  /\ feed' = [feed EXCEPT ![e] = Accept(e, Pieces(@.blob) \union {piece}, head + 1)]
  /\ replay' = [replay EXCEPT ![e] = 0]
  /\ spent' = [spent EXCEPT !.pieces = @ \union {piece}]
  /\ UNCHANGED <<vault, events, rec, rows, cursor, push, pull, stale, parked, hist>>

OthersDelete(e) ==
  /\ feed[e].blob # None
  /\ Trouble
  /\ head' = head + 1
  /\ feed' = [feed EXCEPT ![e] = Accept(e, None, head + 1)]
  /\ replay' = [replay EXCEPT ![e] = 0]
  /\ hist' = [hist EXCEPT !.discarded = @ \union Pieces(feed[e].blob)]
  /\ UNCHANGED <<vault, events, rec, rows, cursor, push, pull, stale, parked>>

-----------------------------------------------------------------------------
(* The recorder: one event from the queue of local work, then the next. *)

\* readFile: a file that is gone throws, and the event with it.
RecordRead ==
  /\ rec.pc = "idle"
  /\ events # <<>>
  /\ events' = Tail(events)
  /\ LET ev == Head(events)
     IN  rec' = IF ev.kind = "delete" THEN [pc |-> "delete", entry |-> ev.entry]
                ELSE IF file[ev.entry] = None THEN NoRec
                ELSE [pc |-> "upsert", entry |-> ev.entry, bytes |-> file[ev.entry]]
  /\ UNCHANGED <<server, vault, rows, cursor, push, pull, stale, parked, spent, hist>>

RecordWrites(newRec, newRow) ==
  /\ rec' = newRec
  /\ rows' = [rows EXCEPT ![rec.entry] = newRow]
  /\ UNCHANGED <<server, vault, events, cursor, push, pull, stale, parked, spent>>

RecordChanges(newRec, newRow) == RecordWrites(newRec, newRow) /\ UNCHANGED hist

\* recordUpsert, up to the mutation: dropped if suppressed, nothing to do if
\* the file is as recorded and queued.
RecordedAlready(r, bytes) ==
  /\ r.known /\ r.local = bytes
  /\ r.dirty.id = 0 \/ r.dirty.content = bytes

RecordUpsert ==
  /\ rec.pc = "upsert"
  /\ LET r == rows[rec.entry]
     IN  RecordChanges(
           IF Gated(rec.entry) \/ RecordedAlready(r, rec.bytes) THEN NoRec
           ELSE [pc |-> "queue", entry |-> rec.entry, bytes |-> rec.bytes,
                 base |-> r.revision, from |-> r.remote],
           r)

\* replaceDirtyEntry, then applyLocalState: two transactions.
RecordQueue ==
  /\ rec.pc = "queue"
  /\ RecordChanges([rec EXCEPT !.pc = "local"],
                   Dirty(rows[rec.entry], NewId(rec.entry), rec.base, rec.from, rec.bytes))

RecordLocal ==
  /\ rec.pc = "local"
  /\ RecordChanges(NoRec, Local(rows[rec.entry], rec.bytes))

\* recordDelete finds the entry by its path, forgets what was queued, reads
\* the remote state, and then either forgets the entry, which the server does
\* not have, or records the deletion and queues it.
FoundByPath(r) == (r.known /\ r.local # None) \/ (r.revision > 0 /\ r.remote # None)

\* A pull may have brought the file back by then: nobody looks.
RecordDelete ==
  /\ rec.pc = "delete"
  /\ LET r == rows[rec.entry]
     IN  IF Gated(rec.entry) \/ ~FoundByPath(r) THEN RecordChanges(NoRec, r)
         ELSE /\ RecordWrites([rec EXCEPT !.pc = "remote"], Clean(r))
              /\ hist' = [hist EXCEPT !.raced =
                           @ \union IF file[rec.entry] = None THEN {} ELSE {rec.entry}]

RecordRemote ==
  /\ rec.pc = "remote"
  /\ LET r == rows[rec.entry]
     IN  RecordChanges(
           IF r.revision = 0 THEN [rec EXCEPT !.pc = "forget"]
           ELSE [pc |-> "gone", entry |-> rec.entry, base |-> r.revision, from |-> r.remote],
           r)

RecordForget ==
  /\ rec.pc = "forget"
  /\ RecordWrites(NoRec, EmptyRow)
  /\ hist' = [hist EXCEPT !.raced =
               @ \union IF rows[rec.entry].revision > 0 THEN {rec.entry} ELSE {}]

RecordGone ==
  /\ rec.pc = "gone"
  /\ RecordChanges([rec EXCEPT !.pc = "queueDelete"], Local(rows[rec.entry], None))

RecordQueueDelete ==
  /\ rec.pc = "queueDelete"
  /\ RecordChanges(NoRec, Dirty(rows[rec.entry], NewId(rec.entry), rec.base, rec.from, None))

-----------------------------------------------------------------------------
(* Push: one pass lists, prepares, commits and applies a batch at a time.  *)

Pending(e) == rows[e].dirty.status = "pending"
NoReply == [revision |-> 0, seq |-> 0]
Nothing == [e \in Entries |-> "none"]

PushWrites(newPush, newRows) ==
  /\ push' = newPush
  /\ rows' = newRows
  /\ UNCHANGED <<server, vault, events, rec, cursor, pull>>

PushChanges(newPush, newRows) == PushWrites(newPush, newRows) /\ UNCHANGED <<spent, hist>>

PushStart ==
  /\ push.pc = "idle" /\ pull.pc = "idle"
  /\ \E e \in Entries : Pending(e)
  /\ PushChanges([pc |-> "list", start |-> cursor, accepted |-> {}, stop |-> FALSE,
                  batch |-> [e \in Entries |-> NoMutation], step |-> Nothing,
                  got |-> [e \in Entries |-> NoReply]], rows)
  /\ UNCHANGED <<stale, parked>>

PushList ==
  /\ push.pc = "list" /\ ~push.stop
  /\ \E e \in Entries : Pending(e)
  /\ PushChanges([push EXCEPT !.pc = "prepare",
                  !.batch = [e \in Entries |-> IF Pending(e) THEN rows[e].dirty ELSE NoMutation],
                  !.step = [e \in Entries |-> IF Pending(e) THEN "todo" ELSE "none"],
                  !.got = [e \in Entries |-> NoReply]], rows)
  /\ UNCHANGED <<stale, parked>>

\* Mutants: the highest position accepted; one beyond the prefix.
HighestAccepted(start, accepted) ==
  CHOOSE n \in {start} \union accepted : \A k \in accepted : k <= n
PastAccepted(start, accepted) ==
  CHOOSE n \in start + 1..start + Cardinality(accepted) + 1 :
    start + 1..n - 1 \subseteq accepted /\ n \notin accepted

\* getContiguousAcceptedCursor.
Contiguous(start, accepted) ==
  CHOOSE n \in start..start + Cardinality(accepted) :
    start + 1..n \subseteq accepted /\ n + 1 \notin accepted

PushFinish ==
  /\ push.pc = "list"
  /\ push.stop \/ \A e \in Entries : ~Pending(e)
  /\ cursor' = Contiguous(push.start, push.accepted)
  /\ push' = NoPush
  /\ UNCHANGED <<server, vault, events, rec, rows, pull, stale, parked, spent, hist>>

Prepared(e, outcome, newRow) ==
  /\ PushChanges([push EXCEPT !.step[e] = outcome], [rows EXCEPT ![e] = newRow])
  /\ UNCHANGED <<stale, parked>>

\* updateDirtyEntry with the change as it was listed: one queued since is lost.
SetAside(e, why) ==
  /\ PushWrites([push EXCEPT !.step[e] = "none"],
                [rows EXCEPT ![e].dirty = Blocked(push.batch[e], why)])
  /\ hist' = [hist EXCEPT !.raced =
               @ \union IF rows[e].dirty.id \in {0, push.batch[e].id} THEN {} ELSE {e}]
  /\ UNCHANGED <<stale, parked>>

\* requeueChangedUpsert, on the state the store has of the server or, without
\* one, on the base of the change it replaces.
Requeued(e, m) ==
  LET r == rows[e]
      q == IF r.revision > 0 THEN Dirty(r, NewId(e), r.revision, r.remote, file[e])
           ELSE Dirty(r, NewId(e), m.base, IF m.from # None THEN m.from ELSE m.content, file[e])
  IN  Local(q, file[e])

\* prepareOneOrQuarantine, up to the upload.
PushPrepare(e) ==
  /\ push.pc = "prepare" /\ push.step[e] = "todo"
  /\ LET m == push.batch[e]
     IN  \/ /\ <<e, m.base>> \in parked
            /\ SetAside(e, "stale_unresolved") /\ UNCHANGED spent
         \/ /\ <<e, m.base>> \notin parked
            /\ \/ m.content = None /\ Prepared(e, "ready", rows[e])
               \/ /\ m.content # None /\ file[e] = None
                  /\ Prepared(e, "none", ClearById(rows[e], m.id))
               \/ /\ m.content # None /\ file[e] \notin {None, m.content}
                  /\ Prepared(e, "none", Requeued(e, m))
               \/ /\ m.content # None /\ file[e] = m.content
                  /\ Prepared(e, "uploading", rows[e])

\* The upload succeeds, fails for now, or fails too often.
PushUpload(e) ==
  /\ push.pc = "prepare" /\ push.step[e] = "uploading"
  /\ \/ Prepared(e, "ready", rows[e])
     \/ /\ PushWrites([push EXCEPT !.step[e] = "none", !.stop = TRUE], rows)
        /\ Trouble
        /\ UNCHANGED <<stale, parked, hist>>
     \/ SetAside(e, "prepare_failed") /\ Trouble

Ready == {e \in Entries : push.step[e] = "ready"}
AllPrepared == push.pc = "prepare" /\ \A e \in Entries : push.step[e] \in {"none", "ready"}

PushNothing ==
  /\ AllPrepared /\ Ready = {}
  /\ PushChanges([push EXCEPT !.pc = "list"], rows)
  /\ UNCHANGED <<stale, parked>>

\* Mutant: the server does not look at the base.
TakenOnAnyBase == {e \in Ready : replay[e] # push.batch[e].id}

\* The server takes a mutation it has taken before as accepted, one built on
\* the current revision as new, any other as stale.
Repeated(e) == replay[e] = push.batch[e].id
Taken == {e \in Ready : ~Repeated(e) /\ feed[e].revision = push.batch[e].base}

PushCommit ==
  /\ AllPrepared /\ Ready # {}
  /\ head' = head + Cardinality(Taken)
  /\ \E place \in [Taken -> 1..Cardinality(Taken)] :
       /\ \A e, f \in Taken : place[e] = place[f] => e = f
       /\ feed' = [e \in Entries |-> IF e \in Taken
                     THEN Accept(e, push.batch[e].content, head + place[e]) ELSE feed[e]]
  /\ replay' = [e \in Entries |-> IF e \in Taken THEN push.batch[e].id ELSE replay[e]]
  /\ push' = [push EXCEPT !.pc = "apply",
       !.step = [e \in Entries |-> IF e \notin Ready THEN "none"
                   ELSE IF e \in Taken \/ Repeated(e) THEN "accepted" ELSE "stale"],
       !.got = [e \in Entries |-> IF e \in Ready
                  THEN [revision |-> feed'[e].revision, seq |-> feed'[e].seq] ELSE NoReply]]
  /\ hist' = [hist EXCEPT !.discarded = @ \union
               UNION {Pieces(feed[e].blob) : e \in {f \in Taken : push.batch[f].content = None}}]
  /\ UNCHANGED <<vault, events, rec, rows, cursor, pull, stale, parked, spent>>

Answered(e) ==
  LET c == push.batch[e].content
      r == [rows[e] EXCEPT !.revision = push.got[e].revision, !.remote = c]
  IN  IF c # None /\ (~r.known \/ r.local = c) THEN Local(r, c) ELSE r

\* Mutant: whatever is queued is taken for what was accepted.
AcceptedRowOfAny(e) == Clean(Answered(e))

\* applyAcceptedPushToEntry: a change queued since moves to the new base.
AcceptedRow(e) ==
  IF rows[e].dirty.id \in {0, push.batch[e].id} THEN Clean(Answered(e))
  ELSE [Answered(e) EXCEPT !.dirty.base = push.got[e].revision,
                           !.dirty.from = push.batch[e].content]

PushApply ==
  /\ push.pc = "apply"
  /\ LET done == {e \in Entries : push.step[e] = "accepted"}
     IN  /\ PushChanges([push EXCEPT !.pc = "reject",
                         !.step = [e \in Entries |-> IF e \in done THEN "none" ELSE @[e]],
                         !.accepted = @ \union {push.got[e].seq : e \in done}],
                        [e \in Entries |-> IF e \in done THEN AcceptedRow(e) ELSE rows[e]])
         /\ stale' = [e \in Entries |-> IF e \in done THEN NoStale ELSE stale[e]]
         /\ parked' = {p \in parked : p[1] \notin done}

-----------------------------------------------------------------------------
(* Stale changes: pull once, then fetch the entry by id, then set aside.   *)

\* parkStaleMutation, if the change is still the one queued.
Park(e) ==
  LET m == push.batch[e]
      same == rows[e].dirty.id = m.id
  IN  /\ push' = [push EXCEPT !.pc = "reject", !.step[e] = "none", !.stop = @ \/ ~same]
      /\ rows' = IF same THEN [rows EXCEPT ![e].dirty = Blocked(@, "stale_unresolved")] ELSE rows
      /\ parked' = IF same THEN {p \in parked : p[1] # e} \union {<<e, rows[e].dirty.base>>}
                   ELSE parked
      /\ stale' = [stale EXCEPT ![e] = NoStale]

Rejection(e) ==
  LET prev == stale[e]
      revision == push.got[e].revision
      base == push.batch[e].base
      counted == prev.rejections > 0 /\ prev.base = base
  IN  [server |-> revision, base |-> base,
       rejections |-> IF counted THEN prev.rejections + 1 ELSE 1,
       tried |-> counted /\ prev.server = revision /\ prev.tried]
SamePair(e) == stale[e].rejections > 0 /\ stale[e].server = push.got[e].revision
                 /\ stale[e].base = push.batch[e].base
Hopeless(e) == Rejection(e).rejections >= MaxStaleRejections \/ Rejection(e).tried

Item(e) == [entry |-> e, revision |-> feed[e].revision, blob |-> feed[e].blob, seq |-> feed[e].seq]

\* resolveStaleRejection.  The server may not know the request by id.
PushReject(e) ==
  /\ push.pc = "reject" /\ push.step[e] = "stale"
  /\ \/ Hopeless(e) /\ Park(e) /\ UNCHANGED pull
     \/ /\ ~Hopeless(e) /\ ~SamePair(e)
        /\ stale' = [stale EXCEPT ![e] = Rejection(e)]
        /\ push' = [push EXCEPT !.step[e] = "none", !.stop = TRUE]
        /\ UNCHANGED <<rows, parked, pull>>
     \/ ~Hopeless(e) /\ SamePair(e) /\ Park(e) /\ UNCHANGED pull
     \/ /\ ~Hopeless(e) /\ SamePair(e)
        /\ stale' = [stale EXCEPT ![e] = Rejection(e)]
        /\ push' = [push EXCEPT !.pc = "recover", !.step[e] = "recovering"]
        /\ pull' = [pc |-> "prepare", byId |-> TRUE, since |-> cursor, target |-> cursor,
                    after |-> cursor, final |-> TRUE, window |-> {Item(e)}]
        /\ UNCHANGED <<rows, parked>>
  /\ UNCHANGED <<server, vault, events, rec, cursor, spent, hist>>

\* recoverStaleMutation, after the pull: what became of the change?
PushRecovered(e) ==
  /\ push.pc = "recover" /\ pull.pc = "idle" /\ push.step[e] = "recovering"
  /\ IF rows[e].dirty.id = push.batch[e].id THEN Park(e)
     ELSE /\ stale' = [stale EXCEPT ![e].tried = TRUE]
          /\ push' = [push EXCEPT !.pc = "reject", !.step[e] = "none"]
          /\ UNCHANGED <<rows, parked>>
  /\ UNCHANGED <<server, vault, events, rec, cursor, pull, spent, hist>>

PushNext ==
  /\ push.pc = "reject" /\ \A e \in Entries : push.step[e] # "stale"
  /\ PushChanges([push EXCEPT !.pc = "list", !.step = Nothing,
                  !.batch = [e \in Entries |-> NoMutation],
                  !.got = [e \in Entries |-> NoReply]], rows)
  /\ UNCHANGED <<stale, parked>>

\* The link breaks: an upload throws, or the reply to a commit never comes.
PushThrow ==
  /\ push.pc \in {"prepare", "apply"}
  /\ PushWrites(NoPush, rows)
  /\ Trouble
  /\ UNCHANGED <<stale, parked, hist>>

-----------------------------------------------------------------------------
(* Pull: pages of what changed since the cursor, applied by windows.       *)

PullChanges(newPull) ==
  /\ pull' = newPull
  /\ UNCHANGED <<server, vault, events, rec, rows, cursor, push, stale, parked, spent, hist>>

\* listEntryStates, pages of one entry: what lies beyond the target is left
\* for the next pull.
PageRead(p) ==
  LET due == {e \in Entries : feed[e].seq > p.after /\ feed[e].seq <= p.target}
      next == CHOOSE e \in due : \A f \in due : feed[e].seq <= feed[f].seq
      window == IF due = {} THEN p.window ELSE p.window \union {Item(next)}
      final == Cardinality(due) <= 1
  IN  [p EXCEPT !.window = window, !.final = final,
                !.after = IF due = {} THEN @ ELSE feed[next].seq,
                !.pc = IF final \/ Cardinality(window) >= WindowSize THEN "prepare" ELSE "fetch"]

PullStart ==
  /\ push.pc = "idle" /\ pull.pc = "idle"
  /\ cursor < head
  /\ PullChanges(PageRead([pc |-> "fetch", byId |-> FALSE, since |-> cursor, target |-> head,
                           after |-> cursor, final |-> FALSE, window |-> {}]))

PullPage ==
  /\ pull.pc = "fetch"
  /\ PullChanges(PageRead(pull))

\* What is to become of an entry.  A merge needs the base in the blob cache,
\* which may not have it, and two edits that do not touch.
NoPlan == [kind |-> "out", id |-> 0, revision |-> 0, blob |-> None, bytes |-> None, leaves |-> FALSE]
AlreadyApplied(r, item) ==
  /\ item.blob # None /\ r.revision = item.revision /\ r.remote = item.blob
  /\ r.known /\ r.local = item.blob
AlreadyRemote(m, e, item) ==
  /\ m.content = item.blob
  /\ m.content # None => file[e] = item.blob
Mergeable(r, e, item) ==
  /\ e \in Text /\ r.dirty.content # None /\ r.dirty.from # None
  /\ r.known /\ r.local # None
  /\ file[e] # None /\ item.blob # None
Kinds(r, e, item) ==
  IF r.dirty.id = 0 THEN {IF AlreadyApplied(r, item) THEN "skip" ELSE "plain"}
  ELSE IF AlreadyRemote(r.dirty, e, item) THEN {"plain"}
  ELSE {"conflict"} \union
       IF ~Mergeable(r, e, item) THEN {}
       ELSE IF Pieces(file[e]) \subseteq Pieces(item.blob) THEN {"plain"} ELSE {"merge"}
\* clearChangingStorePaths: the path the row has is not the one it will have.
Leaves(r, item) ==
  item.blob = None /\ IF r.known THEN r.local # None ELSE r.remote # None

Plan(e, item, kind) ==
  LET m == rows[e].dirty
  IN  [kind |-> kind, id |-> m.id, revision |-> item.revision, blob |-> item.blob,
       bytes |-> IF kind = "merge" \/ (kind = "conflict" /\ m.content # None)
                 THEN file[e] ELSE None,
       leaves |-> Leaves(rows[e], item)]

\* The steps of a window, each for the entries it concerns: set aside what
\* conflicts, write or remove files, write rows, write and queue merges.
Concerned(n, plan) ==
  {e \in Entries :
     /\ plan[e].kind # "out"
     /\ \/ n = 1 /\ (plan[e].kind = "conflict" \/ plan[e].leaves)
        \/ n = 2 /\ plan[e].kind # "skip"
        \/ n = 3
        \/ n \in {4, 5} /\ plan[e].kind = "merge"}
NextStage(n, plan) ==
  CHOOSE k \in n..6 : /\ k = 6 \/ Concerned(k, plan) # {}
                      /\ \A j \in n..k - 1 : Concerned(j, plan) = {}
EnterStage(p, n) ==
  LET k == NextStage(n, p.plan)
  IN  [p EXCEPT !.stage = k, !.todo = Concerned(k, p.plan)]
Done(e) ==
  LET p == [pull EXCEPT !.todo = @ \ {e}]
  IN  IF p.todo = {} THEN EnterStage(p, pull.stage + 1) ELSE p

\* What the user wrote that the recorder has not, where the file is to be
\* written over: the pull does not look at it.
Unseen(e, p) ==
  IF p.kind \in {"out", "skip"} THEN {}
  ELSE IF p.id = 0 THEN Pieces(file[e]) \ Pieces(rows[e].local)
  ELSE IF p.kind = "plain" THEN Pieces(file[e]) \ Pieces(p.blob)
  ELSE Pieces(file[e]) \ Pieces(p.bytes)

\* prepareManifestApplication, up to the snapshot: downloads, plans, merges.
PullPrepare ==
  /\ pull.pc = "prepare"
  /\ \E kind \in [pull.window -> {"skip", "plain", "conflict", "merge"}] :
       LET planned == {item.entry : item \in pull.window}
           plan == [e \in Entries |->
                      IF e \notin planned THEN NoPlan
                      ELSE LET item == CHOOSE i \in pull.window : i.entry = e
                           IN  Plan(e, item, kind[item])]
       IN  /\ \A item \in pull.window : kind[item] \in Kinds(rows[item.entry], item.entry, item)
           /\ pull' = EnterStage([pc |-> "apply", byId |-> pull.byId, since |-> pull.since,
                         target |-> pull.target, after |-> pull.after, final |-> pull.final,
                         window |-> pull.window, plan |-> plan, snap |-> rows,
                         stage |-> 1, todo |-> {}], 1)
           /\ hist' = [hist EXCEPT !.exposed =
                         @ \union UNION {Unseen(e, plan[e]) : e \in Entries}]
  /\ UNCHANGED <<server, vault, events, rec, rows, cursor, push, stale, parked, spent>>

At(n, e) == pull.pc = "apply" /\ pull.stage = n /\ e \in pull.todo

\* Mutant: no copy unless the other device deleted the file.
CopiedIfDeleted(p) == IF p.kind = "conflict" /\ p.blob = None THEN Pieces(p.bytes) ELSE {}

\* What applyPreparedPendingConflict writes into a conflict copy.
Copied(p) == IF p.kind = "conflict" THEN Pieces(p.bytes) ELSE {}

\* The conflict copy and the queue; then the row gives up its path.
PullConflict(e) ==
  /\ At(1, e)
  /\ pull' = Done(e)
  /\ LET p == pull.plan[e]
         r == IF p.kind = "conflict" THEN ClearById(rows[e], p.id) ELSE rows[e]
         old == pull.snap[e]
         c == IF old.known THEN old.local ELSE old.remote
     IN  /\ copies' = copies \union Copied(p)
         /\ rows' = [rows EXCEPT ![e] =
                      IF p.leaves THEN [EmptyRow EXCEPT !.revision = old.revision, !.remote = c,
                                                        !.known = TRUE]
                      ELSE r]
  /\ UNCHANGED <<server, file, events, rec, cursor, push, stale, parked, spent, hist>>

Written(e, c) ==
  /\ pull' = Done(e)
  /\ file' = [file EXCEPT ![e] = c]
  /\ IF c # None THEN Happens("upsert", e)
     ELSE IF file[e] # None THEN Happens("delete", e)
     ELSE UNCHANGED events
  /\ UNCHANGED <<server, copies, rec, rows, cursor, push, stale, parked, spent, hist>>

PullWrite(e) == At(2, e) /\ Written(e, pull.plan[e].blob)

\* A change queued since the plan, or about to be, is lost with the row.
Recording(e) == rec.pc \notin {"idle", "upsert", "delete"} /\ rec.entry = e
Crosses(e) == Recording(e) \/ rows[e].dirty.id \notin {0, pull.plan[e].id}

PullRow(e) ==
  /\ At(3, e)
  /\ pull' = Done(e)
  /\ rows' = [rows EXCEPT ![e] = Upserted(pull.plan[e].revision, pull.plan[e].blob)]
  /\ hist' = [hist EXCEPT !.raced = @ \union IF Crosses(e) THEN {e} ELSE {}]
  /\ UNCHANGED <<server, vault, events, rec, cursor, push, stale, parked, spent>>

Merged(e) == Pieces(pull.plan[e].bytes) \union Pieces(pull.plan[e].blob)

PullMerge(e) == At(4, e) /\ Written(e, Merged(e))

PullQueue(e) ==
  /\ At(5, e)
  /\ pull' = Done(e)
  /\ LET p == pull.plan[e]
     IN  rows' = [rows EXCEPT ![e] =
                   Local(Dirty(@, NewId(e), p.revision, p.blob, Merged(e)), Merged(e))]
  /\ UNCHANGED <<server, vault, events, rec, cursor, push, stale, parked, spent, hist>>

\* checkpointAppliedWindow, or the end of a pull by id.
PullDone ==
  /\ pull.pc = "apply" /\ pull.stage = 6
  /\ IF pull.byId THEN pull' = NoPull /\ UNCHANGED cursor
     ELSE IF pull.final THEN pull' = NoPull /\ cursor' = pull.target
     ELSE /\ cursor' = pull.after
          /\ pull' = [pc |-> "fetch", byId |-> FALSE, since |-> pull.since,
                      target |-> pull.target, after |-> pull.after, final |-> FALSE,
                      window |-> {}]
  /\ UNCHANGED <<server, vault, events, rec, rows, push, stale, parked, spent, hist>>

\* A pull by id fails with the push it works for.
PushFallsToo == push' = IF pull.byId THEN NoPush ELSE push

\* A page, a download or the preparation fails.
PullAbort ==
  /\ pull.pc \in {"fetch", "prepare"}
  /\ pull' = NoPull
  /\ PushFallsToo
  /\ UNCHANGED <<server, vault, events, rec, rows, cursor, stale, parked, spent, hist>>

\* Merges whose file holds the other version only, while ours is in memory.
Torn == IF pull.pc # "apply" THEN {}
        ELSE UNION {Pieces(pull.plan[e].bytes) :
                      e \in {f \in Entries : /\ pull.plan[f].kind = "merge"
                                             /\ ~StillTo(2, f) /\ StillTo(4, f)}}

\* A step of the window fails: the rows and the queue go back, the files stay.
PullFail ==
  /\ pull.pc = "apply" /\ pull.stage < 6
  /\ Trouble
  /\ rows' = [e \in Entries |-> IF pull.plan[e].kind = "out" THEN rows[e] ELSE pull.snap[e]]
  /\ hist' = [hist EXCEPT !.torn = @ \union Torn,
                !.raced = @ \union {e \in Entries : /\ pull.plan[e].kind # "out"
                                                     /\ rows[e] # pull.snap[e]
                                                     /\ Crosses(e)}]
  /\ pull' = NoPull
  /\ PushFallsToo
  /\ UNCHANGED <<server, vault, events, rec, cursor, stale, parked>>

-----------------------------------------------------------------------------
(* Parked changes get another chance; the plugin restarts.                 *)

Unparked(reasons) ==
  LET freed == {e \in Entries : rows[e].dirty.status \in reasons}
  IN  /\ freed # {}
      /\ rows' = [e \in Entries |-> IF e \in freed THEN [rows[e] EXCEPT !.dirty.status = "pending"]
                                    ELSE rows[e]]
      /\ stale' = [e \in Entries |-> IF e \in freed THEN NoStale ELSE stale[e]]
      /\ parked' = {p \in parked : p[1] \notin freed}
      /\ UNCHANGED <<server, vault, events, rec, cursor, push, pull, spent, hist>>

\* When a session opens; when the user asks, after the local work before it.
RetryQuarantined == push.pc = "idle" /\ pull.pc = "idle" /\ Unparked({"prepare_failed"})
RetryParked == rec.pc = "idle" /\ Unparked({"prepare_failed", "stale_unresolved"})

\* reconcileOnce: what the vault holds against what the store has recorded.
DeleteQueued(r) == r.dirty.id # 0 /\ r.dirty.content = None
Reconciled(e) ==
  LET r == rows[e]
      recorded == r.known /\ r.local # None
  IN  IF file[e] # None
      THEN IF recorded /\ r.revision > 0 /\ ~DeleteQueued(r) /\ r.local = file[e] THEN r
           ELSE Local(Dirty(r, NewId(e), r.revision, r.remote, file[e]), file[e])
      ELSE IF ~recorded THEN r
      ELSE IF r.revision = 0 THEN EmptyRow
      ELSE Local(Dirty(r, NewId(e), r.revision, r.remote, None), None)

\* A file the store takes for deleted, with no deletion queued, would be a
\* second entry for its path: not covered.
SecondEntry(e) ==
  LET r == rows[e]
  IN  file[e] # None /\ r.known /\ r.local = None /\ ~DeleteQueued(r)

\* Changes no longer queued for what was to follow: a deletion on its way into
\* the queue, a conflict on its way out of a pull that will not be repeated.
Forgotten ==
  (IF rec.pc \in {"remote", "gone", "queueDelete"} THEN {rec.entry} ELSE {})
    \union (IF pull.pc # "apply" \/ ~pull.byId THEN {}
            ELSE {e \in Entries : pull.plan[e].kind = "conflict"})

Restart ==
  /\ Trouble
  /\ \A e \in Entries : ~SecondEntry(e)
  /\ rows' = [e \in Entries |-> Reconciled(e)]
  /\ push' = NoPush /\ pull' = NoPull /\ rec' = NoRec /\ events' = <<>>
  /\ stale' = [e \in Entries |-> NoStale]
  /\ parked' = {}
  /\ hist' = [hist EXCEPT !.torn = @ \union Torn,
                !.raced = @ \union Forgotten]
  /\ UNCHANGED <<server, vault, cursor>>

User == \E e \in Entries : Delete(e) \/ \E piece \in Mine : Edit(e, piece)
Others == \E e \in Entries : OthersDelete(e) \/ \E piece \in Theirs : OthersWrite(e, piece)
Recorder ==
  \/ RecordRead \/ RecordUpsert \/ RecordQueue \/ RecordLocal \/ RecordDelete
  \/ RecordRemote \/ RecordForget \/ RecordGone \/ RecordQueueDelete
Pushes ==
  \/ PushStart \/ PushList \/ PushNothing \/ PushCommit \/ PushApply \/ PushNext
  \/ PushFinish \/ PushThrow
  \/ \E e \in Entries : PushPrepare(e) \/ PushUpload(e) \/ PushReject(e) \/ PushRecovered(e)
Pulls ==
  \/ PullStart \/ PullPage \/ PullPrepare \/ PullDone \/ PullAbort \/ PullFail
  \/ \E e \in Entries : PullConflict(e) \/ PullWrite(e) \/ PullRow(e) \/ PullMerge(e) \/ PullQueue(e)

Next == User \/ Others \/ Recorder \/ Pushes \/ Pulls \/ RetryQuarantined \/ RetryParked \/ Restart

Spec == Init /\ [][Next]_vars

-----------------------------------------------------------------------------
(* Properties.  hist.raced names the entries on which the recorder and a pass *)
(* crossed, or a restart came between two writes of the recorder, in one of    *)
(* the places marked above, where the code forgets a queued change.            *)

Mutations == [id : 0..6, base : Nat, from : Contents, content : Contents, status : Statuses]
Rows == [revision : Nat, remote : Contents, known : BOOLEAN, local : Contents, dirty : Mutations]

\* The variables range over the states of the code they stand for; neither the
\* checkpoint nor a row of the store is ahead of the server (store/dexie).
TypeOK ==
  /\ head \in Nat /\ cursor \in 0..head
  /\ feed \in [Entries -> [revision : Nat, blob : Contents, seq : 0..head]]
  /\ replay \in [Entries -> 0..6]
  /\ file \in [Entries -> Contents] /\ copies \subseteq Mine \union Theirs
  /\ \A i \in DOMAIN events : events[i] \in [kind : {"upsert", "delete"}, entry : Entries]
  /\ rows \in [Entries -> Rows]
  /\ \A e \in Entries : rows[e].revision <= feed[e].revision
  /\ parked \subseteq Entries \X Nat

\* The checkpoint has no gap (pull-service 326-348, push-service 933-947,
\* docs/sync-cursor-checkpointing.md): of every entry whose last position is
\* not beyond it, the store holds the last revision.
CheckpointHasNoGap ==
  \A e \in Entries \ hist.raced :
    feed[e].seq <= cursor => rows[e].revision = feed[e].revision

\* What the user wrote is in a file, in a conflict copy or on the server, unless
\* a deletion took it with the file, it was written while a pull was writing
\* the same file, or it was torn (WindowIsAllOrNothing): pull-pending-mutation-
\* handler keeps the loser of every conflict.
Lost == (spent.pieces \intersect Mine)
          \ (Union(file) \union copies \union (UNION {Pieces(feed[e].blob) : e \in Entries})
             \union Torn \union hist.discarded)
EditsSurvive == hist.raced = {} => Lost \subseteq hist.exposed \union hist.torn

\* A window is applied whole or not at all (docs/failure-patterns.md 81-83): a
\* pull that fails, or a plugin that stops, half-way through a window costs no
\* edit that the pull had read.
WindowIsAllOrNothing == hist.raced = {} => Lost \subseteq hist.exposed

\* No record looks settled without having arrived (docs/failure-patterns.md
\* 87-95): a file as recorded, with nothing queued and nothing to pull, is
\* what the server has.
Quiet(e) == /\ rec.pc = "idle" /\ push.pc = "idle" /\ pull.pc = "idle"
            /\ \A i \in DOMAIN events : events[i].entry # e
Settled(e) == rows[e].known /\ rows[e].local = file[e] /\ rows[e].dirty.id = 0
SettledHasArrived ==
  \A e \in Entries \ hist.raced :
    Quiet(e) /\ Settled(e) /\ feed[e].seq <= cursor => feed[e].blob = file[e]

\* A change of this device never takes from the server what another device
\* wrote, unless it deletes the file (mutation-store 213-240 and the merges and
\* conflict copies of the pull).
KeepsOtherDevices ==
  [][\A e \in Entries :
       feed'[e] # feed[e] /\ feed'[e].blob # None => Pieces(feed[e].blob) \subseteq feed'[e].blob]_vars
=============================================================================
