------------------------------- MODULE Paths -------------------------------
(***************************************************************************)
(* Where the files are: a device whose user and whose peers create, move   *)
(* and delete files, its store of entries, the scan of the vault, push,    *)
(* and a pull that plans a window of entries and moves the files about     *)
(* (apps/obsidian-plugin/src/sync: engine/pull-manifest-planner,           *)
(* engine/pull-entry-state-applier, engine/event-recorder,                 *)
(* engine/local-reconcile-service, runtime/vault-event-handler,            *)
(* vault/vault-writer, core/conflict-file).                                *)
(*                                                                         *)
(* Device has the interleavings of all these on files that never move.     *)
(* Here a file event is recorded at once, a window is applied without the  *)
(* user, and what is looked at is the paths: swaps and chains of renames,  *)
(* windows and batches that part them, and a window that stops half way.   *)
(*                                                                         *)
(* Bytes stand for a content and its hash.  No file here is of a kind that *)
(* is merged, a file's time and size change with its bytes, and no entry   *)
(* is damaged.                                                             *)
(***************************************************************************)
EXTENDS Naturals, FiniteSets, Sequences, SequencesExt

CONSTANTS
  Ids,         \* of entries
  Names,       \* paths, but for those of conflict copies
  Hidden,      \* the names this device does not sync
  Theirs,      \* bytes anybody may write
  Mine,        \* bytes only this user writes
  Nil,         \* no path, no bytes, no entry
  WindowSize,  \* entries a pull applies at a time
  BatchSize,   \* and prepares at a time: packed batches are no larger
  OneSecond,   \* whether a window can be prepared within one second
  MaxCopies,   \* bound: conflict copies of a file
  MaxChanges,  \* bound: what other devices do
  MaxActs,     \* bound: what the user does
  MaxTroubles  \* bound: windows that stop half way, and restarts

VARIABLES
  feed, head,  \* the server's entries, its last position
  file,        \* the vault
  rows,        \* the store: a row for each entry
  cursor,      \* the store: lastPulledCursor
  pull,        \* the pull under way, between two windows
  running,     \* whether the plugin runs
  spent,       \* how much of each bound is used up
  mine,        \* history: the bytes of the user's that must not be lost
  astray       \* history: the entries whose path another has interfered with

vars == <<feed, head, file, rows, cursor, pull, running, spent, mine, astray>>

-----------------------------------------------------------------------------
(* Paths, rows, and what the store finds. *)

\* Of each name, more conflict copies than a window makes; none is synced.
Copies == Names \X (1..MaxCopies)
Paths == Names \union Copies
Syncable(p) == p \in Names \ Hidden

\* getAvailableConflictCopyPath: the first attempt whose name is free.
CopyOf(p, taken) ==
  <<p, CHOOSE n \in 1..MaxCopies : <<p, n>> \notin taken /\ \A k \in 1..n - 1 : <<p, k>> \in taken>>

Present(f) == {p \in Paths : f[p] # Nil}

NoRemote == [revision |-> 0, path |-> Nil, bytes |-> Nil]
NoChange == [path |-> Nil, bytes |-> Nil, base |-> 0]

\* What the server has, if its revision is not 0, what is recorded of the file,
\* if known, and the change queued; no bytes is a deletion.
EmptyRow == [remote |-> NoRemote, known |-> FALSE, path |-> Nil, bytes |-> Nil,
             dirty |-> NoChange]
Remote(r, revision, p, c) ==
  [r EXCEPT !.remote = [revision |-> revision, path |-> p, bytes |-> c]]
Local(r, p, c) == [r EXCEPT !.known = TRUE, !.path = p, !.bytes = c]
Dirty(r, p, c) == [r EXCEPT !.dirty = [path |-> p, bytes |-> c, base |-> r.remote.revision]]
Clean(r) == [r EXCEPT !.dirty = NoChange]
\* upsertEntry writes the row anew.
Upserted(revision, p, c) == Local(Remote(EmptyRow, revision, p, c), p, c)

Queued(r) == r.dirty.path # Nil
Live(r) == r.known /\ r.path # Nil /\ r.bytes # Nil
PathOf(r) == IF r.known THEN r.path ELSE r.remote.path
BytesOf(r) == IF r.known THEN r.bytes ELSE r.remote.bytes

FirstOf(a, b) == IF a # Nil THEN a ELSE b
OneOf(S) == IF S = {} THEN Nil ELSE CHOOSE e \in S : TRUE
LocalByPath(rs, p) == OneOf({e \in Ids : Live(rs[e]) /\ rs[e].path = p})
RemoteByPath(rs, p) == OneOf({e \in Ids : rs[e].remote.bytes # Nil /\ rs[e].remote.path = p})

\* getEntryByPath: the file recorded there or, if that has not moved, the
\* server's entry.
EntryByPath(rs, p) ==
  LET l == LocalByPath(rs, p)
      r == RemoteByPath(rs, p)
  IN  IF l # Nil THEN l
      ELSE IF r # Nil /\ rs[r].known /\ rs[r].path # p THEN Nil ELSE r

\* randomUUID: an id nobody has used.
Unused(rs) == {e \in Ids : feed[e].revision = 0 /\ rs[e] = EmptyRow}

NoPull == [on |-> FALSE, after |-> 0, target |-> 0, deferred |-> <<>>]

Init ==
  LET ids == SetToSeq(Ids)
      names == SetToSeq(Names \ Hidden)
      bytes == SetToSeq(Theirs)
      First(e) == CHOOSE k \in 1..Len(ids) : ids[k] = e
  IN  \* The device is in sync; two entries exist.
      /\ feed = [e \in Ids |->
                  IF First(e) > 2 THEN [revision |-> 0, path |-> Nil, bytes |-> Nil, seq |-> 0]
                  ELSE [revision |-> 1, path |-> names[First(e)], bytes |-> bytes[First(e)],
                        seq |-> First(e)]]
      /\ head = 2
      /\ rows = [e \in Ids |-> IF First(e) > 2 THEN EmptyRow
                               ELSE Upserted(1, names[First(e)], bytes[First(e)])]
      /\ file = [p \in Paths |-> IF p = names[1] THEN bytes[1]
                                ELSE IF p = names[2] THEN bytes[2] ELSE Nil]
      /\ cursor = 2
      /\ pull = NoPull
      /\ running = TRUE
      /\ spent = [changes |-> 0, acts |-> 0, troubles |-> 0]
      /\ mine = {}
      /\ astray = {}

-----------------------------------------------------------------------------
(* Other devices. *)

Change ==
  /\ spent.changes < MaxChanges
  /\ spent' = [spent EXCEPT !.changes = @ + 1]

Commit(e, p, c) ==
  /\ head' = head + 1
  /\ feed' = [feed EXCEPT ![e] = [revision |-> @.revision + 1, path |-> p, bytes |-> c,
                                  seq |-> head + 1]]
  /\ LET there == {o \in Ids \ {e} : c # Nil /\ feed[o].bytes # Nil /\ feed[o].path = p}
     IN  astray' = astray \union there \union IF there = {} THEN {} ELSE {e}

\* A new entry, an edit, a move, both, or an old version brought back. Paths are
\* encrypted: the server does not keep two entries from the same one.
OthersPut(e, p, c) ==
  /\ Change
  /\ feed[e].revision > 0 \/ rows[e] = EmptyRow
  /\ feed[e].path # p \/ feed[e].bytes # c
  /\ Commit(e, p, c)
  /\ UNCHANGED <<file, rows, cursor, pull, running, mine>>

OthersDelete(e) ==
  /\ Change
  /\ feed[e].bytes # Nil
  /\ Commit(e, feed[e].path, Nil)
  /\ UNCHANGED <<file, rows, cursor, pull, running, mine>>

-----------------------------------------------------------------------------
(* The user, and the recorder of what the user does while the plugin runs. *)

\* findPendingDeleteLocalEntryByPath: a deletion not pushed yet.
DeletedAt(rs, p) ==
  OneOf({e \in Ids : Queued(rs[e]) /\ rs[e].dirty.path = p /\ rs[e].dirty.bytes = Nil})

\* Nothing to do for bytes that are recorded, and queued if anything is.
RecordedAs(r, p, c) ==
  /\ Live(r) /\ r.path = p /\ r.bytes = c
  /\ Queued(r) => r.dirty.bytes = c

Put(rs, e, p, c) == [rs EXCEPT ![e] = Local(Dirty(@, p, c), p, c)]

AfterUpsert(rs, p, c) ==
  LET known == FirstOf(LocalByPath(rs, p), DeletedAt(rs, p))
      id == FirstOf(known, FirstOf(EntryByPath(rs, p), OneOf(Unused(rs))))
  IN  IF RecordedAs(rs[id], p, c) THEN rs ELSE Put(rs, id, p, c)

AfterDelete(rs, p) ==
  LET id == FirstOf(LocalByPath(rs, p), RemoteByPath(rs, p))
  IN  IF id = Nil THEN rs
      ELSE IF rs[id].remote.revision = 0 THEN [rs EXCEPT ![id] = EmptyRow]
      ELSE [rs EXCEPT ![id] = Dirty(Local(@, Nil, Nil), p, Nil)]

AfterRename(rs, p, q, c) ==
  LET id == FirstOf(LocalByPath(rs, p), LocalByPath(rs, q))
  IN  IF id = Nil THEN AfterUpsert(rs, q, c)
      ELSE IF RecordedAs(rs[id], q, c) THEN rs ELSE Put(rs, id, q, c)

\* The handler looks at which of the two paths are synced.
AfterMove(rs, p, q, c) ==
  IF Syncable(p) /\ Syncable(q) THEN AfterRename(rs, p, q, c)
  ELSE IF Syncable(p) THEN AfterDelete(rs, p)
  ELSE IF Syncable(q) THEN AfterUpsert(rs, q, c) ELSE rs

Act(after) ==
  /\ spent.acts < MaxActs /\ spent.troubles = 0
  /\ Unused(rows) # {}
  /\ spent' = [spent EXCEPT !.acts = @ + 1]
  /\ rows' = IF running THEN after ELSE rows
  /\ UNCHANGED <<feed, head, astray, cursor, pull, running>>

Write(p, c) ==
  /\ file[p] # c
  /\ Act(IF Syncable(p) THEN AfterUpsert(rows, p, c) ELSE rows)
  /\ file' = [file EXCEPT ![p] = c]
  /\ mine' = (mine \ {file[p]}) \union ({c} \intersect Mine)

Move(p, q) ==
  /\ file[p] # Nil /\ file[q] = Nil
  /\ Act(AfterMove(rows, p, q, file[p]))
  /\ file' = [file EXCEPT ![p] = Nil, ![q] = file[p]]
  /\ UNCHANGED mine

Delete(p) ==
  /\ file[p] # Nil
  /\ Act(IF Syncable(p) THEN AfterDelete(rows, p) ELSE rows)
  /\ file' = [file EXCEPT ![p] = Nil]
  /\ mine' = mine \ {file[p]}

\* What a scan makes of the rows: files at a path that is not synced are
\* forgotten, files not recorded as they are get queued, under the entry that
\* had these bytes at a path now empty if there is one, and what is missing is
\* queued as a deletion.
Seen == {p \in Names \ Hidden : file[p] # Nil}
Swept(r) == Live(r) /\ ~Syncable(r.path)
Forgotten(r) == IF r.remote.revision = 0 THEN EmptyRow
                ELSE Clean([r EXCEPT !.known = FALSE, !.path = Nil, !.bytes = Nil])
Missing(rs) == {e \in Ids : Live(rs[e]) /\ Syncable(rs[e].path) /\ rs[e].path \notin Seen}
AsRecorded(p) ==
  LET e == LocalByPath(rows, p)
  IN  e # Nil /\ e # DeletedAt(rows, p) /\ rows[e].remote.revision > 0 /\ rows[e].bytes = file[p]

MatchOf(p, moved) == OneOf({e \in Missing(rows) \ moved : rows[e].bytes = file[p]})

QueuedInScan(acc, p) ==
  LET known == FirstOf(LocalByPath(rows, p), DeletedAt(rows, p))
      match == IF known # Nil THEN Nil ELSE MatchOf(p, acc.moved)
      id == FirstOf(known, FirstOf(match, FirstOf(EntryByPath(rows, p), OneOf(Unused(acc.rows)))))
  IN  [rows |-> Put(acc.rows, id, p, file[p]), moved |-> acc.moved \union {match}]

Scanned ==
  LET queued == FoldLeft(QueuedInScan, [rows |-> rows, moved |-> {}],
                         SetToSeq({p \in Seen : ~AsRecorded(p)}))
  IN  [e \in Ids |->
        LET r == queued.rows[e]
        IN  IF Swept(rows[e]) THEN Forgotten(r)
            ELSE IF e \notin Missing(rows) \ queued.moved THEN r
            ELSE IF r.remote.revision = 0 THEN EmptyRow
            ELSE Dirty(Local(r, Nil, Nil), r.path, Nil)]

Stop ==
  /\ running
  /\ spent.troubles < MaxTroubles
  /\ spent' = [spent EXCEPT !.troubles = @ + 1]
  /\ running' = FALSE
  /\ pull' = NoPull
  /\ UNCHANGED <<feed, head, astray, file, rows, cursor, mine>>

Start ==
  /\ ~running
  /\ Cardinality({p \in Seen : EntryByPath(rows, p) = Nil /\ DeletedAt(rows, p) = Nil})
       <= Cardinality(Unused(rows))
  /\ rows' = Scanned
  /\ running' = TRUE
  /\ UNCHANGED <<feed, head, astray, file, cursor, pull, spent, mine>>

\* One queued change: nothing to push if its file is gone, queued anew if the
\* file is another by now, and stale, so left to the pull, if the server is
\* ahead. The cursor passes a commit that follows it at once.
Push(e) ==
  /\ running /\ ~pull.on
  /\ Queued(rows[e])
  /\ LET r == rows[e]
         m == r.dirty
     IN  IF m.bytes # Nil /\ file[m.path] # m.bytes
         THEN /\ rows' = IF file[m.path] = Nil THEN [rows EXCEPT ![e] = Clean(r)]
                         ELSE Put(rows, e, m.path, file[m.path])
              /\ UNCHANGED <<feed, head, cursor, mine, astray>>
         ELSE /\ m.base = feed[e].revision
              /\ Commit(e, m.path, m.bytes)
              /\ rows' = [rows EXCEPT ![e] = Clean(Remote(r, m.base + 1, m.path, m.bytes))]
              /\ cursor' = IF cursor = head THEN head + 1 ELSE cursor
              /\ mine' = mine \ {m.bytes}
  /\ UNCHANGED <<file, pull, running, spent>>

-----------------------------------------------------------------------------
(* Planning a window: a sequence of items of the feed, by position. *)

Items(S) == SetToSortSeq({[id |-> e] @@ feed[e] : e \in S}, LAMBDA a, b : a.seq < b.seq)
IdsOf(s) == {s[k].id : k \in DOMAIN s}

\* findAdoptableLocalPathOwner: a file of ours at that path the server has not.
Adoptable(rs, i) ==
  \E o \in {EntryByPath(rs, i.path)} \ {Nil, i.id} :
    /\ rs[o].remote.revision = 0 /\ BytesOf(rs[o]) # Nil
    /\ IF Queued(rs[o]) THEN rs[o].dirty.path = i.path /\ rs[o].dirty.bytes # Nil
       ELSE rs[o].bytes = i.bytes
SameBytes(rs, i) ==
  \A r \in {rs[EntryByPath(rs, i.path)]} :
    Queued(r) => r.dirty.bytes = i.bytes /\ BytesOf(r) = i.bytes

\* A path that belongs to an entry which is not about to move.
Taken(rs, i, active) ==
  /\ i.bytes # Nil
  /\ EntryByPath(rs, i.path) \notin active \union {Nil, i.id}
  /\ ~Adoptable(rs, i)

\* Unless this is the last window, whoever wants such a path waits, and so does
\* everything after.
Waiting(rs, m) ==
  LET Round(waiting, i) ==
        waiting \union {k.id : k \in {k \in Range(m) : Taken(rs, k, IdsOf(m) \ waiting)}}
  IN  FoldLeft(Round, {}, m)
Timely(rs, m, last) ==
  LET waiting == IF last THEN {} ELSE Waiting(rs, m)
      Before(i) == \A k \in DOMAIN m : m[k].id \in waiting => i.seq < m[k].seq
  IN  SelectSeq(m, Before)

\* The file can be moved as it is: nothing queued, and nothing at the new path.
Movable(d, i, to) ==
  LET from == PathOf(d.rows[i.id])
  IN  /\ BytesOf(d.rows[i.id]) # Nil
      /\ from \notin {Nil, to}
      /\ ~Queued(d.rows[i.id])
      /\ d.file[from] # Nil /\ d.file[to] = Nil

\* Neither a file nor an earlier plan has it.
CollisionPath(d, p, reserved) == CopyOf(p, Present(d.file) \union reserved)

\* A plan for an item of the feed.
PlanOf(d, i, adopts, diverted, final) ==
  [id |-> i.id, revision |-> i.revision, bytes |-> i.bytes, path |-> i.path,
   final |-> final, diverted |-> diverted, from |-> PathOf(d.rows[i.id]),
   adopted |-> IF adopts THEN EntryByPath(d.rows, i.path) ELSE Nil,
   same |-> adopts /\ SameBytes(d.rows, i),
   moves |-> i.bytes # Nil /\ ~diverted /\ ~adopts /\ Movable(d, i, final),
   skip |-> FALSE, loses |-> Nil, copy |-> Nil, copied |-> Nil]
FinalPath(d, i, diverted, reserved) ==
  IF i.bytes = Nil THEN Nil
  ELSE IF diverted THEN CollisionPath(d, i.path, reserved) ELSE i.path
PlanFor(d, i, diverted, reserved) ==
  PlanOf(d, i, i.bytes # Nil /\ Adoptable(d.rows, i), diverted,
         FinalPath(d, i, diverted, reserved))

\* The plans of a window, of which some are for now, and what is left of it for the next.
PlannedOf(d, m, last, active) ==
  LET Diverted(i, reserved) == /\ i.bytes # Nil
                               /\ i.path \in reserved \/ Taken(d.rows, i, active)
      Added(acc, plan) == [plans |-> Append(acc.plans, plan),
                           reserved |-> acc.reserved \union {plan.final}]
      Add(acc, i) == Added(acc, PlanFor(d, i, Diverted(i, acc.reserved), acc.reserved))
      Ready(i) == i.id \in active /\ (last \/ ~Taken(d.rows, i, active))
      Current(i) == Ready(i) /\ i.revision >= d.rows[i.id].remote.revision
      Waits(i) == ~Ready(i)
  IN  FoldLeft(Add, [plans |-> <<>>, reserved |-> {Nil}], SelectSeq(m, Current))
        @@ [deferred |-> SelectSeq(m, Waits)]
Planned(d, m, last) == PlannedOf(d, m, last, IdsOf(Timely(d.rows, m, last)))

Shown(p) == p.path \notin Hidden

\* Entries at hidden paths are noted, not applied.
Noted(rs, plans) ==
  [e \in Ids |->
    LET ks == {k \in DOMAIN plans : plans[k].id = e /\ ~Shown(plans[k])}
    IN  IF ks = {} \/ Queued(rs[e]) THEN rs[e]
        ELSE LET p == plans[CHOOSE k \in ks : TRUE] IN Remote(rs[e], p.revision, p.path, p.bytes)]

\* markAlreadyCurrentVaultWrites.
Written(rs, p) ==
  \/ p.same /\ PathOf(rs[p.adopted]) = p.final
  \/ /\ p.bytes # Nil /\ ~p.diverted /\ p.adopted = Nil /\ ~Queued(rs[p.id])
     /\ rs[p.id].remote = [revision |-> p.revision, path |-> p.final, bytes |-> p.bytes]
     /\ Live(rs[p.id]) /\ rs[p.id].path = p.final /\ rs[p.id].bytes = p.bytes

\* Mutant: a deletion does not look for changes queued.
LoserOfUpsert(rs, p) ==
  IF p.bytes # Nil /\ Queued(rs[p.id]) THEN p.id
  ELSE OneOf({e \in Ids \ {p.id} : Queued(rs[e]) /\ rs[e].dirty.path \in {p.final, p.from} \ {Nil}})

\* The queued change that a plan puts an end to, the entry's own or another at
\* one of its paths; if it is a file, a copy is kept of what is there.
Loser(rs, p) ==
  IF Queued(rs[p.id]) THEN p.id
  ELSE OneOf({e \in Ids : Queued(rs[e])
                /\ rs[e].dirty.path \in {IF p.bytes = Nil THEN p.path ELSE p.final, p.from} \ {Nil}})

AlreadyRemote(d, p, m) ==
  IF m.bytes = Nil THEN p.bytes = Nil /\ m.path = p.path
  ELSE p.bytes = m.bytes /\ m.path = p.final /\ d.file[m.path] = m.bytes

\* What becomes of the queued change, of which earlier plans have settled some.
ConflictWith(d, p, acc, e, m) ==
  LET loses == e \notin acc.lost \union {Nil} /\ ~(e = p.id /\ AlreadyRemote(d, p, m))
      kept == loses /\ m.bytes # Nil /\ d.file[m.path] # Nil
  IN  [lost |-> e, loses |-> IF loses THEN e ELSE Nil,
       copied |-> IF kept THEN d.file[m.path] ELSE Nil,
       copy |-> IF ~kept THEN Nil
                ELSE CopyOf(m.path, Present(d.file) \union IF OneSecond THEN {} ELSE acc.taken)]
ConflictOf(d, rs, p, acc) ==
  LET e == IF p.same THEN Nil ELSE Loser(rs, p) IN ConflictWith(d, p, acc, e, rs[e].dirty)

PreparedOn(d, rs, planned) ==
  LET Settled(acc, p, conflict) ==
        [plans |-> Append(acc.plans,
                     [p EXCEPT !.skip = Written(rs, p), !.loses = conflict.loses,
                               !.copy = conflict.copy, !.copied = conflict.copied]),
         lost |-> acc.lost \union {conflict.lost},
         taken |-> acc.taken \union {conflict.copy}]
      Prepare(acc, p) == Settled(acc, p, ConflictOf(d, rs, p, acc))
  IN  [file |-> d.file, rows |-> rs,
       plans |-> FoldLeft(Prepare, [plans |-> <<>>, lost |-> {}, taken |-> planned.reserved],
                          SelectSeq(planned.plans, Shown)).plans]
Prepared(d, planned) == PreparedOn(d, Noted(d.rows, planned.plans), planned)

-----------------------------------------------------------------------------
(* Applying a window, a batch of plans that share paths at a time. *)

Vacates(p) == p.from \notin {Nil, p.final}
Removes(p) == IF p.bytes = Nil THEN {IF p.from = Nil THEN p.path ELSE p.from}
              ELSE IF p.moves \/ ~Vacates(p) THEN {} ELSE {p.from}
Touches(p) == (Removes(p) \union {p.final}) \ {Nil}

Joined(plans, groups, k) ==
  LET joined == {g \in groups : \E l \in g :
                   Touches(plans[l]) \intersect Touches(plans[k]) # {}}
  IN  (groups \ joined) \union {UNION joined \union {k}}

\* createPathDependencyBatches: the plans that a chain of shared paths connects,
\* in the order of the first of each.
Batches(plans) ==
  LET Join(groups, k) == Joined(plans, groups, k)
      groups == FoldLeft(Join, {}, [k \in DOMAIN plans |-> k])
      Before(g, h) == \E k \in g : \A l \in h : k < l
      Group(g) == LET ks == SetToSortSeq(g, <) IN [l \in DOMAIN ks |-> plans[ks[l]]]
      sorted == SetToSortSeq(groups, Before)
  IN  [n \in DOMAIN sorted |-> Group(sorted[n])]

\* packPathDependencyBatches: small ones together, as long as they fit.
Packed(batches) ==
  LET Closed(acc) == IF acc.open = <<>> THEN acc.done ELSE Append(acc.done, acc.open)
      Pack(acc, b) ==
        IF Len(b) >= BatchSize THEN [done |-> Append(Closed(acc), b), open |-> <<>>]
        ELSE IF Len(acc.open) + Len(b) > BatchSize
        THEN [done |-> Append(acc.done, acc.open), open |-> b]
        ELSE [acc EXCEPT !.open = @ \o b]
  IN  Closed(FoldLeft(Pack, [done |-> <<>>, open |-> <<>>], batches))

\* The operations on the vault and the store that apply a batch, in order.
Steps(batch) ==
  LET All(Of(_)) == FlattenSeq([k \in DOMAIN batch |-> Of(batch[k])])
      Conflict(p) ==
        (IF p.copy = Nil THEN <<>> ELSE <<[do |-> "write", at |-> p.copy, bytes |-> p.copied]>>)
          \o (IF p.loses = Nil THEN <<>> ELSE <<[do |-> "clean", id |-> p.loses]>>)
      Adopt(p) == IF p.adopted = Nil THEN <<>> ELSE <<[do |-> "drop", id |-> p.adopted]>>
      Vacate(p) == IF Vacates(p) THEN <<[do |-> "vacate", id |-> p.id]>> ELSE <<>>
      Rename(p) == IF p.moves THEN <<[do |-> "rename", at |-> p.from, to |-> p.final]>> ELSE <<>>
      Clear(p) == LET r == Removes(p)
                  IN  IF r = {} THEN <<>> ELSE <<[do |-> "remove", at |-> CHOOSE q \in r : TRUE]>>
      Bring(p) == IF p.bytes = Nil \/ p.skip THEN <<>>
                  ELSE <<[do |-> "write", at |-> p.final, bytes |-> p.bytes]>>
      Row(p) == <<[do |-> "row", id |-> p.id,
                   row |-> Upserted(p.revision, IF p.bytes = Nil THEN p.path ELSE p.final, p.bytes)]>>
  IN  All(Conflict) \o All(Adopt) \o All(Vacate) \o All(Rename) \o All(Clear)
        \o All(Bring) \o All(Row)

\* A rename throws if there is nothing to move, or something in its way.
Throws(d, s) == s.do = "rename" /\ (d.file[s.at] = Nil \/ d.file[s.to] # Nil)

Do(d, s) ==
  LET r == d.rows[s.id]
  IN  CASE s.do = "write" -> [d EXCEPT !.file[s.at] = s.bytes]
        [] s.do = "remove" -> [d EXCEPT !.file[s.at] = Nil]
        [] s.do = "rename" -> [d EXCEPT !.file[s.at] = Nil, !.file[s.to] = d.file[s.at]]
        [] s.do = "clean" -> [d EXCEPT !.rows[s.id] = Clean(r)]
        [] s.do = "drop" -> [d EXCEPT !.rows[s.id] = EmptyRow]
        [] s.do = "vacate" ->
             [d EXCEPT !.rows[s.id] = Upserted(r.remote.revision, Nil, BytesOf(r))]
        [] s.do = "row" -> [d EXCEPT !.rows[s.id] = s.row]

\* After the first n operations, or those before the first that throws.
After(d, steps, n) ==
  LET Next1(acc, s) == IF acc.threw \/ Throws(acc, s) THEN [acc EXCEPT !.threw = TRUE]
                       ELSE Do(acc, s)
  IN  FoldLeft(Next1, [file |-> d.file, rows |-> d.rows, threw |-> FALSE], SubSeq(steps, 1, n))

-----------------------------------------------------------------------------
(* Pull. *)

PullStart ==
  /\ running /\ ~pull.on
  /\ cursor < head
  /\ pull' = [on |-> TRUE, after |-> cursor, target |-> head, deferred |-> <<>>]
  /\ UNCHANGED <<feed, head, astray, file, rows, cursor, running, spent, mine>>

Smaller(a, b) == IF a < b THEN a ELSE b

\* Pages are taken until the window is full, or there are no more.
WindowOf(page, last) ==
  [items |-> pull.deferred \o page, last |-> last,
   through |-> IF page = <<>> THEN pull.after ELSE page[Len(page)].seq]
NextWindow ==
  LET size == WindowSize - Len(pull.deferred)
      Page(rest, n) == WindowOf(SubSeq(rest, 1, n), Len(rest) = n)
      First(rest) == Page(rest, Smaller(IF size < 1 THEN 1 ELSE size, Len(rest)))
  IN  First(Items({e \in Ids : feed[e].seq \in pull.after + 1..pull.target}))

\* getSafeCheckpointCursor.
Checkpoint(window, deferred) ==
  IF deferred # <<>> THEN deferred[1].seq - 1
  ELSE IF window.last THEN pull.target
  ELSE window.items[Len(window.items)].seq

\* checkpointAppliedWindow.
Checkpointed(safe) == IF safe > cursor THEN safe ELSE cursor

Room == \A p \in Names : Cardinality({n \in 1..MaxCopies : file[<<p, n>>] = Nil}) > 2

StepsOf(batches) == FlattenSeq([k \in DOMAIN batches |-> Steps(batches[k])])
WithSteps(w, deferred, before) ==
  [window |-> w, deferred |-> deferred, before |-> before,
   steps |-> StepsOf(Packed(Batches(before.plans)))]
PreparedWindow(d, w, planned) == WithSteps(w, planned.deferred, Prepared(d, planned))
PlannedWindow(d, w) == PreparedWindow(d, w, Planned(d, w.items, w.last))
Applied == PlannedWindow([file |-> file, rows |-> rows], NextWindow)

\* The path was another's, which moves to one not synced, so is only noted.
Replaces(a, p) ==
  LocalByPath(rows, p.final) \notin {q.id : q \in Range(a.before.plans)} \union {Nil, p.adopted}

\* The entries whose queued change a plan for another entry puts an end to,
\* those with a path, before or after, that another which has no file, as far as
\* the store knows, is believed to have, those that adopt one of these, and those
\* that take the path of one only noted.
Astray(a) ==
  LET plans == Range(a.before.plans)
      Had(o) == IF Live(rows[o]) THEN {rows[o].path} ELSE {}
      Gets(o) == {q.final : q \in {q \in plans : q.id = o}}
  IN  {o \in Ids : \E p \in plans :
         IF p.id = o THEN p.adopted \in astray \/ Replaces(a, p)
         ELSE \/ p.loses = o
              \/ ~Live(rows[p.id]) /\ (Had(o) \union Gets(o)) \intersect Removes(p) # {}}

\* What is known to be lost unless it is copied: a file at a path that an entry
\* without one is believed to have, or of one only noted whose path another takes;
\* a file not pushed yet that gives way to an adopted entry, when the one queued change that is looked for at the
\* paths of its plan is another; and what is queued for an entry that adopts a
\* file with the same bytes.
Forgone(a) ==
  LET plans == Range(a.before.plans)
      Removed == UNION {Removes(p) \union {p.from} : p \in {p \in plans : ~Live(rows[p.id])}} \ {Nil}
      Passed(p) == p.adopted # Nil /\ ~p.same /\ p.loses # p.adopted
  IN  ({file[q] : q \in Removed \union {p.final : p \in {p \in plans : Replaces(a, p)}}}
         \ {p.copied : p \in plans})
        \union {rows[p.adopted].bytes : p \in {p \in plans : Passed(p)}}
        \union {rows[p.id].bytes : p \in {p \in plans : p.same}}

\* A window that goes through moves the cursor as far as nothing waits before it.
PullWindow ==
  /\ pull.on /\ Room
  /\ \E a \in {Applied} :
       LET after == After(a.before, a.steps, Len(a.steps))
       IN  /\ ~after.threw
           /\ file' = after.file
           /\ rows' = after.rows
           /\ cursor' = Checkpointed(Checkpoint(a.window, a.deferred))
           /\ pull' = IF a.window.last THEN NoPull
                      ELSE [pull EXCEPT !.after = a.window.through, !.deferred = a.deferred]
           /\ astray' = astray \union Astray(a)
           /\ mine' = mine \ Forgone(a)
  /\ UNCHANGED <<feed, head, running, spent>>

\* One of its renames throws: the rows are put back, the vault stays as it is,
\* and the next pull begins at the cursor.
WindowThrows ==
  /\ pull.on /\ Room
  /\ \E a \in {Applied} :
       LET after == After(a.before, a.steps, Len(a.steps))
       IN  /\ after.threw
           /\ file' = after.file
           /\ rows' = a.before.rows
           /\ astray' = astray \union Astray(a)
           /\ mine' = mine \ Forgone(a)
  /\ pull' = NoPull
  /\ UNCHANGED <<feed, head, cursor, running, spent>>

\* Any operation throws, with the same result; or the plugin dies, and the rows
\* are left as they are too.
WindowStops ==
  /\ pull.on /\ Room
  /\ spent.troubles < MaxTroubles
  /\ spent' = [spent EXCEPT !.troubles = @ + 1]
  /\ \E a \in {Applied} : \E n \in 0..Len(a.steps) :
       LET after == After(a.before, a.steps, n)
       IN  /\ ~after.threw
           /\ file' = after.file
           /\ astray' = astray \union Astray(a)
           /\ mine' = mine \ Forgone(a)
           /\ \/ running' = TRUE /\ rows' = a.before.rows /\ n < Len(a.steps)
              \/ running' = FALSE /\ rows' = after.rows
  /\ pull' = NoPull
  /\ UNCHANGED <<feed, head, cursor>>

-----------------------------------------------------------------------------

Next ==
  \/ \E e \in Ids, p \in Names, c \in Theirs : OthersPut(e, p, c)
  \/ \E e \in Ids : OthersDelete(e) \/ Push(e)
  \/ \E p \in Names, c \in Theirs \union Mine : Write(p, c)
  \/ \E p, q \in Names : Move(p, q)
  \/ \E p \in Names : Delete(p)
  \/ Stop \/ Start
  \/ PullStart \/ PullWindow \/ WindowThrows \/ WindowStops

Spec == Init /\ [][Next]_vars

-----------------------------------------------------------------------------

Content == Theirs \union Mine \union {Nil}

TypeOK ==
  /\ feed \in [Ids -> [revision : Nat, path : Names \union {Nil}, bytes : Content, seq : 0..head]]
  /\ file \in [Paths -> Content]
  /\ cursor \in 0..head
  /\ rows \in [Ids -> [remote : [revision : Nat, path : Paths \union {Nil}, bytes : Content],
                       known : BOOLEAN, path : Paths \union {Nil}, bytes : Content,
                       dirty : [path : Names \union {Nil}, bytes : Content, base : Nat]]]
  /\ running \in BOOLEAN /\ (pull.on => running)

\* A device that has pulled everything and has nothing to push has the server's
\* files: each one it syncs with the server's bytes, at the server's path or
\* beside it as a conflict copy, none the server has deleted, and no file that
\* belongs to no entry or to two - whatever swaps, chains and windows the moves
\* came in, and wherever a window stopped half way (planManifest,
\* createPathDependencyBatches, applyPreparedManifest, getSafeCheckpointCursor).
InSync ==
  /\ running /\ ~pull.on /\ cursor = head
  /\ \A e \in Ids : ~Queued(rows[e]) /\ (Live(rows[e]) => rows[e].remote.revision > 0)
  /\ spent.troubles > 0 => \A p \in Seen : LocalByPath(rows, p) # Nil
At(r, p) == r.path = p \/ \E n \in 1..MaxCopies : r.path = <<p, n>>
Arrived(e) ==
  LET r == rows[e]
  IN  /\ r.remote.revision = feed[e].revision /\ r.remote.bytes = feed[e].bytes
      /\ IF r.known THEN Live(r) /\ At(r, feed[e].path) /\ file[r.path] = r.bytes
                         /\ r.bytes = feed[e].bytes
         ELSE r.remote.path \in Copies
TreesAgree ==
  InSync =>
    /\ \A e \in Ids :
         /\ feed[e].bytes # Nil /\ feed[e].path \notin Hidden /\ e \notin astray => Arrived(e)
         /\ feed[e].bytes = Nil /\ feed[e].path \notin Hidden => ~Live(rows[e])
    /\ \A p \in Seen :
         LET owners == {e \in Ids : Live(rows[e]) /\ rows[e].path = p}
         IN  /\ owners # {}
             /\ Cardinality({e \in owners \ astray : rows[e].remote.path \notin Hidden}) <= 1

\* What the user wrote, and has not overwritten or deleted, is in the vault,
\* in its place or as a conflict copy, until the server has it: no window that
\* moves, removes and overwrites files takes it along
\* (prepareConflictingPendingMutation, planVaultMove, findAdoptableLocalPathOwner).
NothingLost == mine \subseteq Range(file)

\* A window never destroys what the user wrote and the server does not have.
WindowsKeepEdits ==
  [][pull.on /\ pull' # pull => mine \intersect Range(file) \subseteq Range(file')]_vars

=============================================================================
