------------------------------ MODULE History ------------------------------
(***************************************************************************)
(* Version history and deleted files: the lists the server reads out of    *)
(* its tables page by page, the pane that shows the versions of the active *)
(* file, the dialog that lists deleted files, and the restores and purges  *)
(* they ask for, while other devices edit and delete the same files.       *)
(*                                                                         *)
(* The answers to one session's requests come in the order of the requests *)
(* (one socket, a server that reads these lists without awaiting).  What a *)
(* version holds is named by the revision that first had it.  Left out:    *)
(* the wording of what is shown, and blobs (Coordinator).                  *)
(***************************************************************************)
EXTENDS Integers, Sequences, FiniteSets, SequencesExt

CONSTANTS
  Files,        \* entries of the vault, positive numbers, each a file at a path of its own
  Screens,      \* the screens a behaviour may use: sets of "pane", "dialog"
  PageSize,     \* versions and deleted files on a page
  Retention,    \* how long history is shown
  AutoBucket,   \* width of the window with one automatic version
  MaxChosen,    \* deleted files that may be selected
  MaxTime,      \* bound: commits
  MaxClicks,    \* bound: what the user does
  MaxFaults     \* bound: requests that fail, commits that find a blob missing

VARIABLES
  now,       \* Date.now() of the coordinator, one tick per commit
  entry,     \* the entries table
  versions,  \* the entry_versions table
  local,     \* the store of this device: what it has pulled, and what is queued
  active,    \* getActiveFile()
  pane,      \* SynchVersionHistoryView
  known,     \* activeFileVersionsById
  loads,     \* calls of listActiveFileVersions under way, in their order
  dialog,    \* DeletedFilesModal
  work,      \* localMutationQueue: restores under way and waiting
  hist,      \* history: what a deletion took away, the deletions that were purged
  spent      \* what the bounds count

vars == <<now, entry, versions, local, active, pane, known, loads, dialog, work, hist, spent>>
server == <<now, entry, versions, hist>>

NoFile == 0
Excluded == -1      \* a file the rules exclude
NoCursor == <<>>
Closed == [op |-> "closed", before |-> NoCursor, error |-> FALSE, rows |-> <<>>,
           next |-> NoCursor, chosen |-> {}, sent |-> <<>>, from |-> 0, preview |-> NoFile]

Init ==
  /\ now = 1
  /\ entry = [f \in Files |-> [rev |-> 1, deleted |-> FALSE, at |-> 1, content |-> 1]]
  /\ versions = {}
  /\ local = [f \in Files |-> [rev |-> 1, deleted |-> FALSE, dirty |-> FALSE]]
  /\ active = NoFile
  /\ pane = [req |-> 0, loading |-> FALSE, status |-> "none", file |-> NoFile,
             dirty |-> FALSE, rows |-> <<>>, next |-> NoCursor, from |-> 0]
  /\ known = {}
  /\ loads = <<>>
  /\ dialog = Closed
  /\ work = <<>>
  /\ hist = [lost |-> [f \in Files |-> 0], purged |-> {}, true |-> TRUE]
  /\ \E screens \in Screens : spent = [clicks |-> 0, faults |-> 0, screens |-> screens]

Clicks == spent.clicks < MaxClicks /\ spent' = [spent EXCEPT !.clicks = @ + 1]
Faults == spent.faults < MaxFaults /\ spent' = [spent EXCEPT !.faults = @ + 1]

\* A call that is not served: each asks first whether the plugin has a vault and an
\* account, and its request may find no session, or no answer.
Unserved == Faults

-----------------------------------------------------------------------------
(* The coordinator: what a commit leaves in the history, and the pages     *)
(* that are read out of it, newest first.                                  *)

Retained(v) == v.at >= now - Retention

\* The version a change m captures at t: what it replaces, when a deletion or a
\* restore forces it, else what it brings, once in a window.
Captured(m, forced, t) ==
  LET e == entry[m.file]
      why == IF m.op = "delete" THEN "before_delete" ELSE forced
      Version(rev, op, content) == [file |-> m.file, rev |-> rev, op |-> op,
                                    content |-> content, reason |-> why, at |-> t]
  IN  IF why # "auto" THEN {Version(e.rev, IF e.deleted THEN "delete" ELSE "upsert", e.content)}
      ELSE IF \E v \in versions : /\ v.file = m.file /\ v.reason = "auto"
                                  /\ v.at \div AutoBucket = t \div AutoBucket
           THEN {} ELSE {Version(e.rev + 1, m.op, m.content)}

\* The changes ms are accepted in one commit.
Commit(ms, forced) ==
  LET changed == {m.file : m \in ms}
      change == [f \in changed |-> CHOOSE m \in ms : m.file = f]
  IN  /\ now < MaxTime
      /\ now' = now + 1
      /\ entry' = [f \in Files |->
                     IF f \notin changed THEN entry[f]
                     ELSE [rev |-> entry[f].rev + 1, deleted |-> change[f].op = "delete",
                           at |-> now + 1, content |-> change[f].content]]
      /\ versions' = versions \union UNION {Captured(m, forced, now + 1) : m \in ms}
      /\ hist' = [hist EXCEPT !.lost = [f \in Files |->
                    IF f \in changed /\ change[f].op = "delete" THEN entry[f].content ELSE @[f]]]

\* Mutant: rows of the same moment as the last row of a page are skipped.
NewerInTime(k, l) == k[1] > l[1]

\* The order of the pages, and what lies before a cursor.
Newer(k, l) == k[1] > l[1] \/ (k[1] = l[1] /\ k[2] > l[2])

\* The page of at most PageSize rows that lie before a cursor, and the cursor of
\* the next one if there are more.
PageOf(rows, key, before) ==
  LET older == {r \in rows : before = NoCursor \/ Newer(before, key[r])}
      all == SetToSortSeq(older, LAMBDA r, s : Newer(key[r], key[s]))
      full == Len(all) > PageSize
  IN  [rows |-> IF full THEN SubSeq(all, 1, PageSize) ELSE all,
       next |-> IF full THEN key[all[PageSize]] ELSE NoCursor]

VersionsOf(f) == {v \in versions : v.file = f /\ Retained(v)}
ListEntryVersions(f, before) ==
  PageOf(VersionsOf(f), [v \in VersionsOf(f) |-> <<v.at, v.rev>>], before)

RestorableVersions(f) == {v \in VersionsOf(f) : v.op = "upsert"}

DeletedFiles == {[file |-> f, rev |-> entry[f].rev, at |-> entry[f].at] :
                   f \in {g \in Files : entry[g].deleted /\ RestorableVersions(g) # {}}}
ListDeletedEntries(before) ==
  PageOf(DeletedFiles, [d \in DeletedFiles |-> <<d.at, d.file>>], before)

\* The first version a client finds that it can restore a deleted file from.
LatestRestorable(f) ==
  CHOOSE v \in RestorableVersions(f) :
    \A w \in RestorableVersions(f) : ~Newer(<<w.at, w.rev>>, <<v.at, v.rev>>)

-----------------------------------------------------------------------------
(* What happens to the files beside: other devices, and this one's sync.   *)

Upsert(f, content) == [file |-> f, op |-> "upsert", content |-> content]
Delete(f) == [file |-> f, op |-> "delete", content |-> 0]
Screen == UNCHANGED <<active, pane, known, loads, dialog, work>>

OtherEdits(f) ==
  /\ ~entry[f].deleted
  /\ Commit({Upsert(f, entry[f].rev + 1)}, "auto")
  /\ UNCHANGED <<local, spent>> /\ Screen

OtherDeletes(fs) ==
  /\ fs # {} /\ \A f \in fs : ~entry[f].deleted
  /\ Commit({Delete(f) : f \in fs}, "auto")
  /\ UNCHANGED <<local, spent>> /\ Screen

OtherRestores(f) ==
  /\ entry[f].deleted /\ RestorableVersions(f) # {}
  /\ Commit({Upsert(f, LatestRestorable(f).content)}, "before_restore")
  /\ UNCHANGED <<local, spent>> /\ Screen

\* A pull brings every file to the state of the server; what is queued stays.
Pulled == [f \in Files |-> [local[f] EXCEPT !.rev = entry[f].rev, !.deleted = entry[f].deleted]]

PullsAll == local # Pulled /\ local' = Pulled /\ UNCHANGED <<server, spent>> /\ Screen

\* The recorder queues an edit of the active file when no restore is under way.
LocalEdit ==
  /\ active \in Files /\ work = <<>> /\ ~local[active].dirty /\ ~local[active].deleted
  /\ Clicks
  /\ local' = [local EXCEPT ![active].dirty = TRUE]
  /\ UNCHANGED server /\ Screen

LocalPush(f) ==
  /\ local[f].dirty /\ local[f].rev = entry[f].rev
  /\ Commit({Upsert(f, entry[f].rev + 1)}, "auto")
  /\ local' = [local EXCEPT ![f] = [rev |-> entry[f].rev + 1, deleted |-> FALSE, dirty |-> FALSE]]
  /\ UNCHANGED spent /\ Screen

-----------------------------------------------------------------------------
(* The pane.  Calls are numbered; only the answer to the last one is shown. *)

Shown(p, status, f) ==
  [p EXCEPT !.loading = FALSE, !.status = status, !.file = f,
            !.dirty = FALSE, !.rows = <<>>, !.next = NoCursor]

\* What the controller says of a file before it asks the server.
StatusOf(f, store) ==
  CASE f = NoFile -> "no_active_file"
    [] f = Excluded -> "not_syncable"
    [] OTHER -> IF store[f].deleted THEN "not_synced" ELSE "ready"

\* loadPage: pane p asks for the page before a cursor, for the file now active.
LoadPage(p, before, f, store) ==
  LET asking == [p EXCEPT !.req = @ + 1, !.loading = TRUE]
  IN  IF StatusOf(f, store) = "ready"
      THEN /\ pane' = asking
           /\ loads' = Append(loads, [req |-> asking.req, file |-> f, before |-> before])
      ELSE pane' = Shown(asking, StatusOf(f, store), f) /\ UNCHANGED loads

Cleared == [pane EXCEPT !.rows = <<>>, !.next = NoCursor]

\* onOpen, and the button, which is disabled while a page loads.
PaneRefresh ==
  /\ "pane" \in spent.screens /\ ~pane.loading /\ Clicks
  /\ LoadPage(Cleared, NoCursor, active, local)
  /\ UNCHANGED <<server, local, active, known, dialog, work>>

\* The event file-open refreshes the pane for another file.
FileOpens(f) ==
  /\ "pane" \in spent.screens /\ f # active /\ pane.status # "none" /\ Clicks
  /\ active' = f
  /\ LoadPage(Cleared, NoCursor, f, local)
  /\ UNCHANGED <<server, local, known, dialog, work>>

LoadMore ==
  /\ pane.status = "ready" /\ ~pane.loading /\ pane.next # NoCursor /\ Clicks
  /\ LoadPage(pane, pane.next, active, local)
  /\ UNCHANGED <<server, local, active, known, dialog, work>>

\* Whether the view still waits for this call.
AnswersLast(req) == req = pane.req

\* The versions the controller can look up once a page has come.
Remembered(call, page) ==
  (IF call.before = NoCursor THEN {} ELSE known) \union ToSet(page.rows)

\* A page arrives; whether the file has queued changes is read now.
PageArrives ==
  /\ loads # <<>>
  /\ LET call == Head(loads)
         page == ListEntryVersions(call.file, call.before)
         more == call.before # NoCursor
     IN  /\ loads' = Tail(loads)
         /\ known' = Remembered(call, page)
         /\ pane' = IF ~AnswersLast(call.req) THEN pane
                    ELSE [pane EXCEPT !.loading = FALSE, !.status = "ready", !.file = call.file,
                            !.dirty = local[call.file].dirty, !.next = page.next,
                            !.rows = IF more THEN @ \o page.rows ELSE page.rows,
                            !.from = IF more THEN @ ELSE now]
  /\ UNCHANGED <<server, local, active, dialog, work, spent>>

PageFails ==
  /\ loads # <<>> /\ Unserved
  /\ loads' = Tail(loads)
  /\ pane' = IF AnswersLast(Head(loads).req) THEN Shown(pane, "not_connected", NoFile) ELSE pane
  /\ UNCHANGED <<server, local, active, known, dialog, work>>

\* A restore in localMutationQueue: of a version, or of deleted files.
NoVersion == [file |-> 0, rev |-> 0, op |-> "none", content |-> 0, reason |-> "none", at |-> 0]
Job == [kind |-> "version", stage |-> "queued", file |-> NoFile, version |-> NoVersion,
        files |-> <<>>, scanned |-> 0, failed |-> {}, asked |-> <<>>, results |-> <<>>,
        indexes |-> <<>>, done |-> {}]

\* A click on restore: the file is the one active now, the version is looked up
\* among those the controller knows, and the work waits for its turn.
PaneRestore(v) ==
  /\ pane.status = "ready" /\ ~pane.loading /\ ~pane.dirty
  /\ v \in ToSet(pane.rows) \intersect known /\ active \in Files /\ Clicks
  /\ pane' = [pane EXCEPT !.loading = TRUE]
  /\ work' = Append(work, [Job EXCEPT !.kind = "version", !.file = active, !.version = v])
  /\ UNCHANGED <<server, local, active, known, loads, dialog>>

-----------------------------------------------------------------------------
(* The work: restores wait for one another and for the recorder.           *)

Working(stage) == work # <<>> /\ Head(work).stage = stage
Worked(changes) == work' = <<changes>> \o Tail(work)

\* The end of a restore, which refreshes the pane or tells it to stop waiting.
WorkEnds(succeeded) ==
  /\ work' = Tail(work)
  /\ IF succeeded THEN LoadPage(Cleared, NoCursor, active, Pulled)
     ELSE pane' = [pane EXCEPT !.loading = FALSE] /\ UNCHANGED loads

\* restoreEntryVersionForPath: the metadata of a version of another file does not
\* decrypt, and the base is what this device knows of the file.
VersionWork ==
  /\ Working("queued") /\ Head(work).kind = "version"
  /\ LET job == Head(work)
         mine == local[job.file]
     IN  IF mine.deleted \/ mine.dirty \/ job.version.file # job.file
         THEN WorkEnds(FALSE)
         ELSE /\ Worked([job EXCEPT !.stage = "sent",
                !.asked = <<[file |-> job.file, version |-> job.version, base |-> mine.rev]>>])
              /\ UNCHANGED <<pane, loads>>
  /\ UNCHANGED <<server, local, active, known, dialog, spent>>

\* restoreDeletedEntries takes the files one by one, with a request for each; the
\* base is the revision the dialog has listed.
ScanFile ==
  /\ Working("queued") /\ Head(work).kind = "files"
  /\ LET job == Head(work)
         d == job.files[job.scanned + 1]
         next == [job EXCEPT !.scanned = @ + 1,
                    !.stage = IF job.scanned + 1 = Len(job.files) THEN "sent" ELSE "queued"]
     IN  Worked(IF local[d.file].dirty \/ RestorableVersions(d.file) = {}
                THEN [next EXCEPT !.failed = @ \union {d.file}]
                ELSE [next EXCEPT !.asked = Append(@,
                       [file |-> d.file, version |-> LatestRestorable(d.file), base |-> d.rev])])
  /\ UNCHANGED <<server, local, active, pane, known, loads, dialog, spent>>

-----------------------------------------------------------------------------
(* The coordinator restores: it looks at every version asked for, commits  *)
(* those that may be, and puts the outcomes where their requests were.     *)

MayRestore(p) == /\ p.version \in VersionsOf(p.file)
                 /\ entry[p.file].rev = p.base

\* The numbers of S as a sequence, least first: the rank of each is its place.
Ascending(S) ==
  LET Rank(i) == Cardinality({j \in S : j <= i})
  IN  [k \in {Rank(i) : i \in S} |-> CHOOSE i \in S : Rank(i) = k]

Checks ==
  /\ Working("sent") /\ Head(work).asked # <<>>
  /\ LET job == Head(work)
         may == [i \in DOMAIN job.asked |-> MayRestore(job.asked[i])]
     IN  Worked([job EXCEPT !.stage = "checked",
                  !.results = [i \in DOMAIN job.asked |-> IF may[i] THEN "pending" ELSE "rejected"],
                  !.indexes = Ascending({i \in DOMAIN may : may[i]})])
  /\ UNCHANGED <<server, local, active, pane, known, loads, dialog, spent>>

Put(job, outcomes) ==
  [i \in DOMAIN job.results |->
     IF \E k \in DOMAIN outcomes : job.indexes[k] = i
     THEN outcomes[CHOOSE k \in DOMAIN outcomes : job.indexes[k] = i] ELSE job.results[i]]

\* The commit looks at the bases again, since it has awaited the object store, and
\* may find blobs missing.
Commits(missing) ==
  /\ Working("checked")
  /\ IF missing = {} THEN UNCHANGED spent ELSE Faults
  /\ LET job == Head(work)
         asks(k) == job.asked[job.indexes[k]]
         accepted(k) == entry[asks(k).file].rev = asks(k).base /\ asks(k).file \notin missing
         taken == {k \in DOMAIN job.indexes : accepted(k)}
         outcomes == [k \in DOMAIN job.indexes |-> IF accepted(k) THEN "accepted" ELSE "rejected"]
     IN  /\ missing \subseteq {asks(k).file : k \in DOMAIN job.indexes}
         /\ IF taken = {} THEN UNCHANGED server
            ELSE Commit({[file |-> asks(k).file, op |-> asks(k).version.op,
                          content |-> asks(k).version.content] : k \in taken}, "before_restore")
         /\ Worked([job EXCEPT !.stage = "answered", !.results = Put(job, outcomes),
                               !.done = {asks(k).file : k \in taken}])
  /\ UNCHANGED <<local, active, pane, known, loads, dialog>>

Rejected(job) == {job.asked[i].file : i \in {j \in DOMAIN job.results : job.results[j] # "accepted"}}

\* The answer arrives; what was accepted is pulled before the restore ends.
VersionRestored ==
  /\ Working("answered") /\ Head(work).kind = "version"
  /\ LET succeeded == Rejected(Head(work)) = {}
     IN  /\ local' = IF succeeded THEN Pulled ELSE local
         /\ WorkEnds(succeeded)
  /\ UNCHANGED <<server, active, known, dialog, spent>>

-----------------------------------------------------------------------------
(* The dialog of deleted files: one thing at a time.                       *)

Idle == dialog.op = "idle"
Listing(d, before) == [d EXCEPT !.op = "listing", !.before = before, !.error = FALSE]
Relisting(d) == Listing([d EXCEPT !.rows = <<>>, !.next = NoCursor], NoCursor)
Beside == UNCHANGED <<active, pane, known, loads>>

DialogOpens ==
  /\ "dialog" \in spent.screens /\ dialog.op \in {"closed", "idle"} /\ Clicks
  /\ dialog' = Relisting(dialog)
  /\ UNCHANGED <<server, local, work>> /\ Beside

\* The next dialog starts with nothing selected.
DialogCloses ==
  /\ Idle /\ Clicks
  /\ dialog' = Closed
  /\ UNCHANGED <<server, local, work>> /\ Beside

DialogLoadsMore ==
  /\ Idle /\ dialog.next # NoCursor /\ Clicks
  /\ dialog' = Listing(dialog, dialog.next)
  /\ UNCHANGED <<server, local, work>> /\ Beside

FilesIn(rows) == {rows[i].file : i \in DOMAIN rows}

DialogLists ==
  /\ dialog.op = "listing"
  /\ LET page == ListDeletedEntries(dialog.before)
         more == dialog.before # NoCursor
         rows == IF more THEN dialog.rows \o page.rows ELSE page.rows
     IN  dialog' = [dialog EXCEPT !.op = "idle", !.rows = rows, !.next = page.next,
                      !.chosen = @ \intersect FilesIn(rows),
                      !.from = IF more THEN @ ELSE now]
  /\ UNCHANGED <<server, local, work, spent>> /\ Beside

DialogListFails ==
  /\ dialog.op = "listing" /\ Unserved
  /\ dialog' = [dialog EXCEPT !.op = "idle", !.error = TRUE,
                  !.chosen = IF dialog.before = NoCursor THEN {} ELSE @]
  /\ UNCHANGED <<server, local, work>> /\ Beside

\* A toggle selects a file, up to a number of them, or takes it off again.
Choose(f) ==
  /\ Idle /\ f \in FilesIn(dialog.rows) /\ Clicks
  /\ f \in dialog.chosen \/ Cardinality(dialog.chosen) < MaxChosen
  /\ dialog' = [dialog EXCEPT !.chosen = IF f \in @ THEN @ \ {f} ELSE @ \union {f}]
  /\ UNCHANGED <<server, local, work>> /\ Beside

\* All that are loaded are selected, as far down the list as the limit allows, or none.
ChooseAll ==
  /\ Idle /\ ~dialog.error /\ dialog.rows # <<>> /\ Clicks
  /\ LET rest == SelectSeq(dialog.rows, LAMBDA d : d.file \notin dialog.chosen)
         room == MaxChosen - Cardinality(dialog.chosen)
         taken == {i \in DOMAIN rest : i <= room}
     IN  dialog' = [dialog EXCEPT !.chosen = IF rest = <<>> THEN @ \ FilesIn(dialog.rows)
                                             ELSE @ \union {rest[i].file : i \in taken}]
  /\ UNCHANGED <<server, local, work>> /\ Beside

Chosen == SelectSeq(dialog.rows, LAMBDA d : d.file \in dialog.chosen)

RestoreSelected ==
  /\ Idle /\ Chosen # <<>> /\ Clicks
  /\ dialog' = [dialog EXCEPT !.op = "restoring"]
  /\ work' = Append(work, [Job EXCEPT !.kind = "files", !.files = Chosen])
  /\ UNCHANGED <<server, local>> /\ Beside

\* The restore of deleted files ends: what failed stays selected, and the user is
\* told how many were restored.
FilesRestored ==
  /\ work # <<>> /\ Head(work).kind = "files"
  /\ Working("answered") \/ (Working("sent") /\ Head(work).asked = <<>>)
  /\ LET job == Head(work)
         failed == job.failed \union Rejected(job)
         told == {d.file : d \in ToSet(job.files)} \ failed
     IN  /\ local' = IF \E i \in DOMAIN job.results : job.results[i] = "accepted"
                     THEN Pulled ELSE local
         /\ hist' = [hist EXCEPT !.true = @ /\ told = job.done]
         /\ dialog' = Relisting([dialog EXCEPT !.chosen = @ \ told])
  /\ work' = Tail(work)
  /\ UNCHANGED <<now, entry, versions, spent>> /\ Beside

\* A restore loses its session: before the coordinator has it, or its answer.
WorkFails ==
  /\ Working("sent") \/ Working("answered")
  /\ Head(work).asked # <<>> /\ Faults
  /\ IF Head(work).kind = "version"
     THEN WorkEnds(FALSE) /\ UNCHANGED dialog
     ELSE work' = Tail(work) /\ dialog' = Relisting(dialog) /\ UNCHANGED <<pane, loads>>
  /\ UNCHANGED <<server, local, active, known>>

PurgeSelected ==
  /\ Idle /\ Chosen # <<>> /\ Clicks
  /\ dialog' = [dialog EXCEPT !.op = "purging", !.sent = Chosen]
  /\ UNCHANGED <<server, local, work>> /\ Beside

\* Mutant: the revision is not looked at.
MayPurgeAny(d) == entry[d.file].deleted /\ RestorableVersions(d.file) # {}

MayPurge(d) == /\ entry[d.file].deleted /\ entry[d.file].rev = d.rev
               /\ RestorableVersions(d.file) # {}

\* The coordinator forgets all versions of the files that are as they were listed.
\* The answer may be lost.
Purges ==
  /\ dialog.op = "purging"
  /\ LET gone == {d.file : d \in {c \in ToSet(dialog.sent) : MayPurge(c)}}
     IN  /\ versions' = {v \in versions : v.file \notin gone}
         /\ hist' = [hist EXCEPT !.purged = @ \union
                       {<<d.file, d.rev>> : d \in {c \in ToSet(dialog.sent) : MayPurge(c)}}]
         /\ \/ dialog' = Relisting([dialog EXCEPT !.chosen = @ \ gone, !.sent = <<>>])
               /\ UNCHANGED spent
            \/ dialog' = Relisting([dialog EXCEPT !.sent = <<>>]) /\ Faults
  /\ UNCHANGED <<now, entry, local, work>> /\ Beside

PurgeFails ==
  /\ dialog.op = "purging" /\ Unserved
  /\ dialog' = Relisting([dialog EXCEPT !.sent = <<>>])
  /\ UNCHANGED <<server, local, work>> /\ Beside

\* One preview at a time; it changes nothing but the button of its row.
Preview(f) ==
  /\ f \in FilesIn(dialog.rows) /\ dialog.preview = NoFile /\ Idle /\ Clicks
  /\ dialog' = [dialog EXCEPT !.preview = f]
  /\ UNCHANGED <<server, local, work>> /\ Beside

PreviewEnds ==
  /\ dialog.preview # NoFile
  /\ dialog' = [dialog EXCEPT !.preview = NoFile]
  /\ UNCHANGED <<server, local, work, spent>> /\ Beside

-----------------------------------------------------------------------------
Next ==
  \/ \E f \in Files : OtherEdits(f) \/ OtherRestores(f) \/ LocalPush(f)
  \/ \E fs \in SUBSET Files : OtherDeletes(fs)
  \/ PullsAll \/ LocalEdit
  \/ \E f \in Files \union {NoFile, Excluded} : FileOpens(f)
  \/ \E v \in ToSet(pane.rows) : PaneRestore(v)
  \/ PaneRefresh \/ LoadMore \/ PageArrives \/ PageFails
  \/ VersionWork \/ ScanFile \/ Checks \/ VersionRestored \/ FilesRestored \/ WorkFails
  \/ \E missing \in SUBSET Files : Commits(missing)
  \/ DialogOpens \/ DialogCloses \/ DialogLoadsMore \/ DialogLists \/ DialogListFails
  \/ \E f \in Files : Choose(f) \/ Preview(f)
  \/ ChooseAll \/ RestoreSelected \/ PurgeSelected \/ Purges \/ PurgeFails \/ PreviewEnds

Spec == Init /\ [][Next]_vars

-----------------------------------------------------------------------------
TypeOK ==
  /\ now \in 1 .. MaxTime
  /\ \A f \in Files : /\ entry[f].rev \in 1 .. MaxTime /\ entry[f].at \in 1 .. now
                      /\ local[f].rev <= entry[f].rev
  /\ \A v \in versions \union known : v.file \in Files /\ v.at <= now /\ v.rev >= 1
  /\ active \in Files \union {NoFile, Excluded}
  /\ pane.status = "ready" => pane.file \in Files
  /\ \A i \in DOMAIN loads : loads[i].req <= pane.req
  /\ dialog.chosen \subseteq FilesIn(dialog.rows) \/ dialog.op # "idle" \/ dialog.error
  /\ dialog.op = "restoring" <=> \E i \in DOMAIN work : work[i].kind = "files"

\* Rows are listed in order, none twice.
InOrder(rows, Key(_)) ==
  \A i, j \in DOMAIN rows : i < j => Newer(Key(rows[i]), Key(rows[j]))

\* A pane that waits for no page shows the active file, with versions that can be
\* restored; and once it has no more pages, all that the server had when the first of
\* them was read, whatever has been captured, expired or purged since (loadPage,
\* listActiveFileVersions, listEntryVersions).
PaneIsTrue ==
  pane.status = "ready" /\ (\A i \in DOMAIN loads : ~AnswersLast(loads[i].req)) =>
    /\ pane.file = active
    /\ \A v \in ToSet(pane.rows) : v.file = active /\ v \in known
    /\ InOrder(pane.rows, LAMBDA v : <<v.at, v.rev>>)
    /\ pane.next = NoCursor =>
         {v \in VersionsOf(active) : v.at <= pane.from} \subseteq ToSet(pane.rows)

\* So does the dialog with deleted files, some of them deleted in one commit
\* (loadDeletedFilesPage, listDeletedEntries).
DialogIsTrue ==
  dialog.op = "idle" /\ ~dialog.error =>
    /\ dialog.chosen \subseteq FilesIn(dialog.rows)
    /\ InOrder(dialog.rows, LAMBDA d : <<d.at, d.file>>)
    /\ dialog.next = NoCursor =>
         {d \in DeletedFiles : d.at <= dialog.from} \subseteq ToSet(dialog.rows)

ListsAreTrue == PaneIsTrue /\ DialogIsTrue

\* The files the user is told are restored are those the coordinator has restored,
\* although some requests of a batch are refused before its commit and others in it
\* (restoreEntryVersions, restoreDeletedEntries).
AnswersAreTrue == hist.true

\* What the user sees is so: the lists, and what is said of a restore.
ScreensAreTrue == ListsAreTrue /\ AnswersAreTrue

\* A file whose deletion is within the retention can be restored as it was when it
\* was deleted, unless this very deletion has been purged: not an earlier one that
\* somebody had on the screen (purgeDeletedEntryVersions, findLatestRestorable).
DeletedIsRestorable ==
  \A f \in Files :
    entry[f].deleted /\ entry[f].at >= now - Retention /\ <<f, entry[f].rev>> \notin hist.purged =>
      /\ RestorableVersions(f) # {}
      /\ LatestRestorable(f).content = hist.lost[f]
=============================================================================
