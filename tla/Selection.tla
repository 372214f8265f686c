------------------------------ MODULE Selection ------------------------------
(***************************************************************************)
(* What a device synchronizes (apps/obsidian-plugin/src/sync: core/        *)
(* file-rules, vault-config-rules, reserved-paths, vault-path-policy), and *)
(* what becomes of a file when the user changes that: it is swept out of   *)
(* the store or fetched, by a scan that polls the files Obsidian reports   *)
(* no events of (runtime/engine, engine/local-reconcile-service).          *)
(*                                                                         *)
(* A behaviour is about one file.  A path is the sequence of its segments. *)
(* A content is the number of the write that made it.                      *)
(*                                                                         *)
(* Not covered: a file deleted and created again, renames, what is merged  *)
(* and copied in a conflict (Device and Paths have these).                 *)
(***************************************************************************)
EXTENDS Naturals, Sequences, SequencesExt

CONSTANTS
  SomePaths,    \* the paths looked at
  Dotted,       \* the segments that begin with a dot
  Copies,       \* the names of conflict copies
  KindOf,       \* of names: "md", "image", "json" or "other"
  Private,      \* the paths that are nobody else's, whatever the settings
  Settings,      \* what the user selects in the settings
  MaxActs, MaxPeers, MaxRules  \* bounds

VARIABLES
  path,     \* the path of the file
  file,     \* its content on this device
  server,   \* the entry: revision and content
  row,      \* the device's row of it: see NoRow
  pulled,   \* the revision the checkpoint is past
  rules,    \* the settings
  lane,     \* the local work to do, in order: runLocalMutationWork
  listing,  \* the scan that is running: what it has listed
  spent,    \* how much of each bound is used up
  hist      \* history, for the properties

vars == <<path, file, server, row, pulled, rules, lane, listing, spent, hist>>

None == 0  \* no file, or a deleted one

-----------------------------------------------------------------------------
(* Paths and rules. *)

ConfigDir == ".obsidian"
NeverSynced == {".git", ".trash", ".synch", "node_modules", "Icon\r"}

ClassifySyncPath(p) ==
  IF Range(p) \intersect NeverSynced # {} THEN "never" ELSE IF p[1] = ConfigDir THEN "config" ELSE "normal"

IsReservedSyncPath(p) == ClassifySyncPath(p) # "normal"
HasHiddenSegment(p) == Range(p) \intersect Dotted # {}
IsIncludedByFolder(p, folders) == \E f \in folders : IsPrefix(f, p)

ShouldSyncPath(p, r) ==
  /\ Last(p) \notin Copies
  /\ ~IsIncludedByFolder(p, r.excluded)
  /\ ~IsReservedSyncPath(p)
  /\ HasHiddenSegment(p) => IsIncludedByFolder(p, r.hidden)
  /\ KindOf[Last(p)] \in r.kinds \union {"md"}

PruneSubpaths(folders) == {f \in folders : \A g \in folders : ~IsStrictPrefix(g, f)}
NormalizeExcludedFolders(folders) ==
  PruneSubpaths({f \in folders : ~HasHiddenSegment(f) /\ ~IsReservedSyncPath(f)})
NormalizeIncludedHiddenFolders(folders) ==
  PruneSubpaths({f \in folders : HasHiddenSegment(f) /\ ~IsReservedSyncPath(f)})
NormalizeSyncFileRules(r) ==
  [r EXCEPT !.excluded = NormalizeExcludedFolders(@), !.hidden = NormalizeIncludedHiddenFolders(@)]

\* Of the path below the configuration folder.
IsDeniedConfigRelativePath(p) ==
  \/ p \in {<<"workspace.json">>, <<"workspace-mobile.json">>}
  \/ IsStrictPrefix(<<"plugins", "syncali">>, p)
  \/ Range(p) \intersect Copies # {}

IsPluginFile(p, names) == Len(p) = 3 /\ p[1] = "plugins" /\ p[3] \in names
NamedConfigFiles ==
  [mainSettings |-> {"app.json"}, appearance |-> {"appearance.json"}, hotkeys |-> {"hotkeys.json"},
   corePluginList |-> {"core-plugins.json", "core-plugins-migration.json"},
   communityPluginList |-> {"community-plugins.json"}]
IsRootConfigJson(p) ==
  Len(p) = 1 /\ KindOf[p[1]] = "json" /\ \A t \in DOMAIN NamedConfigFiles : p[1] \notin NamedConfigFiles[t]

ShouldSyncVaultConfigPath(p, r) ==
  LET relative == Tail(p)
  IN  /\ r.config # {}  \* enabled
      /\ p[1] = ConfigDir /\ relative # <<>> /\ ~IsDeniedConfigRelativePath(relative)
      /\ \/ \E t \in DOMAIN NamedConfigFiles \intersect r.config :
              Len(relative) = 1 /\ relative[1] \in NamedConfigFiles[t]
         \/ "themesAndSnippets" \in r.config /\ Len(relative) > 1 /\ relative[1] \in {"themes", "snippets"}
         \/ "corePluginData" \in r.config /\ IsRootConfigJson(relative)
         \/ "communityPluginFiles" \in r.config
            /\ IsPluginFile(relative, {"manifest.json", "main.js", "styles.css"})
         \/ "communityPluginData" \in r.config /\ IsPluginFile(relative, {"data.json"})

IsForbiddenVaultPath(p) ==
  \/ ClassifySyncPath(p) = "never"
  \/ p[1] = ConfigDir /\ IsDeniedConfigRelativePath(Tail(p))

DecideVaultPathSync(p, r) ==
  IF IsForbiddenVaultPath(p) THEN "forbidden"
  ELSE IF IF ClassifySyncPath(p) = "config" THEN ShouldSyncVaultConfigPath(p, r) ELSE ShouldSyncPath(p, r)
       THEN "sync" ELSE "ignore-local"

ShouldApplyRemoteVaultPath(p, r) ==
  /\ ~IsForbiddenVaultPath(p)
  /\ IF ClassifySyncPath(p) = "config" THEN ShouldSyncVaultConfigPath(p, r) ELSE ShouldSyncPath(p, r)

\* Obsidian's index has no hidden files.  Below a hidden folder that is included, a folder
\* is looked into if a note in it would be synchronized.
VisibleToObsidian(p) == ~HasHiddenSegment(p)
Probe == "__synch_probe__.md"
IsScannableFolder(p, r) == ShouldSyncPath(Append(p, Probe), r)
InHiddenFolders(p, r) ==
  \E f \in r.hidden : /\ IsStrictPrefix(f, p)
                      /\ \A k \in Len(f) + 1..Len(p) - 1 : IsScannableFolder(SubSeq(p, 1, k), r)
InConfigFolder(p, r) == r.config # {} /\ ShouldSyncVaultConfigPath(p, r)
ListsFile(p, r) ==
  \/ ShouldSyncPath(p, r) /\ (VisibleToObsidian(p) \/ InHiddenFolders(p, r))
  \/ InConfigFolder(p, r)

\* What the paths and settings are taken to be: a file is not one of the folders of the
\* settings, nor has it or a folder the name of the probe; below the configuration folder
\* nothing lies in a folder that is never synchronized; and what is private is so by its name.
Segments == {Probe} \union UNION {Range(p) : p \in SomePaths}
            \union UNION {Range(f) : f \in UNION {c.excluded \union c.hidden : c \in Settings}}
PlainPaths ==
  /\ \A p \in SomePaths : /\ p \in Seq(Segments) /\ p # <<>>
                          /\ p[1] = ConfigDir => Range(p) \intersect NeverSynced = {}
  /\ \A c \in Settings : /\ c.excluded \subseteq Seq(Segments) /\ c.hidden \subseteq Seq(Segments)
                         /\ c.hidden \intersect SomePaths = {}
                         /\ \A f \in c.excluded : f # <<>> /\ Last(f) # Probe
  /\ Probe \notin Copies /\ KindOf[Probe] = "md"
  /\ \A p \in Private : \/ Last(p) \in Copies \/ Range(p) \intersect NeverSynced # {}
                        \/ p[1] = ConfigDir /\ IsDeniedConfigRelativePath(Tail(p))

-----------------------------------------------------------------------------
(* The device's row. *)

NoEdit == [on |-> FALSE, bytes |-> None, base |-> 0]
NoRow ==
  [rev |-> 0, remote |-> None,      \* what is known of the server
   cached |-> FALSE,                \* whether that revision's blob is in the store
   known |-> FALSE, local |-> None, \* what is known of the file
   dirty |-> NoEdit]                \* the change that is queued

IsMerged == KindOf[Last(path)] = "md"
Agrees(r) == r.known /\ r.local = r.remote

\* A change to a note needs the blob of the revision it is based on.
CanQueue(r) == IsMerged /\ r.rev > 0 /\ r.remote # None => r.cached
Queued(r, bytes) ==
  [r EXCEPT !.known = TRUE, !.local = bytes, !.dirty = [on |-> TRUE, bytes |-> bytes, base |-> r.rev]]

\* The row once the server's entry s has been applied.
AppliedRow(s) ==
  [NoRow EXCEPT !.rev = s.rev, !.remote = s.bytes, !.cached = TRUE, !.known = TRUE, !.local = s.bytes]

Init ==
  /\ path \in SomePaths
  /\ file = None
  /\ server \in {[rev |-> 0, bytes |-> None], [rev |-> 1, bytes |-> 1]}
  /\ row = NoRow
  /\ pulled = 0
  /\ rules \in {NormalizeSyncFileRules(c) : c \in Settings}
  /\ lane = <<>>
  /\ listing = "none"
  /\ spent = [acts |-> 0, peers |-> 0, rules |-> 0]
  /\ hist = [seen |-> 0, wanted |-> TRUE, noted |-> FALSE, crossed |-> "no"]

NextBytes == 2 + spent.acts + spent.peers

-----------------------------------------------------------------------------
(* The user and the other devices. *)

Reports(job) == lane' = IF VisibleToObsidian(path) /\ ShouldSyncPath(path, rules)
                        THEN Append(lane, job) ELSE lane

UserWrites ==
  /\ spent.acts < MaxActs
  /\ file # None \/ (server.rev = 0 /\ row = NoRow)
  /\ spent' = [spent EXCEPT !.acts = @ + 1]
  /\ file' = NextBytes
  /\ Reports("upsert")
  /\ UNCHANGED <<path, server, row, pulled, rules, listing, hist>>

UserDeletes ==
  /\ spent.acts < MaxActs /\ file # None
  /\ spent' = [spent EXCEPT !.acts = @ + 1]
  /\ file' = None
  /\ hist' = [hist EXCEPT !.wanted = FALSE]
  /\ Reports("delete")
  /\ UNCHANGED <<path, server, row, pulled, rules, listing>>

PeerCommits ==
  /\ spent.peers < MaxPeers /\ server.bytes # None
  /\ spent' = [spent EXCEPT !.peers = @ + 1]
  /\ \E bytes \in {None, NextBytes} : server' = [rev |-> server.rev + 1, bytes |-> bytes]
  /\ UNCHANGED <<path, file, row, pulled, rules, lane, listing, hist>>

\* updateSyncFileRules, updateVaultConfigSyncRules: settings that normalize to what was
\* stored are no change; a change is followed by a sweep of the configuration and then by
\* a scan.
Stored(c) == LET normalized == NormalizeSyncFileRules(c)
             IN  normalized # rules /\ rules' = normalized
AfterChange == lane' = Append(lane, "reapply")

ChangeRules ==
  /\ spent.rules < MaxRules
  /\ \E c \in Settings : Stored(c)
  /\ spent' = [spent EXCEPT !.rules = @ + 1]
  /\ AfterChange
  /\ UNCHANGED <<path, file, server, row, pulled, listing, hist>>

-----------------------------------------------------------------------------
(* Local work. *)

Begins(job) == listing = "none" /\ lane # <<>> /\ Head(lane) = job

\* recordUpsert, recordDelete.  An event whose work fails is gone.
RecordUpsert ==
  /\ Begins("upsert")
  /\ lane' = Tail(lane)
  /\ row' = IF file = None \/ (row.known /\ row.local = file) \/ ~CanQueue(row)
            THEN row ELSE Queued(row, file)
  /\ UNCHANGED <<path, file, server, pulled, rules, listing, spent, hist>>

RecordDelete ==
  /\ Begins("delete")
  /\ lane' = Tail(lane)
  /\ row' = IF ~row.known \/ row.local = None THEN row
            ELSE IF row.rev = 0 THEN NoRow ELSE Queued(row, None)
  /\ UNCHANGED <<path, file, server, pulled, rules, listing, spent, hist>>

\* reapplyAllowedRemoteVaultConfigEntries, then the scan.  The blob of a revision that has
\* been replaced may be gone; then that is all.
HasToReapply ==
  /\ row.rev > 0 /\ ShouldSyncVaultConfigPath(path, rules)
  /\ ~row.dirty.on /\ ~Agrees(row)

Reapply ==
  /\ Begins("reapply")
  /\ IF HasToReapply
     THEN /\ file' = row.remote
          /\ row' = AppliedRow([rev |-> row.rev, bytes |-> row.remote])
          /\ hist' = [seen |-> row.rev, wanted |-> row.remote # None, noted |-> FALSE, crossed |-> "no"]
     ELSE UNCHANGED <<file, row, hist>>
  /\ lane' = Append(Tail(lane), "scan")
  /\ UNCHANGED <<path, server, pulled, rules, listing, spent>>

ReapplyFails ==
  /\ Begins("reapply") /\ HasToReapply
  /\ row.remote # None /\ row.rev # server.rev
  /\ lane' = Tail(lane)
  /\ UNCHANGED <<path, file, server, row, pulled, rules, listing, spent, hist>>

\* The timer runs while there is something Obsidian does not report.
IsPolled == rules.hidden # {} \/ rules.config # {}
Poll ==
  /\ IsPolled
  /\ \A k \in DOMAIN lane : lane[k] # "scan"
  /\ lane' = Append(lane, "scan")
  /\ UNCHANGED <<path, file, server, row, pulled, rules, listing, spent, hist>>

Listed == IF file = None THEN "missing" ELSE IF ListsFile(path, rules) THEN "listed" ELSE "excluded"

ListFiles ==
  /\ Begins("scan")
  /\ listing' = Listed
  /\ UNCHANGED <<path, file, server, row, pulled, rules, lane, spent, hist>>

\* reconcileWithMetadataCrypto, of what was listed and what the store says by now: a row
\* that is excluded is forgotten, a file that differs is queued, one that is not there is
\* deleted.
Excluded(r, p, rs) == r.known /\ r.local # None /\ DecideVaultPathSync(p, rs) # "sync"
ForgottenButKnown(r) == IF r.rev = 0 THEN NoRow ELSE [r EXCEPT !.dirty = NoEdit]
Forgotten(r) == IF r.rev = 0 THEN NoRow
                ELSE [r EXCEPT !.known = FALSE, !.local = None, !.dirty = NoEdit]
UpsertFound(r, bytes) ==
  IF (r.known /\ r.local = bytes /\ r.rev > 0) \/ ~CanQueue(r) THEN r ELSE Queued(r, bytes)
DeleteMissing(r) ==
  IF ~r.known \/ r.local = None THEN r ELSE IF r.rev = 0 THEN NoRow ELSE Queued(r, None)

Reconciled(r, listed, bytes, p, rs) ==
  IF Excluded(r, p, rs) THEN Forgotten(r)
  ELSE IF listed # "listed" THEN DeleteMissing(r)
  ELSE IF bytes = None THEN r ELSE UpsertFound(r, bytes)

\* A file that was pulled, or selected, after the listing is not in it.
Overtaken == listing # "listed" /\ Listed = "listed"

ReconcileOnce ==
  /\ listing # "none"
  /\ row' = Reconciled(row, listing, file, path, rules)
  /\ hist' = [hist EXCEPT !.crossed = IF row' = row THEN @ ELSE IF Overtaken THEN listing ELSE "no"]
  /\ listing' = "none"
  /\ lane' = Tail(lane)
  /\ UNCHANGED <<path, file, server, pulled, rules, spent>>

-----------------------------------------------------------------------------
(* Push and pull. *)

\* A file that is gone takes its change along; one that has changed is queued again.
Prepare(r, bytes) ==
  IF bytes = None THEN [r EXCEPT !.dirty = NoEdit]
  ELSE IF bytes # r.dirty.bytes THEN Queued(r, bytes) ELSE r

PushUpsertAgain ==
  /\ row.dirty.on /\ row.dirty.bytes # None /\ file # row.dirty.bytes
  /\ row' = Prepare(row, file)
  /\ UNCHANGED <<path, file, server, pulled, rules, lane, listing, spent, hist>>

Push ==
  /\ row.dirty.on /\ row.dirty.base = server.rev
  /\ row.dirty.bytes # None => file = row.dirty.bytes
  /\ server' = [rev |-> server.rev + 1, bytes |-> row.dirty.bytes]
  /\ row' = [AppliedRow(server') EXCEPT !.local = row.local]
  /\ hist' = [hist EXCEPT !.seen = server'.rev]
  /\ UNCHANGED <<path, file, pulled, rules, lane, listing, spent>>

\* The entry takes the server's state; what was queued is merged or copied.
TakeOver(s) ==
  /\ file' = s.bytes
  /\ row' = AppliedRow(s)
  /\ hist' = [seen |-> s.rev, noted |-> FALSE, crossed |-> "no",
              wanted |-> s.bytes # None /\ \A k \in DOMAIN lane : lane[k] # "delete"]

\* A stale change of a path that is not applied is set aside.
RecoverStale ==
  /\ row.dirty.on /\ row.dirty.base # server.rev
  /\ ShouldApplyRemoteVaultPath(path, rules)
  /\ TakeOver(server)
  /\ UNCHANGED <<path, server, pulled, rules, lane, listing, spent>>

\* applySkippedRemoteStates: noted, unless a change is waiting.
Skips(r, s) ==
  IF r.dirty.on \/ r.rev = s.rev THEN r
  ELSE [r EXCEPT !.rev = s.rev, !.remote = s.bytes, !.cached = FALSE]

Pull ==
  /\ pulled < server.rev
  /\ pulled' = server.rev
  /\ IF ~ShouldApplyRemoteVaultPath(path, rules)
     THEN /\ row' = Skips(row, server)
          /\ hist' = [hist EXCEPT !.noted = @ \/ (~row.dirty.on /\ row.rev # server.rev)]
          /\ UNCHANGED file
     ELSE IF ~row.dirty.on /\ Agrees(row) /\ row.rev = server.rev
     THEN UNCHANGED <<file, row, hist>>
     ELSE TakeOver(server)
  /\ UNCHANGED <<path, server, rules, lane, listing, spent>>

Next ==
  \/ UserWrites \/ UserDeletes \/ PeerCommits \/ ChangeRules
  \/ RecordUpsert \/ RecordDelete \/ Reapply \/ ReapplyFails \/ Poll \/ ListFiles \/ ReconcileOnce
  \/ PushUpsertAgain \/ Push \/ RecoverStale \/ Pull

Spec == Init /\ [][Next]_vars
-----------------------------------------------------------------------------
(* Properties. *)

TypeOK ==
  /\ path \in SomePaths /\ file \in Nat /\ pulled \in 0..server.rev
  /\ row.rev \in 0..server.rev /\ row.cached \in BOOLEAN /\ row.known \in BOOLEAN
  /\ listing \in {"none", "listed", "excluded", "missing"}
  /\ \A k \in DOMAIN lane : lane[k] \in {"upsert", "delete", "reapply", "scan"}

Scanned(r) == Reconciled(r, Listed, file, path, rules)

\* Only what a person has deleted is ever deleted for the others: not what the rules have
\* taken out of sight (filterKnownEntries).
DeletesOnlyWhatIsGone == row.dirty.on /\ row.dirty.bytes = None => ~hist.wanted
ExcludingRemovesNothing ==
  ClassifySyncPath(path) # "config" /\ hist.crossed # "missing" => DeletesOnlyWhatIsGone

\* A change is based on a revision the file on this device has had: the server never takes
\* it for a successor of another device's edit that is not in it.
BuildsOnWhatItHas ==
  row.dirty.on /\ row.dirty.bytes # None /\ row.remote # None => row.dirty.base = hist.seen
ReturningFileIsNewest == ClassifySyncPath(path) # "config" => BuildsOnWhatItHas

\* Whatever the rules say, what is private to this device is neither sent nor taken.
PrivateStaysOut == path \in Private => ~row.known /\ ~row.dirty.on

\* A second scan finds nothing to do.
ScansSettle == \A once \in {Scanned(row)} : once.rev > 0 => Scanned(once) = once

\* Nothing is left to do, and the device has what is selected: of the configuration
\* whatever the server has, of the other files what was not noted while it was excluded.
\* (A revision that came while a change was waiting is not fetched.)
Settled ==
  /\ lane = <<>> /\ listing = "none" /\ ~row.dirty.on /\ pulled = server.rev
  /\ Scanned(row) = row
Fetched == IF ClassifySyncPath(path) = "config" THEN row.rev = server.rev
           ELSE row.known /\ ~hist.noted
SelectedHasArrived ==
  Settled /\ DecideVaultPathSync(path, rules) = "sync" /\ Fetched => file = server.bytes

\* Left out: the deletion that a scan has queued whose listing was overtaken, as long as it
\* is queued (DeletesOnlyWhatIsGone), and changes of what was noted while it was excluded
\* (ReturningFileIsNewest).
SelectionIsKept ==
  /\ PrivateStaysOut /\ ScansSettle /\ SelectedHasArrived
  /\ hist.crossed = "no" => DeletesOnlyWhatIsGone
  /\ ~hist.noted => BuildsOnWhatItHas
=============================================================================
