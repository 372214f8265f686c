-------------------------- MODULE SelectionProofs --------------------------
(***************************************************************************)
(* What is proved of Selection for any paths and settings: while the rules *)
(* do not change and no pull comes in as a scan lists the files, a change  *)
(* of what is selected deletes nothing for others, keeps private what is   *)
(* private, hides no edit, leaves the scans nothing to do over and over,   *)
(* and leaves the device with the files that are selected.                 *)
(***************************************************************************)
EXTENDS Selection, TLAPS

-----------------------------------------------------------------------------
(* Paths and rules. *)

\* A sequence is a prefix of another if it has the same elements as far as it goes.
LEMMA PrefixIs ==
  ASSUME NEW s \in Seq(Segments), NEW t \in Seq(Segments)
  PROVE  IsPrefix(s, t) <=> Len(s) <= Len(t) /\ \A i \in 1..Len(s) : s[i] = t[i]
<1>1. ASSUME IsPrefix(s, t), NEW i \in 1..Len(s) PROVE s[i] = t[i]
  <2>1. SubSeq(s, 1, Len(s))[i] = s[i] /\ SubSeq(t, 1, Len(s))[i] = t[i]
    BY <1>1 DEF IsPrefix
  <2> QED BY <1>1, <2>1 DEF IsPrefix
<1>2. ASSUME Len(s) <= Len(t), \A i \in 1..Len(s) : s[i] = t[i] PROVE IsPrefix(s, t)
  <2>1. SubSeq(s, 1, Len(s)) = [i \in 1..Len(s) |-> s[i]]
    OBVIOUS
  <2>2. SubSeq(t, 1, Len(s)) = [i \in 1..Len(s) |-> t[i]]
    BY <1>2
  <2> QED BY <1>2, <2>1, <2>2 DEF IsPrefix
<1> QED BY <1>1, <1>2 DEF IsPrefix

\* What is selected is not forbidden: a path with a class of its own is selected by the
\* rules of that class.
LEMMA SelectedIs ==
  ASSUME PlainPaths, NEW p \in SomePaths, NEW r
  PROVE  /\ DecideVaultPathSync(p, r) = "sync" <=> ShouldApplyRemoteVaultPath(p, r)
         /\ DecideVaultPathSync(p, r) = "sync" <=> ShouldSyncPath(p, r) \/ ShouldSyncVaultConfigPath(p, r)
         /\ ShouldSyncPath(p, r) => ClassifySyncPath(p) = "normal"
         /\ ShouldSyncVaultConfigPath(p, r) => ClassifySyncPath(p) = "config"
<1>1. ShouldSyncPath(p, r) => ClassifySyncPath(p) = "normal" /\ p[1] # ConfigDir
  BY DEF ShouldSyncPath, IsReservedSyncPath, ClassifySyncPath
<1>2. ShouldSyncVaultConfigPath(p, r)
      => p[1] = ConfigDir /\ ~IsDeniedConfigRelativePath(Tail(p)) /\ ClassifySyncPath(p) = "config"
  BY DEF PlainPaths, ShouldSyncVaultConfigPath, ClassifySyncPath
<1>3. ShouldSyncPath(p, r) \/ ShouldSyncVaultConfigPath(p, r) => ~IsForbiddenVaultPath(p)
  BY <1>1, <1>2 DEF IsForbiddenVaultPath
<1>4. "sync" # "forbidden" /\ "sync" # "ignore-local" /\ "normal" # "config"
  OBVIOUS
<1> QED BY <1>1, <1>2, <1>3, <1>4 DEF DecideVaultPathSync, ShouldApplyRemoteVaultPath

\* Settings are stored without folders that say nothing.
LEMMA StoredSettings ==
  ASSUME PlainPaths, NEW c \in Settings, NEW r, r = NormalizeSyncFileRules(c)
  PROVE  /\ r.excluded \subseteq Seq(Segments) /\ r.hidden \subseteq Seq(Segments)
         /\ r.hidden \intersect SomePaths = {}
         /\ \A f \in r.excluded : f # <<>> /\ Last(f) # Probe
<1>1. r.excluded \subseteq c.excluded /\ r.hidden \subseteq c.hidden
  BY DEF PlainPaths, NormalizeSyncFileRules, NormalizeExcludedFolders, NormalizeIncludedHiddenFolders, PruneSubpaths
<1> QED BY <1>1 DEF PlainPaths, Probe

\* A scan looks into every folder on the way to a hidden file that is selected.
LEMMA FoldersAreScanned ==
  ASSUME PlainPaths, NEW c \in Settings, NEW r, r = NormalizeSyncFileRules(c),
         NEW p \in SomePaths, ShouldSyncPath(p, r), HasHiddenSegment(p)
  PROVE  InHiddenFolders(p, r)
<1>1. PICK f \in r.hidden : IsPrefix(f, p)
  BY DEF ShouldSyncPath, IsIncludedByFolder
<1>2. f \in Seq(Segments) /\ p \in Seq(Segments) /\ f # p
  BY <1>1, StoredSettings DEF PlainPaths
<1>3. ASSUME NEW k \in Len(f) + 1..Len(p) - 1 PROVE IsScannableFolder(SubSeq(p, 1, k), r)
  <2> DEFINE q == Append(SubSeq(p, 1, k), Probe)
  <2>1. /\ k \in 1..Len(p) - 1 /\ q \in Seq(Segments) /\ Len(q) = k + 1
        /\ \A i \in 1..k : q[i] = p[i]
        /\ q[k + 1] = Probe
    <3>1. k \in 1..Len(p) - 1
      BY <1>2, <1>3
    <3>2. /\ SubSeq(p, 1, k) \in Seq(Segments) /\ Len(SubSeq(p, 1, k)) = k
          /\ \A i \in 1..k : SubSeq(p, 1, k)[i] = p[i]
      BY <1>2, <3>1
    <3>3. Probe \in Segments
      BY DEF Probe, Segments
    <3> HIDE DEF Probe
    <3> QED BY <3>1, <3>2, <3>3
  <2> HIDE DEF q
  <2>2. Last(q) \notin Copies /\ KindOf[Last(q)] = "md"
    BY <2>1 DEF PlainPaths, Last, Probe
  <2>3. ASSUME NEW e \in r.excluded, IsPrefix(e, q) PROVE FALSE
    <3>1. e \in Seq(Segments) /\ e # <<>> /\ Last(e) # Probe
      BY StoredSettings
    <3>2. Len(e) <= k + 1 /\ \A i \in 1..Len(e) : e[i] = q[i]
      BY <2>1, <2>3, <3>1, PrefixIs
    <3>3. Len(e) # k + 1
      BY <2>1, <3>1, <3>2 DEF Last
    <3>4. IsPrefix(e, p)
      <4>1. Len(e) <= k /\ Len(e) <= Len(p)
        BY <1>2, <2>1, <3>1, <3>2, <3>3
      <4>2. \A i \in 1..Len(e) : e[i] = p[i]
        BY <2>1, <3>1, <3>2, <4>1
      <4> QED BY <1>2, <3>1, <4>1, <4>2, PrefixIs
    <3> QED BY <3>4 DEF ShouldSyncPath, IsIncludedByFolder
  <2>4. q[1] = p[1] /\ p[1] # ConfigDir /\ Range(p) \intersect NeverSynced = {}
    BY <2>1 DEF ShouldSyncPath, IsReservedSyncPath, ClassifySyncPath
  <2>5. Range(q) \subseteq Range(p) \union {Probe}
    BY <1>2, <2>1 DEF Range
  <2>6. ~IsReservedSyncPath(q)
    BY <2>4, <2>5 DEF IsReservedSyncPath, ClassifySyncPath, NeverSynced, Probe
  <2>7. IsPrefix(f, q)
    BY <1>1, <1>2, <1>3, <2>1, PrefixIs
  <2>8. ShouldSyncPath(q, r)
    BY <1>1, <2>2, <2>3, <2>6, <2>7 DEF ShouldSyncPath, IsIncludedByFolder
  <2> QED BY <2>8 DEF IsScannableFolder, q, Probe
<1> QED BY <1>1, <1>2, <1>3 DEF InHiddenFolders, IsStrictPrefix

\* A scan lists just the files that are selected.
LEMMA SelectedIsListed ==
  ASSUME PlainPaths, NEW c \in Settings, NEW r, r = NormalizeSyncFileRules(c), NEW p \in SomePaths
  PROVE  ListsFile(p, r) <=> DecideVaultPathSync(p, r) = "sync"
<1>1. ShouldSyncVaultConfigPath(p, r) <=> InConfigFolder(p, r)
  BY DEF InConfigFolder, ShouldSyncVaultConfigPath
<1>2. ShouldSyncPath(p, r) => VisibleToObsidian(p) \/ InHiddenFolders(p, r)
  BY FoldersAreScanned DEF VisibleToObsidian
<1> QED BY <1>1, <1>2, SelectedIs DEF ListsFile

\* What is private is not selected.
LEMMA PrivateIsNotSelected ==
  ASSUME PlainPaths, NEW p \in SomePaths, p \in Private, NEW r
  PROVE  DecideVaultPathSync(p, r) # "sync"
<1>1. p \in Seq(Segments) /\ p # <<>>
  BY DEF PlainPaths
<1>2. CASE Range(p) \intersect NeverSynced # {}
  BY <1>2, SelectedIs DEF ClassifySyncPath
<1>3. CASE p[1] = ConfigDir /\ IsDeniedConfigRelativePath(Tail(p))
  BY <1>3, SelectedIs DEF ShouldApplyRemoteVaultPath, IsForbiddenVaultPath
<1>4. CASE Last(p) \in Copies
  <2>1. ~ShouldSyncPath(p, r)
    BY <1>4 DEF ShouldSyncPath
  <2>2. ASSUME Tail(p) # <<>> PROVE Last(p) \in Range(Tail(p))
    <3>1. Len(p) > 1 /\ Len(Tail(p)) = Len(p) - 1 /\ Tail(p)[Len(p) - 1] = p[Len(p)]
      BY <1>1, <2>2
    <3>2. Len(p) - 1 \in DOMAIN Tail(p)
      BY <1>1, <3>1
    <3> QED BY <3>1, <3>2 DEF Range, Last
  <2>3. ~ShouldSyncVaultConfigPath(p, r)
    BY <1>4, <2>2 DEF ShouldSyncVaultConfigPath, IsDeniedConfigRelativePath
  <2> QED BY <2>1, <2>3, SelectedIs
<1> QED BY <1>2, <1>3, <1>4 DEF PlainPaths

-----------------------------------------------------------------------------
(* The invariant. *)

\* What the paths and rules are.
Given == PlainPaths

IsConfig == ClassifySyncPath(path) = "config"
IsSelected == DecideVaultPathSync(path, rules) = "sync"
Waits(job) == \E k \in DOMAIN lane : lane[k] = job

Jobs == {"upsert", "delete", "reapply", "scan"}
Rows == [rev : Nat, remote : Nat, cached : BOOLEAN, known : BOOLEAN, local : Nat,
         dirty : [on : BOOLEAN, bytes : Nat, base : Nat]]
Histories == [seen : Nat, wanted : BOOLEAN, noted : BOOLEAN, crossed : {"no", "excluded", "missing"}]
Types ==
  /\ path \in SomePaths
  /\ file \in Nat
  /\ server \in [rev : Nat, bytes : Nat]
  /\ row \in Rows
  /\ pulled \in Nat
  /\ rules \in {NormalizeSyncFileRules(c) : c \in Settings}
  /\ lane \in Seq(Jobs)
  /\ listing \in {"none", "listed", "excluded", "missing"}
  /\ spent \in [acts : Nat, peers : Nat, rules : Nat]
  /\ hist \in Histories

\* Events come of files that Obsidian has in its index, and a deletion of one that the
\* user has deleted.
Reported ==
  /\ Waits("upsert") \/ Waits("delete") => ~IsConfig /\ path \notin Private
  /\ Waits("delete") => ~hist.wanted

\* A scan is at the head of the lane, and lists nothing that is private.
Scans ==
  /\ listing # "none" => lane # <<>> /\ Head(lane) = "scan"
  /\ listing = "listed" => path \notin Private

\* What is known of the server was so at some time, and a change that is queued is one of the
\* file that is known, over the revision that is known.
Revisions ==
  /\ row.rev <= server.rev /\ pulled <= server.rev
  /\ row.rev = server.rev => row.remote = server.bytes
  /\ row.rev = 0 => row.remote = None
  /\ server.rev = 0 => server.bytes = None
  /\ row.dirty.on => row.known /\ row.local = row.dirty.bytes /\ row.dirty.base = row.rev

\* Every write makes a content of its own: a revision the device has not heard of, or has
\* noted and not fetched, is none of what it has.
Fresh ==
  /\ file < NextBytes /\ server.bytes < NextBytes
  /\ row.remote < NextBytes /\ row.local < NextBytes
  /\ row.rev # server.rev /\ server.bytes # None
     => server.bytes # file /\ server.bytes # row.local /\ server.bytes # row.remote
  /\ row.rev > 0 /\ ~row.cached /\ row.remote # None
     => row.remote # file /\ row.remote # row.local

\* A revision that was not noted while the path was excluded is one the file has had.
Noted == ~hist.noted /\ row.rev > 0 => row.cached /\ hist.seen = row.rev

\* What the store knows of the file, with nothing queued, is what it knows of the server,
\* unless that was noted while the path was excluded; of the configuration, unless it is
\* about to be applied again. A change that was dropped since its file is gone is put right
\* by the deletion.
Alive == row.known /\ ~row.dirty.on /\ (file # None \/ row.local = None)
Agreed ==
  /\ ~IsConfig /\ Alive => row.rev >= pulled /\ (row.local = row.remote \/ hist.noted)
  /\ IsConfig /\ IsSelected /\ row.rev = server.rev /\ row.rev > 0 /\ ~row.dirty.on /\ ~Agrees(row)
     => Waits("reapply") \/ (row.known /\ row.local # None /\ file = None)

\* A file that the store knows and that nobody deleted is there, and its deletion is not
\* queued but by a scan whose listing was overtaken.
Wanted ==
  /\ hist.wanted /\ row.known /\ row.local # None => file # None
  /\ hist.crossed = "no" => DeletesOnlyWhatIsGone

Inv == /\ Types /\ Reported /\ Scans /\ Revisions /\ Fresh /\ Noted /\ Agreed /\ Wanted
       /\ PrivateStaysOut

-----------------------------------------------------------------------------
(* The lane of local work. *)

\* Work is put at the end of the lane.
LEMMA LaneGrows ==
  ASSUME lane \in Seq(Jobs), NEW j \in Jobs, lane' = Append(lane, j)
  PROVE  /\ lane' \in Seq(Jobs) /\ \A k : Waits(k)' <=> Waits(k) \/ k = j
         /\ lane # <<>> => lane' # <<>> /\ Head(lane') = Head(lane)
<1>1. /\ lane' \in Seq(Jobs) /\ Len(lane') = Len(lane) + 1 /\ lane'[Len(lane) + 1] = j
      /\ \A i \in 1..Len(lane) : lane'[i] = lane[i]
  OBVIOUS
<1>2. DOMAIN lane = 1..Len(lane) /\ DOMAIN lane' = 1..Len(lane) + 1 /\ Len(lane) \in Nat
  BY <1>1
<1>3. \A k : Waits(k)' <=> Waits(k) \/ k = j
  BY <1>1, <1>2 DEF Waits
<1> QED BY <1>1, <1>3

\* Work is taken from the head of the lane.
LEMMA LaneShrinks ==
  ASSUME lane \in Seq(Jobs), lane # <<>>, lane' = Tail(lane)
  PROVE  /\ lane' \in Seq(Jobs) /\ Waits(Head(lane))
         /\ \A k : Waits(k)' => Waits(k)
         /\ \A k : Waits(k) /\ k # Head(lane) => Waits(k)'
<1>1. /\ lane' \in Seq(Jobs) /\ Len(lane') = Len(lane) - 1 /\ Len(lane) \in Nat \ {0}
      /\ \A i \in 1..Len(lane) - 1 : lane'[i] = lane[i + 1]
      /\ Head(lane) = lane[1]
  OBVIOUS
<1>2. DOMAIN lane = 1..Len(lane) /\ DOMAIN lane' = 1..Len(lane) - 1
  BY <1>1
<1>3. ASSUME NEW k, NEW i \in DOMAIN lane, lane[i] = k, k # Head(lane) PROVE Waits(k)'
  <2>1. i - 1 \in DOMAIN lane' /\ lane'[i - 1] = k
    BY <1>1, <1>2, <1>3
  <2> QED BY <2>1 DEF Waits
<1>4. ASSUME NEW k, NEW i \in DOMAIN lane', lane'[i] = k PROVE Waits(k)
  <2>1. i + 1 \in DOMAIN lane /\ lane[i + 1] = k
    BY <1>1, <1>2, <1>4
  <2> QED BY <2>1 DEF Waits
<1>5. Waits(Head(lane))
  BY <1>1, <1>2 DEF Waits
<1>6. \A k : Waits(k)' => Waits(k)
  BY <1>4 DEF Waits
<1>7. \A k : Waits(k) /\ k # Head(lane) => Waits(k)'
  BY <1>3 DEF Waits
<1> QED BY <1>1, <1>5, <1>6, <1>7

\* A lane that stays has the same work.
LEMMA LaneStays ==
  ASSUME lane' = lane
  PROVE  \A k : Waits(k)' <=> Waits(k)
BY DEF Waits

-----------------------------------------------------------------------------
(* What the rules say of the path. *)

\* The rules agree with each other about the path: what is listed, taken from the server
\* and kept in the store is what is selected.
LEMMA RulesSay ==
  ASSUME PlainPaths, Types
  PROVE  /\ ListsFile(path, rules) <=> IsSelected
         /\ ShouldApplyRemoteVaultPath(path, rules) <=> IsSelected
         /\ ShouldSyncPath(path, rules) => IsSelected /\ ~IsConfig
         /\ ShouldSyncVaultConfigPath(path, rules) <=> IsConfig /\ IsSelected
         /\ path \in Private => ~IsSelected
         /\ Excluded(row, path, rules) <=> row.known /\ row.local # None /\ ~IsSelected
<1>1. path \in SomePaths /\ \E c \in Settings : rules = NormalizeSyncFileRules(c)
  BY DEF Types
<1>2. "normal" # "config"
  OBVIOUS
<1> QED BY <1>1, <1>2, SelectedIs, SelectedIsListed, PrivateIsNotSelected DEF IsConfig, IsSelected, Excluded

\* Every write has a content that none had before.
LEMMA BytesGrow ==
  ASSUME Types, \/ spent' = [spent EXCEPT !.acts = @ + 1] \/ spent' = [spent EXCEPT !.peers = @ + 1]
  PROVE  /\ spent' \in [acts : Nat, peers : Nat, rules : Nat]
         /\ NextBytes' = NextBytes + 1 /\ NextBytes \in Nat /\ NextBytes > 1
<1>1. spent.acts \in Nat /\ spent.peers \in Nat /\ spent' \in [acts : Nat, peers : Nat, rules : Nat]
  BY DEF Types
<1>2. \/ spent'.acts = spent.acts + 1 /\ spent'.peers = spent.peers
      \/ spent'.acts = spent.acts /\ spent'.peers = spent.peers + 1
  BY DEF Types
<1>3. spent'.acts \in Nat /\ spent'.peers \in Nat
  BY <1>1
<1>4. NextBytes = 2 + spent.acts + spent.peers /\ NextBytes' = 2 + spent'.acts + spent'.peers
  BY DEF NextBytes
<1> QED BY <1>1, <1>2, <1>3, <1>4

\* At first nothing is known, and that is sound.
LEMMA InitInv == Given /\ Init => Inv
<1> SUFFICES ASSUME Given, Init PROVE Inv
  OBVIOUS
<1> USE DEF Given, Init, NoRow, NoEdit, None, Histories
<1>1. Types
  BY DEF Types, Rows, Jobs
<1>2. Reported /\ Scans
  BY DEF Reported, Scans, Waits
<1>3. Revisions /\ Fresh /\ Noted
  BY DEF Revisions, Fresh, Noted, NextBytes
<1>4. Agreed /\ Wanted /\ PrivateStaysOut
  BY DEF Agreed, Alive, Wanted, DeletesOnlyWhatIsGone, PrivateStaysOut
<1> QED BY <1>1, <1>2, <1>3, <1>4 DEF Inv

\* A write is newer than all there is, and reported only if it is selected.
LEMMA StepUserWrites == ASSUME Given, Inv, UserWrites PROVE Inv'
<1> USE DEF Inv, UserWrites, None
<1>1. \/ lane' = lane
      \/ lane' = Append(lane, "upsert") /\ ShouldSyncPath(path, rules)
  BY DEF Reports
<1>2. file' \in Nat /\ file' # None /\ spent' \in [acts : Nat, peers : Nat, rules : Nat]
      /\ NextBytes' = NextBytes + 1 /\ NextBytes \in Nat
  <2>1. spent' = [spent EXCEPT !.acts = @ + 1] /\ file' = NextBytes
    OBVIOUS
  <2> QED BY ONLY Types, <2>1, BytesGrow
<1>3. /\ lane' \in Seq(Jobs) /\ \A k : k # "upsert" => (Waits(k)' <=> Waits(k))
      /\ Waits("upsert")' => Waits("upsert") \/ ShouldSyncPath(path, rules)
      /\ lane # <<>> => lane' # <<>> /\ Head(lane') = Head(lane)
  BY <1>1, LaneGrows, LaneStays DEF Types, Jobs
<1>4. Types'
  BY <1>2, <1>3 DEF Types
<1>5. Reported'
  BY <1>3, RulesSay DEF Reported, IsConfig, Given
<1>6. Scans'
  BY <1>2, <1>3 DEF Scans, NoRow
<1>7. Revisions'
  BY DEF Revisions
<1>8. Fresh'
  <2>1. file' = NextBytes /\ row' = row /\ server' = server
    OBVIOUS
  <2>2. row.remote \in Nat /\ row.local \in Nat /\ server.bytes \in Nat /\ file \in Nat
    BY DEF Types, Rows
  <2> QED BY <1>2, <2>1, <2>2 DEF Fresh
<1>9. Noted' /\ Wanted' /\ PrivateStaysOut'
  BY <1>2 DEF Noted, Wanted, DeletesOnlyWhatIsGone, PrivateStaysOut
<1>10. Agreed'
  BY <1>2, <1>3 DEF Agreed, Alive, NoRow, IsConfig, IsSelected, Agrees
<1> QED BY <1>4, <1>5, <1>6, <1>7, <1>8, <1>9, <1>10

\* From a deletion on the file is not wanted.
LEMMA StepUserDeletes == ASSUME Given, Inv, UserDeletes PROVE Inv'
<1> USE DEF Inv, UserDeletes, None
<1>1. \/ lane' = lane
      \/ lane' = Append(lane, "delete") /\ ShouldSyncPath(path, rules)
  BY DEF Reports
<1>2. /\ spent' \in [acts : Nat, peers : Nat, rules : Nat]
      /\ NextBytes' = NextBytes + 1 /\ NextBytes \in Nat
  <2>1. spent' = [spent EXCEPT !.acts = @ + 1]
    OBVIOUS
  <2> QED BY ONLY Types, <2>1, BytesGrow
<1>3. /\ lane' \in Seq(Jobs) /\ \A k : k # "delete" => (Waits(k)' <=> Waits(k))
      /\ Waits("delete")' => Waits("delete") \/ ShouldSyncPath(path, rules)
      /\ lane # <<>> => lane' # <<>> /\ Head(lane') = Head(lane)
  BY <1>1, LaneGrows, LaneStays DEF Types, Jobs
<1>4. hist' \in Histories
      /\ hist'.seen = hist.seen /\ hist'.noted = hist.noted /\ hist'.wanted = FALSE
      /\ hist'.crossed = hist.crossed
  BY DEF Types, Histories
<1>5. Types'
  BY <1>2, <1>3, <1>4 DEF Types
<1>6. Reported'
  BY <1>3, <1>4, RulesSay DEF Reported, IsConfig, Given
<1>7. Scans'
  BY <1>3 DEF Scans
<1>8. Revisions'
  BY DEF Revisions
<1>9. Fresh'
  <2>1. file' = 0 /\ row' = row /\ server' = server
    OBVIOUS
  <2>2. row.remote \in Nat /\ row.local \in Nat /\ server.bytes \in Nat
    BY DEF Types, Rows
  <2> QED BY <1>2, <2>1, <2>2 DEF Fresh
<1>10. Noted' /\ Wanted' /\ PrivateStaysOut'
  BY <1>4 DEF Noted, Wanted, DeletesOnlyWhatIsGone, PrivateStaysOut
<1>11. Agreed'
  BY <1>3, <1>4 DEF Agreed, Alive, IsConfig, IsSelected, Agrees
<1> QED BY <1>5, <1>6, <1>7, <1>8, <1>9, <1>10, <1>11

\* A commit of others leaves the device behind.
LEMMA StepPeerCommits == ASSUME Given, Inv, PeerCommits PROVE Inv'
<1> USE DEF Inv, PeerCommits, None
<1>1. /\ spent' \in [acts : Nat, peers : Nat, rules : Nat]
      /\ NextBytes' = NextBytes + 1 /\ NextBytes \in Nat
  <2>1. spent' = [spent EXCEPT !.peers = @ + 1]
    OBVIOUS
  <2> QED BY ONLY Types, <2>1, BytesGrow
<1>2. PICK bytes \in {None, NextBytes} : server' = [rev |-> server.rev + 1, bytes |-> bytes]
  OBVIOUS
<1>3. server.rev \in Nat /\ row.rev \in Nat /\ pulled \in Nat /\ row.remote \in Nat /\ row.local \in Nat
  BY DEF Types, Rows
<1>4. server'.rev = server.rev + 1 /\ server'.bytes = bytes /\ row.rev < server'.rev
  BY <1>2, <1>3 DEF Revisions
<1>5. Types'
  <2>1. server' \in [rev : Nat, bytes : Nat]
    BY <1>1, <1>2, <1>3
  <2> QED BY <1>1, <2>1 DEF Types
<1>6. Reported' /\ Scans'
  BY DEF Reported, Scans, IsConfig, Waits
<1>7. Revisions'
  BY <1>3, <1>4 DEF Revisions
<1>8. Fresh'
  <2>1. file' = file /\ row' = row /\ file \in Nat /\ server.bytes \in Nat
    BY DEF Types
  <2>2. bytes < NextBytes' /\ (bytes # None => bytes = NextBytes)
    BY <1>1, <1>2
  <2>3. /\ file < NextBytes /\ row.remote < NextBytes /\ row.local < NextBytes
        /\ row.rev > 0 /\ ~row.cached /\ row.remote # None
           => row.remote # file /\ row.remote # row.local
    BY DEF Fresh
  <2> QED BY ONLY <1>1, <1>3, <1>4, <2>1, <2>2, <2>3 DEF Fresh, None
<1>9. Noted' /\ Wanted' /\ PrivateStaysOut'
  BY DEF Noted, Wanted, DeletesOnlyWhatIsGone, PrivateStaysOut
<1>10. Agreed'
  BY <1>3, <1>4 DEF Agreed, Alive, IsConfig, IsSelected, Agrees
<1> QED BY <1>5, <1>6, <1>7, <1>8, <1>9, <1>10

\* A change of the rules applies the configuration again.
LEMMA StepChangeRules == ASSUME Given, Inv, ChangeRules PROVE Inv'
<1> USE DEF Inv, ChangeRules, None
<1>2. /\ lane' \in Seq(Jobs) /\ Waits("reapply")'
      /\ \A k : k # "reapply" => (Waits(k)' <=> Waits(k))
      /\ lane # <<>> => lane' # <<>> /\ Head(lane') = Head(lane)
  BY LaneGrows DEF Types, Jobs, AfterChange
<1>3. spent' \in [acts : Nat, peers : Nat, rules : Nat] /\ NextBytes' = NextBytes
  BY DEF Types, NextBytes
<1>4. rules' \in {NormalizeSyncFileRules(c) : c \in Settings}
  BY DEF Stored
<1>5. Types'
  BY <1>2, <1>3, <1>4 DEF Types
<1>6. Reported' /\ Scans'
  BY <1>2 DEF Reported, Scans, IsConfig
<1>7. Revisions'
  BY DEF Revisions
<1>8. Fresh'
  BY <1>3 DEF Fresh
<1>9. Noted' /\ Wanted' /\ PrivateStaysOut'
  BY DEF Noted, Wanted, DeletesOnlyWhatIsGone, PrivateStaysOut
<1>10. Agreed'
  BY <1>2 DEF Agreed, Alive, IsConfig
<1> QED BY <1>5, <1>6, <1>7, <1>8, <1>9, <1>10

-----------------------------------------------------------------------------
(* What becomes of the row. *)

\* All but the row, the lane and the scan stays, except for what is noted of an overtaken scan.
Still ==
  /\ UNCHANGED <<path, file, server, pulled, rules, spent>>
  /\ hist' \in Histories
  /\ hist'.seen = hist.seen /\ hist'.wanted = hist.wanted /\ hist'.noted = hist.noted
RowIsSound == Revisions /\ Fresh /\ Noted /\ Wanted /\ PrivateStaysOut

\* The numbers of the row, of the server and of the next edit.
LEMMA NumbersAre ==
  ASSUME Inv
  PROVE  /\ row \in Rows /\ row.rev \in Nat /\ row.remote \in Nat /\ row.cached \in BOOLEAN
         /\ server.rev \in Nat /\ server.bytes \in Nat /\ file \in Nat
         /\ NextBytes \in Nat /\ NextBytes > 1
<1>1. /\ row \in Rows /\ server \in [rev : Nat, bytes : Nat] /\ file \in Nat
      /\ spent \in [acts : Nat, peers : Nat, rules : Nat]
  BY DEF Inv, Types
<1>2. row.rev \in Nat /\ row.remote \in Nat /\ row.cached \in BOOLEAN
  BY <1>1 DEF Rows
<1>3. NextBytes \in Nat /\ NextBytes > 1
  BY <1>1 DEF NextBytes
<1> QED BY <1>1, <1>2, <1>3

\* The row of a change that is queued.
LEMMA QueuedIs ==
  ASSUME NEW r \in Rows, NEW b \in Nat, NEW q, q = Queued(r, b)
  PROVE  /\ q \in Rows /\ q.rev = r.rev /\ q.remote = r.remote /\ q.cached = r.cached
         /\ q.known /\ q.local = b
         /\ q.dirty.on /\ q.dirty.bytes = b /\ q.dirty.base = r.rev
BY DEF Rows, Queued

\* The row of a file nothing is known of.
LEMMA NoRowIs ==
  ASSUME NEW q, q = NoRow
  PROVE  /\ q \in Rows /\ q.rev = 0 /\ q.remote = None /\ ~q.cached /\ ~q.known /\ q.local = None
         /\ ~q.dirty.on
BY DEF Rows, NoRow, NoEdit, None

\* The row once a state of the server is applied.
LEMMA AppliedIs ==
  ASSUME NEW s \in [rev : Nat, bytes : Nat], NEW q, q = AppliedRow(s)
  PROVE  /\ q \in Rows /\ q.rev = s.rev /\ q.remote = s.bytes /\ q.cached
         /\ q.known /\ q.local = s.bytes /\ ~q.dirty.on
BY DEF Rows, NoRow, NoEdit, None, AppliedRow

\* A change is queued: of a file as it is, or of one that the user has deleted.
LEMMA RowQueued ==
  ASSUME Given, Inv, Still, NEW b \in Nat, row' = Queued(row, b), path \notin Private,
         b = None => ~hist.wanted \/ hist'.crossed # "no", b # None => b = file
  PROVE  row' \in Rows /\ RowIsSound' /\ Agreed'
<1>1. /\ row \in Rows /\ row.rev \in Nat /\ row.remote \in Nat /\ server.rev \in Nat
      /\ server.bytes \in Nat /\ file \in Nat /\ NextBytes' = NextBytes /\ NextBytes \in Nat
      /\ row.cached \in BOOLEAN
  BY NumbersAre DEF Still, NextBytes
<1>2. /\ row' \in Rows /\ row'.rev = row.rev /\ row'.remote = row.remote /\ row'.cached = row.cached
      /\ row'.known /\ row'.local = b
      /\ row'.dirty.on /\ row'.dirty.bytes = b /\ row'.dirty.base = row.rev
  <2>1. row \in Rows /\ row' = Queued(row, b)
    BY <1>1
  <2> QED BY ONLY <2>1, b \in Nat, QueuedIs
<1>3. Revisions'
  BY <1>2 DEF Inv, Revisions, Still
<1>4. Fresh'
  BY <1>1, <1>2 DEF Inv, Fresh, Still, None
<1>5. Noted' /\ PrivateStaysOut'
  BY <1>2 DEF Inv, Noted, PrivateStaysOut, Still
<1>6. Wanted'
  BY <1>2 DEF Inv, Wanted, DeletesOnlyWhatIsGone, Still
<1>7. Agreed'
  BY <1>2 DEF Agreed, Alive
<1> QED BY <1>2, <1>3, <1>4, <1>5, <1>6, <1>7 DEF RowIsSound

\* The row of a file the server has never had is removed.
LEMMA RowDropped ==
  ASSUME Inv, Still, row.rev = 0, row' = NoRow
  PROVE  row' \in Rows /\ RowIsSound' /\ Agreed'
<1>1. /\ row \in Rows /\ server.rev \in Nat
      /\ server.bytes \in Nat /\ file \in Nat /\ NextBytes' = NextBytes /\ NextBytes \in Nat
      /\ NextBytes > 1
  BY NumbersAre DEF Still, NextBytes
<1>2. /\ row' \in Rows /\ row'.rev = 0 /\ row'.remote = None /\ ~row'.cached /\ ~row'.known
      /\ row'.local = None /\ ~row'.dirty.on
  BY ONLY row' = NoRow, NoRowIs
<1>3. Revisions'
  BY <1>1, <1>2 DEF Inv, Revisions, Still
<1>4. Fresh'
  BY <1>1, <1>2 DEF Inv, Fresh, Still, None
<1>5. Noted' /\ PrivateStaysOut'
  BY <1>1, <1>2 DEF Inv, Noted, PrivateStaysOut, Still
<1>6. Wanted'
  BY <1>2 DEF Inv, Wanted, DeletesOnlyWhatIsGone, Still
<1>7. Agreed'
  BY <1>2 DEF Agreed, Alive
<1> QED BY <1>2, <1>3, <1>4, <1>5, <1>6, <1>7 DEF RowIsSound

\* History stays as it is.
LEMMA HistoryStays ==
  ASSUME Inv, UNCHANGED <<path, file, server, pulled, rules, spent, hist>>
  PROVE  Still /\ hist'.crossed = hist.crossed
BY DEF Inv, Types, Still

\* The row stays as it is.
LEMMA RowStays ==
  ASSUME Inv, Still, row' = row, hist'.crossed = hist.crossed
  PROVE  /\ row' \in Rows /\ RowIsSound'
         /\ (Waits("reapply") => Waits("reapply")') => Agreed'
<1>1. NextBytes' = NextBytes
  BY DEF Still, NextBytes
<1>2. Revisions' /\ Fresh' /\ Noted' /\ PrivateStaysOut' /\ Wanted' /\ row' \in Rows
  BY <1>1 DEF Inv, Revisions, Fresh, Noted, PrivateStaysOut, Wanted, DeletesOnlyWhatIsGone, Still, Types
<1>3. ASSUME Waits("reapply") => Waits("reapply")' PROVE Agreed'
  BY <1>3 DEF Inv, Agreed, Alive, IsConfig, IsSelected, Agrees, Still
<1> QED BY <1>2, <1>3 DEF RowIsSound

-----------------------------------------------------------------------------
(* Local work keeps the invariant. *)

\* Work is taken from the lane.
LEMMA WorkTaken ==
  ASSUME Inv, NEW job \in Jobs, Begins(job), lane' = Tail(lane), UNCHANGED <<path, listing>>,
         hist'.wanted => hist.wanted
  PROVE  /\ lane' \in Seq(Jobs) /\ Waits(job) /\ Reported' /\ Scans'
         /\ Waits("reapply") /\ job # "reapply" => Waits("reapply")'
<1>1. /\ lane' \in Seq(Jobs) /\ Waits(job) /\ \A k : Waits(k)' => Waits(k)
      /\ \A k : Waits(k) /\ k # job => Waits(k)'
  BY LaneShrinks DEF Inv, Types, Begins
<1>2. Reported'
  BY <1>1 DEF Inv, Reported, IsConfig
<1>3. Scans'
  BY DEF Scans, Begins
<1> QED BY <1>1, <1>2, <1>3

\* What is recorded of a file that was reported is what is there.
LEMMA StepRecordUpsert == ASSUME Given, Inv, RecordUpsert PROVE Inv'
<1>1. /\ lane' \in Seq(Jobs) /\ Reported' /\ Scans' /\ path \notin Private
      /\ Waits("reapply") => Waits("reapply")'
  BY WorkTaken DEF RecordUpsert, Jobs, Inv, Reported
<1>2. Still /\ hist'.crossed = hist.crossed /\ file \in Nat
  BY HistoryStays DEF RecordUpsert, Inv, Types
<1>3. row' \in Rows /\ RowIsSound' /\ Agreed'
  <2>1. CASE row' = row
    BY <1>1, <1>2, <2>1, RowStays
  <2>2. CASE row' = Queued(row, file) /\ file # None
    BY <1>1, <1>2, <2>2, RowQueued
  <2> QED BY <2>1, <2>2 DEF RecordUpsert
<1>4. Types'
  BY <1>1, <1>2, <1>3 DEF RecordUpsert, Inv, Types
<1> QED BY <1>1, <1>3, <1>4 DEF Inv, RowIsSound

\* What is deleted for the others a user has deleted.
LEMMA StepRecordDelete == ASSUME Given, Inv, RecordDelete PROVE Inv'
<1>1. /\ lane' \in Seq(Jobs) /\ Reported' /\ Scans' /\ path \notin Private /\ ~hist.wanted
      /\ Waits("reapply") => Waits("reapply")'
  BY WorkTaken DEF RecordDelete, Jobs, Inv, Reported
<1>2. Still /\ hist'.crossed = hist.crossed /\ None \in Nat
  BY HistoryStays DEF RecordDelete, None
<1>3. row' \in Rows /\ RowIsSound' /\ Agreed'
  <2>1. CASE row' = row
    BY <1>1, <1>2, <2>1, RowStays
  <2>2. CASE row' = Queued(row, None)
    BY <1>1, <1>2, <2>2, RowQueued
  <2>3. CASE row' = NoRow /\ row.rev = 0
    BY <1>2, <2>3, RowDropped
  <2> QED BY <2>1, <2>2, <2>3 DEF RecordDelete
<1>4. Types'
  BY <1>1, <1>2, <1>3 DEF RecordDelete, Inv, Types
<1> QED BY <1>1, <1>3, <1>4 DEF Inv, RowIsSound

\* What is applied again of the configuration is what is known of the server.
LEMMA StepReapply == ASSUME Given, Inv, Reapply PROVE Inv'
<1>1. /\ lane' \in Seq(Jobs) /\ listing = "none" /\ \A k : Waits(k)' => Waits(k) \/ k = "scan"
      /\ \A k : Waits(k) /\ k # "reapply" => Waits(k)'
  <2>1. lane \in Seq(Jobs) /\ lane # <<>> /\ Head(lane) = "reapply" /\ lane' = Append(Tail(lane), "scan")
        /\ listing = "none"
    BY DEF Reapply, Begins, Inv, Types
  <2> DEFINE rest == Tail(lane)
             In(k, s) == \E i \in DOMAIN s : s[i] = k
  <2>2. rest \in Seq(Jobs) /\ (\A k : In(k, rest) => Waits(k)) /\ \A k : Waits(k) /\ k # "reapply" => In(k, rest)
    <3>1. /\ rest \in Seq(Jobs) /\ Len(rest) = Len(lane) - 1 /\ Len(lane) \in Nat \ {0}
          /\ \A i \in 1..Len(lane) - 1 : rest[i] = lane[i + 1]
          /\ Head(lane) = lane[1]
      BY <2>1
    <3>2. DOMAIN lane = 1..Len(lane) /\ DOMAIN rest = 1..Len(lane) - 1
      BY <2>1, <3>1
    <3> HIDE DEF rest
    <3>3. ASSUME NEW i \in DOMAIN lane, i # 1 PROVE i - 1 \in DOMAIN rest /\ rest[i - 1] = lane[i]
      BY <3>1, <3>2, <3>3
    <3>4. ASSUME NEW i \in DOMAIN rest PROVE i + 1 \in DOMAIN lane /\ lane[i + 1] = rest[i]
      BY <3>1, <3>2, <3>4
    <3> QED BY <2>1, <3>1, <3>3, <3>4 DEF Waits
  <2> HIDE DEF rest
  <2>3. \A k : In(k, Append(rest, "scan")) <=> In(k, rest) \/ k = "scan"
    <3>1. /\ Len(Append(rest, "scan")) = Len(rest) + 1 /\ Append(rest, "scan")[Len(rest) + 1] = "scan"
          /\ \A i \in 1..Len(rest) : Append(rest, "scan")[i] = rest[i]
          /\ DOMAIN rest = 1..Len(rest) /\ DOMAIN Append(rest, "scan") = 1..Len(rest) + 1 /\ Len(rest) \in Nat
      BY <2>2
    <3> QED BY <3>1
  <2>4. lane' = Append(rest, "scan") /\ \A k : Waits(k)' <=> In(k, lane')
    BY <2>1 DEF rest, Waits
  <2>5. lane' \in Seq(Jobs)
    BY <2>2, <2>4 DEF Jobs
  <2> HIDE DEF In
  <2> QED BY <2>1, <2>2, <2>3, <2>4, <2>5
<1>2. listing' = "none" /\ Scans'
  BY <1>1 DEF Reapply, Scans
<1>3. CASE HasToReapply
  <2>1. IsConfig /\ IsSelected /\ path \notin Private /\ row.rev > 0 /\ UNCHANGED <<path, rules, server, pulled, spent>>
    BY <1>3, RulesSay DEF HasToReapply, Inv, Given, Reapply
  <2>2. /\ row \in Rows /\ row.rev \in Nat /\ row.remote \in Nat /\ server.rev \in Nat
        /\ server.bytes \in Nat /\ NextBytes' = NextBytes /\ NextBytes \in Nat /\ NextBytes > 1
    BY NumbersAre, <2>1 DEF NextBytes
  <2>3. row' = AppliedRow([rev |-> row.rev, bytes |-> row.remote]) /\ file' = row.remote
        /\ hist' = [seen |-> row.rev, wanted |-> row.remote # None, noted |-> FALSE, crossed |-> "no"]
    BY <1>3 DEF Reapply
  <2>4. /\ row' \in Rows /\ row'.rev = row.rev /\ row'.remote = row.remote /\ row'.cached
        /\ row'.known /\ row'.local = row.remote /\ ~row'.dirty.on
    <3> DEFINE s == [rev |-> row.rev, bytes |-> row.remote]
    <3>1. s \in [rev : Nat, bytes : Nat] /\ s.rev = row.rev /\ s.bytes = row.remote
      BY <2>2
    <3>2. row' = AppliedRow(s)
      BY <2>3
    <3> HIDE DEF s
    <3> QED BY <3>1, <3>2, AppliedIs
  <2>5. hist' \in Histories /\ ~hist'.noted
        /\ hist'.seen = row.rev /\ (hist'.wanted <=> row.remote # None)
    BY <2>2, <2>3 DEF Histories
  <2>6. file' = row.remote
    BY <2>3
  <2>7. Types'
    BY <1>1, <1>2, <2>1, <2>2, <2>4, <2>5, <2>6 DEF Inv, Types
  <2>8. Reported'
    <3>1. IsConfig' /\ "upsert" # "scan" /\ "delete" # "scan"
      BY <2>1 DEF IsConfig
    <3> QED BY <1>1, <2>1 DEF Inv, Reported
  <2>9. Revisions'
    BY <2>1, <2>4 DEF Inv, Revisions
  <2>10. Fresh'
    BY <2>1, <2>2, <2>4, <2>6 DEF Inv, Fresh
  <2>11. Noted' /\ PrivateStaysOut'
    BY <2>1, <2>4, <2>5 DEF Noted, PrivateStaysOut
  <2>12. Wanted'
    BY <2>4, <2>5, <2>6 DEF Wanted, DeletesOnlyWhatIsGone
  <2>13. Agreed'
    BY <2>1, <2>4 DEF Agreed, IsConfig, Agrees
  <2> QED BY <1>2, <2>7, <2>8, <2>9, <2>10, <2>11, <2>12, <2>13 DEF Inv
<1>4. CASE ~HasToReapply
  <2>1. Still /\ row' = row /\ hist' = hist
    BY <1>4, HistoryStays DEF Reapply
  <2>2. row' \in Rows /\ RowIsSound'
    BY <2>1, RowStays
  <2>3. Types'
    BY <1>1, <1>2, <2>1 DEF Inv, Types, Still
  <2>4. Reported'
    <3>1. "upsert" # "scan" /\ "delete" # "scan" /\ path' = path /\ hist' = hist
      BY <2>1 DEF Still
    <3> QED BY <1>1, <3>1 DEF Inv, Reported, IsConfig
  <2>5. Agreed'
    <3>1. ~(IsConfig /\ IsSelected /\ row.rev > 0 /\ ~row.dirty.on /\ ~Agrees(row))
      BY <1>4, RulesSay DEF HasToReapply, Inv, Given
    <3> QED BY <2>1, <3>1 DEF Inv, Agreed, Alive, IsConfig, IsSelected, Agrees, Still
  <2> QED BY <1>2, <2>2, <2>3, <2>4, <2>5 DEF Inv, RowIsSound
<1> QED BY <1>3, <1>4

\* It fails only over a revision the server has replaced, which a pull brings.
LEMMA StepReapplyFails == ASSUME Given, Inv, ReapplyFails PROVE Inv'
<1>1. lane' \in Seq(Jobs) /\ Reported' /\ Scans'
  BY WorkTaken DEF ReapplyFails, Jobs
<1>2. Still /\ row' = row /\ hist' = hist /\ row.rev # server.rev
  BY HistoryStays DEF ReapplyFails
<1>3. row' \in Rows /\ RowIsSound'
  BY <1>2, RowStays
<1>4. Agreed'
  BY <1>2 DEF Inv, Agreed, Alive, IsConfig, IsSelected, Agrees, Still
<1>5. Types'
  BY <1>1, <1>2 DEF ReapplyFails, Inv, Types, Still
<1> QED BY <1>1, <1>3, <1>4, <1>5 DEF Inv, RowIsSound

\* A poll puts a scan in the lane.
LEMMA StepPoll == ASSUME Given, Inv, Poll PROVE Inv'
<1>1. /\ lane' \in Seq(Jobs) /\ \A k : Waits(k)' <=> Waits(k) \/ k = "scan"
      /\ lane # <<>> => lane' # <<>> /\ Head(lane') = Head(lane)
  BY LaneGrows DEF Poll, Inv, Types, Jobs
<1>2. Still /\ row' = row /\ hist' = hist /\ listing' = listing
  BY HistoryStays DEF Poll
<1>3. row' \in Rows /\ RowIsSound' /\ Agreed'
  BY <1>1, <1>2, RowStays
<1>4. Types'
  BY <1>1, <1>2 DEF Inv, Types, Still
<1>5. Reported'
  <2>1. "upsert" # "scan" /\ "delete" # "scan" /\ path' = path /\ hist' = hist
    BY <1>2 DEF Still
  <2> QED BY <1>1, <2>1 DEF Inv, Reported, IsConfig
<1>6. Scans'
  BY <1>1, <1>2 DEF Inv, Scans, Still
<1> QED BY <1>3, <1>4, <1>5, <1>6 DEF Inv, RowIsSound

\* A scan lists what is selected.
LEMMA StepListFiles == ASSUME Given, Inv, ListFiles PROVE Inv'
<1>1. Still /\ row' = row /\ hist' = hist /\ lane' = lane
  BY HistoryStays DEF ListFiles
<1>2. row' \in Rows /\ RowIsSound' /\ Agreed'
  BY <1>1, LaneStays, RowStays
<1>3. Types'
  BY <1>1 DEF Inv, Types, Still, ListFiles, Listed
<1>4. Reported'
  BY <1>1, LaneStays DEF Inv, Reported, IsConfig, Still
<1>5. Scans'
  BY <1>1, RulesSay DEF Inv, Given, Scans, Still, ListFiles, Listed, Begins
<1> QED BY <1>2, <1>3, <1>4, <1>5 DEF Inv, RowIsSound

\* A scan forgets what is excluded, and of the rest deletes what is gone.
LEMMA StepReconcileOnce == ASSUME Given, Inv, ReconcileOnce PROVE Inv'
<1>1. /\ lane \in Seq(Jobs) /\ lane # <<>> /\ Head(lane) = "scan" /\ lane' = Tail(lane) /\ listing' = "none"
      /\ row' = Reconciled(row, listing, file, path, rules)
      /\ listing \in {"listed", "excluded", "missing"} /\ row \in Rows /\ file \in Nat /\ None \in Nat
      /\ UNCHANGED <<path, file, server, pulled, rules, spent>> /\ hist \in Histories
      /\ hist' = [hist EXCEPT !.crossed = IF row' = row THEN @ ELSE IF Overtaken THEN listing ELSE "no"]
  BY DEF ReconcileOnce, Inv, Types, Scans, None
<1>6. Still /\ (row' = row => hist'.crossed = hist.crossed)
      /\ (row' # row /\ Overtaken => hist'.crossed # "no")
  BY <1>1 DEF Still, Histories, Overtaken
<1>2. /\ lane' \in Seq(Jobs) /\ \A k : Waits(k)' => Waits(k)
      /\ Waits("reapply") => Waits("reapply")'
  BY <1>1, LaneShrinks
<1>3. Reported' /\ Scans'
  BY <1>1, <1>2, <1>6 DEF Inv, Reported, Scans, IsConfig, Still
<1>4. row' \in Rows /\ RowIsSound' /\ Agreed'
  <2>1. CASE row' = row
    BY <1>2, <1>6, <2>1, RowStays
  <2>2. CASE row' = NoRow /\ row.rev = 0
    BY <1>6, <2>2, RowDropped
  <2>3. CASE Excluded(row, path, rules) /\ row.rev # 0
    <3>0. ~IsSelected
      BY <2>3, RulesSay DEF Inv, Given
    <3>1. /\ row.rev \in Nat /\ row.remote \in Nat /\ server.rev \in Nat
          /\ server.bytes \in Nat /\ NextBytes' = NextBytes /\ NextBytes \in Nat
      BY NumbersAre, <1>6 DEF Still, NextBytes
    <3>2. row' = [row EXCEPT !.known = FALSE, !.local = None, !.dirty = NoEdit]
      BY <1>1, <2>3 DEF Reconciled, Forgotten
    <3>3. /\ row' \in Rows /\ row'.rev = row.rev /\ row'.remote = row.remote /\ row'.cached = row.cached
          /\ ~row'.known /\ row'.local = None /\ ~row'.dirty.on
      <4>1. NoEdit \in [on : BOOLEAN, bytes : Nat, base : Nat] /\ ~NoEdit.on /\ None \in Nat
        BY DEF NoEdit, None
      <4> QED BY <1>1, <3>2, <4>1 DEF Rows
    <3>4. Revisions' /\ Noted' /\ PrivateStaysOut' /\ Wanted'
      BY <1>1, <1>6, <3>3
         DEF Inv, Revisions, Noted, PrivateStaysOut, Wanted, DeletesOnlyWhatIsGone, Still
    <3>5. Fresh'
      BY <1>6, <3>1, <3>3 DEF Inv, Fresh, Still, None
    <3>6. Agreed'
      BY <1>6, <3>0, <3>3 DEF Agreed, Alive, IsSelected, Still
    <3> QED BY <3>3, <3>4, <3>5, <3>6 DEF RowIsSound
  <2>4. CASE ~Excluded(row, path, rules) /\ listing # "listed" /\ row.known /\ row.local # None
             /\ row' = Queued(row, None)
    <3>1. IsSelected /\ path \notin Private /\ ListsFile(path, rules)
      BY <2>4, RulesSay DEF Inv, Given
    <3>2. row' # row
      BY <1>1, <2>4, QueuedIs
    <3>3. file = None \/ Overtaken
      BY <2>4, <3>1 DEF Overtaken, Listed
    <3>4. ~hist.wanted \/ hist'.crossed # "no"
      BY <1>6, <2>4, <3>2, <3>3 DEF Inv, Wanted
    <3> QED BY <1>1, <1>6, <2>4, <3>1, <3>4, RowQueued
  <2>5. CASE listing = "listed" /\ file # None /\ row' = Queued(row, file)
    <3>1. path \notin Private
      BY <2>5 DEF Inv, Scans
    <3> QED BY <1>1, <1>6, <2>5, <3>1, RowQueued
  <2> QED BY <1>1, <2>1, <2>2, <2>3, <2>4, <2>5 DEF Reconciled, Forgotten, DeleteMissing, UpsertFound
<1>5. Types'
  BY <1>1, <1>2, <1>4, <1>6 DEF Inv, Types, Still
<1> QED BY <1>3, <1>4, <1>5 DEF Inv, RowIsSound

-----------------------------------------------------------------------------
(* Push and pull keep the invariant. *)

\* A push that finds the file changed queues it again, and one that finds it gone leaves
\* the deletion to its event or to a scan.
LEMMA StepPushUpsertAgain == ASSUME Given, Inv, PushUpsertAgain PROVE Inv'
<1>1. /\ Still /\ hist' = hist /\ lane' = lane /\ listing' = listing /\ row \in Rows /\ file \in Nat
      /\ row.dirty.on /\ row.dirty.bytes # None /\ file # row.dirty.bytes /\ row' = Prepare(row, file)
      /\ row.known /\ row.local = row.dirty.bytes /\ path \notin Private
  BY HistoryStays DEF PushUpsertAgain, Inv, Types, Revisions, PrivateStaysOut
<1>2. row' \in Rows /\ row'.known /\ RowIsSound' /\ Agreed'
  <2>1. CASE file # None
    <3>1. row' = Queued(row, file)
      BY <1>1, <2>1 DEF Prepare
    <3> QED BY <1>1, <2>1, <3>1, RowQueued, QueuedIs
  <2>2. CASE file = None
    <3>1. /\ row.rev \in Nat /\ row.remote \in Nat /\ server.rev \in Nat
          /\ server.bytes \in Nat /\ NextBytes' = NextBytes /\ NextBytes \in Nat
      BY NumbersAre, <1>1 DEF Still, NextBytes
    <3>2. row' = [row EXCEPT !.dirty = NoEdit]
      BY <1>1, <2>2 DEF Prepare
    <3>3. /\ row' \in Rows /\ row'.rev = row.rev /\ row'.remote = row.remote /\ row'.cached = row.cached
          /\ row'.known /\ row'.local = row.local /\ ~row'.dirty.on
      <4>1. NoEdit \in [on : BOOLEAN, bytes : Nat, base : Nat] /\ ~NoEdit.on /\ None \in Nat
        BY DEF NoEdit, None
      <4> QED BY <1>1, <3>2, <4>1 DEF Rows
    <3>4. Revisions' /\ Noted' /\ PrivateStaysOut' /\ Wanted'
      BY <1>1, <3>3
         DEF Inv, Revisions, Noted, PrivateStaysOut, Wanted, DeletesOnlyWhatIsGone, Still
    <3>5. Fresh'
      BY <1>1, <3>1, <3>3 DEF Inv, Fresh, Still
    <3>6. Agreed'
      BY <1>1, <2>2, <3>3 DEF Agreed, Alive, Still
    <3> QED BY <3>3, <3>4, <3>5, <3>6 DEF RowIsSound
  <2> QED BY <2>1, <2>2
<1>3. Types'
  BY <1>1, <1>2 DEF Inv, Types, Still
<1>4. Reported' /\ Scans'
  BY <1>1, <1>2, LaneStays DEF Inv, Reported, Scans, IsConfig, Still
<1> QED BY <1>2, <1>3, <1>4 DEF Inv, RowIsSound

\* What is pushed is what the device has, over the revision it had.
LEMMA StepPush == ASSUME Given, Inv, Push PROVE Inv'
<1>1. /\ UNCHANGED <<path, file, pulled, rules, lane, listing, spent>> /\ row \in Rows
      /\ row.dirty.on /\ row.dirty.base = server.rev /\ (row.dirty.bytes # None => file = row.dirty.bytes)
      /\ row.known /\ row.local = row.dirty.bytes /\ path \notin Private
      /\ row.rev = server.rev
  BY DEF Push, Inv, Types, Revisions, PrivateStaysOut
<1>2. /\ server.rev \in Nat /\ row.local \in Nat /\ pulled \in Nat /\ file \in Nat
      /\ NextBytes' = NextBytes /\ NextBytes \in Nat /\ NextBytes > 1
  BY NumbersAre, <1>1 DEF Inv, Types, Rows, NextBytes
<1>3. /\ server' \in [rev : Nat, bytes : Nat]
      /\ server'.rev = server.rev + 1 /\ server'.bytes = row.local
  BY <1>1, <1>2 DEF Push
<1>4. /\ row' \in Rows /\ row'.rev = server'.rev /\ row'.remote = row.local /\ row'.cached
      /\ row'.known /\ row'.local = row.local /\ ~row'.dirty.on
  <2> DEFINE applied == AppliedRow(server')
  <2>1. row' = [applied EXCEPT !.local = row.local]
    BY DEF Push
  <2>2. /\ applied \in Rows /\ applied.rev = server'.rev /\ applied.remote = row.local /\ applied.cached
        /\ applied.known /\ ~applied.dirty.on
    BY <1>3, AppliedIs
  <2> HIDE DEF applied
  <2> QED BY <1>2, <2>1, <2>2 DEF Rows
<1>5. /\ hist' \in Histories
      /\ hist'.seen = server'.rev /\ hist'.wanted = hist.wanted
  BY <1>3 DEF Push, Inv, Types, Histories
<1>6. Types'
  BY <1>1, <1>3, <1>4, <1>5 DEF Inv, Types
<1>7. Reported' /\ Scans'
  BY <1>1, <1>4, <1>5, LaneStays DEF Inv, Reported, Scans, IsConfig
<1>8. Revisions' /\ Noted' /\ PrivateStaysOut'
  BY <1>1, <1>2, <1>3, <1>4, <1>5 DEF Inv, Revisions, Noted, PrivateStaysOut
<1>9. Fresh'
  BY <1>1, <1>2, <1>3, <1>4 DEF Inv, Fresh
<1>10. Wanted'
  BY <1>1, <1>4, <1>5 DEF Inv, Wanted, DeletesOnlyWhatIsGone
<1>11. Agreed'
  BY <1>1, <1>2, <1>3, <1>4 DEF Inv, Revisions, Agreed, Agrees
<1> QED BY <1>6, <1>7, <1>8, <1>9, <1>10, <1>11 DEF Inv

\* The server's state replaces that of the device.
LEMMA TakenOver ==
  ASSUME Given, Inv, TakeOver(server), UNCHANGED <<path, server, rules, lane, listing, spent>>,
         pulled' \in Nat, pulled' <= server.rev, path \notin Private,
         server.rev > 0
  PROVE  Inv'
<1>1. /\ server \in [rev : Nat, bytes : Nat] /\ server.rev \in Nat /\ server.bytes \in Nat
      /\ NextBytes' = NextBytes /\ NextBytes \in Nat
  BY DEF Inv, Types, NextBytes
<1>2. row' = AppliedRow(server) /\ file' = server.bytes
  BY DEF TakeOver
<1>3. /\ row' \in Rows /\ row'.rev = server.rev /\ row'.remote = server.bytes /\ row'.cached
      /\ row'.known /\ row'.local = server.bytes /\ ~row'.dirty.on
  BY <1>1, <1>2, AppliedIs
<1>4. /\ hist' \in Histories
      /\ hist'.seen = server.rev /\ ~hist'.noted
      /\ hist'.wanted => server.bytes # None /\ ~Waits("delete")
  BY <1>1 DEF TakeOver, Waits, Histories
<1>5. Types'
  BY <1>1, <1>2, <1>3, <1>4 DEF Inv, Types
<1>6. Reported' /\ Scans'
  BY <1>4, LaneStays DEF Inv, Reported, Scans, IsConfig
<1>7. Revisions' /\ Noted' /\ PrivateStaysOut'
  BY <1>1, <1>3, <1>4 DEF Inv, Revisions, Noted, PrivateStaysOut
<1>8. Fresh'
  BY <1>1, <1>2, <1>3 DEF Inv, Fresh
<1>9. Wanted'
  BY <1>2, <1>3, <1>4 DEF Wanted, DeletesOnlyWhatIsGone
<1>10. Agreed'
  BY <1>1, <1>3 DEF Agreed, Agrees
<1> QED BY <1>5, <1>6, <1>7, <1>8, <1>9, <1>10 DEF Inv

\* A stale change gives way only where the path is selected.
LEMMA StepRecoverStale == ASSUME Given, Inv, RecoverStale PROVE Inv'
<1>1. server.rev \in Nat /\ row.rev \in Nat /\ pulled' = pulled /\ pulled \in Nat /\ pulled <= server.rev
  BY NumbersAre DEF Inv, Types, RecoverStale, Revisions
<1>2. server.rev > 0
  BY <1>1 DEF Inv, Revisions, RecoverStale
<1>3. path \notin Private
  BY RulesSay DEF Inv, Given, RecoverStale
<1> QED BY <1>1, <1>2, <1>3, TakenOver DEF RecoverStale

\* A pull fetches what is selected, and of the rest only notes the revision.
LEMMA StepPull == ASSUME Given, Inv, Pull PROVE Inv'
<1>1. /\ server.rev \in Nat /\ row.rev \in Nat /\ pulled' = server.rev /\ pulled \in Nat /\ server.rev > 0
      /\ UNCHANGED <<path, server, rules, lane, listing, spent>>
  BY NumbersAre DEF Inv, Types, Pull
<1>2. NextBytes' = NextBytes /\ NextBytes \in Nat
  BY <1>1 DEF NextBytes, Inv, Types
<1>3. Scans'
  BY <1>1 DEF Inv, Scans
<1>4. CASE ~IsSelected
  <2>1. /\ row' = Skips(row, server) /\ hist' = [hist EXCEPT !.noted = @ \/ (~row.dirty.on /\ row.rev # server.rev)]
        /\ file' = file
    BY <1>4, RulesSay DEF Pull, Inv, Given
  <2>2. CASE row.dirty.on \/ row.rev = server.rev
    <3>1. row' = row /\ hist' = hist
      BY <2>1, <2>2 DEF Skips, Inv, Types, Histories
    <3>2. Types' /\ Reported' /\ Noted' /\ PrivateStaysOut' /\ Wanted'
      BY <1>1, <2>1, <3>1, LaneStays
         DEF Inv, Types, Reported, Noted, PrivateStaysOut, Wanted, DeletesOnlyWhatIsGone, IsConfig
    <3>3. Revisions' /\ Fresh'
      BY <1>1, <1>2, <2>1, <3>1 DEF Inv, Revisions, Fresh
    <3>4. Agreed'
      <4>1. ~IsSelected' /\ (IsConfig' <=> IsConfig) /\ (Alive' <=> Alive)
        BY <1>1, <1>4, <2>1, <3>1 DEF IsSelected, IsConfig, Alive
      <4>2. Alive => row.rev >= pulled'
        BY <1>1, <2>2 DEF Alive
      <4> QED BY <3>1, <4>1, <4>2 DEF Inv, Agreed
    <3> QED BY <1>3, <3>2, <3>3, <3>4 DEF Inv
  <2>3. CASE ~row.dirty.on /\ row.rev # server.rev
    <3>1. row \in Rows /\ server.bytes \in Nat /\ row' = [row EXCEPT !.rev = server.rev, !.remote = server.bytes, !.cached = FALSE]
      BY <2>1, <2>3 DEF Skips, Inv, Types
    <3>2. /\ row' \in Rows /\ row'.rev = server.rev /\ row'.remote = server.bytes /\ ~row'.cached
          /\ row'.known = row.known /\ row'.local = row.local /\ row'.dirty = row.dirty
      BY <1>1, <3>1 DEF Rows
    <3>3. /\ hist' \in Histories /\ hist'.noted
          /\ hist'.seen = hist.seen /\ hist'.wanted = hist.wanted
          /\ hist'.crossed = hist.crossed
      BY <2>1, <2>3 DEF Inv, Types, Histories
    <3>4. Types'
      BY <1>1, <2>1, <3>2, <3>3 DEF Inv, Types
    <3>5. Reported' /\ Noted' /\ PrivateStaysOut' /\ Wanted'
      BY <1>1, <2>1, <2>3, <3>2, <3>3, LaneStays
         DEF Inv, Reported, Noted, PrivateStaysOut, Wanted, DeletesOnlyWhatIsGone, IsConfig
    <3>6. Revisions'
      BY <1>1, <2>3, <3>2 DEF Inv, Revisions
    <3>7. Fresh'
      BY <1>1, <1>2, <2>1, <2>3, <3>2 DEF Inv, Fresh
    <3>8. Agreed'
      BY <1>1, <1>4, <3>2, <3>3 DEF Agreed, Alive, IsConfig, IsSelected
    <3> QED BY <1>3, <3>4, <3>5, <3>6, <3>7, <3>8 DEF Inv
  <2> QED BY <2>2, <2>3
<1>5. CASE IsSelected /\ ~row.dirty.on /\ Agrees(row) /\ row.rev = server.rev
  <2>1. UNCHANGED <<file, row, hist>>
    BY <1>5, RulesSay DEF Pull, Inv, Given
  <2>2. Types' /\ Reported' /\ Noted' /\ PrivateStaysOut' /\ Wanted'
    BY <1>1, <2>1, LaneStays
       DEF Inv, Types, Reported, Noted, PrivateStaysOut, Wanted, DeletesOnlyWhatIsGone, IsConfig
  <2>3. Revisions' /\ Fresh'
    BY <1>1, <1>2, <2>1 DEF Inv, Revisions, Fresh
  <2>4. Agreed'
    BY <1>1, <1>5, <2>1 DEF Agreed, Agrees
  <2> QED BY <1>3, <2>2, <2>3, <2>4 DEF Inv
<1>6. CASE IsSelected /\ ~(~row.dirty.on /\ Agrees(row) /\ row.rev = server.rev)
  <2>1. TakeOver(server) /\ path \notin Private
    BY <1>6, RulesSay DEF Pull, Inv, Given
  <2> QED BY <1>1, <2>1, TakenOver
<1> QED BY <1>4, <1>5, <1>6

\* Every step keeps the invariant.
LEMMA StepInv == ASSUME Given, Inv, [Next]_vars PROVE Inv'
<1>1. CASE UNCHANGED vars
  <2>1. Still /\ row' = row /\ hist' = hist /\ lane' = lane /\ listing' = listing
    BY <1>1, HistoryStays DEF vars
  <2>2. RowIsSound' /\ Agreed'
    BY <2>1, LaneStays, RowStays
  <2>3. Types' /\ Reported' /\ Scans'
    BY <2>1, LaneStays DEF Inv, Types, Reported, Scans, IsConfig, Still
  <2> QED BY <2>2, <2>3 DEF Inv, RowIsSound
<1> QED BY <1>1, StepUserWrites, StepUserDeletes, StepPeerCommits, StepChangeRules, StepRecordUpsert,
           StepRecordDelete, StepReapply, StepReapplyFails, StepPoll, StepListFiles, StepReconcileOnce,
           StepPushUpsertAgain, StepPush, StepRecoverStale, StepPull DEF Next

-----------------------------------------------------------------------------
(* The invariant says what the property says. *)

\* What a scan has done the next one leaves alone.
LEMMA ScansAreSettled == ASSUME Given, Inv PROVE ScansSettle
<1> DEFINE once == Scanned(row)
<1>1. /\ row \in Rows /\ file \in Nat /\ None \in Nat
      /\ Listed = "listed" <=> file # None /\ IsSelected
      /\ Listed \in {"listed", "excluded", "missing"}
  BY RulesSay DEF Listed, Inv, Types, Given, None
<1>2. \A r : Excluded(r, path, rules) <=> r.known /\ r.local # None /\ ~IsSelected
  BY DEF Excluded, IsSelected
<1>3. SUFFICES ASSUME once.rev > 0 PROVE Scanned(once) = once
  BY DEF ScansSettle
<1>4. CASE once = row
  BY <1>4 DEF once
<1>5. CASE once = NoRow
  BY <1>3, <1>5 DEF NoRow
<1>6. CASE Excluded(row, path, rules) /\ once = [row EXCEPT !.known = FALSE, !.local = None, !.dirty = NoEdit]
  <2>1. ~once.known /\ Listed # "listed"
    BY <1>1, <1>2, <1>6 DEF Rows
  <2> HIDE DEF once
  <2> QED BY <1>2, <2>1 DEF Scanned, Reconciled, DeleteMissing
<1>7. CASE Listed # "listed" /\ once = Queued(row, None)
  <2>1. once.local = None
    BY <1>1, <1>7, QueuedIs
  <2> HIDE DEF once
  <2> QED BY <1>2, <1>7, <2>1 DEF Scanned, Reconciled, DeleteMissing
<1>8. CASE Listed = "listed" /\ file # None /\ once = Queued(row, file)
  <2>1. once.known /\ once.local = file
    BY <1>1, <1>8, QueuedIs
  <2> HIDE DEF once
  <2> QED BY <1>1, <1>2, <1>3, <1>8, <2>1 DEF Scanned, Reconciled, UpsertFound
<1> QED BY <1>1, <1>4, <1>5, <1>6, <1>7, <1>8 DEF Scanned, Reconciled, Forgotten, DeleteMissing, UpsertFound

\* Once nothing is left to do, the file is the server's.
LEMMA ArrivesWhenSettled == ASSUME Given, Inv PROVE SelectedHasArrived
<1> SUFFICES ASSUME Settled, IsSelected, Fetched PROVE file = server.bytes
  BY DEF SelectedHasArrived, IsSelected
<1>1. /\ row \in Rows /\ row.rev \in Nat /\ server.rev \in Nat /\ file \in Nat /\ None \in Nat
      /\ Revisions /\ Fresh /\ Noted /\ Agreed
  BY DEF Inv, Types, Rows, None
<1>2. /\ ~row.dirty.on /\ pulled = server.rev /\ ~Waits("reapply") /\ Scanned(row) = row
  BY DEF Settled, Waits
<1>3. ~Excluded(row, path, rules) /\ Listed = (IF file # None THEN "listed" ELSE "missing")
  BY RulesSay DEF Listed, Inv, Given
<1>4. \A b \in Nat : row # Queued(row, b)
  BY <1>1, <1>2, QueuedIs
<1>5. CASE file = None
  <2>1. ~row.known \/ row.local = None
    BY <1>1, <1>2, <1>3, <1>4, <1>5, NoRowIs DEF Scanned, Reconciled, DeleteMissing
  <2>2. CASE IsConfig
    <3>1. row.rev = server.rev
      BY <2>2 DEF Fetched, IsConfig
    <3> QED BY <1>1, <1>2, <1>5, <2>1, <2>2, <3>1 DEF Agreed, Agrees, Revisions
  <2>3. CASE ~IsConfig
    <3>1. row.known /\ ~hist.noted
      BY <2>3 DEF Fetched, IsConfig
    <3> QED BY <1>1, <1>2, <1>5, <2>1, <2>3, <3>1 DEF Agreed, Alive, Revisions
  <2> QED BY <2>2, <2>3
<1>6. CASE file # None
  <2>1. (row.known /\ row.local = file /\ row.rev > 0) \/ ~CanQueue(row)
    BY <1>1, <1>2, <1>3, <1>4, <1>6 DEF Scanned, Reconciled, UpsertFound
  <2>2. ~CanQueue(row) => row.rev > 0 /\ row.remote # None /\ ~row.cached
    BY DEF CanQueue
  <2>3. CASE IsConfig
    <3>1. row.rev = server.rev /\ row.rev > 0
      BY <2>1, <2>2, <2>3 DEF Fetched, IsConfig
    <3>2. row.known /\ row.local = row.remote
      BY <1>1, <1>2, <1>6, <2>3, <3>1 DEF Agreed, Agrees
    <3> QED BY <1>1, <2>1, <2>2, <3>1, <3>2 DEF Fresh, Revisions
  <2>4. CASE ~IsConfig
    <3>1. row.known /\ ~hist.noted
      BY <2>4 DEF Fetched, IsConfig
    <3>2. row.local = file
      BY <1>1, <2>1, <2>2, <3>1 DEF Noted
    <3> QED BY <1>1, <1>2, <1>6, <2>4, <3>1, <3>2 DEF Agreed, Alive, Revisions
  <2> QED BY <2>3, <2>4
<1> QED BY <1>5, <1>6

\* Whatever the paths, the settings and the bounds, and whatever is pulled or selected while a
\* scan runs: a scan whose listing was not overtaken deletes for the others only what a person
\* has deleted, what is private is neither sent nor taken, a change is based on what the file has
\* had, a second scan finds nothing to do, and once nothing is left to do the device has what
\* is selected (updateSyncFileRules, reconcileOnce, applySkippedRemoteStates).
THEOREM SelectionStaysKept == PlainPaths /\ Spec => []SelectionIsKept
<1> SUFFICES ASSUME Given PROVE Spec => []SelectionIsKept
  BY DEF Given
<1>1. Init => Inv
  BY InitInv
<1>2. Inv /\ [Next]_vars => Inv'
  BY StepInv
<1>3. Inv => SelectionIsKept
  <2> SUFFICES ASSUME Inv PROVE SelectionIsKept
    OBVIOUS
  <2>1. (hist.crossed = "no" => DeletesOnlyWhatIsGone) /\ PrivateStaysOut
    BY DEF Inv, Wanted
  <2>2. ~hist.noted => BuildsOnWhatItHas
    <3>1. row.rev \in Nat
      BY DEF Inv, Types, Rows
    <3> QED BY <3>1 DEF Inv, Revisions, Noted, BuildsOnWhatItHas
  <2> QED BY <2>1, <2>2, ScansAreSettled, ArrivesWhenSettled DEF SelectionIsKept
<1> QED BY <1>1, <1>2, <1>3, PTL DEF Spec
=============================================================================
