# Syncali: a verification project

Syncali keeps an Obsidian vault the same on several devices. The plugin
(`apps/obsidian-plugin`) encrypts files and sends them; the server (`apps/api`)
stores what it cannot read. There is one *coordinator* per vault: a Durable
Object on Cloudflare, or a plain object behind a lock in the self-hosted Node
server. This directory holds TLA+ modules of the parts whose correctness is a
matter of ordering, failure and time, the TLC runs that check them, and TLAPS
proofs.

    tlc -workers 2 -config Server.cfg MCServer
    tlapm SessionProofs.tla

## 1. Inventory

| Part | State | Operations | Talks to |
|---|---|---|---|
| Vault coordinator (`sync/coordinator/{mutation,blob,entry,store}`) | SQLite tables: entries, entry versions, blobs, cursor, storage used, policy | stage and abort a blob, commit a batch, restore versions, purge deleted entries, run the collector, list the feed | object store (await), maintenance scheduler (deferred jobs), sockets (broadcast) |
| Vault lock, Node runtime (`store/vault-lock.ts`, `runtime/node-coordinator.ts`) | a promise chain per vault | run one handler at a time | every entry point of the coordinator |
| Maintenance (`maintenance-scheduler.ts`, `maintenance-service.ts`, `node-maintenance-scheduler.ts`, `health/`) | `maintenance_jobs`, an alarm or a `setTimeout`, the date of the next summary flush | defer, drain, reschedule, retry, arm at start | coordinator, D1 |
| Blob routes, object store (`sync/blob`) | objects under content-addressed keys | PUT: stage, upload, check the size, abort; GET; delete many | coordinator |
| Sockets and protocol (`service.ts`, `socket/`, `protocol.ts`) | sessions, watchers | hello, commits, lists, broadcasts of `cursor_advanced` | plugin |
| Process of the self-hosted server (`runtime/node-*.ts`, `self-host.ts`) | open coordinators and their locks, sockets, tracked work | open a vault, migrate, serve, fire alarms, drain on a signal, dispose | every coordinator |
| Vault lifecycle (`vault/`, `subscription/`, `billing/`, the queues) | rows of vaults, members, key wrappers, plans; a vault's state and limits in its coordinator | create, grant, open, fill, apply policy, delete, purge | coordinator, queue, billing webhooks |
| Version history (`coordinator/entry/history-service.ts`, `plugin/version-history-*.ts`, `settings-tab/modals.ts`) | pages shown, selection, requests under way | list page by page, restore, restore many, delete for good | sessions, coordinator |
| Auto-sync loop (`sync/engine/auto-sync*.ts`) | state, session, requested work, three timers, attempt and pass under way | start, stop, resume, local change, cursor advanced, timers | realtime session, push, pull, status |
| Realtime session (`sync/remote/realtime-*`) | socket, pending requests, heartbeat | request, time out, close, fail | server, loop |
| Push (`push-*.ts`, `core/mutation-queue.ts`) | dirty entries, parked and blocked mutations, checkpoint | prepare, upload, commit, recover from stale rejections, park | store, server |
| Pull (`pull-*.ts`) | cursor, local entries | list the feed, plan, fetch, apply, keep conflict copies, checkpoint | store, vault files, server |
| Recording (`event-recorder.ts`, `local-reconcile-service.ts`) | dirty entries | record upsert, rename, delete; compare the vault with the store | store, loop |
| Local store (`sync/store`) | all of the above, in IndexedDB | transactions | push, pull, recording |
| Text merge (`text-merge*.ts`) | none | three-way merge | pull, push |
| Path rules and selection (`core/file-rules.ts`, `vault-config-rules.ts`, `vault-path-policy.ts`, `runtime/engine.ts`) | rules, configuration included | decide on a path, list, sweep what is unselected, fetch what is selected again | recording, pull |
| Plugin controllers (`plugin/`, `auth/`, `remote-vault/`, `sync/runtime/controller.ts`) | account, connected vault, local store, the paused switch, pipelines under way | sign in and out, connect, leave, pause, resume, start the loop | everything of the plugin |
| Tokens (`token-manager.ts`) | token, refresh under way | get, invalidate | server |
| Crypto, settings tab, views, billing pages, web site | - | - | - |

What makes it hard, and what correctness means:

* **Coordinator.** Several awaits on the object store lie between a decision and
  the transaction that relies on it. Correct means: an object behind every
  entry and every version history keeps; states of blobs that agree with the
  references; accounting that never drifts; a feed in which every change gets a
  place of its own; garbage that is collected in the end.
* **Maintenance.** Dates are rewritten after awaits, timers are lost with the
  process, handlers fail. Correct means that a job in the table has a timer, and
  a reason for a job has a job.
* **Auto-sync.** Timers, callbacks and two promises share a dozen fields. Correct
  means that work asked for is always on its way, that a stopped loop stays
  stopped and that the status tells the truth.
* **Sessions.** A connection is lost without either side being told; answers come
  late; handlers of one vault interleave at a commit. Correct means that no
  device misses a change for longer than its session, and that an accepted
  commit is known, or asked for again and answered the same.
* **Vaults and hosts.** Requests are cut off between two services. Correct means
  that a deleted vault leaves nothing, that a deletion is driven to its end, and
  that a graceful shutdown waits for what it was doing.
* **Plugin.** Each entry point is an asynchronous function and none waits for
  another. Correct means that a loop runs only with the connection of the
  account that is signed in, and that no store but the vault's own is dropped.
* **History, selection, merge.** What the user picked must be what is restored;
  a rule that hides a file must not delete it for others; a merge must keep what
  both sides wrote.
* **Push and pull.** Edits during awaits, retries of what was accepted, stale
  rejections, a checkpoint that must never skip another device's change. Correct
  means that no edit is lost and that devices converge.

`PROJECT.json` lists the components with their status and the hazards, each at
its line, with the property that guards it or the reason it has none yet.

## 2. Plan

Done, in this order:

1. `Coordinator` - tables and object store of a vault, its handlers and the
   collector; `ChangeFeed` - what the feed promises; `MCCoordinator`.
2. `Maintenance` - jobs, timers and the health summary of either runtime.
3. `AutoSync` - the loop of the plugin.
4. `Device` - recorder, store, push and pull of one device, with the other
   devices as changes on the server.
5. `Session` - both ends of the realtime session and the wire between them.
6. `Plugin` - account, connected vault, local store and the pipelines that bring
   sync up.
7. `Vaults` - creation, access, deletion, purge and limits in three deployments.
8. `Host` and `FifoLock` - the self-hosted process, its locks and its shutdown;
   the lock implements a queue of callers.
9. `History` - lists of versions and of deleted files, restores, purges.
10. `Paths` - renames: planning, batching and applying windows of moved files.
11. `TextMerge`, `Selection` - the three-way merge; what a device synchronizes
    and what becomes of a file when that changes.
12. `MCServer`, `MCPlugin`, `MCSession`, `MCDevice`, `MCLive` - one run for parts
    that ask the same kind of question.
13. `MaintenanceProofs`, `AutoSyncProofs`, `VaultsProofs`, `ServerProofs`,
    `SessionProofs`, `DeviceProofs`, `PluginProofs`, `SelectionProofs` - the safety
    properties of these parts, for every value of their constants; those of
    `Coordinator` and `Host` are in `ServerProofs`, those of `History` in
    `PluginProofs`.

Left:

14. An abstract replica that `Device` implements (rows and checkpoint follow the
    feed without gaps) and two devices over one feed: convergence once users
    stop, and that recovery from stale rejections ends.
15. Proofs: that a settled file of `Device` has arrived; that windows of moves in
    `Paths` agree with the server; that `Host` implements `FifoLock`.
16. Details that are left out of a modelled part: blocks by size and quota,
    damaged entries, sessions that version history borrows from the loop, GET of a
    blob and objects written in part, tokens that are renewed ahead of their expiry.

## 3. The modules

Which lines each definition stands for is in `PROJECT.json` under `map`.

### Coordinator, ChangeFeed, MCCoordinator

State: the tables (`entries`, `versions`, `blobs`, the head of the feed,
`used`), the object store (`objects`), the date of the collector's job, the
clock, and one record for each kind of handler that awaits: the commit, the
collector, the purge, the PUTs. An action is the code from one await to the
next, so a handler is as many actions as it has awaits plus one, and every other
handler may run in between exactly when the runtime lets it:

* `Serialized = TRUE` is the Node server, where every entry point runs under the
  vault lock; uploads to the object store happen outside it, as in `routes.ts`.
* `Serialized = FALSE` is the Durable Object. Awaits on the object store are not
  awaits on the object's own storage, so the platform does let other events in.

A batch of mutations is one transaction of the code and is modelled mutation by
mutation with nothing let in between (`Quiet`), in any order.

Abstractions. A blob has size one. A rejected or replayed mutation changes
nothing and is a stutter. One purge runs at a time. A commit's transaction and
the deferral of the job it owes are one step. `drain`'s second look at the clock
uses a fresh date. Of the policy only the retention is kept.

`ChangeFeed` promises what a pulling device relies on: every change puts its
entry at a new last position, and nothing else touches the feed. `Coordinator`
implements it (`ImplementsFeed`).

### Maintenance

State: the two rows of `maintenance_jobs`, the timer or alarm, the drain under
way, whether the summary lags (`dirty`), whether there is garbage, the trusted
date of the next flush (`scheduledFlushAt`), the clock, whether the process is
up. The runtime is chosen among `Runtimes` at the start and never changes
(`onNode`). `TimerMax` is how far `setTimeout` counts, which in the run is less far than
the dates lie ahead; the other constants are the code's delays, and `MaxDrained`,
`MaxRetries`, `Horizon` and `MaxTime` are bounds.

Abstractions. The collector takes the garbage of one date per pass. Dates are
not rounded. The forced flush by an administrator is left out. The platform
redelivers an alarm that failed.

### AutoSync

State: the fields of `SyncAutoLoop` and the status its callbacks show (`loop`),
the attempt to connect (`conn`), the pass under way (`drain`), whether changes
wait in the store or at the server, a notice on its way. What the code does
between two awaits is a function from `loop` to `loop`, composed in the order
of the code; timers, promises and messages are the actions. On a `calm` day
neither the user nor a refusal of the server stops the loop, and the store answers
before a reconnect delay (3 s and more) is over; a behaviour is about one kind of
day.

Abstractions. Delays are left out. Between the last statement of a drain's loop
and its `finally` only microtasks run, so the two are one step and the restart at
`auto-sync.ts:397-404` finds nothing to do (`WorkIsDriven` says that work left
behind has a timer). The bounds are `AutoSyncBounds`, which `MCLive` assumes of the
run (`LoopBounds`). Policy updates, the storage display and
`withRealtimeSession` are left out (`Session` has the first two), and so is
`reconnectNow`, which the plugin never calls.

### Device

State: the vault (`file`, `copies`), the events of files (`events`) and the
event the recorder works on (`rec`), the store (`rows`, `cursor`), the pass of
the loop (`push`, `pull`), what the push service keeps in memory (`stale` is
`staleRejections`, `parked` is `parkedStaleBases`), and the server as a feed
with the last mutation of each entry (`head`, `feed`, `replay`). The queue of
local work runs one event at a time and the loop one pass at a time; the two
interleave at every await, because nothing locks the store between its
transactions. So every call of the store that writes is a step:

* recording an upsert is read the file, compare and capture the base, queue,
  record; recording a deletion is find the entry and clear its queue, look at
  the remote state, record, queue;
* a push lists what is pending, prepares each change (park, drop, requeue or
  upload), commits the batch, applies the accepted ones in one transaction, and
  deals with the stale ones: pull and retry, pull by id, or park;
* a pull reads pages up to the target it saw, and applies windows: plan and
  merge in memory; conflict copies and queue; remove and write files; write rows;
  write and queue merges; checkpoint.

A content is the set of pieces written into it: an edit adds a piece, a merge is
a union, equality of contents is equality of hashes. What is lost is then a
piece of the user's that is found nowhere. Whether two edits can be merged, and
whether the base is in the cache, is a choice. Entries outside `Text` never
merge. A mutation id is reused once nothing refers to it (`NewId`).

`hist` is history, not state of the code. `born` and `discarded` follow what the
user created and deleted. Three fields mark windows in which the code does lose
something, so that the properties can speak of everything outside them; every
place that adds to them is marked in the module:

* `raced` - entries whose queued change the code forgets:
  `recordDelete` (event-recorder.ts:190) clears the queue first and queues the
  deletion last, so that a restart in between forgets it, and it forgets a file
  that a pull has brought back meanwhile; `upsertEntry` (pull-entry-state-
  applier.ts:500) and the rollback write the row over a change queued since the
  plan; parking a known stale base and giving up an upload (push-service.ts:851,
  895) write the change back as listed, over a newer one; a restart in a pull by
  id after it has cleared a conflict from the queue.
* `exposed` - pieces the user writes into a file that a pull has already decided
  to write over, or that the recorder has not seen when it decides: nobody looks
  at the file again before it is written.
* `torn` - the merge of a window that did not end: see run `device_torn`.

Abstractions. Other devices write only existing files. Entries keep their path;
a deleted file is not created anew, and a restart does not meet a file whose
entry is recorded as deleted (`SecondEntry`). Blocks by size and quota are like
any change that cannot be prepared. The counters of failed commits and uploads
are a choice. Push and pull start when the loop says so in `AutoSync`; here, at
any time when there is something to do.

### Paths

The same device on files that move. State: the server's entries (`feed`, `head`),
the vault (`file`), a row per entry (`rows`), `cursor`, the pull between two of
its windows. A window is planned, its plans are put into batches by the paths
they depend on (`Planned`, `Batches`, `Packed`), and each batch is a sequence of moves
aside, removals, writes and rows (`Steps`) that may stop after any of them. A scan
compares the vault with the rows and recognises a moved file by its bytes.

Abstractions. A file event is recorded at once and a window is applied without
the user, which is what `Device` has the interleavings of; a window that stops half
way is left to the next pull with the user idle. Files are not merged, time and
size of a file change with its bytes, and no entry is damaged.

`astray` names the entries whose path another one has interfered with, and
`Forgone` the bytes such a window takes along: the places where the code does
lose a path or a file, listed in section 4. The properties speak of all else.

### Selection

One file of one device: its path, its bytes, the row of its entry, the server's
entry, the rules, the queue of local work and the scan under way. The decisions
(`DecideVaultPathSync`, `ClassifySyncPath`, `IsForbidden` and the others) are
operators on the segments of a path. The actions are the user's edit, deletion and
change of rules, other devices' commits, the events of Obsidian for files it
reports and the poll for those it does not, a scan with its listing and its
comparison, the fetch of a configuration that is selected again, push and pull.

Abstractions. A file deleted is not created anew; at most one poll is queued; the
attempts to upload a change whose answer was lost are left out; the
configuration folder has its usual name. Rules change and pulls come in between the
listing of a scan and its comparison, as they do in `local-reconcile-service.ts:83-88`:
`listing` is what the scan saw, and `hist.crossed` says that it lacked a file which is
there and selected by the time it is compared (`Overtaken`). `PlainPaths` is what paths
and settings are taken to be: a file is none of the folders of the settings, and no
folder below the configuration is of those that are never synchronized (`.git` and
the like; see section 4).

### TextMerge

`mergeText3` as operators on sequences of lines: the table of the longest common
subsequence, the changes it leaves, their alignment and the merge, with the refusal
above `MaxCells`. A state is a base and what a few edits of either side have made
of it. The reference is not another merge but what any merge owes
(`MergesAreSound`): the same on both devices, all that each side wrote, nothing
that either took out, and no conflict for edits apart from each other.

### Session

The client's end of each connection (`client`: `SyncRealtimeSocketSession` with
its pending requests, heartbeat and phase), the coordinator's (`server`), two
ordered channels between them (`up`, `down`), the network that is gone without
either side being told (`cut`), commits that wait for the object store
(`awaiting`), the vault as far as sessions are told of it and what each plugin knows
of it. A handler of the coordinator is one step, but for the commit. Of the hello this is the
lock of Node; in a Durable Object other messages may come between the limits it reads
and its answer (`control-message-handler.ts:150-178`), which is not looked at.

Abstractions. The vault has one entry; a commit carries one mutation; requests
that only read, or that no other session is told of, are one kind; heartbeats
share a number; frames that the client never sends are left out.

### Plugin

`plugin` is what the plugin holds in memory and on its disk, `tasks` the
asynchronous functions in flight, each at the await it has reached, `world` the
network, the vaults that are gone and the accounts that are valid. Every entry point
is an action, and every continuation; what happens on the local disk between two
waits for the network or the scan is one step. `torn` marks what the code does not
guard: a store that outlives its connection, a pipeline that outlives a
disconnection, a vault that outlives the account it was connected with, an attempt
to connect that nobody waited for. After that sync may run with what does not
belong together, which `plugin_mixed` shows in one of its forms.

Abstractions. The loop is live or not, connected or not. A folder of the polled
kind is configured. Notices, labels and progress are left out.

### Vaults

Rows of the application database (`row`, `plan`), the two queues, the coordinator
of each vault as far as its life goes (`coord`), the object store, and `task`: a
request or message between two calls of other services. `deployment` is one of
three: Workers with queues and billing, a self-hosted Worker that purges inside
the request, and Node, where a coordinator has a lock and its tables outlive a
purge. A queue holds, for each number of failures, the messages that have failed so
often (`queue[v][k]`, `refreshes[k]`): one that fails is delivered again, and dropped
after `PurgeRetries` or `RefreshRetries` times, since `wrangler.jsonc:115-128` sets
`max_retries` and names no dead-letter queue. A paid plan ends by a webhook or because
its period has passed (`Lapses`; `policy-service.ts:81-102` looks at the clock), of which
no coordinator is told. `hist` marks what the properties leave out: requests cut
between two calls (`cut`), a deletion that another request's failure took back
(`stuck`, `back`), a message that was dropped (`dropped`), and vaults whose limits are
behind the plan with nothing on its way (`behind`, see section 4).

Abstractions. A vault holds one entry with one blob; a plan stands for its limits;
a sync token is what a task holds once access has been checked. That the payment
provider delivers a webhook again which the server has not acknowledged is assumed of it.

### Host, FifoLock

`work[t]` is a promise chain: a request, an upgrade, a message, a closed socket, an
alarm; `opened[g]` the coordinator of the g-th time the vault was opened, with its
database handle, the tail of its lock and its timer; then the sockets and the
stages of a shutdown. The lock is what `vault-lock.ts` makes of it, a chain of
predecessors (`prev`, `tail`); `Line` reads a queue out of the chain, and
`FifoLock`, a queue per lock whose first caller runs, is implemented under it
(`LockIsFifo`). This is what `Serialized` assumes in `Coordinator`.

Abstractions. One vault, since vaults share nothing here.

### History

The coordinator's entries and versions with their dates, the device's store, the
active file, the pane, the dialog, the requests under way and the queue of local
work. A list is a page of `PageSize` rows before a cursor; a restore is queued as
the code queues it, asked of the coordinator, and recorded.

Assumptions. The answers of one session come in the order of its requests (one
socket; the server reads these lists without awaiting). Obsidian's file-open event
comes with the change of the active file. The search for the latest restorable
version reads all pages at once. A request lost while its commit runs is an answer
lost. One commit per tick of the clock, so that two versions of a file never
have the same date. The dialog is closed only while it is idle. Previews are only
what keeps the dialog busy.

### MCServer, MCPlugin, MCSession, MCDevice, MCLive

Each EXTENDS one module and instantiates others beside it. A behaviour picks a
`part`; the others stand still in one placeholder state. So the states of a run
are those of its parts added up, not multiplied, and its properties are those of
each part under one name. Where a part has theorems of its own, what is instantiated
is the module with its theorems (`VaultsProofs`, `SelectionProofs`), so that they hold
of the run.

## 4. The runs

| Run | Question | States | Expect |
|---|---|---|---|
| coordinator_durable_object | With handlers interleaving at every await and batches of two: does the accounting add up, is garbage always scheduled and in the end collected, is the feed implemented? | 0.9 M | pass |
| server | Node under the lock, through create, edit, delete, restore, purge and retried uploads: is every kept blob there, does history keep its rows, do states agree with references? Vaults in three deployments: do rows agree, does a deleted vault leave nothing, is a deletion driven, do limits settle? The process: is the lock a queue, does a graceful shutdown wait? | 1.8 M | pass |
| live | In either runtime, with failing jobs and alarms and restarts: does every due date keep its timer, when does the alarm wake early, does everything settle? Does every request of a session settle, and is a dead connection given up? The loop: is requested or stored work always on its way, through stops, resumes and failures; on a calm day, does every change arrive? | 0.3 M | pass |
| auto_sync_paused | Does a stopped loop stay stopped? | | violation |
| device | Recorder, push and pull interleaving, with another device, and one deletion, failure or restart anywhere: does every edit survive, is the checkpoint without gaps, is nothing of others overwritten? Renames, swaps and collisions, with a window that stops half way: is nothing lost, and does a device at rest agree with the server? Is a clean merge sound? | 1.7 M | pass |
| device_torn | Does a pull that fails half-way keep the edits it had read? | | violation |
| paths_edits | Does a window ever destroy what the user wrote and the server lacks? | | violation |
| session | Two plugins, cuts, restarts, slow answers: is the end of a session reported once, do answers find their requests, is no change missed, is a commit known? A change of rules, with pulls and changes between a scan's listing and its comparison: is nothing deleted that nobody deleted, unless the listing was overtaken, nothing private sent, everything selected fetched? | 2.0 M | pass |
| scan_crossed | Does taking a folder out of sync and back never delete its files for others? | | violation |
| rule_back_on | Is a file whose path is selected again the newest? | | violation |
| plugin | Two accounts, two vaults, two tasks, a restart or failure: is the connection always that of the account, vault and store in use; is only their vault dropped? Do the history's screens tell the truth, can a deleted file be restored? | 2.0 M | pass |
| plugin_mixed | Does sync never run over the store of another vault? | | violation |

Some properties are conjunctions of named parts: `NothingIsForgotten` of `MCLive`
and of `AutoSync`, `SessionsAreSound` and `NothingIsMissed` of
`Session`, `DueDatesAreKept` of `Maintenance` (a job in the table has a timer,
garbage has a job, a change has a flush), `RowsAgree`, `LockIsClean`,
`ScreensAreTrue`, `SettledAgrees`, `SelectionIsKept`, `EverythingSettles`. Each
part has a comment of its own where it is defined.

The violations are findings in `PROJECT.json`, each with the line that promises
otherwise.

### Other divergences

The models do what the code does; these have no run of their own.

Coordinator and maintenance
* Under the Durable Object a commit's awaits on the object store do not keep other
  handlers out, as the comment of `vault-lock.ts` says of it; `AwaitsAreIsolated`
  is proved for `Serialized` only, and `coordinator_durable_object` checks the rest
  without it.
* `setTimeout` does not count beyond 2^31 - 1 ms, about 25 days, and fires at once when
  asked to. `NodeMaintenanceScheduler.arm` (line 125) asks it for the date of the
  collector, which lies 30 days ahead of a version's date with the self-hosted
  retention (`policy.ts:98`). So for the first five days or so after a deletion or an edit,
  when nothing else is due, the coordinator wakes, finds nothing due, arms the
  timer and wakes again, without pause; lines 20-27 say that it has the "same
  `maintenance_jobs` table and scheduling logic" as the Durable Object, whose alarm has
  no such limit. `SleepsUntilDue` says exactly when a run leaves such a timer and that
  nothing else ever does; in the run timers count one tick and dates lie up to two
  ahead, so that this happens. `DueDatesAreKept` and `EverythingSettles` hold through
  it: the work is done when it is due.
* A change that arrives during a flush of the health summary is not scheduled anew
  in the Durable Object (`DueDatesAreKept` says so of Node only).
* `NothingKeptIsMissing` needs bodies of their declared size (`Mismatches = FALSE`):
  `routes.ts:92-93` deletes an object by key when a body does not match, and a retry
  may have filled that key meanwhile.

Vaults and host
* A purge message whose delivery fails four times is dropped (`wrangler.jsonc:120`,
  `max_retries` 3, no dead-letter queue). The vault stays marked as deleted and nothing
  drives its purge; only another deletion request does. `DeletionIsDriven` leaves it out
  (`hist.dropped`), and no other vault on that account.
* Limits are those of the plan at the last time they were given. They stay behind, until
  the next refresh or opening gives them again, after a refresh that fails six times
  (`wrangler.jsonc:126`, `max_retries` 5), when the period of a plan passes and no webhook
  says so (`policy-service.ts:89-101`), when a first opening or a refresh reads the plan
  before it changes and writes after the newer refresh, and for a vault that was being
  deleted during a refresh and came back. `LimitsSettle` leaves a vault out from that
  moment until it is given limits again (`hist.behind`).
* With the purge inside the request, a purge that fails takes the deletion back,
  although part of the vault is gone; a test says that it "keeps vault deletion
  retryable when purge enqueue fails". A request cut after the mark
  (`vault/service.ts:120`) leaves a vault that nobody deletes. The limit on the number
  of vaults is counted before the insert and can be exceeded by concurrent requests.
* An alarm under way at `dispose` arms a timer again; a shutdown does not wait for an
  HTTP request whose client has left; a migration that failed once is remembered; a
  socket is registered before the lock is taken.

Loop and plugin
* `openRealtimeSession` checks that it is active before two awaits and sets its state
  after them, so that a stop, or a drop and a resume, in between is overwritten: a
  wider window than that of `auto_sync_paused`. `ActiveReconnects` is checked on calm
  days for that reason.
* A pull that fails before the push of its pass has run holds the push
  (`auto-sync.ts:532`), where the comment at lines 75-79 says that only a push earns
  it. A pass that opens its own session leaves an earlier reconnect timer armed;
  `drain` then reports no idle (`auto-sync.ts:410`), and the status stays at syncing
  over a vault that is up to date.
* A user who switches synchronization off while `ensureAutoSyncState` awaits the scan
  (`runtime/controller.ts:241`) stops a loop that has not started yet, and the pipeline
  then starts it. `SettledIsRight` speaks of pipelines that nothing came between.

Paths
* A tombstone counts as an owner of its last path (`pull-entry-state-internal.ts:252`).
* A change queued by another entry at a plan's path is cleared, and nothing queues it
  again. An adoption of a local file with the same bytes drops the entry's own change
  queued at its old path.
* An entry noted at an excluded path and then moved to a synced one removes or renames
  the user's own file there; one that moves to an excluded path keeps its file and
  still claims its old path.
* The batches leave out the path a move starts from (`vaultMove.from`).
* Two conflict copies prepared within one second have one name (`OneSecond`).
* An item that is put off by itself stays in `deltaEntryIds`.

Selection
* A rule that is turned off and on again, or a pull that brings a file, between the
  listing of a scan and its comparison makes the scan queue the deletion of the file for
  everybody: `local-reconcile-service.ts:83-88` asks rules and store after an await on
  the listing, and `localMutationQueue` does not hold pulls out. `scan_crossed` shows it
  for the rules. `SelectionIsKept` is checked with all these interleavings and leaves out
  the one deletion such a scan has queued (`hist.crossed`); its other parts hold
  regardless.
* A note whose noted revision has no cached blob makes each scan fail as a whole.
* A deletion that was only noted is undone for everybody. A hidden *file* chosen as a
  folder is decided "sync" and never listed, so that it is pulled, then deleted.
* A file in a `.git` or `node_modules` folder of a theme or a snippet
  (`.obsidian/themes/x/.git/config`) is listed, since `shouldSyncVaultConfigPath` does
  not look for such folders, and forbidden for `decideVaultPathSync`, which does. Each
  scan queues it and the next forgets it, although forgetting the local side is meant
  to end that (`local-reconcile-service.ts:351`): `ScansSettle` and `PrivateStaysOut`
  fail with such a path, which `PlainPaths` excludes.
* The configuration that is fetched again overwrites an unknown local file without a
  copy; a failed fetch is not tried again; an edit not yet polled is overwritten by
  a pull. A configuration folder of another name is not recognised.

Merge
* A line with U+2028 or U+2029 in it loses what stands before the separator in any
  merge. When one side takes the last line's end away and the other appends, two lines
  become one. The run has such texts, and `NothingDropped` and `ApartIsMerged` leave
  them out (`Intact`); a test says that the merge "merges independent line edits".

The windows that `hist` marks in `Device`, `torn` in `Plugin` and `hist` in `Vaults`
are listed in section 3.

### Bounds

In `Coordinator` two blobs let an entry change its blob, share it and take it back; the
Durable Object has one blob, two entries and two retentions, so that versions of a blob
expire apart. `MaxChanges` 2 or 3 gives create, edit, delete; `MaxBatch`
2 lets two mutations of a batch meet; `Horizon` covers the grace period of a
staged blob, the retention of a version, and the buckets that jobs are rounded
to, with time to spare for a job to run late. `GcBatch` 1 makes the collector
come back for the rest. No run sets a storage limit: a refused upload changes
nothing, so a limit only removes behaviours. In `Maintenance` `MaxTime` exceeds
the longest backoff, the longest delay of the collector and the flush interval,
with time left to settle; two delays of the collector are enough for a date to
be overwritten by another, and the longer of them, like `StaleDelay`, is beyond
`TimerMax` = 1. In `AutoSync` two local edits let one arrive while the
other is pushed (one on days that are not calm, `FewChanges`); two faults let a failure
follow a recovery; three calls let the loop be started, stopped and started again.

In `Device` one entry is a text file that exists and one is created by the
device, so that their positions mix in a batch, in pages (`WindowSize` 1) and
around the checkpoint; a piece of the user's and one of another device make
every kind of conflict and merge of two; `MaxTroubles` 1 is one deletion, restart
or half-done failure at any point, and `MaxStaleRejections` is 2 where the code
counts to 4, so that the count is reached with few changes. One entry that the
device creates, with three troubles, was also checked. In `Paths` three entries
on two paths and a hidden one make swaps, chains and collisions, two changes of
others and one of the user's with one window that stops; also checked once, with
the same result: two acts of the user and windows of two without troubles (1.0 M
states), three changes (2.1 M), two acts with two changes (1.4 M), the last two
without a hidden name.

In `Session` two plugins and two connections let one session replace another or
stand beside it; one fault is a cut, a restart, a refusal or a slow answer. Devices
that are ahead of the server meet one that does not know every message, the others
one that does; all four combinations were checked once (2.1 M states). The
liveness run has one plugin, two faults and no changes of the policy. In
`Selection` one act of the user, one of others and two changes of the rules are
the shortest history in which a file is excluded, changed and selected again;
two writes of others were checked once (4.1 M states). `MaxCells` 20 lets the merge be
refused for size. In `Vaults` two vaults, two users, two tasks and four requests let a
name be taken again, a grant be cut off and a deletion meet an opening; with `PurgeRetries` and
`RefreshRetries` 1 two faults use up the deliveries of a message, so that one is dropped
(the code has 3 and 5; the proofs are for any number). In `Host`
three tasks queue up behind one another and two generations
let a vault be opened again; four tasks were checked once (0.6 M states). In
`Plugin` two accounts and two vaults can be mistaken for each other; two tasks
overtake each other. In `History` two files and pages of one row make every list
longer than a page.

The clock stops at its bound, users stop at theirs, and a quiet system has nothing
to do: that is why deadlock is not checked where `CHECK_DEADLOCK FALSE` stands.
Each passing run takes from two to four minutes with two workers.

### Fairness

Handlers that were let in finish (weak), the alarm fires when due
(weak: the platform and `setTimeout` promise it), the process is started again
(weak), and time passes (strong, since actions of others may intervene). Clients
promise nothing. In `AutoSync` timers fire, the store and the network answer or
fail, and promises settle (weak); faults are finitely many. In `Session` the
client's timers fire, what is on the wire arrives or the connection is cut, and a
commit that waits for the object store returns (all weak); that a request times out
is assumed only of connections that are cut, since the answers of others arrive.
The other runs check safety only and assume none.

A behaviour of `live` has one part, and actions of the others are never enabled in it.
So `MCFairness` states one condition for three actions of different parts, which is
that condition on each of them: TLC then has a third of them to look at.

## 5. The proofs


The first part of `ServerProofs` proves of the coordinator, for any sets of entries,
blobs, requests and uploads, any bounds and either runtime:

| Theorem | Property | Argument |
|---|---|---|
| TypeCorrect | TypeOK | inductive as it stands |
| FeedIsOrdered | FeedInOrder | inductive with types |
| FeedIsImplemented | ImplementsFeed | accepting a mutation is one change, all else stutters; needs FeedInOrder so that positions are new |
| LiveIsReferenced | LiveIffReferenced | strengthened by what a transaction under way still owes its blobs |
| UsedIsAccounted | UsedMatchesRows | strengthened by the cardinality of the blobs table, which is finite; staging and every way of removing a row change both sides |
| HistoryIsKept | HistoryKeepsBlob | a version that has not expired pins its row; the collector and purges respect the pin at their transaction, not at their first look |
| GarbageStaysScheduled | GarbageIsScheduled | every step that makes a row collectible defers a job, or leaves an earlier one |
| LockIsolatesAwaits | AwaitsAreIsolated | assumes Serialized |
| NothingGoesMissing | NothingKeptIsMissing | assumes Serialized and no mismatching bodies; the invariant names, for each handler that awaits, the objects it has decided to delete and why nothing refers to them |

`FeedInOrder` and `AwaitsAreIsolated` are proved and no run repeats them. The other
properties in the table are checked by `coordinator_durable_object` or `server`.

The other modules prove one inductive invariant each, and what follows from it.

| Theorem | Property | Argument |
|---|---|---|
| MaintenanceProofs!TypeCorrect, DueDatesStayKept | TypeOK, DueDatesAreKept | one invariant: types, the alarm is armed for its jobs unless a run of it is under way, the flush that is only in memory will be written |
| MaintenanceProofs!SleepsUntilNextDue | SleepsUntilDue | no hypothesis on dates or timers: while a run has found nothing due, an armed alarm is for the earliest date, or fired at once because that date was further ahead than the timer counts, and then it still is at every earlier instant |
| MaintenanceProofs!LoopForgetsNothing | NothingIsForgotten | the run is its jobs, its sessions or its loop: what is proved of `AutoSyncProofs` holds of its instance |
| MaintenanceProofs!BackoffType | | the doubling delay is a natural number within its limit, whatever the count |
| AutoSyncProofs!TypeCorrect, NothingStaysForgotten | | assume `AutoSyncBounds`; work that waits has something that drives it: the flag of a pass under way, a timer, a reconnect, or a start that has not returned. The invariant says which flags and timers each stage of the loop has, and that an attempt to connect is one that the loop still wants |
| ServerProofs!ServerLockIsClean, LockExcludes | LockIsClean | the promises of a lock are one line: each has one predecessor, no two have the same, there are no circles, and the tail is the last. So at most one of them is first |
| ServerProofs!ServerGracefulWaits | GracefulWaits | the stages of a shutdown are passed in order and what they waited for stays finished |
| VaultsProofs!RowsStayAgreed | RowsAgree | names are unique among rows that are kept; a role is given only with a wrapper, in either order of the two writes |
| VaultsProofs!GoneStaysEmpty | GoneStaysGone | every task that may write a coordinator holds its lock or looked at a row that was still there; a purge marks the row before it looks at anything |
| VaultsProofs!DeletionStaysDriven | DeletionIsDriven | a row that is marked has a message in the queue or a task between mark and message; only a message that failed for the last time goes without leaving one, and is in `dropped` |
| VaultsProofs!LimitsAlwaysSettle | LimitsSettle | a coordinator whose limits differ from the plan is `behind`, or has a webhook or a refresh that will write them or, failing for the last time, put it there. A webhook or a lapse changes the plan and nothing else |
| ServerProofs!ServerRowsAgree, ServerGoneStaysGone, ServerDeletionIsDriven, ServerLimitsSettle | the same four, as `server` checks them | the server is its parts, one at a time: what is proved of `VaultsProofs` holds of its instance |
| SessionProofs!AlwaysTyped | | types of both ends, of the wire and of the log |
| SessionProofs!EveryEditHasOneFate | CommitsAreKnown | the log names every edit once; an edit under way that is in the log is there where its base says; an answer, a refusal or a loss on the wire says what the log says |
| SessionProofs!SessionsAreAlwaysSound | SessionsAreSound | every number of a request is in one place at a time: pending, on its way up, being committed, or on its way down. So the end of a session finds each of them once |
| SessionProofs!NothingIsEverMissed | NothingIsMissed | for each session that the server still counts as open, the last message on the wire about the cursor, the policy or the storage is the newest, or nothing is on the wire and the plugin has it. An own edit is exempt until its answer arrives, which has the cursor; a hello that was answered before a change has the announcement behind it |
| DeviceProofs!TypeOKIsKept | | `Types` says the shape of each variable at each point of a pass; the run's `DeviceTypeOK` adds the types of `Paths` |
| DeviceProofs!CheckpointIsKept | CheckpointHasNoGap | `NoGap`: what each stage of a pass knows of the feed. Positions are distinct and none is beyond the head; an accepted mutation is known with the revision the server gave it; a page holds every change between the position it was read after and its last; a plan is of an entry as its row was or newer. So a checkpoint that moves passes only changes whose rows are written, by this pull or by the push that made them |
| DeviceProofs!OthersAreKept | KeepsOtherDevices | `Keep`: a change is sent with a base; whenever the server still has that base, the content of the change holds all of it. For this, what is queued, listed, read into a plan or about to be recorded holds the revision it names as its base, and one mutation id has one content, so that a replay is the change it replays |
| DeviceProofs!EditsAreKept | EditsSurvive | `Edits`, as long as `raced` is empty: see below |
| PluginProofs!PluginTypes, ConnectionStaysOurs, SettlesRight | TypeOK, ConnectionIsOurs, SettledIsRight | one invariant, `PluginInv`: see below |
| PluginProofs!TheirVaultIsDropped | OnlyTheirVaultIsDropped | an action property, from the same invariant: every step that empties the store is of a disconnection or a sign-out, or found that vault gone; that it was that vault, and not another that came to be stored while the task waited, is `Together` |
| PluginProofs!RunKeepsPlugin | | the run is the plugin or its version history: what is proved of the plugin holds of it |
| PluginProofs!DeletedStaysRestorable | DeletedIsRestorable | one invariant of `History`: versions of a file with one date hold the same and none is dated after its entry; a deletion that is not purged has a version of its own date with what it took away, so that this one is the newest. A restore under way deletes nothing: what it asks for has a content, or its base is of a file that was there |
| SelectionProofs!SelectionStaysKept | | assumes `PlainPaths`; rules and pulls come between listing and comparison; see below |
| SessionProofs!RunKeepsSelection | SelectionIsKept | the run is its sessions or its file: what is proved of any paths and settings holds of it |

What the user wrote. A piece is *safe* in a conflict copy, on the server, or where
`discarded`, `exposed` or `torn` account for it; it is within *reach* of an entry if
it is safe, in its file, or in a merge of it that is only in memory (`TornOf`). That
every piece is within reach does not carry itself from step to step. As long as
`raced` is empty, `Edits` adds what each step that takes a piece away relies on:

* `CopiesReach`: what a row, the recorder or a pull holds of a file is within reach,
  so that comparing with it, or writing it again, loses nothing;
* `BroughtIsSafe`, `PullSpares`: what a pull brings is on the server or was; what it
  writes over is safe already, or the plan has it and copies it or merges it first;
* `RecordedSafe`, `SentHas`: a file recorded with no content queued is safe; a change
  that is being sent has all that is recorded, and once accepted it is safe;
* `DeletesGone`, `DeletedWasBorn`: where a deletion is being recorded there is no file,
  and a pull that has written the row of an entry meets no recorder at work on it.

The proof rests on the three before: a step of the push that the server accepts takes
nothing from it because of `Keep`, and what a plan or a base is worth is in `NoGap`.

The plugin. Its tasks share one record, `plugin`, and each goes on after an await with
what it finds there. `PluginInv` says of it, beside the shapes of records (`Types`):

* `Together`, as long as nothing was torn (what section 3 says `torn` marks): the
  connection, the cached token and the attempt at another are for the vault whose store
  is open, this local vault and this account, or the attempt is for a vault that is gone; nothing opens a connection while a vault is being detached,
  and none is connected or stored while one is being connected. An answer to an
  attempt that was overtaken is dropped because it is compared with the attempt that
  is under way now, which is what `Sound` speaks of.
* `CleanIsRight`: a task that nothing came between is alone, and what it waits for
  still holds of the plugin when it returns (`Promised`): a verified identity for the
  token it asked with, a stored vault for a restore, readiness for a reconcile or an
  opening. What it leaves is `Right` when it is done. Without network no attempt is
  left that could write over what the user is told.

The functions that several pipelines call (`EnsureSession`, `StartLoop`, the restore of
a vault, the check of an account) have lemmas of their own that say what
each keeps and where it leads; an action cites those of the functions it calls.

What is selected. The invariant of `SelectionProofs` first relates three functions that
the code keeps in different files: for a plain path, what is listed by a scan, what is
selected and what is not excluded are the same (`SelectedIs`, `SelectedIsListed`,
`RulesSay`). Then, of the row: its revision is one of the server's, and a queued change
is of the content and over the revision that the row has (`Revisions`); a revision that
the device has not fetched has bytes that nothing on the device has (`Fresh`); unless one
was only noted, the revision of the row is one the file has had (`Noted`); a row with
nothing queued and a file agrees with what is known of the server, or that was noted, or
the configuration is about to be applied again (`Agreed`); and a known file that nobody
deleted is there, its deletion not queued but by a scan whose listing was overtaken
(`Wanted`). What a scan has listed is not private (`Scans`); that is all that is known of
a listing, since rules and file change under it. That a second scan has nothing to do,
and that a device at rest has what is selected, follow for each kind of path.

Hypotheses. `VaultIds` says that the word for "no vault" is no vault, that the owner is a user
and that the retries of the queues are natural numbers; `AutoSyncBounds` says the same of
the bounds of the loop;
`ServerIds` is the same of the run, with numbers of the host's tasks that are positive:
an `ASSUME` that TLC evaluates, and so is `PlainPaths` in `MCSession`. The constants of
the other modules carry the assumptions stated where they are declared; of `Device`,
that its entries are finitely many, that `Gone` is no piece, and that pieces of the
user are not those of others.

The invariants are conjunctions of named parts, and each action has a lemma of its
own. A tuple on the wire is spoken of by the set of its elements (`Elements`), and
by its last word on a subject (`Word`, `Silent`). Where a proof needs induction on
a number, it takes the least counterexample. `Backoff` is a recursive function for
this reason, and `Ascending` in `History` is not a filter of a sequence. Three
definitions were wrong and changed in being proved: the arms of `Informed` in `Session`
and those of `Readiness` in `Plugin` overlapped, and `TypeOK` of `Vaults` did not say
that messages are counted in natural numbers.

Only model-checked: liveness (`GarbageIsCollected`, `EverythingSettles`,
`ChangesArrive`, `SessionsSettle`), which is beyond the provers; that `Host`
implements `FifoLock`, whose mapping reads a queue out of a chain by recursion; of
`Device`, that a settled file is the server's (`SettledHasArrived`); what the
screens of `History` show (`ScreensAreTrue`); and the safety of `Paths` and
`TextMerge`. Of these `TextMerge` and `Paths` compute by recursion on data, and
`History` sorts and filters the rows that a screen shows.

## 6. Not modelled

* Encryption and key derivation: computation without state.
* The settings tab, views other than version history, status bar, notices,
  translations: presentation, which keeps no state the sync depends on but the
  settings that `Selection` and `Plugin` take as inputs.
* Sign-up, mail, invitations, the pages of the payment provider, the web site.
  What an organization's plan means for its vaults is in `Vaults`.
* Of modelled parts: blocks by size and quota and the counters of failed uploads
  (a choice in `Device`), damaged entries and their repair, GET of a blob and objects
  written in part, a token renewed ahead of its expiry, sessions that version history
  borrows from the loop while it is stopped.
* The SQL text, migrations and the wire format of messages.
