------------------------------- MODULE Vaults -------------------------------
(***************************************************************************)
(* The life of the vaults of one organization: creating them, granting     *)
(* access, opening and filling them, deleting them, and the limits their   *)
(* plan gives them.  The rows of the application database (vault rows,     *)
(* memberships, key wrappers, the subscription) and the coordinator of     *)
(* each vault change one at a time; a request is a task that waits between *)
(* them, so that other requests come in between.                           *)
(*                                                                         *)
(* Three deployments.  "managed": Workers with a purge queue and billing.  *)
(* "worker": self-hosted Worker, the purge runs inside the request that    *)
(* deletes.  "node": the same in one process, where the entry points of a  *)
(* coordinator take the lock of the vault and tables outlive a purge.      *)
(*                                                                         *)
(* Abstractions.  A vault holds one entry with one blob.  A plan stands    *)
(* for its limits.  Reads of one request with no effect in between are one *)
(* step.  A sync token is what a task holds once access has been checked.  *)
(***************************************************************************)
EXTENDS Naturals, FiniteSets

CONSTANTS Vaults,      \* ids the server may give
          Users,       \* accounts of the organization
          Owner,       \* the user who owns the organization, one of them
          Names,       \* names of vaults
          Deployments, \* which are looked at: "managed", "worker", "node"
          Tasks,       \* requests and messages under way at once
          PurgeRetries,   \* deliveries of a purge message after the first: max_retries
          RefreshRetries, \* deliveries of a refresh message after the first: max_retries
          MaxRequests, \* bound: requests and webhooks
          MaxFaults    \* bound: failed calls, cut requests and restarts

VARIABLES deployment, \* which of the three this is
          row,        \* row[v]: the vault row, with its memberships and wrappers
          plan,       \* the plan the subscription row gives
          queue,      \* queue[v][k]: messages to purge v that have failed k times
          refreshes,  \* refreshes[k]: messages to refresh the policy that have failed k times
          coord,      \* coord[v]: the coordinator of the vault
          objects,    \* vaults whose blob is in the object store
          task,       \* task[t]: a request or message under way
          requests,   \* requests made so far
          faults,     \* faults so far
          hist        \* what the properties leave out or look back to

vars == <<deployment, row, plan, queue, refreshes, coord, objects, task, requests, faults, hist>>

-----------------------------------------------------------------------------
(* Rows.                                                                    *)

NoRow == [kept |-> FALSE, name |-> "", deleted |-> FALSE, purge |-> "none",
          role |-> [u \in Users |-> "none"], wrappers |-> {}]
Active(v) == row[v].kept /\ ~row[v].deleted

CanAccess(u, v) == Active(v) /\ row[v].role[u] # "none"
CanManage(u, v) == CanAccess(u, v) /\ row[v].role[u] \in {"owner", "admin"}
CanGrant(u, v) == CanManage(u, v) \/ (Active(v) /\ u = Owner)

\* readVaultBootstrapForUser: what a device is given to unlock the vault.
Bootstrap(u, v) == {w \in row[v].wrappers : w.user = u}

ActiveVaults == {v \in Vaults : Active(v)}
NameTaken(n) == \E v \in ActiveVaults : row[v].name = n

\* A new row with its wrapper and its owner, in one batch.
Created(u, n) ==
  [kept |-> TRUE, name |-> n, deleted |-> FALSE, purge |-> "none",
   role |-> [NoRow.role EXCEPT ![u] = "owner"],
   wrappers |-> {[kind |-> "password", user |-> u]}]

\* The unique index admits v under the name n.
IndexAdmits(v, n) == \A w \in ActiveVaults \ {v} : row[w].name # n

\* Updates of the row: each says which rows it touches.
MarkQueued(r) == IF r.deleted THEN r ELSE [r EXCEPT !.deleted = TRUE, !.purge = "queued"]
MarkRunning(r) == IF r.deleted THEN [r EXCEPT !.purge = "running"] ELSE r
MarkFailed(r) == IF r.deleted THEN [r EXCEPT !.purge = "failed"] ELSE r
MarkQueueFailed(r) == IF r.kept THEN [r EXCEPT !.deleted = FALSE, !.purge = "failed"] ELSE r

-----------------------------------------------------------------------------
(* Plans.                                                                   *)

\* A paid plan ends when a webhook says so, and when its period has.
SelfHosted == deployment # "managed"
Policy == IF SelfHosted THEN "self_hosted" ELSE plan
\* syncedVaults of the plan; zero is no limit.
SyncedVaults(p) == IF p = "self_hosted" THEN 0 ELSE 1

-----------------------------------------------------------------------------
(* Coordinators.                                                            *)

NewCoordinator ==
  [tables |-> TRUE, state |-> FALSE, limits |-> "none", entry |-> FALSE,
   purged |-> FALSE, sockets |-> {}, lock |-> FALSE]

\* vaultStateExistsFor: the statement fails when there are no tables.
HasState(c) == c.tables /\ c.state

\* Mutant: the tables of a purged Durable Object stay, as they do on Node.
TablesStay(c) == TRUE
TablesAfterPurge(c) == deployment = "node"
\* purgeVaultState.
Emptied(c) == [c EXCEPT !.tables = TablesAfterPurge(c), !.state = FALSE, !.limits = "none",
                        !.entry = FALSE]
\* A new instance migrates its storage and remembers nothing else.
Restarted(c) == [c EXCEPT !.tables = TRUE, !.purged = FALSE, !.sockets = {}, !.lock = FALSE]

\* The lock of the vault, which only Node has.
Enters(v) == deployment = "node" => ~coord[v].lock
Locked(c) == [c EXCEPT !.lock = deployment = "node"]
Unlocked(c) == [c EXCEPT !.lock = FALSE]

-----------------------------------------------------------------------------
(* Tasks.                                                                   *)

Idle == [kind |-> "none", pc |-> "idle", user |-> Owner, vault |-> "none", name |-> "",
         plan |-> "none", list |-> {}, failed |-> {}, tries |-> 0]
At(t, kind, pc) == task[t].kind = kind /\ task[t].pc = pc
Goes(t, pc) == task' = [task EXCEPT ![t].pc = pc]
Ends(t) == task' = [task EXCEPT ![t] = Idle]
Begins(t, u, v, kind, pc) ==
  /\ task[t] = Idle
  /\ requests < MaxRequests
  /\ requests' = requests + 1
  /\ task' = [task EXCEPT ![t] = [Idle EXCEPT !.kind = kind, !.pc = pc, !.user = u, !.vault = v]]

\* Messages that wait to be delivered.
PurgeWaits(v) == \E k \in 0..PurgeRetries : queue[v][k] > 0
RefreshWaits == \E k \in 0..RefreshRetries : refreshes[k] > 0
Sent(q) == [q EXCEPT ![0] = @ + 1]
Taken(q, k) == [q EXCEPT ![k] = @ - 1]

\* Mutant: a failed message is acknowledged.
Acknowledged(q, k, last) == q
\* A message that fails is delivered again; after the last time it is dropped, for there is
\* no dead-letter queue.
Retried(q, k, last) == IF k < last THEN [q EXCEPT ![k + 1] = @ + 1] ELSE q

Fault == faults < MaxFaults /\ faults' = faults + 1
Working(v) == {t \in Tasks : task[t].kind \in {"delete", "purge"} /\ task[t].vault = v}

Init ==
  /\ deployment \in Deployments
  /\ row = [v \in Vaults |-> NoRow]
  /\ plan = "free"
  /\ queue = [v \in Vaults |-> [k \in 0..PurgeRetries |-> 0]]
  /\ refreshes = [k \in 0..RefreshRetries |-> 0]
  /\ coord = [v \in Vaults |-> NewCoordinator]
  /\ objects = {}
  /\ task = [t \in Tasks |-> Idle]
  /\ requests = 0 /\ faults = 0
  /\ hist = [made |-> {}, filled |-> {}, stuck |-> {}, cut |-> {}, back |-> {},
             dropped |-> {}, behind |-> {}]

-----------------------------------------------------------------------------
(* Creating a vault: the limit and the name are looked up before the insert. *)

Create(t, u, n) ==
  /\ task[t] = Idle /\ requests < MaxRequests
  /\ requests' = requests + 1
  /\ task' = [task EXCEPT ![t] = [Idle EXCEPT !.kind = "create", !.pc = "count", !.user = u,
                                              !.name = n, !.plan = Policy]]
  /\ UNCHANGED <<deployment, row, plan, queue, refreshes, coord, objects, faults, hist>>

CreateChecks(t) ==
  /\ At(t, "create", "count")
  /\ LET limit == SyncedVaults(task[t].plan) IN
     IF (limit > 0 /\ Cardinality(ActiveVaults) >= limit) \/ NameTaken(task[t].name)
     THEN Ends(t) ELSE Goes(t, "insert")
  /\ UNCHANGED <<deployment, row, plan, queue, refreshes, coord, objects, requests, faults, hist>>

CreateInserts(t) ==
  /\ At(t, "create", "insert")
  /\ Ends(t)
  /\ \E v \in Vaults \ hist.made :
       IF IndexAdmits(v, task[t].name)
       THEN /\ row' = [row EXCEPT ![v] = Created(task[t].user, task[t].name)]
            /\ hist' = [hist EXCEPT !.made = @ \cup {v}]
       ELSE UNCHANGED <<row, hist>>
  /\ UNCHANGED <<deployment, plan, queue, refreshes, coord, objects, requests, faults>>

-----------------------------------------------------------------------------
(* Granting access and replacing the password wrapper.                      *)

Grant(t, u, w, v) ==
  /\ CanGrant(u, v) /\ u # w
  /\ Begins(t, w, v, "grant", "first")
  /\ UNCHANGED <<deployment, row, plan, queue, refreshes, coord, objects, faults, hist>>

\* Inserts that refer to a vault row fail once the row is gone.
WithWrapper(r, u, kind) ==
  IF r.kept THEN [r EXCEPT !.wrappers = @ \cup {[kind |-> kind, user |-> u]}] ELSE r
WithMember(r, u, role) == IF r.kept THEN [r EXCEPT !.role[u] = role] ELSE r

\* Mutant: the membership is written before the wrapper it needs.
MemberFirst(r, u, first) ==
  IF first THEN WithMember(r, u, "member") ELSE WithWrapper(r, u, "member")
GrantWrites(r, u, first) ==
  IF first THEN WithWrapper(r, u, "member") ELSE WithMember(r, u, "member")

GrantStep(t) ==
  /\ task[t].kind = "grant"
  /\ LET v == task[t].vault
         first == task[t].pc = "first" IN
     /\ row' = [row EXCEPT ![v] = GrantWrites(@, task[t].user, first)]
     /\ IF first /\ row[v].kept THEN Goes(t, "second") ELSE Ends(t)
  /\ UNCHANGED <<deployment, plan, queue, refreshes, coord, objects, requests, faults, hist>>

ReplaceWrapper(t, u, v) ==
  /\ CanManage(u, v)
  /\ Begins(t, u, v, "rewrap", "write")
  /\ UNCHANGED <<deployment, row, plan, queue, refreshes, coord, objects, faults, hist>>

WrapperReplaced(t) ==
  /\ At(t, "rewrap", "write")
  /\ row' = [row EXCEPT ![task[t].vault] = WithWrapper(@, task[t].user, "password")]
  /\ Ends(t)
  /\ UNCHANGED <<deployment, plan, queue, refreshes, coord, objects, requests, faults, hist>>

-----------------------------------------------------------------------------
(* Deleting a vault.                                                        *)

Delete(t, u, v) ==
  /\ CanManage(u, v)
  /\ Begins(t, u, v, "delete", "mark")
  /\ UNCHANGED <<deployment, row, plan, queue, refreshes, coord, objects, faults, hist>>

PurgesInline == SelfHosted

DeletionMarked(t) ==
  /\ At(t, "delete", "mark")
  /\ row' = [row EXCEPT ![task[t].vault] = MarkQueued(@)]
  /\ Goes(t, IF PurgesInline THEN "running" ELSE "enqueue")
  /\ UNCHANGED <<deployment, plan, queue, refreshes, coord, objects, requests, faults, hist>>

PurgeEnqueued(t) ==
  /\ At(t, "delete", "enqueue")
  /\ queue' = [queue EXCEPT ![task[t].vault] = Sent(@)]
  /\ Ends(t)
  /\ UNCHANGED <<deployment, row, plan, refreshes, coord, objects, requests, faults, hist>>

EnqueueFails(t) ==
  /\ At(t, "delete", "enqueue") /\ Fault
  /\ Goes(t, "restore")
  /\ UNCHANGED <<deployment, row, plan, queue, refreshes, coord, objects, requests, hist>>

\* The vault comes back, unless another has taken its name meanwhile.
Restored(t) ==
  /\ At(t, "delete", "restore")
  /\ LET v == task[t].vault IN
     IF row[v].deleted /\ ~IndexAdmits(v, row[v].name)
     THEN hist' = [hist EXCEPT !.stuck = @ \cup {v}] /\ UNCHANGED row
     ELSE /\ row' = [row EXCEPT ![v] = MarkQueueFailed(@)]
          /\ hist' = [hist EXCEPT !.back = @ \cup {v}]
  /\ Ends(t)
  /\ UNCHANGED <<deployment, plan, queue, refreshes, coord, objects, requests, faults>>

-----------------------------------------------------------------------------
(* The purge, by a message of the queue or inside the request.              *)

MessageArrives(t, v, k) ==
  /\ task[t] = Idle /\ queue[v][k] > 0
  /\ queue' = [queue EXCEPT ![v] = Taken(@, k)]
  /\ task' = [task EXCEPT ![t] = [Idle EXCEPT !.kind = "purge", !.pc = "running", !.vault = v,
                                              !.tries = k]]
  /\ UNCHANGED <<deployment, row, plan, refreshes, coord, objects, requests, faults, hist>>

PurgeRuns(t) ==
  /\ task[t].pc = "running"
  /\ row' = [row EXCEPT ![task[t].vault] = MarkRunning(@)]
  /\ Goes(t, "close")
  /\ UNCHANGED <<deployment, plan, queue, refreshes, coord, objects, requests, faults, hist>>

\* The coordinator takes no more maintenance and closes its sockets.
SocketsClosed(t) ==
  /\ task[t].pc = "close" /\ Enters(task[t].vault)
  /\ coord' = [coord EXCEPT ![task[t].vault] = Locked([@ EXCEPT !.purged = TRUE, !.sockets = {}])]
  /\ Goes(t, "prefix")
  /\ UNCHANGED <<deployment, row, plan, queue, refreshes, objects, requests, faults, hist>>

StateEmptied(t) ==
  /\ task[t].pc = "prefix"
  /\ LET v == task[t].vault IN
     /\ objects' = objects \ {v}
     /\ coord' = [coord EXCEPT ![v] = Unlocked(Emptied(@))]
  /\ Goes(t, "remove")
  /\ UNCHANGED <<deployment, row, plan, queue, refreshes, requests, faults, hist>>

\* The object store fails before or after it has deleted the blob.
PrefixFails(t) ==
  /\ task[t].pc = "prefix" /\ Fault
  /\ objects' \in {objects, objects \ {task[t].vault}}
  /\ coord' = [coord EXCEPT ![task[t].vault] = Unlocked(@)]
  /\ Goes(t, "failed")
  /\ UNCHANGED <<deployment, row, plan, queue, refreshes, requests, hist>>

RowRemoved(t) ==
  /\ task[t].pc = "remove"
  /\ row' = [row EXCEPT ![task[t].vault] = NoRow]
  /\ Ends(t)
  /\ UNCHANGED <<deployment, plan, queue, refreshes, coord, objects, requests, faults, hist>>

RemovalFails(t) ==
  /\ task[t].pc = "remove" /\ Fault
  /\ Goes(t, "failed")
  /\ UNCHANGED <<deployment, row, plan, queue, refreshes, coord, objects, requests, hist>>

PurgeFailed(t) ==
  /\ task[t].pc = "failed"
  /\ LET v == task[t].vault
         k == task[t].tries IN
     /\ row' = [row EXCEPT ![v] = MarkFailed(@)]
     /\ IF task[t].kind = "purge"
        THEN /\ Ends(t) /\ queue' = [queue EXCEPT ![v] = Retried(@, k, PurgeRetries)]
             /\ hist' = [hist EXCEPT !.dropped = IF k < PurgeRetries THEN @ ELSE @ \cup {v}]
        ELSE Goes(t, "restore") /\ UNCHANGED <<queue, hist>>
  /\ UNCHANGED <<deployment, plan, refreshes, coord, objects, requests, faults>>

-----------------------------------------------------------------------------
(* Opening and filling a vault, with a token that was issued before.        *)

\* The coordinator of v has been given the limits of the plan p.
IsBehind(v) == coord[v].state /\ coord[v].limits # Policy
NotesLimits(v, p) == hist' = [hist EXCEPT !.behind = IF p = Policy THEN @ \ {v} ELSE @ \cup {v}]

Open(t, u, v) ==
  /\ CanAccess(u, v)
  /\ Begins(t, u, v, "open", "ensure")
  /\ UNCHANGED <<deployment, row, plan, queue, refreshes, coord, objects, faults, hist>>

Accepted(c, u) == [c EXCEPT !.sockets = @ \cup {u}]
\* A Durable Object accepts the socket in the same handler; Node upgrades
\* and registers it after the lock is released.
AfterState(t, c) ==
  IF deployment = "node" THEN Goes(t, "accept") /\ coord' = [coord EXCEPT ![task[t].vault] = Unlocked(c)]
  ELSE Ends(t) /\ coord' = [coord EXCEPT ![task[t].vault] = Accepted(c, task[t].user)]

EnsureState(t) ==
  /\ At(t, "open", "ensure") /\ Enters(task[t].vault)
  /\ LET c == coord[task[t].vault] IN
     IF ~c.tables THEN Ends(t) /\ UNCHANGED coord
     ELSE IF c.state THEN AfterState(t, c)
     ELSE Goes(t, "limits") /\ coord' = [coord EXCEPT ![task[t].vault] = Locked(@)]
  /\ UNCHANGED <<deployment, row, plan, queue, refreshes, objects, requests, faults, hist>>

ReadInitialLimits(t) ==
  /\ At(t, "open", "limits")
  /\ IF Active(task[t].vault)
     THEN task' = [task EXCEPT ![t].pc = "insert", ![t].plan = Policy] /\ UNCHANGED coord
     ELSE Ends(t) /\ coord' = [coord EXCEPT ![task[t].vault] = Unlocked(@)]
  /\ UNCHANGED <<deployment, row, plan, queue, refreshes, objects, requests, faults, hist>>

StateInserted(t) ==
  /\ At(t, "open", "insert")
  /\ LET c == coord[task[t].vault] IN
     /\ IF ~c.tables THEN Ends(t) /\ UNCHANGED coord
        ELSE AfterState(t, IF c.state THEN c ELSE [c EXCEPT !.state = TRUE, !.limits = task[t].plan])
     /\ IF c.tables /\ ~c.state THEN NotesLimits(task[t].vault, task[t].plan) ELSE UNCHANGED hist
  /\ UNCHANGED <<deployment, row, plan, queue, refreshes, objects, requests, faults>>

SocketRegistered(t) ==
  /\ At(t, "open", "accept")
  /\ coord' = [coord EXCEPT ![task[t].vault] = Accepted(@, task[t].user)]
  /\ Ends(t)
  /\ UNCHANGED <<deployment, row, plan, queue, refreshes, objects, requests, faults, hist>>

Upload(t, u, v) ==
  /\ CanAccess(u, v)
  /\ Begins(t, u, v, "upload", "stage")
  /\ UNCHANGED <<deployment, row, plan, queue, refreshes, coord, objects, faults, hist>>

Staged(t) ==
  /\ At(t, "upload", "stage") /\ Enters(task[t].vault)
  /\ IF HasState(coord[task[t].vault]) THEN Goes(t, "put") ELSE Ends(t)
  /\ UNCHANGED <<deployment, row, plan, queue, refreshes, coord, objects, requests, faults, hist>>

ObjectPut(t) ==
  /\ At(t, "upload", "put")
  /\ objects' = objects \cup {task[t].vault}
  /\ Goes(t, "commit")
  /\ UNCHANGED <<deployment, row, plan, queue, refreshes, coord, requests, faults, hist>>

\* The commit finds the blob it names staged and in the store, or fails.
Committed(t) ==
  /\ At(t, "upload", "commit") /\ Enters(task[t].vault)
  /\ LET v == task[t].vault IN
     IF HasState(coord[v]) /\ v \in objects
     THEN /\ coord' = [coord EXCEPT ![v].entry = TRUE]
          /\ hist' = [hist EXCEPT !.filled = @ \cup {v}]
     ELSE UNCHANGED <<coord, hist>>
  /\ Ends(t)
  /\ UNCHANGED <<deployment, row, plan, queue, refreshes, objects, requests, faults>>

-----------------------------------------------------------------------------
(* The plan changes: a webhook of the payment provider, and the refresh of  *)
(* the limits in every coordinator.                                         *)

\* An event that changes nothing and finds nothing behind is left out.
Webhook(t, p) ==
  /\ ~SelfHosted /\ (p # plan \/ hist.behind # {})
  /\ task[t] = Idle /\ requests < MaxRequests
  /\ requests' = requests + 1
  /\ task' = [task EXCEPT ![t] = [Idle EXCEPT !.kind = "webhook", !.pc = "first", !.plan = p]]
  /\ UNCHANGED <<deployment, row, plan, queue, refreshes, coord, objects, faults, hist>>

\* Mutant: the refresh is asked for before the row has changed.
EnqueuesFirst == TRUE
EnqueuesAt == FALSE

WebhookStep(t) ==
  /\ task[t].kind = "webhook"
  /\ LET first == task[t].pc = "first" IN
     /\ IF first = EnqueuesAt
        THEN refreshes' = Sent(refreshes) /\ UNCHANGED plan
        ELSE plan' = task[t].plan /\ UNCHANGED refreshes
     /\ IF first THEN Goes(t, "second") ELSE Ends(t)
  /\ UNCHANGED <<deployment, row, queue, coord, objects, requests, faults, hist>>

\* The end of the period passes: whoever reads the plan from now on reads another, and no
\* coordinator is told.
Lapses ==
  /\ ~SelfHosted /\ plan # "free"
  /\ plan' = "free"
  /\ hist' = [hist EXCEPT !.behind = {v \in Vaults : coord[v].state /\ coord[v].limits # "free"}]
  /\ UNCHANGED <<deployment, row, queue, refreshes, coord, objects, task, requests, faults>>

\* The queue does not take the message: the provider delivers the event again.
WebhookFails(t) ==
  /\ At(t, "webhook", "second") /\ Fault
  /\ Goes(t, "first")
  /\ UNCHANGED <<deployment, row, plan, queue, refreshes, coord, objects, requests, hist>>

Refreshing == {t \in Tasks : task[t].kind = "refresh"}

RefreshArrives(t, k) ==
  /\ task[t] = Idle /\ refreshes[k] > 0
  /\ refreshes' = Taken(refreshes, k)
  /\ task' = [task EXCEPT ![t] = [Idle EXCEPT !.kind = "refresh", !.pc = "list", !.plan = Policy,
                                              !.tries = k]]
  /\ UNCHANGED <<deployment, row, plan, queue, coord, objects, requests, faults, hist>>

\* A vault that is being deleted is not told, and may come back.
VaultsListed(t) ==
  /\ At(t, "refresh", "list")
  /\ task' = [task EXCEPT ![t].pc = "apply", ![t].list = ActiveVaults]
  /\ hist' = [hist EXCEPT !.behind = @ \cup {v \in Vaults \ ActiveVaults : IsBehind(v)}]
  /\ UNCHANGED <<deployment, row, plan, queue, refreshes, coord, objects, requests, faults>>

\* applyVaultPolicy: a vault nobody has opened keeps no limits.
PolicyApplied(t, v) ==
  /\ At(t, "refresh", "apply") /\ v \in task[t].list
  /\ task' = [task EXCEPT ![t].list = @ \ {v},
                          ![t].failed = IF coord[v].tables THEN @ ELSE @ \cup {v}]
  /\ IF HasState(coord[v])
     THEN coord' = [coord EXCEPT ![v].limits = task[t].plan] /\ NotesLimits(v, task[t].plan)
     ELSE UNCHANGED <<coord, hist>>
  /\ UNCHANGED <<deployment, row, plan, queue, refreshes, objects, requests, faults>>

PolicyFails(t, v) ==
  /\ At(t, "refresh", "apply") /\ v \in task[t].list /\ Fault
  /\ task' = [task EXCEPT ![t].list = @ \ {v}, ![t].failed = @ \cup {v}]
  /\ UNCHANGED <<deployment, row, plan, queue, refreshes, coord, objects, requests, hist>>

RefreshEnds(t) ==
  /\ At(t, "refresh", "apply") /\ task[t].list = {}
  /\ Ends(t)
  /\ LET failed == task[t].failed
         k == task[t].tries IN
     /\ refreshes' = IF failed = {} THEN refreshes ELSE Retried(refreshes, k, RefreshRetries)
     /\ hist' = [hist EXCEPT !.behind = IF k < RefreshRetries THEN @
                                        ELSE @ \cup {v \in failed : IsBehind(v)}]
  /\ UNCHANGED <<deployment, row, plan, queue, coord, objects, requests, faults>>

-----------------------------------------------------------------------------
(* Faults.                                                                  *)

\* Past this point a deletion that is cut off leaves a vault marked deleted.
CutOff == {task[t].vault : t \in {t \in Tasks : task[t].kind = "delete" /\ task[t].pc # "mark"}}
Inside(t, v) == task[t].vault = v /\ task[t].pc \in {"limits", "insert", "prefix"}

\* A Durable Object starts anew: what was inside it fails.
ObjectRestarts(v) ==
  /\ deployment # "node" /\ Fault
  /\ coord' = [coord EXCEPT ![v] = Restarted(@)]
  /\ task' = [t \in Tasks |-> IF ~Inside(t, v) THEN task[t]
                              ELSE IF task[t].kind = "open" THEN Idle
                              ELSE [task[t] EXCEPT !.pc = "failed"]]
  /\ UNCHANGED <<deployment, row, plan, queue, refreshes, objects, requests, hist>>

\* The Node process ends and starts again.
ProcessRestarts ==
  /\ deployment = "node" /\ Fault
  /\ coord' = [v \in Vaults |-> Restarted(coord[v])]
  /\ task' = [t \in Tasks |-> Idle]
  /\ hist' = [hist EXCEPT !.cut = @ \cup CutOff]
  /\ UNCHANGED <<deployment, row, plan, queue, refreshes, objects, requests>>

\* A Worker stops in the middle of a request, as when its client goes away.
RequestCut(t) ==
  /\ deployment # "node" /\ task[t].kind \in {"create", "grant", "delete", "upload"}
  /\ ~Inside(t, task[t].vault) /\ Fault
  /\ Ends(t)
  /\ hist' = [hist EXCEPT !.cut = IF task[t].kind = "delete" /\ task[t].pc # "mark"
                                  THEN @ \cup {task[t].vault} ELSE @]
  /\ UNCHANGED <<deployment, row, plan, queue, refreshes, coord, objects, requests>>

Next ==
  \/ \E t \in Tasks, u \in Users, n \in Names : Create(t, u, n)
  \/ \E t \in Tasks, u, w \in Users, v \in Vaults : Grant(t, u, w, v)
  \/ \E t \in Tasks, u \in Users, v \in Vaults :
       ReplaceWrapper(t, u, v) \/ Delete(t, u, v) \/ Open(t, u, v) \/ Upload(t, u, v)
  \/ \E t \in Tasks :
       \/ CreateChecks(t) \/ CreateInserts(t) \/ GrantStep(t) \/ WrapperReplaced(t)
       \/ DeletionMarked(t) \/ PurgeEnqueued(t) \/ EnqueueFails(t) \/ Restored(t)
       \/ PurgeRuns(t) \/ SocketsClosed(t) \/ StateEmptied(t) \/ PrefixFails(t)
       \/ RowRemoved(t) \/ RemovalFails(t) \/ PurgeFailed(t)
       \/ EnsureState(t) \/ ReadInitialLimits(t) \/ StateInserted(t) \/ SocketRegistered(t)
       \/ Staged(t) \/ ObjectPut(t) \/ Committed(t)
       \/ WebhookStep(t) \/ WebhookFails(t) \/ VaultsListed(t) \/ RefreshEnds(t)
       \/ RequestCut(t)
       \/ \E k \in 0..RefreshRetries : RefreshArrives(t, k)
       \/ \E v \in Vaults : \/ \E k \in 0..PurgeRetries : MessageArrives(t, v, k)
                           \/ PolicyApplied(t, v) \/ PolicyFails(t, v)
       \/ \E p \in {"free", "starter"} : Webhook(t, p)
  \/ \E v \in Vaults : ObjectRestarts(v)
  \/ ProcessRestarts \/ Lapses

Spec == Init /\ [][Next]_vars

-----------------------------------------------------------------------------
(* Properties.                                                              *)

Plans == {"none", "free", "starter", "self_hosted"}
TypeOK ==
  /\ deployment \in Deployments
  /\ \A v \in Vaults :
       /\ row[v].purge \in {"none", "queued", "running", "failed"}
       /\ row[v].role \in [Users -> {"none", "owner", "admin", "member"}]
       /\ coord[v].limits \in Plans /\ coord[v].sockets \subseteq Users
       /\ coord[v].lock => deployment = "node"
       /\ coord[v].entry => coord[v].state
       /\ queue[v] \in [0..PurgeRetries -> Nat]
  /\ plan \in Plans /\ refreshes \in [0..RefreshRetries -> Nat]
  /\ \A t \in Tasks : task[t].list \subseteq Vaults

\* The active vaults of an organization have different names, although the
\* name is looked up long before the vault is inserted, and although a
\* deletion that fails brings a vault back (vault/service.ts createVault,
\* deleteVault; the unique index).
NamesAreUnique == \A v, w \in ActiveVaults : row[v].name = row[w].name => v = w

\* Whoever has access to a vault is given a wrapper of its key, wherever a
\* grant was cut off (addVaultMember, readVaultBootstrapForUser).
MembersCanUnlock == \A u \in Users, v \in Vaults : CanAccess(u, v) => Bootstrap(u, v) # {}

\* A vault whose row has been removed has no state in its coordinator again,
\* whoever was opening it during the purge (ensureVaultState, purgeVault).
\* Left out: a vault deleted twice at once, when one of the deletions failed
\* and brought it back while the other went on.
GoneStaysGone == \A v \in hist.made \ hist.back : ~row[v].kept => ~coord[v].state /\ ~coord[v].entry

\* With a purge queue, a vault that nobody is deleting has what was stored in
\* it, and a coordinator that does maintenance (deleteVault, purgeVault).
\* Left out: vaults whose purge was given up before another deletion failed.
ActiveIsWhole ==
  deployment = "managed" =>
    \A v \in hist.filled \ hist.dropped :
      Active(v) /\ Working(v) = {} /\ ~PurgeWaits(v) =>
        coord[v].entry /\ v \in objects /\ ~coord[v].purged

\* The rows a user's vaults consist of agree with one another.
RowsAgree == NamesAreUnique /\ MembersCanUnlock /\ ActiveIsWhole

\* A vault marked deleted has a message or a task that deletes it.  Left out:
\* requests cut off, vaults whose name was taken while they were deleted, and
\* those whose message has failed as often as the queue delivers it.
DeletionIsDriven ==
  \A v \in Vaults \ (hist.stuck \cup hist.cut \cup hist.dropped) :
    row[v].kept /\ row[v].deleted => Working(v) # {} \/ PurgeWaits(v)

\* Once the refreshes are done, an open vault has the limits of the plan.  Left
\* out, until it is given limits again: a vault that was last given those of a
\* plan that had changed meanwhile, one that a refresh passed over since it was
\* deleted, or failed for as often as it was delivered, and one whose plan has
\* lapsed (SubscriptionPolicyRefreshService, ensureVaultState).
Quiet == ~RefreshWaits /\ Refreshing = {} /\ \A t \in Tasks : task[t].kind # "webhook"
LimitsSettle == Quiet => \A v \in ActiveVaults \ hist.behind : ~IsBehind(v)
=============================================================================
