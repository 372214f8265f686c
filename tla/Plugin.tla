------------------------------- MODULE Plugin -------------------------------
(***************************************************************************)
(* The plugin above its sync loop: the account, the connected vault, its   *)
(* local store, the switch that pauses sync, and the pipelines that bring  *)
(* sync up (apps/obsidian-plugin/src/plugin, auth, remote-vault,           *)
(* sync/runtime).                                                          *)
(*                                                                         *)
(* Every entry point is an asynchronous function: it runs to its next      *)
(* await, and whatever the user or the network does meanwhile comes before *)
(* the rest.  A task is such a function in flight.  It waits for the       *)
(* network, or for the scan of the local files; what it does on the local  *)
(* disk between two such waits is one step.                                *)
(*                                                                         *)
(* Abstractions.  The loop is "live or not, connected or not" (AutoSync    *)
(* has what it does meanwhile, Session the connection).  A folder of the   *)
(* polled kind is configured, so that the scan timer is wanted whenever    *)
(* sync runs.  Notices, labels and progress are left out.                  *)
(***************************************************************************)
EXTENDS Naturals, FiniteSets

CONSTANTS
  Vaults,     \* remote vaults, positive numbers
  Accounts,   \* accounts, positive numbers
  MaxTasks,   \* bound: tasks in flight
  MaxActs,    \* bound: acts of the user
  MaxFaults,  \* bound: failures, removed vaults, restarts
  ResetFails  \* whether the local store may fail to be deleted

ASSUME PluginConstants ==
  /\ Vaults \subseteq Nat \ {0} /\ Accounts \subseteq Nat \ {0}
  /\ {MaxTasks, MaxActs, MaxFaults} \subseteq Nat
  /\ ResetFails \in BOOLEAN

VARIABLES
  plugin,  \* what the plugin has in memory and on its disk
  tasks,   \* the tasks in flight
  world,   \* the network, the vaults removed or taken away, the accounts that are valid
  spent,   \* how much of each bound is used up
  settled, \* a pipeline ran to its end, and nothing has happened since it began
  torn     \* what the user ended was overtaken by something in flight (see below)

vars == <<plugin, tasks, world, spent, settled, torn>>

\* torn: the store outlived the connection to its vault; a pipeline, the disconnection
\* it waited through; a connected vault, the account it was connected with; or an
\* attempt to connect, a disconnection that did not wait for it.  Then sync may run
\* with what does not belong together, and the properties below do not hold.

Tasks == 1..MaxTasks
NoVault == [id |-> 0, key |-> 0]
NoToken == [vault |-> 0, local |-> 0, account |-> 0]
Idle == [kind |-> "none", pc |-> "idle", token |-> 0, vault |-> NoVault, clean |-> TRUE]

Spend(what) == spent' = [spent EXCEPT ![what] = @ + 1]
FaultLeft == spent.faults < MaxFaults

-----------------------------------------------------------------------------
(* The loop, as the plugin uses it. *)

\* Mutant: the session stays open when the loop stops.
StoppedWithSession(p) == [p EXCEPT !.live = FALSE, !.timer = FALSE]
\* SyncAutoLoop.stop and the scan timer.
Stopped(p) == [p EXCEPT !.live = FALSE, !.conn = NoToken, !.timer = FALSE]
NotReady(p) == [Stopped(p) EXCEPT !.status = "not_ready"]
Paused(p) == [Stopped(p) EXCEPT !.status = "paused"]

CanReuse(p) == p.cached.vault = p.session.id /\ p.cached.local = p.local

\* getTokenForActiveRemoteVault, up to its request.
TokenFor(p) ==
  IF CanReuse(p) THEN p.cached
  ELSE [vault |-> p.session.id, local |-> p.local, account |-> p.token]

\* ensureRealtimeSession: one connection at a time.  Without account, vault or
\* store the attempt fails at once, and the loop waits to try again.
EnsureSession(p) ==
  IF ~p.live \/ p.conn # NoToken \/ p.opening # NoToken THEN p
  ELSE IF ~p.open \/ p.token = 0 \/ p.session.id = 0
       THEN [p EXCEPT !.status = "attention_needed"]
       ELSE [p EXCEPT !.opening = TokenFor(p), !.status = "syncing"]

\* withRealtimeSession: a loop that is stopped becomes live.
WithSession(p) == EnsureSession([p EXCEPT !.live = TRUE])

-----------------------------------------------------------------------------
(* Disconnecting. *)

\* resetSyncConnection: the loop stops and the store is deleted.  When that
\* fails, what is stored stays.
Reset(p) == [NotReady(p) EXCEPT !.open = FALSE, !.stored = 0, !.local = @ + 1]
ResetFailed(p) == [NotReady(p) EXCEPT !.open = FALSE]
ResetOutcomes(p) ==
  {Reset(p)} \cup IF ResetFails /\ FaultLeft /\ p.stored # 0 THEN {ResetFailed(p)} ELSE {}

Forgotten(p) == [p EXCEPT !.session = NoVault, !.key = 0, !.cached = NoToken]
\* manager.disconnectRemoteVault and clearSyncTokenState.
Disconnected(p) == Forgotten(p)

\* Mutant: whatever vault the error is about, the connected one is dropped.
AnyVault(p, v) == TRUE
ConcernsUs(p, v) == v \in {p.session.id, p.stored}

\* handleRemoteVaultUnavailable and disconnectUnavailableRemoteVault.
Unavailable(p, v) ==
  IF ConcernsUs(p, v) THEN Reset(Disconnected(NotReady(p))) ELSE NotReady(p)

-----------------------------------------------------------------------------
(* The readiness pipeline, cut at its awaits: a step gives the plugin as it *)
(* is left, and where the task waits next.                                  *)

Waits(p, pc) == [p |-> p, pc |-> pc]
Done(p) == Waits(p, "idle")

\* startHiddenFolderReconcileTimer, behind startAutoSync and resumeAutoSyncConnection.
Started(p) == Done([p EXCEPT !.timer = TRUE])
AwaitsSession(p) == IF p.opening # NoToken THEN Waits(p, "opening") ELSE Started(p)

StartLoop(p, kind) ==
  IF ~p.live THEN AwaitsSession(EnsureSession([p EXCEPT !.live = TRUE]))
  ELSE IF kind = "resume" THEN AwaitsSession(EnsureSession(p))
  ELSE Started(p)

\* ensureAutoSyncState scans the local files first, resumeAutoSync does not.
StartSync(p, kind) ==
  IF kind = "resume" THEN StartLoop(p, kind) ELSE Waits(p, "reconcile")

StoreIsOurs(p) == p.stored \in {0, p.session.id}

\* initializeStore: the store is opened before its connection is compared.
InitializeStore(p) ==
  IF StoreIsOurs(p) THEN [p EXCEPT !.open = TRUE, !.stored = p.session.id]
  ELSE [p EXCEPT !.open = TRUE, !.status = "attention_needed"]

\* Mutant: a disabled sync is started.
StartsDisabled(p, kind) == StartSync(p, kind)
StartIfEnabled(p, kind) == IF p.enabled THEN StartSync(p, kind) ELSE Done(Paused(p))

AfterRestore(p, kind) ==
  IF p.session.id = 0 THEN Done(NotReady(p))
  ELSE IF p.open THEN StartIfEnabled(p, kind)
  ELSE LET q == InitializeStore(p) IN
       IF StoreIsOurs(p) THEN StartIfEnabled(q, kind) ELSE Done(q)

\* ensureActiveRemoteVaultStore.
EnsureStore(p, kind) ==
  IF p.session.id = 0 /\ p.stored # 0 /\ p.key # 0 THEN Waits(p, "restore")
  ELSE AfterRestore(p, kind)

\* getReadiness.
Readiness(p) == CASE p.token = 0 -> "anonymous"
                  [] p.token # 0 /\ p.auth \in {"verified", "rejected"} -> p.auth
                  [] OTHER -> "pending"
AfterAuth(p, kind) ==
  CASE Readiness(p) = "pending" -> Done([p EXCEPT !.status = "offline"])
    [] Readiness(p) = "verified" -> EnsureStore(p, kind)
    [] OTHER -> Done(IF p.enabled THEN NotReady(p) ELSE Paused(p))

NeedsIdentity(p) == p.token # 0 /\ p.auth \notin {"verified", "rejected"}

\* runReadyAutoSync and refreshReadiness.
RunReady(p, kind) ==
  IF p.required THEN Done(NotReady(p))
  ELSE IF p.token = 0 THEN AfterAuth([p EXCEPT !.auth = "unknown"], kind)
  ELSE IF p.auth # "verified" /\ ~world.online
       THEN AfterAuth([p EXCEPT !.auth = "pending"], kind)
  ELSE IF NeedsIdentity(p) THEN Waits(p, "identity")
  ELSE AfterAuth(p, kind)

-----------------------------------------------------------------------------
(* Tasks. *)

InFlight == {t \in Tasks : tasks[t].pc # "idle"}
Others(t) == InFlight \ {t}
Unclean(ts) == [t \in Tasks |-> [ts[t] EXCEPT !.clean = @ /\ ts[t].pc = "idle"]]
\* A detach request fails as soon as its connection ends.
Loosed(ts, p) ==
  [t \in Tasks |-> IF ts[t].pc = "detach" /\ p.conn = NoToken
                   THEN [ts[t] EXCEPT !.pc = "detached"] ELSE ts[t]]

\* Task t has run to its next await, or to its end.
TaskAfter(r, kind, clean) ==
  IF r.pc = "idle" THEN Idle
  ELSE [kind |-> kind, pc |-> r.pc, token |-> r.p.token,
        vault |-> [id |-> r.p.stored, key |-> r.p.key], clean |-> clean]
Pipelines == {"ensure", "resume"}
Goes(t, r, kind, clean) ==
  /\ plugin' = r.p
  /\ tasks' = Loosed([tasks EXCEPT ![t] = TaskAfter(r, kind, clean)], r.p)
  /\ settled' = (r.pc = "idle" /\ kind \in Pipelines /\ clean /\ Others(t) = {})

\* Something else happens while tasks are in flight.
Interferes == tasks' = Loosed(Unclean(tasks), plugin') /\ settled' = FALSE

At(t, pc) == tasks[t].pc = pc
\* What only waits for the local disk goes on before anything else happens.
Quiet == \A t \in Tasks : ~At(t, "opened") /\ ~At(t, "detached")
Answer(t, pc) == Quiet /\ At(t, pc) /\ UNCHANGED world
Continues(t, r) == Goes(t, r, tasks[t].kind, tasks[t].clean)
\* The rest of a function that calls ensureAutoSyncState at its end.
ContinuesReady(t, p) == Goes(t, RunReady(p, "ensure"), "ensure", tasks[t].clean)
Fails(t, p) ==
  /\ plugin' = p
  /\ tasks' = Loosed([Unclean(tasks) EXCEPT ![t] = Idle], p)
  /\ settled' = FALSE

Alone == InFlight = {} /\ plugin.opening = NoToken
\* A new task, in the first free place.
Begins(r, kind) ==
  /\ \E t \in Tasks :
       /\ At(t, "idle") /\ \A o \in Tasks : o < t => ~At(o, "idle")
       /\ plugin' = r.p
       /\ tasks' = Loosed([Unclean(tasks) EXCEPT ![t] = TaskAfter(r, kind, Alone)], r.p)
       /\ settled' = (r.pc = "idle" /\ kind \in Pipelines /\ Alone)

\* The modal of a vault being connected keeps the user from anything else.
Modal == \E t \in Tasks : At(t, "bootstrap")
Act == spent.acts < MaxActs /\ Spend("acts") /\ Quiet /\ ~Modal /\ UNCHANGED world

\* hasConnectedRemoteVault.
HasVault(p) == p.session.id # 0 \/ (p.stored # 0 /\ p.key # 0)
Verified(p) == p.auth = "verified"

-----------------------------------------------------------------------------
(* The start of the plugin. *)

\* initialize, and the pipeline that onLayoutReady starts.
Boots(stored) ==
  LET r == RunReady(stored, "ensure") IN
  /\ plugin' = r.p
  /\ tasks' = [t \in Tasks |-> IF t = 1 THEN TaskAfter(r, "ensure", TRUE) ELSE Idle]
  /\ settled' = (r.pc = "idle")

\* checkServerCompatibility: only an answer of the server keeps the plugin from syncing.
Refusals == BOOLEAN

\* What is found on the disk.
Init ==
  /\ world \in [online : {TRUE}, gone : {{}}, valid : SUBSET Accounts]
  /\ \E required \in Refusals, token \in {0} \cup Accounts, v \in {0} \cup Vaults :
       LET r == RunReady([required |-> required, enabled |-> TRUE,
                  token |-> token, auth |-> "unknown",
                  session |-> NoVault, stored |-> v, key |-> v, local |-> 0, open |-> FALSE,
                  live |-> FALSE, opening |-> NoToken, conn |-> NoToken, timer |-> FALSE,
                  cached |-> NoToken, status |-> "not_ready"], "ensure") IN
       /\ plugin = r.p
       /\ tasks = [t \in Tasks |-> IF t = 1 THEN TaskAfter(r, "ensure", TRUE) ELSE Idle]
       /\ settled = (r.pc = "idle")
  /\ spent = [acts |-> 0, faults |-> 0]
  /\ torn = FALSE

-----------------------------------------------------------------------------
(* The user. *)

\* setSyncEnabled.
Enable ==
  /\ Act /\ ~plugin.enabled /\ UNCHANGED torn
  /\ IF plugin.required THEN Begins(Done(NotReady(plugin)), "refused")
     ELSE Begins(RunReady([plugin EXCEPT !.enabled = TRUE], "ensure"), "ensure")
Disable ==
  /\ Act /\ plugin.enabled /\ UNCHANGED torn
  /\ plugin' = Paused([plugin EXCEPT !.enabled = FALSE])
  /\ Interferes

\* createRemoteVaultFromPrompt and connectRemoteVaultFromPrompt, up to the bootstrap.
Connect ==
  /\ Act /\ Verified(plugin) /\ ~HasVault(plugin) /\ UNCHANGED torn
  /\ Begins(Waits(plugin, "bootstrap"), "connect")
Connected(t) ==
  /\ Answer(t, "bootstrap") /\ UNCHANGED <<spent, torn>>
  /\ \E v \in Vaults \ world.gone :
       LET p == [plugin EXCEPT !.session = [id |-> v, key |-> v], !.key = v, !.open = FALSE] IN
       IF StoreIsOurs(p) THEN ContinuesReady(t, InitializeStore(p))
       ELSE Fails(t, InitializeStore(p))

\* Mutant: a connection being made is not waited for.
\* disconnectRemoteVault and signOutDevice: this device is detached from the vault
\* first, which takes a connection.
DetachesAtOnce(p) ==
  IF p.conn # NoToken /\ Verified(p) THEN Waits(p, "detach") ELSE Waits(p, "detached")
Detaching(p) ==
  IF p.session.id = 0 \/ ~Verified(p) THEN Waits(p, "detached")
  ELSE LET q == WithSession(p) IN
       IF q.opening # NoToken THEN Waits(q, "opening")
       ELSE IF q.conn # NoToken THEN Waits(q, "detach") ELSE Waits(q, "detached")
Disconnect ==
  /\ Act /\ HasVault(plugin)
  /\ torn' = (torn \/ (~Verified(plugin) /\ plugin.opening # NoToken))
  /\ Begins(Detaching(plugin), "disconnect")
SignOut ==
  /\ Act /\ Verified(plugin) /\ UNCHANGED torn
  /\ Begins(Detaching(plugin), "sign_out")

\* The server has answered the detach request, or cannot be reached.
DetachEnds(t) ==
  /\ Answer(t, "detach") /\ UNCHANGED <<spent, torn>>
  /\ Continues(t, Waits(plugin, "detached"))
Forgets(t) ==
  /\ At(t, "detached")
  /\ \E q \in ResetOutcomes(Disconnected(plugin)) :
       /\ torn' = (torn \/ q.stored # 0)
       /\ IF q.stored # 0 THEN Spend("faults") ELSE UNCHANGED spent
       /\ Continues(t, IF tasks[t].kind = "sign_out" THEN Waits(q, "revoke") ELSE Done(q))
  /\ UNCHANGED world
\* authManager.signOutDevice, whatever the server says.
Revoked(t) ==
  /\ Answer(t, "revoke")
  /\ \E q \in ResetOutcomes(Forgotten([plugin EXCEPT !.token = 0, !.auth = "unknown"])) :
       /\ torn' = (torn \/ q.stored # 0 \/ plugin.session.id # 0)
       /\ IF q.stored # 0 THEN Spend("faults") ELSE UNCHANGED spent
       /\ Continues(t, Done(q))

\* pollDeviceAuthorization: the accounts that may be approved.
Approvals == world.valid

\* beginDeviceLogin: one at a time.
Login ==
  /\ Act /\ ~Verified(plugin) /\ UNCHANGED torn
  /\ \A t \in Tasks : ~At(t, "poll")
  /\ Begins(Waits(plugin, "poll"), "login")
Polled(t) ==
  /\ Answer(t, "poll") /\ UNCHANGED spent
  /\ torn' = (torn \/ plugin.session.id # 0)
  /\ \/ \E a \in Approvals :
          ContinuesReady(t, [plugin EXCEPT !.token = a, !.auth = "verified", !.cached = NoToken])
     \/ ContinuesReady(t, [plugin EXCEPT !.cached = NoToken])

\* updateSyncFileRules, updateVaultConfigSyncRules and retryFilesNotSyncing.
ChangeRules ==
  /\ Act /\ UNCHANGED torn
  /\ IF ~plugin.enabled THEN plugin' = Paused(plugin) /\ Interferes
     ELSE /\ plugin.session.id # 0 /\ plugin.open
          /\ Begins(Waits([plugin EXCEPT !.status = "syncing"], "rules"), "rules")
RulesApplied(t) ==
  /\ Answer(t, "rules") /\ UNCHANGED <<spent, torn>>
  /\ Continues(t, IF tasks[t].vault.id \in world.gone /\ world.online
                  THEN Done(Unavailable(plugin, tasks[t].vault.id)) ELSE Started(plugin))

\* The version history of a file is opened: the loop is made live.
ViewHistory ==
  /\ Act /\ Verified(plugin) /\ plugin.session.id # 0 /\ UNCHANGED torn
  /\ LET p == WithSession(plugin) IN
     Begins(IF p.opening # NoToken THEN Waits(p, "opening") ELSE Done(p), "history")

-----------------------------------------------------------------------------
(* The pipelines go on. *)

MayResume == \A t \in InFlight : tasks[t].kind # "resume"

\* queueAutoSyncResume: the window is focused, or the network is back.
Resume ==
  /\ MayResume /\ Act
  /\ Begins(RunReady(plugin, "resume"), "resume")
  /\ UNCHANGED torn

\* getAuthenticatedUser, and what refreshIdentity makes of it.
AuthAfter(token) == IF ~world.online THEN "pending"
                    ELSE IF token \in world.valid THEN "verified" ELSE "rejected"

\* refreshIdentity: an error that does not look like a missing network, an overloaded
\* server among them, rejects the account.
Identified(t) ==
  /\ Answer(t, "identity") /\ UNCHANGED torn
  /\ \/ /\ UNCHANGED spent
        /\ Continues(t, AfterAuth([plugin EXCEPT !.auth = AuthAfter(tasks[t].token)],
                                  tasks[t].kind))
     \/ /\ FaultLeft /\ Spend("faults")
        /\ Continues(t, AfterAuth([plugin EXCEPT !.auth = "rejected"], tasks[t].kind))

\* restoreStoredSessionIfNeeded, answered.
Restored(t) ==
  LET v == tasks[t].vault.id
      p == [plugin EXCEPT !.session = [id |-> v, key |-> tasks[t].vault.key]] IN
  /\ Answer(t, "restore") /\ UNCHANGED spent
  /\ torn' = (torn \/ plugin.stored # v)
  /\ IF ~world.online THEN Fails(t, [plugin EXCEPT !.status = "offline"])
     ELSE IF v \in world.gone THEN Continues(t, Done(NotReady(Unavailable(plugin, v))))
     ELSE Continues(t, AfterRestore(p, tasks[t].kind))

\* reconcileOnce has scanned the files of the vault, or has failed.
Reconciled(t) ==
  /\ Answer(t, "reconcile") /\ UNCHANGED spent
  /\ torn' = (torn \/ plugin.stored # tasks[t].vault.id)
  /\ Continues(t, StartLoop(plugin, tasks[t].kind))
ReconcileFails(t) ==
  /\ Answer(t, "reconcile") /\ FaultLeft /\ Spend("faults") /\ UNCHANGED torn
  /\ Fails(t, [plugin EXCEPT !.status = "attention_needed"])

\* The tasks that waited for the connection go on.
Released == [t \in Tasks |-> IF At(t, "opening") THEN [tasks[t] EXCEPT !.pc = "opened"]
                             ELSE tasks[t]]
OpenEnds(p) ==
  /\ Quiet /\ plugin.opening # NoToken
  /\ plugin' = [p EXCEPT !.opening = NoToken]
  /\ UNCHANGED <<world, torn>>

Opened ==
  LET p == [plugin EXCEPT !.cached = plugin.opening] IN
  /\ world.online /\ plugin.opening.vault \notin world.gone /\ UNCHANGED spent
  /\ OpenEnds(IF p.live THEN [p EXCEPT !.conn = plugin.opening, !.status = "up_to_date"] ELSE p)
  /\ tasks' = Released /\ UNCHANGED settled
OpenFails ==
  /\ IF world.online THEN FaultLeft /\ Spend("faults") ELSE UNCHANGED spent
  /\ OpenEnds([plugin EXCEPT !.status = IF ~world.online THEN "offline"
                                        ELSE IF plugin.live THEN "reconnecting" ELSE @])
  /\ tasks' = Released /\ UNCHANGED settled
VaultIsGone ==
  /\ world.online /\ plugin.opening.vault \in world.gone /\ UNCHANGED spent
  /\ OpenEnds(Unavailable(plugin, plugin.opening.vault))
  /\ tasks' = Loosed(Unclean(Released), plugin') /\ settled' = FALSE

AfterOpening(t) ==
  /\ At(t, "opened") /\ UNCHANGED <<world, spent, torn>>
  /\ Continues(t,
       CASE tasks[t].kind \in Pipelines -> Started(plugin)
         [] tasks[t].kind = "history" -> Done(plugin)
         [] OTHER -> Waits(plugin, IF plugin.conn # NoToken THEN "detach" ELSE "detached"))

\* The reconnect timer of the loop.
Reconnect ==
  /\ Quiet /\ plugin.live /\ plugin.conn = NoToken /\ plugin.opening = NoToken
  /\ plugin.open /\ plugin.token # 0 /\ plugin.session.id # 0
  /\ plugin' = EnsureSession(plugin)
  /\ UNCHANGED <<tasks, world, spent, settled, torn>>

-----------------------------------------------------------------------------
(* The world. *)

Lose(p) == [p EXCEPT !.conn = NoToken, !.status = "reconnecting"]
Network ==
  /\ Quiet
  /\ spent.faults < MaxFaults \/ ~world.online
  /\ world' = [world EXCEPT !.online = ~@]
  /\ IF world.online THEN Spend("faults") ELSE UNCHANGED spent
  /\ plugin' = IF plugin.conn # NoToken THEN Lose(plugin) ELSE plugin
  /\ Interferes /\ UNCHANGED torn

\* A vault is removed, or this account loses its access: its sockets are closed.
Remove(v) ==
  /\ Quiet /\ FaultLeft /\ Spend("faults")
  /\ v \notin world.gone
  /\ world' = [world EXCEPT !.gone = @ \cup {v}]
  /\ plugin' = IF plugin.conn.vault = v THEN Unavailable(plugin, v) ELSE plugin
  /\ Interferes /\ UNCHANGED torn

\* The app is closed and started again: what was only in memory is gone.
Restart ==
  /\ Quiet /\ FaultLeft /\ Spend("faults")
  /\ Boots([NotReady(plugin) EXCEPT !.auth = "unknown", !.session = NoVault, !.open = FALSE,
                                     !.opening = NoToken, !.cached = NoToken])
  /\ UNCHANGED <<world, torn>>

Next ==
  \/ Enable \/ Disable \/ Connect \/ Disconnect \/ SignOut \/ Login \/ ChangeRules
  \/ ViewHistory \/ Resume
  \/ Opened \/ OpenFails \/ VaultIsGone \/ Reconnect \/ Network \/ Restart
  \/ \E t \in Tasks :
       \/ Connected(t) \/ DetachEnds(t) \/ Forgets(t) \/ Revoked(t) \/ Polled(t)
       \/ RulesApplied(t) \/ Identified(t) \/ Restored(t) \/ Reconciled(t)
       \/ ReconcileFails(t) \/ AfterOpening(t)
  \/ \E v \in Vaults : Remove(v)

Spec == Init /\ [][Next]_vars

-----------------------------------------------------------------------------
(* Properties. *)

Pcs == {"idle", "identity", "restore", "reconcile", "opening", "opened", "detach", "detached",
        "revoke", "poll", "bootstrap", "rules"}
TypeOK ==
  /\ plugin.session.id \in {0} \cup Vaults /\ plugin.stored \in {0} \cup Vaults
  /\ plugin.token \in {0} \cup Accounts
  /\ plugin.auth \in {"unknown", "verified", "pending", "rejected"}
  /\ \A t \in Tasks : tasks[t].pc \in Pcs
  /\ plugin.conn # NoToken => plugin.live

\* The loop's connection is to the vault whose store is open, as the local vault and
\* the account this device has now: whatever was connected, disconnected, signed out
\* or restarted while the connection was being made.
ConnectionIsOurs ==
  plugin.conn # NoToken /\ ~torn =>
    plugin.conn = [vault |-> plugin.session.id, local |-> plugin.local, account |-> plugin.token]

\* Sync never runs over the local store of another vault.
StoreIsOfVault == plugin.conn # NoToken => plugin.stored = plugin.session.id

\* A pipeline that nothing came between leaves the plugin as it should be, unless the
\* account could not be verified for want of a network.
SettledIsRight ==
  settled /\ Readiness(plugin) # "pending" =>
    LET p == plugin
        wanted == Verified(p) /\ HasVault(p) /\ ~p.required /\ ~torn IN
    /\ p.live => p.enabled /\ Verified(p) /\ p.session.id # 0 /\ p.open /\ p.timer
    /\ wanted => p.live = p.enabled
    /\ wanted /\ ~p.enabled => p.status = "paused"

\* The local store of a vault is deleted only because its user disconnects or signs
\* out, or because that vault is gone.
OnlyTheirVaultIsDropped ==
  [][plugin.stored # 0 /\ plugin'.stored = 0 /\ ~torn =>
       \/ plugin.stored \in world'.gone
       \/ \E t \in Tasks : tasks[t].kind \in {"disconnect", "sign_out"}]_vars
=============================================================================
