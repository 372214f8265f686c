---------------------------- MODULE VaultsProofs ----------------------------
(***************************************************************************)
(* What is proved of Vaults for every value of its constants: the types,   *)
(* that names stay unique, that members can unlock, that nothing is left   *)
(* of a vault that was deleted, that every deletion is driven, and that    *)
(* the limits settle.                                                      *)
(***************************************************************************)
EXTENDS Vaults, TLAPS

\* A vault has an id that no task without a vault has, somebody owns the organization, and a
\* queue is told how often it delivers again.
VaultIds ==
  /\ "none" \notin Vaults /\ Owner \in Users
  /\ PurgeRetries \in Nat /\ RefreshRetries \in Nat

-----------------------------------------------------------------------------
(* Types.                                                                   *)

Kinds == {"none", "create", "grant", "rewrap", "delete", "purge", "open", "upload",
          "webhook", "refresh"}
Pcs == {"idle", "count", "insert", "first", "second", "write", "mark", "enqueue", "restore",
        "running", "close", "prefix", "remove", "failed", "ensure", "limits", "accept",
        "stage", "put", "commit", "list", "apply"}
Purging == {"running", "close", "prefix", "remove", "failed"}
TaskRecords == [kind : Kinds, pc : Pcs, user : Users, vault : Vaults \union {"none"},
                name : Names \union {""}, plan : Plans, list : SUBSET Vaults, failed : SUBSET Vaults, tries : Nat]
Rows == [kept : BOOLEAN, name : Names \union {""}, deleted : BOOLEAN,
         purge : {"none", "queued", "running", "failed"},
         role : [Users -> {"none", "owner", "admin", "member"}],
         wrappers : SUBSET [kind : {"password", "member"}, user : Users]]
Coordinators == [tables : BOOLEAN, state : BOOLEAN, limits : Plans, entry : BOOLEAN,
                 purged : BOOLEAN, sockets : SUBSET Users, lock : BOOLEAN]
Histories == [made : SUBSET Vaults, filled : SUBSET Vaults, stuck : SUBSET Vaults,
              cut : SUBSET Vaults, back : SUBSET Vaults, dropped : SUBSET Vaults,
              behind : SUBSET Vaults]
Queues == [0..PurgeRetries -> Nat]
Refreshes == [0..RefreshRetries -> Nat]

Typed ==
  /\ deployment \in Deployments /\ row \in [Vaults -> Rows] /\ plan \in Plans
  /\ queue \in [Vaults -> Queues] /\ refreshes \in Refreshes /\ coord \in [Vaults -> Coordinators]
  /\ objects \subseteq Vaults /\ task \in [Tasks -> TaskRecords] /\ hist \in Histories
  /\ \A v \in Vaults : /\ coord[v].lock => deployment = "node"
                       /\ coord[v].entry => coord[v].state

\* Where a task of each kind may be, and of which vault it is.
Fits(r) ==
  /\ r.kind = "none" => r.pc = "idle"
  /\ r.kind = "create" => r.pc \in {"count", "insert"}
  /\ r.kind = "grant" => r.pc \in {"first", "second"}
  /\ r.kind = "rewrap" => r.pc = "write"
  /\ r.kind = "delete" => r.pc \in {"mark", "restore"} \union
                                   (IF deployment = "managed" THEN {"enqueue"} ELSE Purging)
  /\ r.kind = "purge" => r.pc \in Purging
  /\ r.kind = "open" => r.pc \in {"ensure", "limits", "insert", "accept"}
  /\ r.kind = "upload" => r.pc \in {"stage", "put", "commit"}
  /\ r.kind = "webhook" => r.pc \in {"first", "second"}
  /\ r.kind = "refresh" => r.pc \in {"list", "apply"}
  /\ IF r.kind \in {"grant", "rewrap", "delete", "purge", "open", "upload"}
     THEN r.vault \in hist.made ELSE r.vault = "none"
  /\ r.kind \in {"purge", "webhook", "refresh"} => deployment = "managed"
TasksFit ==
  /\ \A t \in Tasks : Fits(task[t])
  /\ deployment # "managed" => ~RefreshWaits /\ \A v \in Vaults : ~PurgeWaits(v)

\* An id that has not been given stands for nothing yet.
UnmadeIsNew ==
  /\ hist.filled \subseteq hist.made
  /\ \A v \in Vaults \ hist.made :
       ~row[v].kept /\ ~PurgeWaits(v) /\ ~coord[v].state /\ ~coord[v].purged

-----------------------------------------------------------------------------
(* What tasks mean for a vault.                                             *)

Drives(r, v) == r.kind \in {"delete", "purge"} /\ r.pc # "mark" /\ r.vault = v
Purges(r, v) == r.kind = "purge" /\ r.vault = v
Removes(r, v) == r.kind \in {"delete", "purge"} /\ r.pc = "remove" /\ r.vault = v
Inserts(r, v) == r.kind = "open" /\ r.pc = "insert" /\ r.vault = v
IsInside(r, v) == r.vault = v /\ r.pc \in {"limits", "insert", "prefix"}

-----------------------------------------------------------------------------
(* The inductive invariant.                                                 *)

\* The row q has a wrapper of the user u.
Has(q, u) == \E w \in q.wrappers : w.user = u

\* Whoever has a role has a wrapper, or is being granted both in this order.
RolesHaveWrappers ==
  /\ \A v \in Vaults, u \in Users : row[v].role[u] # "none" => Has(row[v], u)
  /\ \A t \in Tasks : task[t].kind = "grant" /\ task[t].pc = "second" /\ row[task[t].vault].kept =>
       Has(row[task[t].vault], task[t].user)

\* On Node one task at a time is inside a coordinator, and it has the lock.
LockExcludes ==
  deployment = "node" =>
    /\ \A t \in Tasks, v \in Vaults : IsInside(task[t], v) => coord[v].lock
    /\ \A t, u \in Tasks, v \in Vaults : IsInside(task[t], v) /\ IsInside(task[u], v) => t = u

\* Whoever purges a vault, or is asked to, has marked it deleted before.
DeletedFirst ==
  \A v \in Vaults \ hist.back :
    PurgeWaits(v) \/ (\E t \in Tasks : Drives(task[t], v)) => ~Active(v)

\* What is marked deleted has a driver that has come past the mark.
Driven ==
  \A v \in Vaults \ (hist.stuck \union hist.cut \union hist.dropped) :
    row[v].kept /\ row[v].deleted => PurgeWaits(v) \/ \E t \in Tasks : Drives(task[t], v)

\* What has been emptied stays empty: who is past the look at the limits finds no tables.
LeftEmpty ==
  \A v \in hist.made \ hist.back :
    ~row[v].kept \/ (\E t \in Tasks : Removes(task[t], v)) =>
      /\ ~coord[v].state
      /\ coord[v].tables => \A t \in Tasks : ~Inserts(task[t], v)

\* With a purge queue, what has been broken of a vault is going to be gone for good.
BrokenIsPurged ==
  deployment = "managed" =>
    \A v \in hist.made \ hist.dropped :
      coord[v].purged \/ (v \in hist.filled /\ (~coord[v].entry \/ v \notin objects)) =>
        ~row[v].kept \/ PurgeWaits(v) \/ \E t \in Tasks : Purges(task[t], v)

\* A refresh is going to bring the limits of the plan to v, or to fail for it.
WillRefresh(r, v) ==
  /\ r.kind = "refresh"
  /\ v \in r.failed \/ (r.plan = plan /\ (r.pc = "list" \/ v \in r.list))
Asked == RefreshWaits \/ \E t \in Tasks : task[t].kind = "webhook"
\* What was given the limits of an older plan is going to be told, or known to be behind.
LimitsFollow ==
  \A v \in Vaults \ hist.behind : IsBehind(v) => Asked \/ \E t \in Tasks : WillRefresh(task[t], v)

Inductive ==
  /\ Typed /\ TasksFit /\ UnmadeIsNew
  /\ NamesAreUnique /\ RolesHaveWrappers
  /\ LockExcludes /\ DeletedFirst /\ Driven /\ LeftEmpty
  /\ BrokenIsPurged /\ LimitsFollow

-----------------------------------------------------------------------------
(* What the invariant implies.                                              *)

\* The types of the proofs are those of the runs.
LEMMA TypedIsTypeOK == Typed => TypeOK
BY DEF Typed, TypeOK, Rows, Coordinators, TaskRecords, Queues, Refreshes

\* The invariant implies what the runs check.
LEMMA InductiveImplies ==
  ASSUME VaultIds, Inductive
  PROVE  TypeOK /\ RowsAgree /\ GoneStaysGone /\ DeletionIsDriven /\ LimitsSettle
<1>1. TypeOK
  BY TypedIsTypeOK DEF Inductive
<1>2. MembersCanUnlock
  BY DEF Inductive, RolesHaveWrappers, MembersCanUnlock, CanAccess, Bootstrap, Has
<1>3. ActiveIsWhole
  <2> SUFFICES ASSUME deployment = "managed", NEW v \in hist.filled \ hist.dropped,
                      Active(v), Working(v) = {}, ~PurgeWaits(v)
               PROVE  coord[v].entry /\ v \in objects /\ ~coord[v].purged
    BY DEF ActiveIsWhole
  <2>1. v \in hist.made /\ v \in Vaults /\ row[v].kept
    BY DEF Inductive, UnmadeIsNew, Typed, Histories, Active
  <2>2. \A t \in Tasks : ~Purges(task[t], v)
    BY DEF Working, Purges
  <2> QED BY <2>1, <2>2 DEF Inductive, BrokenIsPurged
<1>4. GoneStaysGone
  BY DEF Inductive, Typed, Histories, LeftEmpty, GoneStaysGone
<1>5. DeletionIsDriven
  BY DEF Inductive, Typed, Driven, Drives, DeletionIsDriven, Working
<1>6. LimitsSettle
  <2> SUFFICES ASSUME Quiet, NEW v \in ActiveVaults \ hist.behind
               PROVE  ~IsBehind(v)
    BY DEF LimitsSettle
  <2>1. ~Asked /\ \A t \in Tasks : ~WillRefresh(task[t], v)
    BY DEF Quiet, Refreshing, Asked, WillRefresh
  <2> QED BY <2>1 DEF Inductive, LimitsFollow, ActiveVaults
<1> QED BY <1>1, <1>2, <1>3, <1>4, <1>5, <1>6 DEF Inductive, RowsAgree

-----------------------------------------------------------------------------
(* Steps of one task that leave rows, coordinators and queues alone.        *)

\* The task t goes from what it was to r.
Moves(t, r) ==
  /\ r \in TaskRecords
  /\ task' = [task EXCEPT ![t] = r]

\* What a move changes.
LEMMA MovesAre ==
  ASSUME Typed, NEW t \in Tasks, NEW r, Moves(t, r)
  PROVE  /\ task' \in [Tasks -> TaskRecords] /\ task'[t] = r
         /\ \A u \in Tasks \ {t} : task'[u] = task[u]
BY DEF Typed, Moves

\* In its new place the task promises what it did, and claims no more.
Harmless(t, r) ==
  LET was == task[t] IN
  /\ \A v \in Vaults : /\ Drives(r, v) <=> Drives(was, v)
                       /\ Purges(was, v) => Purges(r, v)
                       /\ Removes(r, v) => Removes(was, v)
                       /\ Inserts(r, v) => Inserts(was, v)
                       /\ IsInside(r, v) => IsInside(was, v)
  /\ ~(r.kind = "grant" /\ r.pc = "second")
  /\ was.kind = "webhook" => r.kind = "webhook"
  /\ \A v \in Vaults : WillRefresh(was, v) => WillRefresh(r, v)

\* A harmless move keeps the invariant.
LEMMA HarmlessKeeps ==
  ASSUME VaultIds, Inductive, NEW t \in Tasks, NEW r, Moves(t, r), Fits(r), Harmless(t, r),
         UNCHANGED <<deployment, row, plan, queue, refreshes, coord, objects, hist>>
  PROVE  Inductive'
<1>0. /\ task' \in [Tasks -> TaskRecords] /\ task'[t] = r
      /\ \A u \in Tasks \ {t} : task'[u] = task[u]
  BY MovesAre DEF Inductive
<1>w. (RefreshWaits' <=> RefreshWaits) /\ \A v \in Vaults : PurgeWaits(v)' <=> PurgeWaits(v)
  BY DEF RefreshWaits, PurgeWaits
<1>v. \A u \in Tasks : task[u].vault \in Vaults \union {"none"} /\ task'[u].vault \in Vaults \union {"none"}
  BY <1>0 DEF Inductive, Typed, TaskRecords
<1>1. Typed'
  BY <1>0 DEF Inductive, Typed
<1>2. TasksFit' /\ UnmadeIsNew'
  BY <1>0, <1>w DEF Inductive, TasksFit, Fits, UnmadeIsNew
<1>3. NamesAreUnique' /\ RolesHaveWrappers'
  BY <1>0 DEF Inductive, NamesAreUnique, ActiveVaults, Active, RolesHaveWrappers, Harmless
<1>4. LockExcludes'
  BY <1>0 DEF Inductive, LockExcludes, Harmless, IsInside
<1>5. \A v \in Vaults : (\E u \in Tasks : Drives(task'[u], v)) <=> (\E u \in Tasks : Drives(task[u], v))
  BY <1>0 DEF Harmless, Drives
<1>6. DeletedFirst' /\ Driven'
  BY <1>5, <1>w DEF Inductive, DeletedFirst, Driven, Active
<1>7. LeftEmpty'
  <2>1. hist.made \subseteq Vaults
    BY DEF Inductive, Typed, Histories
  <2> QED BY <1>0, <2>1 DEF Inductive, LeftEmpty, Harmless, Removes, Inserts
<1>8. BrokenIsPurged'
  <2>1. hist.made \subseteq Vaults
    BY DEF Inductive, Typed, Histories
  <2> QED BY <1>0, <1>w, <2>1 DEF Inductive, BrokenIsPurged, Harmless, Purges
<1>9. LimitsFollow'
  <2>1. Policy' = Policy
    BY DEF Policy, SelfHosted
  <2>2. Asked => Asked'
    BY <1>0 DEF Asked, Harmless, RefreshWaits
  <2>3. \A v \in Vaults, u \in Tasks : WillRefresh(task[u], v) => WillRefresh(task[u], v)'
    BY <1>0 DEF Harmless, WillRefresh
  <2> QED BY <2>1, <2>2, <2>3 DEF Inductive, LimitsFollow, IsBehind
<1> QED BY <1>1, <1>2, <1>3, <1>4, <1>6, <1>7, <1>8, <1>9 DEF Inductive

\* What sending, taking and trying again leave in a queue.
LEMMA QueuesAre ==
  ASSUME NEW last \in Nat, NEW q \in [0..last -> Nat], NEW k \in Nat
  PROVE  /\ /\ Sent(q) \in [0..last -> Nat] /\ \E j \in 0..last : Sent(q)[j] > 0
         /\ k \in 0..last /\ q[k] > 0 =>
              /\ Taken(q, k) \in [0..last -> Nat]
              /\ \A j \in 0..last : Taken(q, k)[j] > 0 => q[j] > 0
         /\ /\ Retried(q, k, last) \in [0..last -> Nat]
            /\ \A j \in 0..last : q[j] > 0 => Retried(q, k, last)[j] > 0
            /\ k < last => \E j \in 0..last : Retried(q, k, last)[j] > 0
<1>1. Sent(q) \in [0..last -> Nat] /\ \E j \in 0..last : Sent(q)[j] > 0
  <2>1. 0 \in 0..last
    OBVIOUS
  <2> QED BY <2>1 DEF Sent
<1>2. ASSUME k \in 0..last, q[k] > 0
      PROVE  /\ Taken(q, k) \in [0..last -> Nat]
             /\ \A j \in 0..last : Taken(q, k)[j] > 0 => q[j] > 0
  BY <1>2 DEF Taken
<1>3. CASE k < last
  <2>1. k + 1 \in 0..last
    BY <1>3
  <2>2. Retried(q, k, last) = [q EXCEPT ![k + 1] = q[k + 1] + 1]
    BY <1>3 DEF Retried
  <2>3. Retried(q, k, last)[k + 1] > 0 /\ Retried(q, k, last) \in [0..last -> Nat]
    BY <2>1, <2>2
  <2>4. \A j \in 0..last : q[j] > 0 => Retried(q, k, last)[j] > 0
    BY <2>1, <2>2
  <2> QED BY <1>1, <1>2, <2>1, <2>3, <2>4
<1>4. CASE ~(k < last)
  BY <1>1, <1>2, <1>4 DEF Retried
<1> QED BY <1>3, <1>4

\* No task at all.
LEMMA IdleIs ==
  VaultIds => /\ Idle \in TaskRecords /\ Fits(Idle)
              /\ Idle.kind = "none" /\ Idle.pc = "idle" /\ Idle.vault = "none"
BY DEF Idle, TaskRecords, VaultIds, Kinds, Pcs, Plans, Fits

\* A request that begins does nothing yet.
LEMMA BeginsKeep ==
  ASSUME VaultIds, Inductive, NEW t \in Tasks, task[t] = Idle, NEW r, Moves(t, r), Fits(r),
         r.kind \in {"create", "grant", "rewrap", "delete", "open", "upload", "webhook"},
         r.pc \in {"count", "first", "write", "mark", "ensure", "stage"},
         UNCHANGED <<deployment, row, plan, queue, refreshes, coord, objects, hist>>
  PROVE  Inductive'
<1>0. r.kind = "delete" => r.pc = "mark"
  BY DEF Fits, Purging
<1>1. task[t].kind = "none" /\ task[t].pc = "idle" /\ task[t].vault = "none"
  BY IdleIs
<1>2. Harmless(t, r)
  BY <1>0, <1>1 DEF Harmless, Drives, Purges, Removes, Inserts, IsInside, WillRefresh
<1> QED BY <1>2, HarmlessKeeps

BeginSteps(t) ==
  \/ \E u \in Users, n \in Names : Create(t, u, n)
  \/ \E u, w \in Users, v \in Vaults : Grant(t, u, w, v)
  \/ \E u \in Users, v \in Vaults :
       ReplaceWrapper(t, u, v) \/ Delete(t, u, v) \/ Open(t, u, v) \/ Upload(t, u, v)
  \/ \E p \in {"free", "starter"} : Webhook(t, p)

\* Requests that begin.
LEMMA BeginStepsKeep ==
  ASSUME VaultIds, Inductive, NEW t \in Tasks, BeginSteps(t)
  PROVE  Inductive'
<1>0. Idle \in TaskRecords
  BY DEF Idle, TaskRecords, VaultIds, Kinds, Pcs, Plans
<1>p. Policy \in Plans
  BY DEF Policy, Plans, Inductive, Typed
<1>1. \A u \in Users, v \in Vaults : CanAccess(u, v) \/ CanGrant(u, v) \/ CanManage(u, v) => v \in hist.made
  BY DEF CanAccess, CanGrant, CanManage, Active, Inductive, UnmadeIsNew
<1>2. ASSUME NEW u \in Users, NEW n \in Names, Create(t, u, n)
      PROVE  Inductive'
  <2> DEFINE r == [Idle EXCEPT !.kind = "create", !.pc = "count", !.user = u, !.name = n,
                               !.plan = Policy]
  <2>1. /\ r \in TaskRecords /\ r.kind = "create" /\ r.pc = "count" /\ r.vault = "none"
    BY <1>0, <1>p DEF Idle, TaskRecords, Kinds, Pcs
  <2>2. /\ task[t] = Idle /\ task' = [task EXCEPT ![t] = r]
        /\ UNCHANGED <<deployment, row, plan, queue, refreshes, coord, objects, hist>>
    BY <1>2 DEF Create
  <2> HIDE DEF r
  <2> QED BY <2>1, <2>2, BeginsKeep DEF Moves, Fits
<1>3. ASSUME NEW p \in {"free", "starter"}, Webhook(t, p)
      PROVE  Inductive'
  <2> DEFINE r == [Idle EXCEPT !.kind = "webhook", !.pc = "first", !.plan = p]
  <2>1. /\ r \in TaskRecords /\ r.kind = "webhook" /\ r.pc = "first" /\ r.vault = "none"
    BY <1>0 DEF Idle, TaskRecords, Kinds, Pcs, Plans
  <2>2. /\ task[t] = Idle /\ task' = [task EXCEPT ![t] = r] /\ deployment = "managed"
        /\ UNCHANGED <<deployment, row, plan, queue, refreshes, coord, objects, hist>>
    BY <1>3 DEF Webhook, SelfHosted
  <2> HIDE DEF r
  <2> QED BY <2>1, <2>2, BeginsKeep DEF Moves, Fits
<1>4. ASSUME NEW u \in Users, NEW v \in hist.made,
             NEW kind \in {"grant", "rewrap", "delete", "open", "upload"}, NEW pc,
             pc = CASE kind = "grant" -> "first" [] kind = "rewrap" -> "write"
                    [] kind = "delete" -> "mark" [] kind = "open" -> "ensure"
                    [] kind = "upload" -> "stage",
             Begins(t, u, v, kind, pc),
             UNCHANGED <<deployment, row, plan, queue, refreshes, coord, objects, hist>>
      PROVE  Inductive'
  <2> DEFINE r == [Idle EXCEPT !.kind = kind, !.pc = pc, !.user = u, !.vault = v]
  <2>1. /\ r \in TaskRecords /\ r.kind = kind /\ r.pc = pc /\ r.vault = v
        /\ pc \in {"first", "write", "mark", "ensure", "stage"}
    BY <1>0, <1>4 DEF Idle, TaskRecords, Kinds, Pcs, Inductive, Typed, Histories
  <2>2. task[t] = Idle /\ task' = [task EXCEPT ![t] = r]
    BY <1>4 DEF Begins
  <2>3. Fits(r)
    BY <1>4, <2>1 DEF Fits
  <2> HIDE DEF r
  <2> QED BY <1>4, <2>1, <2>2, <2>3, BeginsKeep DEF Moves
<1>5. ASSUME NEW u \in Users, NEW w \in Users, NEW v \in Vaults, Grant(t, u, w, v)
      PROVE  Inductive'
  BY <1>1, <1>4, <1>5 DEF Grant
<1>6. ASSUME NEW u \in Users, NEW v \in Vaults, ReplaceWrapper(t, u, v)
      PROVE  Inductive'
  BY <1>1, <1>4, <1>6 DEF ReplaceWrapper
<1>7. ASSUME NEW u \in Users, NEW v \in Vaults, Delete(t, u, v)
      PROVE  Inductive'
  BY <1>1, <1>4, <1>7 DEF Delete
<1>8. ASSUME NEW u \in Users, NEW v \in Vaults, Open(t, u, v)
      PROVE  Inductive'
  BY <1>1, <1>4, <1>8 DEF Open
<1>9. ASSUME NEW u \in Users, NEW v \in Vaults, Upload(t, u, v)
      PROVE  Inductive'
  BY <1>1, <1>4, <1>9 DEF Upload
<1> QED BY <1>2, <1>3, <1>5, <1>6, <1>7, <1>8, <1>9 DEF BeginSteps

\* Steps that only move a task: what is looked up, and a step that fails for the time being.
MoveSteps(t) ==
  \/ CreateChecks(t) \/ EnqueueFails(t) \/ RemovalFails(t) \/ Staged(t) \/ WebhookFails(t)
  \/ \E v \in Vaults : PolicyFails(t, v)

\* Each of these moves is harmless.
LEMMA MoveStepsKeep ==
  ASSUME VaultIds, Inductive, NEW t \in Tasks, MoveSteps(t)
  PROVE  Inductive'
<1>0. Idle \in TaskRecords /\ task[t] \in TaskRecords /\ task \in [Tasks -> TaskRecords] /\ Fits(Idle)
  BY DEF Idle, TaskRecords, VaultIds, Kinds, Pcs, Plans, Inductive, Typed, Fits
<1>1. UNCHANGED <<deployment, row, plan, queue, refreshes, coord, objects, hist>>
  BY DEF MoveSteps, CreateChecks, EnqueueFails, RemovalFails, Staged, WebhookFails, PolicyFails
<1>2. Fits(task[t])
  BY DEF Inductive, TasksFit
<1>3. ASSUME NEW pc \in Pcs, Goes(t, pc)
      PROVE  Moves(t, [task[t] EXCEPT !.pc = pc])
  BY <1>0, <1>3 DEF Goes, Moves, TaskRecords
<1>4. Ends(t) => Moves(t, Idle)
  BY <1>0 DEF Ends, Moves
<1>5. CASE CreateChecks(t)
  <2>1. CASE Ends(t)
    <3>1. Harmless(t, Idle)
      BY <1>2, <1>5 DEF CreateChecks, At, Harmless, Idle, Drives, Purges, Removes, Inserts, IsInside,
                        VaultIds, WillRefresh
    <3> QED BY <1>0, <1>1, <1>4, <2>1, <3>1, HarmlessKeeps
  <2>2. CASE Goes(t, "insert")
    <3> DEFINE r == [task[t] EXCEPT !.pc = "insert"]
    <3>1. r.kind = "create" /\ r.pc = "insert" /\ r.vault = "none" /\ task[t].kind = "create"
      BY <1>0, <1>2, <1>5 DEF CreateChecks, At, Fits, TaskRecords
    <3>2. Moves(t, r)
      BY <1>3, <2>2 DEF Pcs
    <3> HIDE DEF r
    <3>3. Harmless(t, r) /\ Fits(r)
      BY <3>1 DEF Harmless, Drives, Purges, Removes, Inserts, IsInside, VaultIds, WillRefresh, Fits
    <3> QED BY <1>1, <3>2, <3>3, HarmlessKeeps
  <2> QED BY <1>5, <2>1, <2>2 DEF CreateChecks
<1>6. CASE EnqueueFails(t) \/ RemovalFails(t)
  <2>1. PICK pc \in {"restore", "failed"} :
          /\ task[t].kind \in {"delete", "purge"} /\ Goes(t, pc)
          /\ task[t].pc \in {"enqueue", "remove"}
          /\ (pc = "restore" => task[t].kind = "delete")
          /\ (pc = "failed" => task[t].pc = "remove")
    BY <1>0, <1>2, <1>6 DEF EnqueueFails, RemovalFails, At, Fits, Purging, TaskRecords, Kinds
  <2> DEFINE r == [task[t] EXCEPT !.pc = pc]
  <2>2. r.kind = task[t].kind /\ r.pc = pc /\ r.vault = task[t].vault
    BY <1>0 DEF TaskRecords
  <2>3. Moves(t, r)
    BY <1>3, <2>1 DEF Pcs
  <2> HIDE DEF r
  <2>4. Harmless(t, r)
    BY <2>1, <2>2 DEF Harmless, Drives, Purges, Removes, Inserts, IsInside, WillRefresh
  <2>5. Fits(r)
    BY <1>2, <2>1, <2>2 DEF Fits, Purging
  <2> QED BY <1>1, <2>3, <2>4, <2>5, HarmlessKeeps
<1>7. CASE Staged(t)
  <2>1. CASE Ends(t)
    <3>1. Harmless(t, Idle)
      BY <1>2, <1>7 DEF Staged, At, Harmless, Idle, Drives, Purges, Removes, Inserts, IsInside,
                        VaultIds, WillRefresh
    <3> QED BY <1>0, <1>1, <1>4, <2>1, <3>1, HarmlessKeeps
  <2>2. CASE Goes(t, "put")
    <3> DEFINE r == [task[t] EXCEPT !.pc = "put"]
    <3>1. r.kind = "upload" /\ r.pc = "put" /\ r.vault = task[t].vault /\ task[t].kind = "upload"
      BY <1>0, <1>7 DEF Staged, At, TaskRecords
    <3>2. Moves(t, r)
      BY <1>3, <2>2 DEF Pcs
    <3> HIDE DEF r
    <3>3. Harmless(t, r) /\ Fits(r)
      BY <1>2, <3>1 DEF Harmless, Drives, Purges, Removes, Inserts, IsInside, WillRefresh, Fits
    <3> QED BY <1>1, <3>2, <3>3, HarmlessKeeps
  <2> QED BY <1>7, <2>1, <2>2 DEF Staged
<1>8. CASE WebhookFails(t)
  <2> DEFINE r == [task[t] EXCEPT !.pc = "first"]
  <2>1. r.kind = "webhook" /\ r.pc = "first" /\ r.vault = task[t].vault /\ task[t].kind = "webhook"
    BY <1>0, <1>8 DEF WebhookFails, At, TaskRecords
  <2>2. Moves(t, r)
    BY <1>3, <1>8 DEF Pcs, WebhookFails
  <2> HIDE DEF r
  <2>3. Harmless(t, r) /\ Fits(r)
    BY <1>2, <2>1 DEF Harmless, Drives, Purges, Removes, Inserts, IsInside, WillRefresh, Fits, VaultIds
  <2> QED BY <1>1, <2>2, <2>3, HarmlessKeeps
<1>9. CASE \E v \in Vaults : PolicyFails(t, v)
  <2>0. PICK v \in Vaults : PolicyFails(t, v)
    BY <1>9
  <2> DEFINE r == [task[t] EXCEPT !.list = @ \ {v}, !.failed = @ \cup {v}]
  <2>1. /\ r \in TaskRecords /\ r.kind = "refresh" /\ r.pc = "apply" /\ r.vault = task[t].vault
        /\ r.plan = task[t].plan /\ r.failed = task[t].failed \union {v} /\ task[t].kind = "refresh"
        /\ r.list = task[t].list \ {v} /\ task[t].pc = "apply"
    BY <1>0, <2>0 DEF PolicyFails, At, TaskRecords
  <2>2. task' = [task EXCEPT ![t] = r]
    BY <1>0, <2>0 DEF PolicyFails
  <2> HIDE DEF r
  <2>3. Harmless(t, r) /\ Fits(r)
    BY <1>2, <2>1 DEF Harmless, Drives, Purges, Removes, Inserts, IsInside, WillRefresh, Fits, VaultIds
  <2> QED BY <1>1, <2>1, <2>2, <2>3, HarmlessKeeps DEF Moves
<1> QED BY <1>5, <1>6, <1>7, <1>8, <1>9 DEF MoveSteps

-----------------------------------------------------------------------------
(* Steps that write one row, or move a deletion between tasks and queue.    *)

\* The row of v becomes q and the task t becomes r: the row is not removed, renamed or brought
\* back, whoever gets a role has a wrapper, and what drives a deletion is handed on or dropped.
WritesRow(t, r, v, q) ==
  LET was == task[t] IN
  /\ q \in Rows /\ row' = [row EXCEPT ![v] = q]
  /\ q.kept = row[v].kept /\ q.name = row[v].name /\ (row[v].deleted => q.deleted)
  /\ q.deleted /\ ~row[v].deleted => Drives(r, v)
  /\ row[v].wrappers \subseteq q.wrappers
  /\ \A u \in Users : q.role[u] # "none" => row[v].role[u] # "none" \/ Has(q, u)
  /\ queue' \in [Vaults -> Queues]
  /\ hist' = hist \/ hist' = [hist EXCEPT !.dropped = @ \cup {v}]
  /\ \A w \in Vaults :
       /\ PurgeWaits(w)' => w \in hist.made
       /\ PurgeWaits(w) \/ Drives(was, w) => PurgeWaits(w)' \/ Drives(r, w) \/ w \in hist'.dropped
       /\ PurgeWaits(w)' \/ Drives(r, w) => PurgeWaits(w) \/ Drives(was, w) \/ (w = v /\ q.deleted)
       /\ PurgeWaits(w) \/ Purges(was, w) => PurgeWaits(w)' \/ Purges(r, w) \/ w \in hist'.dropped
       /\ Removes(r, w) => Removes(was, w)
       /\ ~Inserts(r, w)
       /\ IsInside(r, w) => IsInside(was, w)
  /\ deployment # "managed" => \A w \in Vaults : ~PurgeWaits(w)'
  /\ r.kind = "grant" /\ r.pc = "second" => r.vault = v /\ (q.kept => Has(q, r.user))
  /\ {was.kind, r.kind} \intersect {"webhook", "refresh"} = {}

\* A step that writes one row as WritesRow says keeps the invariant.
LEMMA WritesRowKeeps ==
  ASSUME VaultIds, Inductive, NEW t \in Tasks, NEW r, Moves(t, r), Fits(r),
         NEW v \in hist.made, NEW q, WritesRow(t, r, v, q),
         UNCHANGED <<deployment, plan, refreshes, coord, objects>>
  PROVE  Inductive'
<1>0. /\ task' \in [Tasks -> TaskRecords] /\ task'[t] = r
      /\ \A u \in Tasks \ {t} : task'[u] = task[u]
  BY MovesAre DEF Inductive
<1>m. hist.made \subseteq Vaults /\ v \in Vaults
  BY DEF Inductive, Typed, Histories
<1>r. /\ row' \in [Vaults -> Rows] /\ row'[v] = q /\ \A w \in Vaults \ {v} : row'[w] = row[w]
  BY <1>m DEF WritesRow, Inductive, Typed
<1>a. \A w \in Vaults : /\ row'[w].kept = row[w].kept /\ row'[w].name = row[w].name
                        /\ (row[w].deleted => row'[w].deleted)
                        /\ (Active(w)' => Active(w))
  BY <1>m, <1>r DEF WritesRow, Active
<1>h. /\ hist' \in Histories /\ hist'.made = hist.made /\ hist'.filled = hist.filled
      /\ hist'.stuck = hist.stuck /\ hist'.cut = hist.cut /\ hist'.back = hist.back
      /\ hist'.behind = hist.behind /\ hist.dropped \subseteq hist'.dropped
  <2>1. hist \in Histories
    BY DEF Inductive, Typed
  <2> QED BY <1>m, <2>1 DEF WritesRow, Histories
<1>1. Typed'
  BY <1>0, <1>r, <1>h DEF Inductive, Typed, WritesRow
<1>2. TasksFit'
  BY <1>0, <1>h DEF Inductive, TasksFit, Fits, WritesRow, RefreshWaits
<1>3. UnmadeIsNew'
  BY <1>m, <1>a, <1>h, <1>1 DEF Inductive, UnmadeIsNew, WritesRow, Typed
<1>4. NamesAreUnique'
  <2>1. \A w \in ActiveVaults' : w \in ActiveVaults /\ row'[w].name = row[w].name
    BY <1>a DEF ActiveVaults
  <2> QED BY <2>1 DEF Inductive, NamesAreUnique
<1>5. RolesHaveWrappers'
  <2>1. \A w \in Vaults, u \in Users : Has(row[w], u) => Has(row'[w], u)
    BY <1>r DEF Has, WritesRow
  <2>2. \A w \in Vaults, u \in Users : row'[w].role[u] # "none" => Has(row'[w], u)
    <3>1. \A w \in Vaults, u \in Users : row[w].role[u] # "none" => Has(row[w], u)
      BY DEF Inductive, RolesHaveWrappers
    <3>2. \A u \in Users : q.role[u] # "none" => row[v].role[u] # "none" \/ Has(q, u)
      BY DEF WritesRow
    <3> QED BY <1>m, <1>r, <2>1, <3>1, <3>2
  <2>3. ASSUME NEW u \in Tasks, task'[u].kind = "grant", task'[u].pc = "second",
               row'[task'[u].vault].kept
        PROVE  Has(row'[task'[u].vault], task'[u].user)
    <3>1. CASE u = t
      BY <1>0, <1>m, <1>r, <2>3, <3>1 DEF WritesRow
    <3>2. CASE u # t
      <4>1. task'[u] = task[u] /\ task[u].user \in Users /\ task[u].vault \in Vaults
        BY <1>0, <1>m, <2>3, <3>2 DEF Inductive, Typed, TaskRecords, TasksFit, Fits
      <4>2. Has(row[task[u].vault], task[u].user)
        BY <1>a, <2>3, <4>1 DEF Inductive, RolesHaveWrappers
      <4> QED BY <2>1, <4>1, <4>2
    <3> QED BY <3>1, <3>2
  <2> QED BY <2>2, <2>3 DEF RolesHaveWrappers
<1>6. LockExcludes'
  BY <1>0 DEF Inductive, LockExcludes, WritesRow, IsInside
<1>7. \A w \in Vaults : PurgeWaits(w) \/ (\E u \in Tasks : Drives(task[u], w)) =>
        PurgeWaits(w)' \/ (\E u \in Tasks : Drives(task'[u], w)) \/ w \in hist'.dropped
  BY <1>0 DEF WritesRow, Drives
<1>8. DeletedFirst'
  <2>1. \A w \in Vaults : PurgeWaits(w)' \/ (\E u \in Tasks : Drives(task'[u], w)) =>
          PurgeWaits(w) \/ (\E u \in Tasks : Drives(task[u], w)) \/ (w = v /\ q.deleted)
    BY <1>0 DEF WritesRow, Drives
  <2> QED BY <1>a, <1>r, <1>h, <2>1 DEF Inductive, DeletedFirst, Active, Drives
<1>9. Driven'
  <2>1. q.deleted /\ ~row[v].deleted => \E u \in Tasks : Drives(task'[u], v)
    BY <1>0 DEF WritesRow
  <2>2. ASSUME NEW w \in Vaults \ (hist.stuck \union hist.cut \union hist'.dropped),
               row'[w].kept /\ row'[w].deleted
        PROVE  PurgeWaits(w)' \/ \E u \in Tasks : Drives(task'[u], w)
    <3>1. CASE row[w].deleted
      BY <1>a, <1>h, <1>7, <2>2, <3>1 DEF Inductive, Driven
    <3>2. CASE ~row[w].deleted
      BY <1>r, <2>1, <2>2, <3>2
    <3> QED BY <3>1, <3>2
  <2> QED BY <1>h, <2>2 DEF Driven, Drives
<1>10. LeftEmpty'
  BY <1>0, <1>m, <1>a, <1>h DEF Inductive, LeftEmpty, WritesRow, Removes, Inserts
<1>11. BrokenIsPurged'
  <2>1. \A w \in Vaults : PurgeWaits(w) \/ (\E u \in Tasks : Purges(task[u], w)) =>
          PurgeWaits(w)' \/ (\E u \in Tasks : Purges(task'[u], w)) \/ w \in hist'.dropped
    BY <1>0 DEF WritesRow, Purges
  <2> QED BY <1>m, <1>a, <1>h, <2>1 DEF Inductive, BrokenIsPurged, Purges
<1>12. LimitsFollow'
  <2>1. Policy' = Policy
    BY DEF Policy, SelfHosted
  <2>2. r.kind \notin {"webhook", "refresh"} /\ task[t].kind \notin {"webhook", "refresh"}
    BY DEF WritesRow
  <2>3. Asked' <=> Asked
    BY <1>0, <2>2 DEF Asked, RefreshWaits
  <2>4. \A w \in Vaults : (\E u \in Tasks : WillRefresh(task[u], w)) => \E u \in Tasks : WillRefresh(task[u], w)'
    BY <1>0, <2>2 DEF WillRefresh
  <2> QED BY <1>h, <2>1, <2>3, <2>4 DEF Inductive, LimitsFollow, IsBehind
<1> QED BY <1>1, <1>2, <1>3, <1>4, <1>5, <1>6, <1>8, <1>9, <1>10, <1>11, <1>12 DEF Inductive

\* What is written to a row beside its removal.
LEMMA WritesAre ==
  ASSUME NEW q \in Rows, NEW u \in Users
  PROVE  /\ \A kind \in {"password", "member"} :
              /\ WithWrapper(q, u, kind) \in Rows /\ WithWrapper(q, u, kind).kept = q.kept
              /\ WithWrapper(q, u, kind).name = q.name
              /\ WithWrapper(q, u, kind).deleted = q.deleted
              /\ WithWrapper(q, u, kind).role = q.role
              /\ q.wrappers \subseteq WithWrapper(q, u, kind).wrappers
              /\ q.kept => Has(WithWrapper(q, u, kind), u)
         /\ /\ WithMember(q, u, "member") \in Rows /\ WithMember(q, u, "member").kept = q.kept
            /\ WithMember(q, u, "member").name = q.name
            /\ WithMember(q, u, "member").deleted = q.deleted
            /\ WithMember(q, u, "member").wrappers = q.wrappers
            /\ \A w \in Users \ {u} : WithMember(q, u, "member").role[w] = q.role[w]
            /\ ~q.kept => WithMember(q, u, "member") = q
<1>1. ASSUME NEW kind \in {"password", "member"}
      PROVE  /\ WithWrapper(q, u, kind) \in Rows /\ WithWrapper(q, u, kind).kept = q.kept
             /\ WithWrapper(q, u, kind).name = q.name
             /\ WithWrapper(q, u, kind).deleted = q.deleted
             /\ WithWrapper(q, u, kind).role = q.role
             /\ q.wrappers \subseteq WithWrapper(q, u, kind).wrappers
             /\ q.kept => Has(WithWrapper(q, u, kind), u)
  <2> DEFINE m == [kind |-> kind, user |-> u]
             q1 == [q EXCEPT !.wrappers = @ \cup {m}]
  <2>1. m \in [kind : {"password", "member"}, user : Users] /\ m.user = u
    OBVIOUS
  <2>2. WithWrapper(q, u, kind) = IF q.kept THEN q1 ELSE q
    BY DEF WithWrapper
  <2> HIDE DEF m
  <2>3. /\ q1 \in Rows /\ q1.kept = q.kept /\ q1.name = q.name /\ q1.deleted = q.deleted
        /\ q1.role = q.role /\ q1.wrappers = q.wrappers \cup {m}
    BY <2>1 DEF Rows
  <2> HIDE DEF q1
  <2>4. Has(q1, u) /\ q.wrappers \subseteq q1.wrappers
    BY <2>1, <2>3 DEF Has
  <2> QED BY <2>2, <2>3, <2>4
<1>2. /\ WithMember(q, u, "member") \in Rows /\ WithMember(q, u, "member").kept = q.kept
      /\ WithMember(q, u, "member").name = q.name
      /\ WithMember(q, u, "member").deleted = q.deleted
      /\ WithMember(q, u, "member").wrappers = q.wrappers
      /\ \A w \in Users \ {u} : WithMember(q, u, "member").role[w] = q.role[w]
      /\ ~q.kept => WithMember(q, u, "member") = q
  BY DEF WithMember, Rows
<1> QED BY <1>1, <1>2

\* What the marks of a deletion change in a row.
LEMMA MarksAre ==
  ASSUME NEW q \in Rows
  PROVE  /\ \A m \in {MarkQueued(q), MarkRunning(q), MarkFailed(q), MarkQueueFailed(q)} :
              m \in Rows /\ m.kept = q.kept /\ m.name = q.name /\ m.role = q.role /\ m.wrappers = q.wrappers
         /\ MarkQueued(q).deleted
         /\ MarkRunning(q).deleted = q.deleted /\ MarkFailed(q).deleted = q.deleted
         /\ MarkQueueFailed(q).deleted => q.deleted /\ ~q.kept
<1>1. /\ MarkQueued(q) \in Rows /\ MarkQueued(q).kept = q.kept /\ MarkQueued(q).name = q.name
      /\ MarkQueued(q).role = q.role /\ MarkQueued(q).wrappers = q.wrappers /\ MarkQueued(q).deleted
  BY DEF MarkQueued, Rows
<1>2. /\ MarkRunning(q) \in Rows /\ MarkRunning(q).kept = q.kept /\ MarkRunning(q).name = q.name
      /\ MarkRunning(q).role = q.role /\ MarkRunning(q).wrappers = q.wrappers
      /\ MarkRunning(q).deleted = q.deleted
  BY DEF MarkRunning, Rows
<1>3. /\ MarkFailed(q) \in Rows /\ MarkFailed(q).kept = q.kept /\ MarkFailed(q).name = q.name
      /\ MarkFailed(q).role = q.role /\ MarkFailed(q).wrappers = q.wrappers
      /\ MarkFailed(q).deleted = q.deleted
  BY DEF MarkFailed, Rows
<1>4. /\ MarkQueueFailed(q) \in Rows /\ MarkQueueFailed(q).kept = q.kept
      /\ MarkQueueFailed(q).name = q.name /\ MarkQueueFailed(q).role = q.role
      /\ MarkQueueFailed(q).wrappers = q.wrappers
      /\ MarkQueueFailed(q).deleted => q.deleted /\ ~q.kept
  BY DEF MarkQueueFailed, Rows
<1> QED BY <1>1, <1>2, <1>3, <1>4

RowSteps(t) ==
  \/ GrantStep(t) \/ WrapperReplaced(t) \/ DeletionMarked(t) \/ PurgeEnqueued(t) \/ PurgeRuns(t)
  \/ PurgeFailed(t) \/ \E v \in Vaults, k \in 0..PurgeRetries : MessageArrives(t, v, k)

\* Grants, wrappers, and the marks and messages of a deletion.
LEMMA RowStepsKeep ==
  ASSUME VaultIds, Inductive, NEW t \in Tasks, RowSteps(t)
  PROVE  Inductive'
<1>0. /\ Idle \in TaskRecords /\ task[t] \in TaskRecords /\ task \in [Tasks -> TaskRecords]
      /\ row \in [Vaults -> Rows] /\ queue \in [Vaults -> Queues] /\ Fits(Idle) /\ Fits(task[t])
      /\ hist.made \subseteq Vaults
      /\ Idle.kind = "none" /\ Idle.pc = "idle" /\ Idle.vault = "none"
  BY IdleIs DEF Inductive, Typed, TasksFit, Histories
<1>n. PurgeRetries \in Nat
  BY DEF VaultIds
<1>1. UNCHANGED <<deployment, plan, refreshes, coord, objects>>
  BY DEF RowSteps, GrantStep, WrapperReplaced, DeletionMarked, PurgeEnqueued, PurgeRuns,
         PurgeFailed, MessageArrives
<1> DEFINE v == task[t].vault
<1>2. \A w \in Vaults : /\ PurgeWaits(w) => w \in hist.made
                        /\ deployment # "managed" => ~PurgeWaits(w)
                        /\ UNCHANGED queue => (PurgeWaits(w)' <=> PurgeWaits(w))
  BY DEF Inductive, UnmadeIsNew, TasksFit, PurgeWaits
<1>3. ASSUME NEW pc \in Pcs, Goes(t, pc)
      PROVE  /\ Moves(t, [task[t] EXCEPT !.pc = pc])
             /\ [task[t] EXCEPT !.pc = pc].kind = task[t].kind
             /\ [task[t] EXCEPT !.pc = pc].pc = pc
             /\ [task[t] EXCEPT !.pc = pc].vault = task[t].vault
             /\ [task[t] EXCEPT !.pc = pc].user = task[t].user
  BY <1>0, <1>3 DEF Goes, Moves, TaskRecords
<1>4. Ends(t) => Moves(t, Idle)
  BY <1>0 DEF Ends, Moves
<1>5. CASE GrantStep(t)
  <2> DEFINE q == GrantWrites(row[v], task[t].user, task[t].pc = "first")
  <2>1. /\ task[t].kind = "grant" /\ v \in hist.made /\ v \in Vaults /\ row[v] \in Rows
        /\ task[t].user \in Users /\ task[t].pc \in {"first", "second"}
    BY <1>0, <1>5 DEF GrantStep, Fits, TaskRecords
  <2>2. /\ q \in Rows /\ row' = [row EXCEPT ![v] = q] /\ q.kept = row[v].kept
        /\ q.name = row[v].name /\ q.deleted = row[v].deleted
        /\ row[v].wrappers \subseteq q.wrappers
    <3>1. row' = [row EXCEPT ![v] = q]
      BY <1>5 DEF GrantStep
    <3> QED BY <2>1, <3>1, WritesAre DEF GrantWrites
  <2>3. \A u \in Users : q.role[u] # "none" => row[v].role[u] # "none" \/ Has(q, u)
    <3>1. CASE task[t].pc = "first"
      BY <2>1, <3>1, WritesAre DEF GrantWrites
    <3>2. CASE task[t].pc = "second"
      <4>1. row[v].kept => Has(row[v], task[t].user)
        BY <2>1, <3>2 DEF Inductive, RolesHaveWrappers
      <4>2. q = WithMember(row[v], task[t].user, "member")
        BY <3>2 DEF GrantWrites
      <4> HIDE DEF q
      <4>3. /\ q.wrappers = row[v].wrappers /\ (~row[v].kept => q = row[v])
            /\ \A u \in Users \ {task[t].user} : q.role[u] = row[v].role[u]
        <5> HIDE DEF v
        <5>1. q.wrappers = row[v].wrappers
          BY <2>1, <4>2, WritesAre
        <5>2. ~row[v].kept => q = row[v]
          BY <2>1, <4>2, WritesAre
        <5>3. \A u \in Users \ {task[t].user} : q.role[u] = row[v].role[u]
          <6> DEFINE x == row[v]
          <6>1. x \in Rows /\ q = WithMember(x, task[t].user, "member") /\ task[t].user \in Users
            BY <2>1, <4>2
          <6> HIDE DEF x
          <6>2. \A u \in Users \ {task[t].user} : q.role[u] = x.role[u]
            BY <6>1, WritesAre
          <6> QED BY <6>2 DEF x
        <5> QED BY <5>1, <5>2, <5>3
      <4>4. row[v].kept => Has(q, task[t].user)
        BY <4>1, <4>3 DEF Has
      <4> QED BY <4>3, <4>4
    <3> QED BY <2>1, <3>1, <3>2
  <2>4. task[t].pc = "first" /\ row[v].kept => Has(q, task[t].user)
    BY <2>1, WritesAre DEF GrantWrites
  <2> HIDE DEF q
  <2>5. PICK r : /\ Moves(t, r) /\ Fits(r) /\ r.kind \in {"none", "grant"}
                 /\ (r.kind = "grant" => r.vault = v /\ r.pc = "second" /\ Has(q, r.user))
    <3>1. CASE task[t].pc = "first" /\ row[v].kept
      <4> DEFINE r == [task[t] EXCEPT !.pc = "second"]
      <4>1. Moves(t, r) /\ r.kind = "grant" /\ r.pc = "second" /\ r.vault = v /\ r.user = task[t].user
        BY <1>3, <1>5, <2>1, <3>1 DEF GrantStep, Pcs
      <4> HIDE DEF r
      <4> QED BY <1>0, <2>1, <2>4, <3>1, <4>1 DEF Fits
    <3>2. CASE ~(task[t].pc = "first" /\ row[v].kept)
      BY <1>0, <1>4, <1>5, <3>2 DEF GrantStep
    <3> QED BY <3>1, <3>2
  <2>6. WritesRow(t, r, v, q)
    BY <1>0, <1>2, <1>5, <2>1, <2>2, <2>3, <2>5
    DEF WritesRow, GrantStep, Drives, Purges, Removes, Inserts, IsInside, VaultIds, Fits
  <2> QED BY <1>1, <2>1, <2>5, <2>6, WritesRowKeeps
<1>6. CASE WrapperReplaced(t)
  <2> DEFINE q == WithWrapper(row[v], task[t].user, "password")
  <2>1. /\ task[t].kind = "rewrap" /\ v \in hist.made /\ v \in Vaults /\ row[v] \in Rows
        /\ task[t].user \in Users
    BY <1>0, <1>6 DEF WrapperReplaced, At, Fits, TaskRecords
  <2>2. /\ q \in Rows /\ q.kept = row[v].kept /\ q.role = row[v].role
        /\ q.name = row[v].name /\ q.deleted = row[v].deleted
        /\ row[v].wrappers \subseteq q.wrappers
    BY <2>1, WritesAre
  <2>3. row' = [row EXCEPT ![v] = q] /\ Ends(t) /\ UNCHANGED <<queue, hist>>
    BY <1>6 DEF WrapperReplaced
  <2> HIDE DEF q
  <2>4. WritesRow(t, Idle, v, q)
    BY <1>0, <1>2, <2>1, <2>2, <2>3
    DEF WritesRow, Drives, Purges, Removes, Inserts, IsInside, VaultIds
  <2> QED BY <1>0, <1>1, <1>4, <2>1, <2>3, <2>4, WritesRowKeeps
<1>7. CASE DeletionMarked(t)
  <2> DEFINE q == MarkQueued(row[v])
  <2>1. task[t].kind = "delete" /\ task[t].pc = "mark" /\ v \in hist.made /\ v \in Vaults /\ row[v] \in Rows
    BY <1>0, <1>7 DEF DeletionMarked, At, Fits
  <2>2. /\ q \in Rows /\ q.kept = row[v].kept /\ q.role = row[v].role
        /\ q.name = row[v].name /\ q.deleted /\ row[v].wrappers \subseteq q.wrappers
    BY <2>1, MarksAre
  <2>3. row' = [row EXCEPT ![v] = q] /\ UNCHANGED <<queue, hist>>
    BY <1>7 DEF DeletionMarked
  <2>4. PICK r : /\ Moves(t, r) /\ r.kind = "delete" /\ r.vault = v
                 /\ r.pc = IF deployment = "managed" THEN "enqueue" ELSE "running"
    <3>1. CASE deployment = "managed"
      <4>1. Goes(t, "enqueue")
        BY <1>7, <3>1 DEF DeletionMarked, PurgesInline, SelfHosted
      <4> DEFINE r == [task[t] EXCEPT !.pc = "enqueue"]
      <4>2. Moves(t, r) /\ r.kind = task[t].kind /\ r.pc = "enqueue" /\ r.vault = v
        BY <1>3, <4>1 DEF Pcs
      <4> HIDE DEF r
      <4> QED BY <2>1, <3>1, <4>2
    <3>2. CASE deployment # "managed"
      <4>1. Goes(t, "running")
        BY <1>7, <3>2 DEF DeletionMarked, PurgesInline, SelfHosted
      <4> DEFINE r == [task[t] EXCEPT !.pc = "running"]
      <4>2. Moves(t, r) /\ r.kind = task[t].kind /\ r.pc = "running" /\ r.vault = v
        BY <1>3, <4>1 DEF Pcs
      <4> HIDE DEF r
      <4> QED BY <2>1, <3>2, <4>2
    <3> QED BY <3>1, <3>2
  <2>5. Fits(r)
    BY <2>1, <2>4 DEF Fits, Purging
  <2> HIDE DEF q
  <2>6. WritesRow(t, r, v, q)
    BY <1>0, <1>2, <2>1, <2>2, <2>3, <2>4
    DEF WritesRow, Drives, Purges, Removes, Inserts, IsInside
  <2> QED BY <1>1, <2>1, <2>4, <2>5, <2>6, WritesRowKeeps
<1>8. CASE PurgeEnqueued(t)
  <2>1. task[t].kind = "delete" /\ task[t].pc = "enqueue" /\ v \in hist.made /\ v \in Vaults /\ row[v] \in Rows
    BY <1>0, <1>8 DEF PurgeEnqueued, At, Fits
  <2>2. /\ row' = [row EXCEPT ![v] = row[v]] /\ queue' = [queue EXCEPT ![v] = Sent(queue[v])]
        /\ Ends(t) /\ deployment = "managed" /\ UNCHANGED hist
    BY <1>0, <1>8, <2>1 DEF PurgeEnqueued, Fits, Purging
  <2>3. /\ queue' \in [Vaults -> Queues]
        /\ \A w \in Vaults : IF w = v THEN PurgeWaits(w)' ELSE PurgeWaits(w)' <=> PurgeWaits(w)
    <3>1. Sent(queue[v]) \in Queues /\ \E j \in 0..PurgeRetries : Sent(queue[v])[j] > 0
      BY <1>0, <1>n, <2>1, QueuesAre DEF Queues
    <3>2. /\ queue' \in [Vaults -> Queues] /\ queue'[v] = Sent(queue[v])
          /\ \A w \in Vaults \ {v} : queue'[w] = queue[w]
      BY <1>0, <2>1, <2>2, <3>1
    <3> QED BY <3>1, <3>2 DEF PurgeWaits
  <2>4. Drives(task[t], v) /\ (row[v].kept /\ ~row[v].deleted => v \in hist.back)
    BY <2>1 DEF Drives, Inductive, DeletedFirst, Active
  <2>5. WritesRow(t, Idle, v, row[v])
    BY <1>0, <1>2, <2>1, <2>2, <2>3, <2>4
    DEF WritesRow, Drives, Purges, Removes, Inserts, IsInside, VaultIds
  <2> QED BY <1>0, <1>1, <1>4, <2>1, <2>2, <2>5, WritesRowKeeps
<1>9. CASE PurgeRuns(t)
  <2> DEFINE q == MarkRunning(row[v])
             r == [task[t] EXCEPT !.pc = "close"]
  <2>1. task[t].kind \in {"delete", "purge"} /\ task[t].pc = "running" /\ v \in hist.made /\ v \in Vaults /\ row[v] \in Rows
    BY <1>0, <1>9 DEF PurgeRuns, At, Fits, TaskRecords, Kinds
  <2>2. /\ q \in Rows /\ q.kept = row[v].kept /\ q.role = row[v].role
        /\ q.name = row[v].name /\ q.deleted = row[v].deleted /\ row[v].wrappers \subseteq q.wrappers
    BY <2>1, MarksAre
  <2>3. row' = [row EXCEPT ![v] = q] /\ UNCHANGED <<queue, hist>>
    BY <1>9 DEF PurgeRuns
  <2>4. Moves(t, r) /\ r.kind = task[t].kind /\ r.vault = v /\ r.pc = "close"
    BY <1>3, <1>9 DEF PurgeRuns, Pcs
  <2> HIDE DEF q, r
  <2>5. Fits(r)
    BY <1>0, <2>1, <2>4 DEF Fits, Purging
  <2>6. WritesRow(t, r, v, q)
    BY <1>0, <1>2, <2>1, <2>2, <2>3, <2>4
    DEF WritesRow, Drives, Purges, Removes, Inserts, IsInside
  <2> QED BY <1>1, <2>1, <2>4, <2>5, <2>6, WritesRowKeeps
<1>10. CASE PurgeFailed(t)
  <2> DEFINE q == MarkFailed(row[v])
  <2>1. task[t].kind \in {"delete", "purge"} /\ task[t].pc = "failed" /\ v \in hist.made /\ v \in Vaults /\ row[v] \in Rows
    BY <1>0, <1>10 DEF PurgeFailed, At, Fits, TaskRecords, Kinds
  <2>2. /\ q \in Rows /\ q.kept = row[v].kept /\ q.role = row[v].role
        /\ q.name = row[v].name /\ q.deleted = row[v].deleted /\ row[v].wrappers \subseteq q.wrappers
    BY <2>1, MarksAre
  <2>3. row' = [row EXCEPT ![v] = q]
    BY <1>10 DEF PurgeFailed
  <2> HIDE DEF q
  <2>4. CASE task[t].kind = "purge"
    <3> DEFINE k == task[t].tries
               again == Retried(queue[v], k, PurgeRetries)
    <3>1. queue' = [queue EXCEPT ![v] = again] /\ Ends(t) /\ deployment = "managed" /\ k \in Nat
      BY <1>0, <1>10, <2>1, <2>4 DEF PurgeFailed, Fits, TaskRecords
    <3>a. /\ again \in Queues /\ \A j \in 0..PurgeRetries : queue[v][j] > 0 => again[j] > 0
          /\ k < PurgeRetries => \E j \in 0..PurgeRetries : again[j] > 0
      BY <1>0, <1>n, <2>1, <3>1, QueuesAre DEF Queues
    <3>i. hist \in Histories /\ [hist EXCEPT !.dropped = @] = hist
      BY DEF Histories, Inductive, Typed
    <3>h. hist' = IF k < PurgeRetries THEN hist ELSE [hist EXCEPT !.dropped = @ \cup {v}]
      BY <1>10, <2>4, <3>i DEF PurgeFailed
    <3>b. ~(k < PurgeRetries) => v \in hist'.dropped
      BY <3>h, <3>i DEF Histories
    <3> HIDE DEF again
    <3>c. /\ queue' \in [Vaults -> Queues] /\ queue'[v] = again
          /\ \A w \in Vaults \ {v} : queue'[w] = queue[w]
      BY <1>0, <2>1, <3>1, <3>a
    <3>2. /\ queue' \in [Vaults -> Queues]
          /\ \A w \in Vaults : IF w = v THEN /\ PurgeWaits(w) => PurgeWaits(w)'
                                             /\ PurgeWaits(w)' \/ w \in hist'.dropped
                                       ELSE PurgeWaits(w)' <=> PurgeWaits(w)
      BY <3>a, <3>b, <3>c DEF PurgeWaits
    <3>d. row[v].kept /\ ~row[v].deleted => v \in hist.back
      BY <2>1, <2>4 DEF Drives, Inductive, DeletedFirst, Active
    <3>3. WritesRow(t, Idle, v, q)
      BY <1>0, <1>2, <2>1, <2>2, <2>3, <2>4, <3>1, <3>2, <3>h
      DEF WritesRow, Drives, Purges, Removes, Inserts, IsInside, VaultIds
    <3> QED BY <1>0, <1>1, <1>4, <2>1, <3>1, <3>3, WritesRowKeeps
  <2>5. CASE task[t].kind = "delete"
    <3> DEFINE r == [task[t] EXCEPT !.pc = "restore"]
    <3>1. Moves(t, r) /\ r.kind = task[t].kind /\ r.vault = v /\ r.pc = "restore" /\ UNCHANGED <<queue, hist>>
      BY <1>3, <1>10, <2>5 DEF PurgeFailed, Pcs
    <3> HIDE DEF r
    <3>2. Fits(r)
      BY <1>0, <2>1, <2>5, <3>1 DEF Fits, Purging
    <3>3. WritesRow(t, r, v, q)
      BY <1>0, <1>2, <2>1, <2>2, <2>3, <2>5, <3>1
      DEF WritesRow, Drives, Purges, Removes, Inserts, IsInside
    <3> QED BY <1>1, <2>1, <3>1, <3>2, <3>3, WritesRowKeeps
  <2> QED BY <2>1, <2>4, <2>5
<1>11. CASE \E w \in Vaults, k \in 0..PurgeRetries : MessageArrives(t, w, k)
  <2>1. PICK w \in Vaults, k \in 0..PurgeRetries : MessageArrives(t, w, k)
    BY <1>11
  <2> DEFINE r == [Idle EXCEPT !.kind = "purge", !.pc = "running", !.vault = w, !.tries = k]
  <2>2. /\ task[t] = Idle /\ task' = [task EXCEPT ![t] = r] /\ queue[w][k] > 0
        /\ queue' = [queue EXCEPT ![w] = Taken(queue[w], k)] /\ UNCHANGED <<row, hist>>
    BY <2>1 DEF MessageArrives
  <2>a. PurgeWaits(w) /\ w \in hist.made /\ row[w] \in Rows /\ deployment = "managed" /\ k \in Nat
    BY <1>0, <1>2, <1>n, <2>2 DEF PurgeWaits
  <2>3. r \in TaskRecords /\ r.kind = "purge" /\ r.pc = "running" /\ r.vault = w
    BY <1>0, <2>a DEF TaskRecords, Kinds, Pcs
  <2> HIDE DEF r
  <2>4. Fits(r)
    BY <2>a, <2>3 DEF Fits, Purging
  <2>5. row' = [row EXCEPT ![w] = row[w]]
    BY <1>0, <2>2
  <2>6. Taken(queue[w], k) \in Queues /\ \A j \in 0..PurgeRetries : Taken(queue[w], k)[j] > 0 => queue[w][j] > 0
    BY <1>0, <1>n, <2>2, <2>a, QueuesAre DEF Queues
  <2>7. queue' \in [Vaults -> Queues] /\ \A x \in Vaults \ {w} : PurgeWaits(x)' <=> PurgeWaits(x)
    BY <1>0, <2>2, <2>6 DEF PurgeWaits
  <2>8. WritesRow(t, r, w, row[w])
    BY <1>0, <1>2, <2>2, <2>a, <2>3, <2>5, <2>7
    DEF WritesRow, Drives, Purges, Removes, Inserts, IsInside
  <2> QED BY <1>1, <2>2, <2>a, <2>3, <2>4, <2>8, WritesRowKeeps DEF Moves
<1> QED BY <1>5, <1>6, <1>7, <1>8, <1>9, <1>10, <1>11 DEF RowSteps

-----------------------------------------------------------------------------
(* Rows that come, come back or go.                                         *)

\* The insert of a new vault: the index refuses a name that is taken, and the id is new.
LEMMA CreateInsertsKeeps ==
  ASSUME VaultIds, Inductive, NEW t \in Tasks, CreateInserts(t)
  PROVE  Inductive'
<1>0. /\ Idle \in TaskRecords /\ task[t] \in TaskRecords /\ task \in [Tasks -> TaskRecords]
      /\ row \in [Vaults -> Rows] /\ Fits(Idle) /\ Fits(task[t]) /\ hist \in Histories
      /\ hist.made \subseteq Vaults
      /\ Idle.kind = "none" /\ Idle.pc = "idle" /\ Idle.vault = "none"
  BY IdleIs DEF Inductive, Typed, TasksFit, Histories
<1>1. /\ task[t].kind = "create" /\ task[t].vault = "none" /\ Moves(t, Idle)
      /\ UNCHANGED <<deployment, plan, queue, refreshes, coord, objects>>
  BY <1>0 DEF CreateInserts, At, Ends, Moves, Fits
<1>2. CASE UNCHANGED <<row, hist>>
  <2>1. Harmless(t, Idle)
    BY <1>0, <1>1 DEF Harmless, Drives, Purges, Removes, Inserts, IsInside, WillRefresh, VaultIds
  <2> QED BY <1>0, <1>1, <1>2, <2>1, HarmlessKeeps
<1>3. ASSUME NEW v \in Vaults \ hist.made, IndexAdmits(v, task[t].name),
             row' = [row EXCEPT ![v] = Created(task[t].user, task[t].name)],
             hist' = [hist EXCEPT !.made = @ \cup {v}]
      PROVE  Inductive'
  <2> DEFINE q == Created(task[t].user, task[t].name)
  <2>1. /\ q \in Rows /\ q.kept /\ ~q.deleted /\ q.name = task[t].name
        /\ \A u \in Users : q.role[u] # "none" => Has(q, u)
    <3>1. task[t].user \in Users /\ task[t].name \in Names \union {""}
      BY <1>0 DEF TaskRecords
    <3>2. NoRow.role = [u \in Users |-> "none"]
      BY DEF NoRow
    <3> DEFINE u == task[t].user
               w == [kind |-> "password", user |-> u]
               role == [NoRow.role EXCEPT ![u] = "owner"]
    <3>3. role \in [Users -> {"none", "owner", "admin", "member"}] /\ \A x \in Users \ {u} : role[x] = "none"
      BY <3>1, <3>2
    <3>4. w \in [kind : {"password", "member"}, user : Users] /\ w.user = u
      BY <3>1
    <3>5. q = [kept |-> TRUE, name |-> task[t].name, deleted |-> FALSE, purge |-> "none",
               role |-> role, wrappers |-> {w}]
      BY DEF Created
    <3> HIDE DEF role, w, q
    <3>a. {w} \in SUBSET [kind : {"password", "member"}, user : Users]
      BY <3>4
    <3>b. q.kept /\ ~q.deleted /\ q.name = task[t].name /\ q.role = role /\ q.wrappers = {w}
      BY <3>5
    <3>c. q \in Rows
      BY <3>1, <3>3, <3>5, <3>a DEF Rows
    <3>6. q \in Rows /\ q.kept /\ ~q.deleted /\ q.name = task[t].name /\ q.role = role /\ q.wrappers = {w}
      BY <3>b, <3>c
    <3> QED BY <3>3, <3>4, <3>6 DEF Has
  <2>2. row' = [row EXCEPT ![v] = q]
    BY <1>3
  <2> HIDE DEF q
  <2>3. /\ task' \in [Tasks -> TaskRecords] /\ task'[t] = Idle
        /\ \A u \in Tasks \ {t} : task'[u] = task[u]
    BY <1>0, <1>1 DEF Moves
  <2>4. /\ row' \in [Vaults -> Rows] /\ row'[v] = q /\ \A w \in Vaults \ {v} : row'[w] = row[w]
    BY <1>0, <2>1, <2>2
  <2>5. /\ hist' \in Histories /\ hist'.made = hist.made \union {v} /\ hist'.filled = hist.filled
        /\ hist'.stuck = hist.stuck /\ hist'.cut = hist.cut /\ hist'.back = hist.back
        /\ hist'.dropped = hist.dropped /\ hist'.behind = hist.behind
    BY <1>0, <1>3 DEF Histories
  <2>6. /\ ~row[v].kept /\ ~PurgeWaits(v) /\ ~coord[v].state /\ ~coord[v].purged /\ v \notin hist.filled
        /\ \A u \in Tasks : task[u].vault # v /\ task'[u].vault # v
    BY <1>0, <2>3 DEF Inductive, UnmadeIsNew, TasksFit, Fits, VaultIds
  <2>w. (RefreshWaits' <=> RefreshWaits) /\ \A w \in Vaults : PurgeWaits(w)' <=> PurgeWaits(w)
    BY <1>1 DEF RefreshWaits, PurgeWaits
  <2>7. Typed'
    BY <1>1, <2>3, <2>4, <2>5 DEF Inductive, Typed
  <2>8. TasksFit'
    <3>1. \A u \in Tasks : Fits(task[u])
      BY DEF Inductive, TasksFit
    <3> QED BY <1>0, <1>1, <2>w, <2>3, <2>5, <3>1 DEF Inductive, TasksFit, Fits
  <2>9. UnmadeIsNew'
    BY <1>1, <2>w, <2>4, <2>5 DEF Inductive, UnmadeIsNew
  <2>10. NamesAreUnique'
    <3>1. ActiveVaults' = ActiveVaults \union {v}
      BY <2>1, <2>4 DEF ActiveVaults, Active
    <3>2. \A w \in ActiveVaults : w # v /\ row'[w] = row[w] /\ row[w].name # q.name
      BY <1>3, <2>1, <2>4, <2>6 DEF ActiveVaults, Active, IndexAdmits
    <3> QED BY <2>4, <3>1, <3>2 DEF Inductive, NamesAreUnique
  <2>11. RolesHaveWrappers'
    BY <1>0, <2>1, <2>3, <2>4, <2>6 DEF Inductive, RolesHaveWrappers, TasksFit, Fits
  <2>12. LockExcludes'
    BY <1>0, <1>1, <2>3 DEF Inductive, LockExcludes, IsInside, VaultIds
  <2>13. \A w \in Vaults : (\E u \in Tasks : Drives(task'[u], w)) <=> (\E u \in Tasks : Drives(task[u], w))
    BY <1>0, <1>1, <2>3 DEF Drives
  <2>14. DeletedFirst'
    BY <1>1, <2>w, <2>4, <2>5, <2>6, <2>13 DEF Inductive, DeletedFirst, Active, Drives
  <2>15. Driven'
    BY <1>1, <2>w, <2>1, <2>4, <2>5, <2>13 DEF Inductive, Driven
  <2>16. LeftEmpty'
    BY <1>0, <1>1, <2>3, <2>4, <2>5, <2>6 DEF Inductive, LeftEmpty, Removes, Inserts
  <2>17. BrokenIsPurged'
    BY <1>0, <1>1, <2>w, <2>3, <2>4, <2>5, <2>6 DEF Inductive, BrokenIsPurged, Purges
  <2>18. LimitsFollow'
    <3>1. Policy' = Policy /\ (Asked' <=> Asked)
      BY <1>0, <1>1, <2>w, <2>3 DEF Policy, SelfHosted, Asked
    <3>2. \A w \in Vaults : (\E u \in Tasks : WillRefresh(task[u], w)) => \E u \in Tasks : WillRefresh(task[u], w)'
      BY <1>0, <1>1, <2>3 DEF WillRefresh
    <3> QED BY <1>1, <2>5, <3>1, <3>2 DEF Inductive, LimitsFollow, IsBehind
  <2> QED BY <2>7, <2>8, <2>9, <2>10, <2>11, <2>12, <2>14, <2>15, <2>16, <2>17, <2>18 DEF Inductive
<1> QED BY <1>2, <1>3 DEF CreateInserts

\* A deletion that failed brings the vault back, unless its name has been taken meanwhile.
LEMMA RestoredKeeps ==
  ASSUME VaultIds, Inductive, NEW t \in Tasks, Restored(t)
  PROVE  Inductive'
<1> DEFINE v == task[t].vault
<1>0. /\ Idle \in TaskRecords /\ task[t] \in TaskRecords /\ task \in [Tasks -> TaskRecords]
      /\ row \in [Vaults -> Rows] /\ Fits(Idle) /\ Fits(task[t]) /\ hist \in Histories
      /\ hist.made \subseteq Vaults
      /\ Idle.kind = "none" /\ Idle.pc = "idle" /\ Idle.vault = "none"
  BY IdleIs DEF Inductive, Typed, TasksFit, Histories
<1>1. /\ task[t].kind = "delete" /\ task[t].pc = "restore" /\ v \in Vaults /\ v \in hist.made
      /\ Moves(t, Idle) /\ UNCHANGED <<deployment, plan, queue, refreshes, coord, objects>>
  BY <1>0 DEF Restored, At, Ends, Moves, Fits
<1>2. PICK q \in Rows :
        /\ row' = [row EXCEPT ![v] = q] /\ q.kept = row[v].kept /\ q.name = row[v].name
        /\ q.role = row[v].role /\ q.wrappers = row[v].wrappers
        /\ \/ q = row[v] /\ q.deleted /\ ~IndexAdmits(v, q.name) /\ hist' = [hist EXCEPT !.stuck = @ \cup {v}]
           \/ /\ (q.kept => ~q.deleted) /\ (row[v].deleted => IndexAdmits(v, q.name))
              /\ hist' = [hist EXCEPT !.back = @ \cup {v}]
  <2>1. CASE row[v].deleted /\ ~IndexAdmits(v, row[v].name)
    BY <1>0, <1>1, <2>1 DEF Restored
  <2>2. CASE ~(row[v].deleted /\ ~IndexAdmits(v, row[v].name))
    <3>1. MarkQueueFailed(row[v]) \in Rows
      BY <1>0, <1>1, MarksAre
    <3> QED BY <1>0, <1>1, <2>2, <3>1, MarksAre DEF Restored
  <2> QED BY <2>1, <2>2
<1>3. /\ hist' \in Histories /\ hist'.made = hist.made /\ hist'.filled = hist.filled
      /\ hist'.cut = hist.cut /\ hist'.dropped = hist.dropped /\ hist'.behind = hist.behind
      /\ hist.stuck \subseteq hist'.stuck /\ hist.back \subseteq hist'.back
      /\ hist'.stuck \subseteq hist.stuck \union {v}
      /\ (v \in hist'.back \/ (q = row[v] /\ q.deleted))
      /\ (q.kept /\ q.deleted => v \in hist'.stuck)
  BY <1>0, <1>1, <1>2 DEF Histories
<1> HIDE DEF v
<1>4. /\ task' \in [Tasks -> TaskRecords] /\ task'[t] = Idle
      /\ \A u \in Tasks \ {t} : task'[u] = task[u]
  BY <1>0, <1>1 DEF Moves
<1>5. /\ row' \in [Vaults -> Rows] /\ row'[v] = q /\ \A w \in Vaults \ {v} : row'[w] = row[w]
  BY <1>0, <1>1, <1>2
<1>w. (RefreshWaits' <=> RefreshWaits) /\ \A w \in Vaults : PurgeWaits(w)' <=> PurgeWaits(w)
  BY <1>1 DEF RefreshWaits, PurgeWaits
<1>6. Typed'
  BY <1>1, <1>3, <1>4, <1>5 DEF Inductive, Typed
<1>7. TasksFit' /\ UnmadeIsNew'
  <2>1. \A u \in Tasks : Fits(task[u])
    BY DEF Inductive, TasksFit
  <2>2. TasksFit'
    BY <1>0, <1>1, <1>w, <1>3, <1>4, <2>1 DEF Inductive, TasksFit, Fits
  <2> QED BY <1>1, <1>w, <1>2, <1>3, <1>5, <2>2 DEF Inductive, UnmadeIsNew
<1>8. NamesAreUnique'
  <2>1. \A w \in ActiveVaults' \ {v} : w \in ActiveVaults /\ row'[w] = row[w]
    BY <1>5 DEF ActiveVaults, Active
  <2>2. v \in ActiveVaults' => v \in ActiveVaults \/ IndexAdmits(v, q.name)
    BY <1>1, <1>2, <1>5 DEF ActiveVaults, Active
  <2>3. ASSUME NEW w \in ActiveVaults', NEW x \in ActiveVaults', row'[w].name = row'[x].name
        PROVE  w = x
    <3>1. \A y \in ActiveVaults' : row'[y].name = row[y].name
      BY <1>2, <1>5 DEF ActiveVaults
    <3>2. CASE w # v /\ x # v
      BY <2>1, <2>3, <3>2 DEF Inductive, NamesAreUnique
    <3>3. CASE v \in ActiveVaults
      BY <2>1, <2>3, <3>1, <3>3 DEF Inductive, NamesAreUnique
    <3>4. CASE IndexAdmits(v, q.name)
      BY <1>2, <2>1, <2>2, <2>3, <3>1, <3>2, <3>4 DEF IndexAdmits
    <3> QED BY <2>2, <3>2, <3>3, <3>4
  <2> QED BY <2>3 DEF NamesAreUnique
<1>9. RolesHaveWrappers'
  <2>1. \A w \in Vaults : row'[w].kept = row[w].kept /\ row'[w].role = row[w].role /\ row'[w].wrappers = row[w].wrappers
    BY <1>2, <1>5
  <2>2. \A u \in Tasks : task'[u].kind = "grant" => task'[u] = task[u] /\ task'[u].vault \in Vaults
    BY <1>0, <1>4 DEF Inductive, TasksFit, Fits
  <2> QED BY <2>1, <2>2 DEF Inductive, RolesHaveWrappers, Has
<1>10. LockExcludes'
  BY <1>0, <1>1, <1>4 DEF Inductive, LockExcludes, IsInside, VaultIds
<1>11. \A w \in Vaults \ {v} : (\E u \in Tasks : Drives(task'[u], w)) <=> (\E u \in Tasks : Drives(task[u], w))
  BY <1>0, <1>1, <1>4 DEF Drives, v
<1>12. DeletedFirst'
  <2>1. (\E u \in Tasks : Drives(task'[u], v)) => (\E u \in Tasks : Drives(task[u], v))
    BY <1>0, <1>4 DEF Drives
  <2> QED BY <1>1, <1>w, <1>3, <1>5, <1>11, <2>1 DEF Inductive, DeletedFirst, Active
<1>13. Driven'
  BY <1>1, <1>w, <1>2, <1>3, <1>5, <1>11 DEF Inductive, Driven
<1>14. LeftEmpty'
  BY <1>0, <1>1, <1>2, <1>3, <1>4, <1>5 DEF Inductive, LeftEmpty, Removes, Inserts
<1>15. BrokenIsPurged'
  <2>1. \A w \in Vaults : row'[w].kept = row[w].kept
    BY <1>2, <1>5
  <2> QED BY <1>0, <1>1, <1>w, <1>3, <1>4, <2>1 DEF Inductive, BrokenIsPurged, Purges
<1>16. LimitsFollow'
  <2>1. Policy' = Policy /\ (Asked' <=> Asked)
    BY <1>0, <1>1, <1>w, <1>4 DEF Policy, SelfHosted, Asked
  <2>2. \A w \in Vaults : (\E u \in Tasks : WillRefresh(task[u], w)) => \E u \in Tasks : WillRefresh(task[u], w)'
    BY <1>0, <1>1, <1>4 DEF WillRefresh
  <2> QED BY <1>1, <1>3, <2>1, <2>2 DEF Inductive, LimitsFollow, IsBehind
<1> QED BY <1>6, <1>7, <1>8, <1>9, <1>10, <1>12, <1>13, <1>14, <1>15, <1>16 DEF Inductive

\* The last of a vault is its row.
LEMMA RowRemovedKeeps ==
  ASSUME VaultIds, Inductive, NEW t \in Tasks, RowRemoved(t)
  PROVE  Inductive'
<1> DEFINE v == task[t].vault
<1>0. /\ Idle \in TaskRecords /\ task[t] \in TaskRecords /\ task \in [Tasks -> TaskRecords]
      /\ row \in [Vaults -> Rows] /\ Fits(Idle) /\ Fits(task[t]) /\ hist.made \subseteq Vaults
      /\ Idle.kind = "none" /\ Idle.pc = "idle" /\ Idle.vault = "none"
  BY IdleIs DEF Inductive, Typed, TasksFit, Histories
<1>1. /\ task[t].kind \in {"delete", "purge"} /\ task[t].pc = "remove" /\ v \in Vaults /\ v \in hist.made
      /\ Moves(t, Idle) /\ UNCHANGED <<deployment, plan, queue, refreshes, coord, objects, hist>>
      /\ row' = [row EXCEPT ![v] = NoRow]
  BY <1>0 DEF RowRemoved, Ends, Moves, Fits, TaskRecords, Kinds
<1>2. Removes(task[t], v)
  BY <1>1 DEF Removes
<1>3. NoRow \in Rows /\ ~NoRow.kept /\ ~NoRow.deleted /\ \A u \in Users : NoRow.role[u] = "none"
  BY DEF NoRow, Rows
<1>4. /\ task' \in [Tasks -> TaskRecords] /\ task'[t] = Idle
      /\ \A u \in Tasks \ {t} : task'[u] = task[u]
  BY <1>0, <1>1 DEF Moves
<1> HIDE DEF v
<1>5. /\ row' \in [Vaults -> Rows] /\ row'[v] = NoRow /\ \A w \in Vaults \ {v} : row'[w] = row[w]
  BY <1>0, <1>1, <1>3
<1>w. (RefreshWaits' <=> RefreshWaits) /\ \A w \in Vaults : PurgeWaits(w)' <=> PurgeWaits(w)
  BY <1>1 DEF RefreshWaits, PurgeWaits
<1>6. Typed' /\ UnmadeIsNew'
  BY <1>1, <1>w, <1>3, <1>4, <1>5 DEF Inductive, Typed, UnmadeIsNew
<1>7. TasksFit'
  BY <1>0, <1>1, <1>w, <1>4 DEF Inductive, TasksFit, Fits
<1>8. NamesAreUnique'
  <2>1. \A w \in ActiveVaults' : w \in ActiveVaults /\ row'[w] = row[w]
    BY <1>3, <1>5 DEF ActiveVaults, Active
  <2> QED BY <2>1 DEF Inductive, NamesAreUnique
<1>9. RolesHaveWrappers'
  <2>1. \A u \in Tasks : task'[u].kind = "grant" => task'[u] = task[u] /\ task'[u].vault \in Vaults
    BY <1>0, <1>4 DEF Inductive, TasksFit, Fits
  <2> QED BY <1>3, <1>5, <2>1 DEF Inductive, RolesHaveWrappers
<1>10. LockExcludes'
  BY <1>0, <1>1, <1>4 DEF Inductive, LockExcludes, IsInside, VaultIds
<1>11. \A w \in Vaults \ {v} : (\E u \in Tasks : Drives(task'[u], w)) <=> (\E u \in Tasks : Drives(task[u], w))
  BY <1>0, <1>1, <1>4 DEF Drives, v
<1>12. DeletedFirst' /\ Driven'
  BY <1>1, <1>w, <1>3, <1>5, <1>11 DEF Inductive, DeletedFirst, Driven, Active
<1>13. LeftEmpty'
  BY <1>0, <1>1, <1>2, <1>3, <1>4, <1>5 DEF Inductive, LeftEmpty, Removes, Inserts
<1>14. BrokenIsPurged'
  BY <1>0, <1>1, <1>w, <1>3, <1>4, <1>5 DEF Inductive, BrokenIsPurged, Purges, v
<1>15. LimitsFollow'
  <2>1. Policy' = Policy /\ (Asked' <=> Asked)
    BY <1>0, <1>1, <1>w, <1>4 DEF Policy, SelfHosted, Asked
  <2>2. \A w \in Vaults : (\E u \in Tasks : WillRefresh(task[u], w)) => \E u \in Tasks : WillRefresh(task[u], w)'
    BY <1>0, <1>1, <1>4 DEF WillRefresh
  <2> QED BY <1>1, <2>1, <2>2 DEF Inductive, LimitsFollow, IsBehind
<1> QED BY <1>6, <1>7, <1>8, <1>9, <1>10, <1>12, <1>13, <1>14, <1>15 DEF Inductive

-----------------------------------------------------------------------------
(* Steps in one coordinator.                                                *)

Broken(v) == coord[v].purged \/ (v \in hist.filled /\ (~coord[v].entry \/ v \notin objects))

\* The coordinator of v becomes c and the task t becomes r: whoever goes in finds the lock free,
\* state is only made where there are tables, by a task that has seen the vault active, new
\* limits are noted, and what is broken is broken by a purge.
WritesCoordinator(t, r, v, c) ==
  LET was == task[t] IN
  /\ c \in Coordinators /\ coord' = [coord EXCEPT ![v] = c]
  /\ (c.lock => deployment = "node") /\ (c.entry => c.state)
  /\ objects' \subseteq Vaults /\ \A w \in Vaults \ {v} : w \in objects' <=> w \in objects
  /\ \/ /\ hist' = hist \/ hist' = [hist EXCEPT !.filled = @ \cup {v}]
        /\ c.state /\ c.limits # Policy => IsBehind(v)
     \/ hist' = [hist EXCEPT !.behind = IF c.limits = Policy THEN @ \ {v} ELSE @ \cup {v}]
  /\ \A w \in Vaults :
       /\ Drives(r, w) <=> Drives(was, w)
       /\ Purges(was, w) => Purges(r, w)
       /\ IsInside(r, w) /\ deployment = "node" =>
            w = v /\ c.lock /\ (IsInside(was, v) \/ ~coord[v].lock)
       /\ Inserts(r, w) => w = v /\ Active(v)
       /\ Removes(r, w) /\ ~Removes(was, w) =>
            w = v /\ ~c.state /\ (c.tables => deployment = "node" /\ IsInside(was, v))
  /\ deployment = "node" /\ coord[v].lock /\ ~c.lock => IsInside(was, v)
  /\ c.tables => coord[v].tables \/ (deployment = "node" /\ IsInside(was, v))
  /\ c.state /\ ~coord[v].state => Inserts(was, v) /\ coord[v].tables
  /\ deployment = "managed" => (Broken(v)' => Broken(v) \/ Purges(r, v))
  /\ ~(r.kind = "grant" /\ r.pc = "second")
  /\ {was.kind, r.kind} \intersect {"webhook", "refresh"} = {}

\* A step that writes one coordinator as WritesCoordinator says keeps the invariant.
LEMMA WritesCoordinatorKeeps ==
  ASSUME VaultIds, Inductive, NEW t \in Tasks, NEW r, Moves(t, r), Fits(r),
         NEW v \in hist.made, NEW c, WritesCoordinator(t, r, v, c),
         UNCHANGED <<deployment, row, plan, queue, refreshes>>
  PROVE  Inductive'
<1>0. /\ task' \in [Tasks -> TaskRecords] /\ task'[t] = r
      /\ \A u \in Tasks \ {t} : task'[u] = task[u]
  BY MovesAre DEF Inductive
<1>m. hist.made \subseteq Vaults /\ v \in Vaults /\ hist \in Histories
  BY DEF Inductive, Typed, Histories
<1>c. /\ coord' \in [Vaults -> Coordinators] /\ coord'[v] = c
      /\ \A w \in Vaults \ {v} : coord'[w] = coord[w]
  BY <1>m DEF WritesCoordinator, Inductive, Typed
<1>h. /\ hist' \in Histories /\ hist'.made = hist.made /\ hist'.stuck = hist.stuck
      /\ hist'.cut = hist.cut /\ hist'.dropped = hist.dropped /\ hist'.back = hist.back
      /\ hist.filled \subseteq hist'.filled /\ hist'.filled \subseteq hist.filled \union {v}
      /\ \A w \in Vaults \ {v} : w \in hist'.behind <=> w \in hist.behind
  BY <1>m DEF WritesCoordinator, Histories
<1>w. (RefreshWaits' <=> RefreshWaits) /\ \A w \in Vaults : PurgeWaits(w)' <=> PurgeWaits(w)
  BY DEF RefreshWaits, PurgeWaits
<1>1. Typed'
  BY <1>0, <1>c, <1>h DEF Inductive, Typed, WritesCoordinator
<1>2. TasksFit' /\ UnmadeIsNew'
  BY <1>0, <1>m, <1>w, <1>c, <1>h DEF Inductive, TasksFit, Fits, UnmadeIsNew
<1>3. NamesAreUnique'
  BY DEF Inductive, NamesAreUnique, ActiveVaults, Active
<1>4. RolesHaveWrappers'
  BY <1>0 DEF Inductive, RolesHaveWrappers, WritesCoordinator
<1>5. LockExcludes'
  <2> SUFFICES ASSUME deployment = "node"
               PROVE  /\ \A u \in Tasks, w \in Vaults : IsInside(task'[u], w) => coord'[w].lock
                      /\ \A u, x \in Tasks, w \in Vaults :
                           IsInside(task'[u], w) /\ IsInside(task'[x], w) => u = x
    BY DEF LockExcludes, IsInside
  <2>1. /\ \A u \in Tasks, w \in Vaults : IsInside(task[u], w) => coord[w].lock
        /\ \A u, x \in Tasks, w \in Vaults : IsInside(task[u], w) /\ IsInside(task[x], w) => u = x
    BY DEF Inductive, LockExcludes
  <2>2. \A w \in Vaults : IsInside(r, w) => w = v /\ c.lock /\ (IsInside(task[t], v) \/ ~coord[v].lock)
    BY DEF WritesCoordinator
  <2>3. coord[v].lock /\ ~c.lock => IsInside(task[t], v)
    BY DEF WritesCoordinator
  <2> QED BY <1>0, <1>m, <1>c, <2>1, <2>2, <2>3
<1>6. \A w \in Vaults : (\E u \in Tasks : Drives(task'[u], w)) <=> (\E u \in Tasks : Drives(task[u], w))
  BY <1>0 DEF WritesCoordinator, Drives
<1>7. DeletedFirst' /\ Driven'
  BY <1>6, <1>w, <1>h DEF Inductive, DeletedFirst, Driven, Active
<1>8. LeftEmpty'
  <2> SUFFICES ASSUME NEW w \in hist.made \ hist.back,
                      ~row[w].kept \/ (\E u \in Tasks : Removes(task'[u], w))
               PROVE  /\ ~coord'[w].state
                      /\ coord'[w].tables => \A u \in Tasks : ~Inserts(task'[u], w)
    BY <1>h DEF LeftEmpty, Removes, Inserts
  <2>0. w \in Vaults
    BY <1>m
  <2>1. ~row[w].kept \/ (\E u \in Tasks : Removes(task[u], w)) =>
          ~coord[w].state /\ (coord[w].tables => \A u \in Tasks : ~Inserts(task[u], w))
    BY DEF Inductive, LeftEmpty
  <2>2. ~Active(w)
    <3>1. CASE ~row[w].kept
      BY <3>1 DEF Active
    <3>2. CASE \E u \in Tasks : Removes(task'[u], w)
      <4>1. \E u \in Tasks : Drives(task'[u], w)
        BY <3>2 DEF Removes, Drives
      <4> QED BY <1>6, <2>0, <4>1 DEF Inductive, DeletedFirst
    <3> QED BY <3>1, <3>2
  <2>3. ~Inserts(r, w)
    BY <2>0, <2>2 DEF WritesCoordinator
  <2>i. deployment = "node" /\ IsInside(task[t], v) => \A u \in Tasks \ {t} : ~Inserts(task[u], v)
    BY <1>m DEF Inductive, LockExcludes, Inserts, IsInside
  <2>4. CASE ~row[w].kept \/ (\E u \in Tasks : Removes(task[u], w))
    <3>1. CASE w = v
      <4>1. ~c.state
        BY <2>1, <2>4, <3>1 DEF WritesCoordinator
      <4>2. c.tables => coord[v].tables \/ (deployment = "node" /\ IsInside(task[t], v))
        BY DEF WritesCoordinator
      <4> QED BY <1>0, <1>c, <1>m, <2>1, <2>3, <2>4, <2>i, <3>1, <4>1, <4>2
    <3>2. CASE w # v
      BY <1>0, <1>c, <2>0, <2>1, <2>3, <2>4, <3>2
    <3> QED BY <3>1, <3>2
  <2>5. CASE ~(~row[w].kept \/ (\E u \in Tasks : Removes(task[u], w)))
    <3>1. Removes(r, w) /\ ~Removes(task[t], w)
      BY <1>0, <2>5
    <3>2. w = v /\ ~c.state /\ (c.tables => deployment = "node" /\ IsInside(task[t], v))
      BY <2>0, <3>1 DEF WritesCoordinator
    <3> QED BY <1>0, <1>c, <1>m, <2>3, <2>i, <3>2
  <2> QED BY <2>4, <2>5
<1>9. BrokenIsPurged'
  <2> SUFFICES ASSUME deployment = "managed", NEW w \in hist.made \ hist.dropped, Broken(w)', row[w].kept,
                      ~PurgeWaits(w)
               PROVE  \E u \in Tasks : Purges(task'[u], w)
    BY <1>h, <1>w, <1>m DEF BrokenIsPurged, Broken, Purges
  <2>1. Broken(w) => \E u \in Tasks : Purges(task[u], w)
    BY DEF Inductive, BrokenIsPurged, Broken
  <2>2. (\E u \in Tasks : Purges(task[u], w)) => \E u \in Tasks : Purges(task'[u], w)
    BY <1>0, <1>m DEF WritesCoordinator
  <2>3. CASE w = v
    BY <1>0, <2>1, <2>2, <2>3 DEF WritesCoordinator
  <2>4. CASE w # v
    <3>1. Broken(w)
      BY <1>c, <1>h, <1>m, <2>4 DEF Broken, WritesCoordinator
    <3> QED BY <2>1, <2>2, <3>1
  <2> QED BY <2>3, <2>4
<1>10. LimitsFollow'
  <2>1. Policy' = Policy
    BY DEF Policy, SelfHosted
  <2>2. r.kind \notin {"webhook", "refresh"} /\ task[t].kind \notin {"webhook", "refresh"}
    BY DEF WritesCoordinator
  <2>3. Asked' <=> Asked
    BY <1>0, <1>w, <2>2 DEF Asked
  <2>4. \A w \in Vaults : (\E u \in Tasks : WillRefresh(task[u], w)) => \E u \in Tasks : WillRefresh(task[u], w)'
    BY <1>0, <2>2 DEF WillRefresh
  <2>5. \A w \in Vaults : w \notin hist'.behind /\ IsBehind(w)' => w \notin hist.behind /\ IsBehind(w)
    <3>1. ASSUME NEW w \in Vaults \ {v}, w \notin hist'.behind, IsBehind(w)'
          PROVE  w \notin hist.behind /\ IsBehind(w)
      BY <1>c, <1>h, <2>1, <3>1 DEF IsBehind
    <3>2. ASSUME v \notin hist'.behind, IsBehind(v)'
          PROVE  v \notin hist.behind /\ IsBehind(v)
      <4>1. c.state /\ c.limits # Policy
        BY <1>c, <2>1, <3>2 DEF IsBehind
      <4>2. \/ hist'.behind = hist.behind /\ IsBehind(v)
            \/ v \in hist'.behind
        BY <1>m, <4>1 DEF WritesCoordinator, Histories
      <4> QED BY <3>2, <4>2
    <3> QED BY <3>1, <3>2
  <2> QED BY <2>1, <2>3, <2>4, <2>5 DEF Inductive, LimitsFollow
<1> QED BY <1>1, <1>2, <1>3, <1>4, <1>5, <1>7, <1>8, <1>9, <1>10 DEF Inductive

\* What becomes of a coordinator, one operation at a time.
LEMMA CoordinatorsAre ==
  ASSUME NEW c \in Coordinators, NEW u \in Users
  PROVE  /\ /\ Locked(c) \in Coordinators /\ Unlocked(c) \in Coordinators
            /\ Accepted(c, u) \in Coordinators /\ Emptied(c) \in Coordinators
            /\ Restarted(c) \in Coordinators
         /\ /\ Locked(c).lock = (deployment = "node") /\ ~Unlocked(c).lock /\ Accepted(c, u).lock = c.lock
            /\ Emptied(c).lock = c.lock /\ ~Restarted(c).lock
         /\ \A d \in {Locked(c), Unlocked(c), Accepted(c, u)} :
              /\ d.tables = c.tables /\ d.state = c.state /\ d.limits = c.limits /\ d.entry = c.entry
              /\ d.purged = c.purged
         /\ ~Emptied(c).state /\ ~Emptied(c).entry /\ Emptied(c).purged = c.purged
         /\ (Emptied(c).tables => deployment = "node")
         /\ /\ Restarted(c).tables /\ ~Restarted(c).purged /\ Restarted(c).state = c.state
            /\ Restarted(c).limits = c.limits /\ Restarted(c).entry = c.entry
<1>1. Locked(c) \in Coordinators /\ Unlocked(c) \in Coordinators /\ Restarted(c) \in Coordinators
  BY DEF Locked, Unlocked, Restarted, Coordinators
<1>2. Accepted(c, u) \in Coordinators
  BY DEF Accepted, Coordinators
<1>3. Emptied(c) \in Coordinators
  BY DEF Emptied, TablesAfterPurge, Coordinators, Plans
<1>4. /\ Locked(c).lock = (deployment = "node") /\ ~Unlocked(c).lock /\ Accepted(c, u).lock = c.lock
      /\ Emptied(c).lock = c.lock /\ ~Restarted(c).lock
  BY DEF Locked, Unlocked, Restarted, Coordinators, Accepted, Emptied
<1>5. \A d \in {Locked(c), Unlocked(c), Accepted(c, u)} :
        /\ d.tables = c.tables /\ d.state = c.state /\ d.limits = c.limits /\ d.entry = c.entry
        /\ d.purged = c.purged
  BY DEF Locked, Unlocked, Coordinators, Accepted
<1>6. /\ ~Emptied(c).state /\ ~Emptied(c).entry /\ Emptied(c).purged = c.purged
      /\ (Emptied(c).tables => deployment = "node")
  BY DEF Emptied, TablesAfterPurge, Coordinators
<1>7. /\ Restarted(c).tables /\ ~Restarted(c).purged /\ Restarted(c).state = c.state
      /\ Restarted(c).limits = c.limits /\ Restarted(c).entry = c.entry
  BY DEF Restarted, Coordinators
<1> QED BY <1>1, <1>2, <1>3, <1>4, <1>5, <1>6, <1>7

PurgeSteps(t) == SocketsClosed(t) \/ StateEmptied(t) \/ PrefixFails(t)

\* The steps of a purge in the coordinator.
LEMMA PurgeStepsKeep ==
  ASSUME VaultIds, Inductive, NEW t \in Tasks, PurgeSteps(t)
  PROVE  Inductive'
<1> DEFINE v == task[t].vault
           was == coord[v]
<1>0. /\ task[t] \in TaskRecords /\ task \in [Tasks -> TaskRecords] /\ Fits(task[t])
      /\ hist.made \subseteq Vaults /\ coord \in [Vaults -> Coordinators] /\ objects \subseteq Vaults
  BY DEF Inductive, Typed, TasksFit, Histories
<1>1. /\ task[t].kind \in {"delete", "purge"} /\ task[t].pc \in {"close", "prefix"}
      /\ v \in Vaults /\ v \in hist.made /\ was \in Coordinators /\ task[t].user \in Users
      /\ (was.lock => deployment = "node") /\ (was.entry => was.state)
      /\ (deployment = "managed" => task[t].kind = "purge")
      /\ UNCHANGED <<deployment, row, plan, queue, refreshes, hist>>
  BY <1>0 DEF PurgeSteps, SocketsClosed, StateEmptied, PrefixFails, Fits, TaskRecords, Kinds, Inductive, Typed,
              Purging
<1>2. ASSUME NEW pc \in {"prefix", "remove", "failed"}, Goes(t, pc)
      PROVE  \E r : /\ Moves(t, r) /\ Fits(r) /\ r.kind = task[t].kind /\ r.pc = pc
                    /\ r.vault = v
  <2> DEFINE r == [task[t] EXCEPT !.pc = pc]
  <2>1. Moves(t, r) /\ r.kind = task[t].kind /\ r.pc = pc /\ r.vault = v
    BY <1>0, <1>2 DEF Goes, Moves, TaskRecords, Pcs
  <2> HIDE DEF r
  <2>2. Fits(r)
    BY <1>0, <1>1, <2>1 DEF Fits, Purging
  <2> QED BY <2>1, <2>2
<1> HIDE DEF was
<1>3. CASE SocketsClosed(t)
  <2> DEFINE shut == [was EXCEPT !.purged = TRUE, !.sockets = {}]
             c == Locked(shut)
  <2>1. /\ shut \in Coordinators /\ shut.tables = was.tables /\ shut.state = was.state
        /\ shut.limits = was.limits /\ shut.entry = was.entry /\ shut.lock = was.lock
    BY <1>1 DEF Coordinators
  <2> HIDE DEF shut
  <2>2. /\ c \in Coordinators /\ c.tables = was.tables /\ c.state = was.state
        /\ c.limits = was.limits /\ c.entry = was.entry /\ c.lock = (deployment = "node")
    BY <1>1, <2>1, CoordinatorsAre
  <2>3. /\ coord' = [coord EXCEPT ![v] = c] /\ UNCHANGED objects /\ Goes(t, "prefix")
        /\ (deployment = "node" => ~was.lock) /\ task[t].pc = "close"
    BY <1>3 DEF SocketsClosed, Enters, shut, was
  <2> HIDE DEF c
  <2>4. PICK r : Moves(t, r) /\ Fits(r) /\ r.kind = task[t].kind /\ r.pc = "prefix" /\ r.vault = v
    BY <1>2, <2>3
  <2>5. WritesCoordinator(t, r, v, c)
    BY <1>0, <1>1, <2>2, <2>3, <2>4
    DEF WritesCoordinator, Drives, Purges, Removes, Inserts, IsInside, IsBehind, Broken, was
  <2> QED BY <1>1, <2>4, <2>5, WritesCoordinatorKeeps
<1>4. CASE StateEmptied(t)
  <2> DEFINE c == Unlocked(Emptied(was))
  <2>1. /\ c \in Coordinators /\ ~c.state /\ ~c.entry /\ ~c.lock
        /\ (c.tables => deployment = "node") /\ Emptied(was).tables = c.tables
    BY <1>1, CoordinatorsAre
  <2>2. /\ coord' = [coord EXCEPT ![v] = c] /\ objects' = objects \ {v} /\ Goes(t, "remove")
        /\ task[t].pc = "prefix"
    BY <1>4 DEF StateEmptied, was
  <2> HIDE DEF c
  <2>3. PICK r : Moves(t, r) /\ Fits(r) /\ r.kind = task[t].kind /\ r.pc = "remove" /\ r.vault = v
    BY <1>2, <2>2
  <2>4. WritesCoordinator(t, r, v, c)
    BY <1>0, <1>1, <2>1, <2>2, <2>3
    DEF WritesCoordinator, Drives, Purges, Removes, Inserts, IsInside, IsBehind, Broken, was
  <2> QED BY <1>1, <2>3, <2>4, WritesCoordinatorKeeps
<1>5. CASE PrefixFails(t)
  <2> DEFINE c == Unlocked(was)
  <2>1. /\ c \in Coordinators /\ ~c.lock /\ c.tables = was.tables /\ c.state = was.state
        /\ c.limits = was.limits /\ c.entry = was.entry
    BY <1>1, CoordinatorsAre
  <2>2. /\ coord' = [coord EXCEPT ![v] = c] /\ objects' \in {objects, objects \ {v}} /\ Goes(t, "failed")
        /\ task[t].pc = "prefix"
    BY <1>5 DEF PrefixFails, was
  <2> HIDE DEF c
  <2>3. PICK r : Moves(t, r) /\ Fits(r) /\ r.kind = task[t].kind /\ r.pc = "failed" /\ r.vault = v
    BY <1>2, <2>2
  <2>4. WritesCoordinator(t, r, v, c)
    BY <1>0, <1>1, <2>1, <2>2, <2>3
    DEF WritesCoordinator, Drives, Purges, Removes, Inserts, IsInside, IsBehind, Broken, was
  <2> QED BY <1>1, <2>3, <2>4, WritesCoordinatorKeeps
<1> QED BY <1>3, <1>4, <1>5 DEF PurgeSteps

\* The same for a task that opens or fills v.
LEMMA VisitsWrite ==
  ASSUME VaultIds, Inductive, NEW t \in Tasks, NEW r, NEW v \in hist.made, NEW c \in Coordinators,
         task[t].vault = v, task[t].kind \in {"open", "upload"}, r.kind \in {"none", "open", "upload"},
         r.vault \in {"none", v}, r.pc # "prefix", r.kind = "none" => r.pc = "idle",
         task[t].kind = "upload" => task[t].pc \in {"put", "commit"},
         r.kind = "upload" => r.pc = "commit",
         coord' = [coord EXCEPT ![v] = c], UNCHANGED <<deployment, row, plan>>,
         c.lock => deployment = "node", c.entry => c.state, c.tables = coord[v].tables,
         c.purged = coord[v].purged, coord[v].entry => c.entry,
         objects' \subseteq Vaults, objects \subseteq objects', \A w \in Vaults \ {v} : w \in objects' <=> w \in objects,
         \/ hist' = hist /\ (c.state /\ c.limits # Policy => IsBehind(v))
         \/ /\ hist' = [hist EXCEPT !.filled = @ \cup {v}] /\ c.entry /\ v \in objects
            /\ (c.state /\ c.limits # Policy => IsBehind(v))
         \/ hist' = [hist EXCEPT !.behind = IF c.limits = Policy THEN @ \ {v} ELSE @ \cup {v}],
         r.kind = "open" /\ r.pc \in {"limits", "insert"} /\ deployment = "node" =>
           c.lock /\ (IsInside(task[t], v) \/ ~coord[v].lock),
         Inserts(r, v) => Active(v),
         deployment = "node" /\ coord[v].lock /\ ~c.lock => IsInside(task[t], v),
         c.state /\ ~coord[v].state => Inserts(task[t], v) /\ coord[v].tables
  PROVE  WritesCoordinator(t, r, v, c)
<1>0. hist.made \subseteq Vaults /\ hist \in Histories /\ coord \in [Vaults -> Coordinators]
  BY DEF Inductive, Typed, Histories
<1>1. \A w \in Vaults : /\ Drives(r, w) <=> Drives(task[t], w)
                        /\ Purges(task[t], w) => Purges(r, w)
                        /\ Removes(r, w) /\ ~Removes(task[t], w) =>
                             w = v /\ ~c.state /\ (c.tables => deployment = "node" /\ IsInside(task[t], v))
  BY DEF Drives, Purges, Removes
<1>2. \A w \in Vaults : IsInside(r, w) /\ deployment = "node" =>
                          w = v /\ c.lock /\ (IsInside(task[t], v) \/ ~coord[v].lock)
  <2>1. ASSUME NEW w \in Vaults, IsInside(r, w)
        PROVE  w = v /\ r.kind = "open" /\ r.pc \in {"limits", "insert"}
    BY <2>1 DEF IsInside, VaultIds
  <2> QED BY <2>1
<1>3. \A w \in Vaults : Inserts(r, w) => w = v /\ Active(v)
  <2>1. \A w \in Vaults : Inserts(r, w) => w = v
    BY DEF Inserts, VaultIds
  <2> QED BY <2>1
<1>4. Broken(v)' => Broken(v)
  <2>1. coord'[v] = c
    BY <1>0
  <2>2. v \in hist'.filled => v \in hist.filled \/ (c.entry /\ v \in objects)
    BY <1>0 DEF Histories
  <2> QED BY <2>1, <2>2 DEF Broken
<1>5. ~(r.kind = "grant" /\ r.pc = "second") /\ {task[t].kind, r.kind} \intersect {"webhook", "refresh"} = {}
  OBVIOUS
<1> QED BY <1>1, <1>2, <1>3, <1>4, <1>5 DEF WritesCoordinator

OpenSteps(t) == EnsureState(t) \/ ReadInitialLimits(t) \/ StateInserted(t) \/ SocketRegistered(t)

\* The steps that open a vault.
LEMMA OpenStepsKeep ==
  ASSUME VaultIds, Inductive, NEW t \in Tasks, OpenSteps(t)
  PROVE  Inductive'
<1> DEFINE v == task[t].vault
           was == coord[v]
<1>0. /\ task[t] \in TaskRecords /\ task \in [Tasks -> TaskRecords] /\ Fits(task[t])
      /\ hist.made \subseteq Vaults /\ coord \in [Vaults -> Coordinators] /\ objects \subseteq Vaults
      /\ Policy \in Plans
      /\ Idle.kind = "none" /\ Idle.pc = "idle" /\ Idle.vault = "none" /\ Idle \in TaskRecords /\ Fits(Idle)
  BY IdleIs DEF Inductive, Typed, TasksFit, Histories, Policy, Plans
<1>1. /\ task[t].kind = "open" /\ v \in Vaults /\ v \in hist.made /\ was \in Coordinators
      /\ task[t].user \in Users /\ (was.lock => deployment = "node") /\ (was.entry => was.state)
      /\ UNCHANGED <<deployment, row, plan, queue, refreshes, objects>>
      /\ StateInserted(t) \/ UNCHANGED hist
  BY <1>0 DEF OpenSteps, EnsureState, ReadInitialLimits, StateInserted, SocketRegistered, At, Fits,
              TaskRecords, Inductive, Typed
<1>2. ASSUME NEW pc \in {"limits", "accept"}, Goes(t, pc)
      PROVE  \E r : /\ Moves(t, r) /\ Fits(r) /\ r.kind = "open" /\ r.pc = pc /\ r.vault = v
  <2> DEFINE r == [task[t] EXCEPT !.pc = pc]
  <2>1. Moves(t, r) /\ r.kind = task[t].kind /\ r.pc = pc /\ r.vault = v
    BY <1>0, <1>2 DEF Goes, Moves, TaskRecords, Pcs
  <2> HIDE DEF r
  <2>2. Fits(r)
    BY <1>0, <1>1, <2>1 DEF Fits
  <2> QED BY <1>1, <2>1, <2>2
<1>3. Ends(t) => Moves(t, Idle)
  BY <1>0 DEF Ends, Moves
<1>w. was = coord[v]
  OBVIOUS
<1> HIDE DEF was
<1>4. ASSUME NEW c, Ends(t), UNCHANGED hist, c \in Coordinators, coord' = [coord EXCEPT ![v] = c],
             c.tables = was.tables, c.state = was.state, c.limits = was.limits, c.entry = was.entry,
             c.purged = was.purged, c.lock => was.lock,
             deployment = "node" /\ was.lock => IsInside(task[t], v) \/ c.lock
      PROVE  Inductive'
  <2>1. WritesCoordinator(t, Idle, v, c)
    BY <1>0, <1>1, <1>4, <1>w, VisitsWrite DEF Inserts, IsInside, IsBehind, VaultIds
  <2> QED BY <1>0, <1>1, <1>3, <1>4, <2>1, WritesCoordinatorKeeps
<1>5. ASSUME NEW c \in Coordinators, AfterState(t, c), c.tables = was.tables, c.entry = was.entry,
             c.purged = was.purged, c.lock = was.lock,
             deployment = "node" /\ was.lock => IsInside(task[t], v),
             \/ c.state = was.state /\ c.limits = was.limits /\ UNCHANGED hist
             \/ /\ c.state /\ Inserts(task[t], v) /\ was.tables
                /\ hist' = [hist EXCEPT !.behind = IF c.limits = Policy THEN @ \ {v} ELSE @ \cup {v}]
      PROVE  Inductive'
  <2>1. CASE deployment = "node"
    <3> DEFINE d == Unlocked(c)
    <3>1. Goes(t, "accept") /\ coord' = [coord EXCEPT ![v] = d]
      BY <1>5, <2>1 DEF AfterState
    <3>2. /\ d \in Coordinators /\ ~d.lock /\ d.tables = c.tables /\ d.state = c.state
          /\ d.limits = c.limits /\ d.entry = c.entry /\ d.purged = c.purged
      BY <1>1, <1>5, CoordinatorsAre
    <3> HIDE DEF d
    <3>3. PICK r : Moves(t, r) /\ Fits(r) /\ r.kind = "open" /\ r.pc = "accept" /\ r.vault = v
      BY <1>2, <3>1
    <3>4. WritesCoordinator(t, r, v, d)
      BY <1>0, <1>1, <1>5, <2>1, <3>1, <3>2, <3>3, <1>w, VisitsWrite DEF Inserts, IsInside, IsBehind, VaultIds
    <3> QED BY <1>1, <3>3, <3>4, WritesCoordinatorKeeps
  <2>2. CASE deployment # "node"
    <3> DEFINE d == Accepted(c, task[t].user)
    <3>1. Ends(t) /\ coord' = [coord EXCEPT ![v] = d]
      BY <1>5, <2>2 DEF AfterState
    <3>2. /\ d \in Coordinators /\ d.lock = c.lock /\ d.tables = c.tables /\ d.state = c.state
          /\ d.limits = c.limits /\ d.entry = c.entry /\ d.purged = c.purged
      BY <1>1, <1>5, CoordinatorsAre
    <3> HIDE DEF d
    <3>3. WritesCoordinator(t, Idle, v, d)
      BY <1>0, <1>1, <1>5, <2>2, <3>1, <3>2, <1>w, VisitsWrite DEF Inserts, IsInside, IsBehind, VaultIds
    <3> QED BY <1>0, <1>1, <1>3, <3>1, <3>3, WritesCoordinatorKeeps
  <2> QED BY <2>1, <2>2
<1>6. CASE EnsureState(t)
  <2>1. task[t].pc = "ensure" /\ (deployment = "node" => ~was.lock) /\ UNCHANGED hist
    BY <1>6 DEF EnsureState, At, Enters, was
  <2>2. CASE Ends(t) /\ UNCHANGED coord
    <3>1. coord' = [coord EXCEPT ![v] = was]
      BY <1>0, <1>1, <1>w, <2>2
    <3> QED BY <1>1, <1>4, <2>1, <2>2, <3>1
  <2>3. CASE AfterState(t, was)
    BY <1>1, <1>5, <2>1, <2>3
  <2>4. CASE Goes(t, "limits") /\ coord' = [coord EXCEPT ![v] = Locked(was)]
    <3> DEFINE c == Locked(was)
    <3>1. /\ c \in Coordinators /\ c.lock = (deployment = "node") /\ c.tables = was.tables
          /\ c.state = was.state /\ c.limits = was.limits /\ c.entry = was.entry /\ c.purged = was.purged
      BY <1>1, CoordinatorsAre
    <3>2. coord' = [coord EXCEPT ![v] = c] /\ Goes(t, "limits")
      BY <2>4
    <3> HIDE DEF c
    <3>3. PICK r : Moves(t, r) /\ Fits(r) /\ r.kind = "open" /\ r.pc = "limits" /\ r.vault = v
      BY <1>2, <3>2
    <3>4. WritesCoordinator(t, r, v, c)
      BY <1>0, <1>1, <2>1, <3>1, <3>2, <3>3, <1>w, VisitsWrite DEF Inserts, IsInside, IsBehind, VaultIds
    <3> QED BY <1>1, <3>3, <3>4, WritesCoordinatorKeeps
  <2> QED BY <1>0, <1>1, <1>6, <2>2, <2>3, <2>4 DEF EnsureState, was
<1>7. CASE ReadInitialLimits(t)
  <2>1. task[t].pc = "limits" /\ UNCHANGED hist
    BY <1>7 DEF ReadInitialLimits, At
  <2>2. CASE Active(v)
    <3> DEFINE r == [task[t] EXCEPT !.pc = "insert", !.plan = Policy]
    <3>1. Moves(t, r) /\ r.kind = "open" /\ r.pc = "insert" /\ r.vault = v /\ r.plan = Policy
      BY <1>0, <1>1, <1>7, <2>2 DEF ReadInitialLimits, Moves, TaskRecords, Pcs
    <3> HIDE DEF r
    <3>2. coord' = [coord EXCEPT ![v] = was] /\ Fits(r)
      BY <1>0, <1>1, <1>w, <1>7, <2>2, <3>1 DEF ReadInitialLimits, Fits
    <3>3. deployment = "node" => was.lock
      BY <1>1, <2>1 DEF Inductive, LockExcludes, IsInside, was
    <3>4. WritesCoordinator(t, r, v, was)
      BY <1>0, <1>1, <2>1, <2>2, <3>1, <3>2, <3>3, <1>w, VisitsWrite DEF Inserts, IsInside, IsBehind, VaultIds
    <3> QED BY <1>1, <3>1, <3>2, <3>4, WritesCoordinatorKeeps
  <2>3. CASE ~Active(v)
    <3> DEFINE c == Unlocked(was)
    <3>1. /\ c \in Coordinators /\ ~c.lock /\ c.tables = was.tables
          /\ c.state = was.state /\ c.limits = was.limits /\ c.entry = was.entry /\ c.purged = was.purged
      BY <1>1, CoordinatorsAre
    <3>2. Ends(t) /\ coord' = [coord EXCEPT ![v] = c] /\ IsInside(task[t], v)
      BY <1>7, <2>1, <2>3 DEF ReadInitialLimits, was, IsInside
    <3> HIDE DEF c
    <3> QED BY <1>4, <2>1, <3>1, <3>2
  <2> QED BY <2>2, <2>3
<1>8. CASE StateInserted(t)
  <2>1. /\ task[t].pc = "insert" /\ IsInside(task[t], v) /\ Inserts(task[t], v)
        /\ task[t].plan \in Plans
    BY <1>0, <1>1, <1>8 DEF StateInserted, At, IsInside, Inserts, TaskRecords
  <2>2. CASE Ends(t) /\ UNCHANGED <<coord, hist>>
    <3>1. coord' = [coord EXCEPT ![v] = was]
      BY <1>0, <1>1, <1>w, <2>2
    <3> QED BY <1>1, <1>4, <2>1, <2>2, <3>1
  <2>3. CASE was.tables /\ was.state /\ AfterState(t, was) /\ UNCHANGED hist
    BY <1>1, <1>5, <2>1, <2>3
  <2>4. CASE /\ was.tables /\ ~was.state /\ AfterState(t, [was EXCEPT !.state = TRUE, !.limits = task[t].plan])
             /\ NotesLimits(v, task[t].plan)
    <3> DEFINE c == [was EXCEPT !.state = TRUE, !.limits = task[t].plan]
    <3>1. /\ c \in Coordinators /\ c.lock = was.lock /\ c.tables = was.tables
          /\ c.state /\ c.limits = task[t].plan /\ c.entry = was.entry /\ c.purged = was.purged
      BY <1>1, <2>1 DEF Coordinators
    <3>2. AfterState(t, c) /\ was.tables
      BY <2>4
    <3>3. hist' = [hist EXCEPT !.behind = IF c.limits = Policy THEN @ \ {v} ELSE @ \cup {v}]
      BY <2>4, <3>1 DEF NotesLimits
    <3> HIDE DEF c
    <3> QED BY <1>5, <2>1, <3>1, <3>2, <3>3
  <2> QED BY <1>0, <1>8, <2>2, <2>3, <2>4 DEF StateInserted, was
<1>9. CASE SocketRegistered(t)
  <2> DEFINE c == Accepted(was, task[t].user)
  <2>1. /\ c \in Coordinators /\ c.lock = was.lock /\ c.tables = was.tables
        /\ c.state = was.state /\ c.limits = was.limits /\ c.entry = was.entry /\ c.purged = was.purged
    BY <1>1, CoordinatorsAre
  <2>2. Ends(t) /\ coord' = [coord EXCEPT ![v] = c] /\ UNCHANGED hist
    BY <1>9 DEF SocketRegistered, was
  <2> HIDE DEF c
  <2> QED BY <1>4, <2>1, <2>2
<1> QED BY <1>6, <1>7, <1>8, <1>9 DEF OpenSteps

UploadSteps(t) == ObjectPut(t) \/ Committed(t)

\* The steps that fill a vault.
LEMMA UploadStepsKeep ==
  ASSUME VaultIds, Inductive, NEW t \in Tasks, UploadSteps(t)
  PROVE  Inductive'
<1> DEFINE v == task[t].vault
           was == coord[v]
<1>0. /\ task[t] \in TaskRecords /\ task \in [Tasks -> TaskRecords] /\ Fits(task[t])
      /\ hist.made \subseteq Vaults /\ coord \in [Vaults -> Coordinators] /\ objects \subseteq Vaults
      /\ Idle.kind = "none" /\ Idle.pc = "idle" /\ Idle.vault = "none" /\ Idle \in TaskRecords /\ Fits(Idle)
  BY IdleIs DEF Inductive, Typed, TasksFit, Histories
<1>1. /\ task[t].kind = "upload" /\ v \in Vaults /\ v \in hist.made /\ was \in Coordinators
      /\ (was.lock => deployment = "node") /\ (was.entry => was.state)
      /\ UNCHANGED <<deployment, row, plan, queue, refreshes>>
  BY <1>0 DEF UploadSteps, ObjectPut, Committed, At, Fits, TaskRecords, Inductive, Typed
<1>w. was = coord[v]
  OBVIOUS
<1> HIDE DEF was
<1>2. CASE ObjectPut(t)
  <2> DEFINE r == [task[t] EXCEPT !.pc = "commit"]
  <2>1. Moves(t, r) /\ r.kind = "upload" /\ r.pc = "commit" /\ r.vault = v /\ task[t].pc = "put"
    BY <1>0, <1>1, <1>2 DEF ObjectPut, At, Goes, Moves, TaskRecords, Pcs
  <2> HIDE DEF r
  <2>2. /\ Fits(r) /\ coord' = [coord EXCEPT ![v] = was] /\ objects' = objects \union {v} /\ hist' = hist
    BY <1>0, <1>1, <1>w, <1>2, <2>1 DEF ObjectPut, Fits
  <2>3. WritesCoordinator(t, r, v, was)
    BY <1>0, <1>1, <2>1, <2>2, <1>w, VisitsWrite DEF Inserts, IsInside, IsBehind, VaultIds
  <2> QED BY <1>1, <2>1, <2>2, <2>3, WritesCoordinatorKeeps
<1>3. CASE Committed(t)
  <2>1. Moves(t, Idle) /\ UNCHANGED objects /\ (deployment = "node" => ~was.lock) /\ task[t].pc = "commit"
    BY <1>0, <1>3 DEF Committed, At, Ends, Moves, Enters, was
  <2>2. CASE UNCHANGED <<coord, hist>>
    <3>1. coord' = [coord EXCEPT ![v] = was]
      BY <1>0, <1>1, <1>w, <2>2
    <3>2. WritesCoordinator(t, Idle, v, was)
      BY <1>0, <1>1, <2>1, <2>2, <3>1, <1>w, VisitsWrite DEF Inserts, IsInside, IsBehind, VaultIds
    <3> QED BY <1>0, <1>1, <2>1, <3>2, WritesCoordinatorKeeps
  <2>3. CASE /\ HasState(was) /\ v \in objects
             /\ coord' = [coord EXCEPT ![v].entry = TRUE]
             /\ hist' = [hist EXCEPT !.filled = @ \cup {v}]
    <3> DEFINE c == [was EXCEPT !.entry = TRUE]
    <3>1. /\ c \in Coordinators /\ c.lock = was.lock /\ c.tables = was.tables /\ c.purged = was.purged
          /\ c.state = was.state /\ c.limits = was.limits /\ c.entry /\ was.state
      BY <1>1, <2>3 DEF Coordinators, HasState
    <3>2. coord' = [coord EXCEPT ![v] = c]
      BY <1>0, <1>1, <1>w, <2>3
    <3> HIDE DEF c
    <3>3. WritesCoordinator(t, Idle, v, c)
      BY <1>0, <1>1, <2>1, <2>3, <3>1, <3>2, <1>w, VisitsWrite DEF Inserts, IsInside, IsBehind, VaultIds
    <3> QED BY <1>0, <1>1, <2>1, <3>3, WritesCoordinatorKeeps
  <2> QED BY <1>3, <2>2, <2>3 DEF Committed, was
<1> QED BY <1>2, <1>3 DEF UploadSteps

-----------------------------------------------------------------------------
(* The plan and the limits.                                                 *)

\* A webhook or a refresh that changes no more than the plan, the limits and what is asked for.
LEMMA LimitStepKeeps ==
  ASSUME VaultIds, Inductive, NEW t \in Tasks, NEW r, Moves(t, r), Fits(r),
         task[t].kind \in {"none", "webhook", "refresh"}, r.kind \in {"none", "webhook", "refresh"},
         deployment = "managed", UNCHANGED <<deployment, row, queue, objects>>,
         plan' \in Plans, refreshes' \in Refreshes, coord' \in [Vaults -> Coordinators],
         \A v \in Vaults :
           /\ coord'[v].tables = coord[v].tables /\ coord'[v].state = coord[v].state
           /\ coord'[v].entry = coord[v].entry /\ coord'[v].purged = coord[v].purged
           /\ coord'[v].lock = coord[v].lock,
         hist' \in Histories, hist'.made = hist.made, hist'.filled = hist.filled,
         hist'.stuck = hist.stuck, hist'.cut = hist.cut, hist'.back = hist.back,
         hist'.dropped = hist.dropped,
         LimitsFollow'
  PROVE  Inductive'
<1>0. /\ task' \in [Tasks -> TaskRecords] /\ task'[t] = r
      /\ \A u \in Tasks \ {t} : task'[u] = task[u]
  BY MovesAre DEF Inductive
<1>m. hist.made \subseteq Vaults /\ Fits(task[t])
  BY DEF Inductive, Typed, Histories, TasksFit
<1>w. \A v \in Vaults : PurgeWaits(v)' <=> PurgeWaits(v)
  BY DEF PurgeWaits
<1>1. Typed'
  BY <1>0 DEF Inductive, Typed
<1>2. TasksFit' /\ UnmadeIsNew'
  BY <1>0, <1>w DEF Inductive, TasksFit, Fits, UnmadeIsNew
<1>3. NamesAreUnique'
  BY DEF Inductive, NamesAreUnique, ActiveVaults, Active
<1>4. RolesHaveWrappers'
  BY <1>0 DEF Inductive, RolesHaveWrappers
<1>5. LockExcludes'
  BY DEF LockExcludes
<1>6. \A v \in Vaults : (\E u \in Tasks : Drives(task'[u], v)) <=> (\E u \in Tasks : Drives(task[u], v))
  BY <1>0 DEF Drives
<1>7. DeletedFirst' /\ Driven'
  BY <1>6, <1>w DEF Inductive, DeletedFirst, Driven, Active
<1>8. LeftEmpty'
  BY <1>0, <1>m DEF Inductive, LeftEmpty, Removes, Inserts
<1>9. BrokenIsPurged'
  BY <1>0, <1>m, <1>w DEF Inductive, BrokenIsPurged, Purges
<1> QED BY <1>1, <1>2, <1>3, <1>4, <1>5, <1>7, <1>8, <1>9 DEF Inductive

\* A webhook or refresh step that tells no coordinator.
LEMMA QuietStepKeeps ==
  ASSUME VaultIds, Inductive, NEW t \in Tasks, NEW r, Moves(t, r), Fits(r),
         task[t].kind \in {"none", "webhook", "refresh"}, r.kind \in {"none", "webhook", "refresh"},
         deployment = "managed", UNCHANGED <<deployment, row, queue, objects, coord>>,
         plan' \in Plans, refreshes' \in Refreshes,
         \/ hist' = hist
         \/ \E B \in SUBSET Vaults : hist.behind \subseteq B /\ hist' = [hist EXCEPT !.behind = B],
         LimitsFollow'
  PROVE  Inductive'
<1>1. /\ coord' \in [Vaults -> Coordinators] /\ hist \in Histories /\ hist' \in Histories
      /\ hist'.made = hist.made /\ hist'.filled = hist.filled /\ hist'.stuck = hist.stuck
      /\ hist'.cut = hist.cut /\ hist'.back = hist.back /\ hist'.dropped = hist.dropped
  BY DEF Inductive, Typed, Histories
<1> QED BY <1>1, LimitStepKeeps

\* A refresh leaves aside what is being deleted, which may come back.
LEMMA VaultsListedKeeps ==
  ASSUME VaultIds, Inductive, NEW t \in Tasks, VaultsListed(t)
  PROVE  Inductive'
<1> DEFINE r == [task[t] EXCEPT !.pc = "apply", !.list = ActiveVaults]
           B == hist.behind \union {v \in Vaults \ ActiveVaults : IsBehind(v)}
<1>0. /\ task[t] \in TaskRecords /\ task \in [Tasks -> TaskRecords] /\ Fits(task[t])
      /\ hist \in Histories /\ refreshes \in Refreshes /\ plan \in Plans
  BY DEF Inductive, Typed, TasksFit
<1>1. /\ task[t].kind = "refresh" /\ task[t].pc = "list" /\ deployment = "managed"
      /\ UNCHANGED <<deployment, row, plan, queue, refreshes, coord, objects>>
      /\ hist' = [hist EXCEPT !.behind = B]
  BY <1>0 DEF VaultsListed, At, Fits
<1>2. /\ Moves(t, r) /\ r.kind = "refresh" /\ r.pc = "apply" /\ r.vault = task[t].vault
      /\ r.plan = task[t].plan /\ r.list = ActiveVaults /\ r.failed = task[t].failed
  BY <1>0, <1>1 DEF VaultsListed, Moves, TaskRecords, Pcs, ActiveVaults
<1> HIDE DEF r
<1>3. Fits(r)
  BY <1>0, <1>1, <1>2 DEF Fits
<1>4. B \in SUBSET Vaults /\ hist.behind \subseteq B /\ hist'.behind = B
  BY <1>0, <1>1 DEF Histories
<1>5. task'[t] = r /\ \A u \in Tasks \ {t} : task'[u] = task[u]
  BY <1>2, MovesAre DEF Inductive
<1>6. LimitsFollow'
  <2>1. (Asked => Asked') /\ \A v \in Vaults : IsBehind(v)' <=> IsBehind(v)
    BY <1>1, <1>2, <1>5 DEF Asked, RefreshWaits, IsBehind, Policy, SelfHosted
  <2>2. \A v \in Vaults \ B : IsBehind(v) => v \in ActiveVaults
    OBVIOUS
  <2>3. \A v \in ActiveVaults, u \in Tasks : WillRefresh(task[u], v) => WillRefresh(task[u], v)'
    BY <1>1, <1>2, <1>5 DEF WillRefresh
  <2> HIDE DEF B
  <2> QED BY <1>4, <2>1, <2>2, <2>3 DEF Inductive, LimitsFollow
<1> QED BY <1>0, <1>1, <1>2, <1>3, <1>4, <1>6, QuietStepKeeps

\* A refresh brings the limits of its plan to one coordinator; a coordinator without tables
\* makes the whole refresh be tried again.
LEMMA PolicyAppliedKeeps ==
  ASSUME VaultIds, Inductive, NEW t \in Tasks, NEW v \in Vaults, PolicyApplied(t, v)
  PROVE  Inductive'
<1> DEFINE r == [task[t] EXCEPT !.list = @ \ {v},
                                !.failed = IF coord[v].tables THEN @ ELSE @ \cup {v}]
           told == [coord[v] EXCEPT !.limits = task[t].plan]
<1>0. /\ task[t] \in TaskRecords /\ task \in [Tasks -> TaskRecords] /\ Fits(task[t])
      /\ coord \in [Vaults -> Coordinators] /\ coord[v] \in Coordinators
      /\ hist \in Histories /\ refreshes \in Refreshes /\ plan \in Plans
  BY DEF Inductive, Typed, TasksFit
<1>1. /\ task[t].kind = "refresh" /\ task[t].pc = "apply" /\ v \in task[t].list
      /\ UNCHANGED <<deployment, row, plan, queue, refreshes, objects>> /\ deployment = "managed"
      /\ task[t].plan \in Plans
  BY <1>0 DEF PolicyApplied, At, Fits, TaskRecords
<1>2. /\ Moves(t, r) /\ r.kind = "refresh" /\ r.pc = "apply" /\ r.vault = task[t].vault
      /\ r.plan = task[t].plan /\ r.list = task[t].list \ {v}
      /\ r.failed = IF coord[v].tables THEN task[t].failed ELSE task[t].failed \cup {v}
  BY <1>0, <1>1 DEF PolicyApplied, Moves, TaskRecords
<1> HIDE DEF r
<1>3. Fits(r)
  BY <1>0, <1>1, <1>2 DEF Fits
<1>4. task'[t] = r /\ \A u \in Tasks \ {t} : task'[u] = task[u]
  BY <1>2, MovesAre DEF Inductive
<1>5. Policy' = Policy /\ (Asked' <=> Asked) /\ Policy = plan
  BY <1>1, <1>2, <1>4 DEF Policy, SelfHosted, Asked, RefreshWaits
<1>6. \A w \in Vaults \ {v}, u \in Tasks : WillRefresh(task[u], w) => WillRefresh(task[u], w)'
  BY <1>1, <1>2, <1>4 DEF WillRefresh
<1>7. CASE HasState(coord[v])
  <2>1. coord' = [coord EXCEPT ![v] = told] /\ NotesLimits(v, task[t].plan)
    BY <1>0, <1>7 DEF PolicyApplied
  <2>2. /\ told \in Coordinators /\ told.tables = coord[v].tables /\ told.state = coord[v].state
        /\ told.entry = coord[v].entry /\ told.purged = coord[v].purged /\ told.lock = coord[v].lock
        /\ told.limits = task[t].plan
    BY <1>0, <1>1 DEF Coordinators
  <2> HIDE DEF told
  <2>3. /\ coord' \in [Vaults -> Coordinators] /\ coord'[v] = told
        /\ \A w \in Vaults \ {v} : coord'[w] = coord[w]
    BY <1>0, <2>1, <2>2
  <2>4. /\ hist' \in Histories /\ hist'.made = hist.made /\ hist'.filled = hist.filled
        /\ hist'.stuck = hist.stuck /\ hist'.cut = hist.cut /\ hist'.back = hist.back
        /\ hist'.dropped = hist.dropped
        /\ hist'.behind = IF task[t].plan = Policy THEN hist.behind \ {v} ELSE hist.behind \cup {v}
    BY <1>0, <2>1 DEF NotesLimits, Histories
  <2>5. LimitsFollow'
    <3>1. ~IsBehind(v)' \/ v \in hist'.behind
      BY <1>5, <2>2, <2>3, <2>4 DEF IsBehind
    <3>2. \A w \in Vaults \ {v} : /\ IsBehind(w)' <=> IsBehind(w)
                                  /\ w \in hist'.behind <=> w \in hist.behind
      BY <1>5, <2>3, <2>4 DEF IsBehind
    <3>3. ASSUME NEW w \in Vaults \ hist'.behind, IsBehind(w)'
          PROVE  Asked' \/ \E u \in Tasks : WillRefresh(task[u], w)'
      <4>1. w # v /\ w \notin hist.behind /\ IsBehind(w)
        BY <3>1, <3>2, <3>3
      <4> QED BY <1>5, <1>6, <4>1 DEF Inductive, LimitsFollow
    <3> QED BY <3>3 DEF LimitsFollow
  <2>6. \A w \in Vaults :
          /\ coord'[w].tables = coord[w].tables /\ coord'[w].state = coord[w].state
          /\ coord'[w].entry = coord[w].entry /\ coord'[w].purged = coord[w].purged
          /\ coord'[w].lock = coord[w].lock
    BY <2>2, <2>3
  <2> QED BY <1>0, <1>1, <1>2, <1>3, <2>3, <2>4, <2>5, <2>6, LimitStepKeeps
<1>8. CASE ~HasState(coord[v])
  <2>1. UNCHANGED <<coord, hist>>
    BY <1>8 DEF PolicyApplied
  <2>2. \A w \in Vaults : IsBehind(w)' <=> IsBehind(w)
    BY <1>5, <2>1 DEF IsBehind
  <2>3. IsBehind(v) => WillRefresh(task[t], v)'
    BY <1>2, <1>4, <1>8 DEF IsBehind, HasState, WillRefresh
  <2>4. LimitsFollow'
    BY <1>5, <1>6, <2>1, <2>2, <2>3 DEF Inductive, LimitsFollow
  <2> QED BY <1>0, <1>1, <1>2, <1>3, <2>1, <2>4, QuietStepKeeps
<1> QED BY <1>7, <1>8

\* The webhook writes the plan first and asks for the refresh afterwards.
LEMMA WebhookStepKeeps ==
  ASSUME VaultIds, Inductive, NEW t \in Tasks, WebhookStep(t)
  PROVE  Inductive'
<1>0. /\ task[t] \in TaskRecords /\ task \in [Tasks -> TaskRecords] /\ Fits(task[t])
      /\ refreshes \in Refreshes /\ plan \in Plans
      /\ Idle \in TaskRecords /\ Fits(Idle) /\ Idle.kind = "none"
  BY IdleIs DEF Inductive, Typed, TasksFit
<1>1. /\ task[t].kind = "webhook" /\ task[t].pc \in {"first", "second"} /\ deployment = "managed"
      /\ UNCHANGED <<deployment, row, queue, coord, objects, hist>>
  BY <1>0 DEF WebhookStep, Fits
<1>2. CASE task[t].pc = "first"
  <2> DEFINE r == [task[t] EXCEPT !.pc = "second"]
  <2>1. Moves(t, r) /\ r.kind = "webhook" /\ r.pc = "second" /\ r.vault = task[t].vault
    BY <1>0, <1>1, <1>2 DEF WebhookStep, Goes, Moves, TaskRecords, Pcs
  <2> HIDE DEF r
  <2>2. Fits(r)
    BY <1>0, <1>1, <2>1 DEF Fits
  <2>3. plan' \in Plans /\ UNCHANGED refreshes
    BY <1>0, <1>2 DEF WebhookStep, EnqueuesAt, TaskRecords
  <2>4. task'[t] = r
    BY <2>1, MovesAre DEF Inductive
  <2>5. LimitsFollow'
    BY <2>1, <2>4 DEF LimitsFollow, Asked
  <2> QED BY <1>0, <1>1, <2>1, <2>2, <2>3, <2>5, QuietStepKeeps
<1>3. CASE task[t].pc = "second"
  <2>1. Moves(t, Idle) /\ UNCHANGED plan /\ refreshes' = Sent(refreshes)
    BY <1>0, <1>3 DEF WebhookStep, EnqueuesAt, Ends, Moves
  <2>2. refreshes' \in Refreshes /\ RefreshWaits'
    BY <1>0, <2>1, QueuesAre DEF Refreshes, RefreshWaits, VaultIds
  <2>3. LimitsFollow'
    BY <2>2 DEF LimitsFollow, Asked
  <2> QED BY <1>0, <1>1, <2>1, <2>2, <2>3, QuietStepKeeps
<1> QED BY <1>1, <1>2, <1>3

\* A refresh takes the plan as it is when its message arrives.
LEMMA RefreshArrivesKeeps ==
  ASSUME VaultIds, Inductive, NEW t \in Tasks, NEW k \in 0..RefreshRetries, RefreshArrives(t, k)
  PROVE  Inductive'
<1> DEFINE r == [Idle EXCEPT !.kind = "refresh", !.pc = "list", !.plan = Policy, !.tries = k]
<1>0. /\ refreshes \in Refreshes /\ plan \in Plans /\ RefreshRetries \in Nat /\ k \in Nat
      /\ Idle \in TaskRecords /\ Idle.kind = "none" /\ Idle.vault = "none"
  BY IdleIs DEF VaultIds, Inductive, Typed
<1>1. /\ task[t] = Idle /\ refreshes[k] > 0 /\ refreshes' = Taken(refreshes, k)
      /\ UNCHANGED <<deployment, row, plan, queue, coord, objects, hist>>
      /\ task' = [task EXCEPT ![t] = r]
  BY DEF RefreshArrives
<1>2. deployment = "managed"
  BY <1>1 DEF Inductive, TasksFit, RefreshWaits
<1>p. Policy = plan /\ Policy' = plan
  BY <1>1, <1>2 DEF Policy, SelfHosted
<1>3. Moves(t, r) /\ r.kind = "refresh" /\ r.pc = "list" /\ r.vault = "none" /\ r.plan = plan
  BY <1>0, <1>1, <1>p DEF Moves, TaskRecords, Kinds, Pcs
<1> HIDE DEF r
<1>4. Fits(r)
  BY <1>2, <1>3 DEF Fits
<1>5. task'[t] = r
  BY <1>3, MovesAre DEF Inductive
<1>6. LimitsFollow'
  <2>1. \A v \in Vaults : WillRefresh(task[t], v)'
    BY <1>1, <1>3, <1>5 DEF WillRefresh
  <2> QED BY <2>1 DEF LimitsFollow
<1>7. refreshes' \in Refreshes
  BY <1>0, <1>1, QueuesAre DEF Refreshes
<1> QED BY <1>0, <1>1, <1>2, <1>3, <1>4, <1>6, <1>7, QuietStepKeeps

\* A refresh that failed anywhere is asked for again, until it has been delivered for the last time.
LEMMA RefreshEndsKeeps ==
  ASSUME VaultIds, Inductive, NEW t \in Tasks, RefreshEnds(t)
  PROVE  Inductive'
<1> DEFINE k == task[t].tries
           failed == task[t].failed
           B == IF k < RefreshRetries THEN hist.behind
                ELSE hist.behind \union {v \in failed : IsBehind(v)}
<1>0. /\ task[t] \in TaskRecords /\ task \in [Tasks -> TaskRecords] /\ Fits(task[t])
      /\ hist \in Histories /\ refreshes \in Refreshes /\ plan \in Plans
      /\ Idle \in TaskRecords /\ Fits(Idle) /\ Idle.kind = "none"
      /\ k \in Nat /\ RefreshRetries \in Nat /\ failed \subseteq Vaults
  BY IdleIs DEF VaultIds, Inductive, Typed, TasksFit, TaskRecords
<1>1. /\ task[t].kind = "refresh" /\ task[t].pc = "apply" /\ task[t].list = {} /\ deployment = "managed"
      /\ refreshes' = (IF failed = {} THEN refreshes ELSE Retried(refreshes, k, RefreshRetries))
      /\ Moves(t, Idle) /\ UNCHANGED <<deployment, row, plan, queue, coord, objects>>
      /\ hist' = [hist EXCEPT !.behind = B]
  BY <1>0 DEF RefreshEnds, At, Fits, Ends, Moves
<1>2. task'[t] = Idle /\ \A u \in Tasks \ {t} : task'[u] = task[u]
  BY <1>1, MovesAre DEF Inductive
<1>3. /\ refreshes' \in Refreshes /\ (RefreshWaits => RefreshWaits')
      /\ failed # {} /\ k < RefreshRetries => RefreshWaits'
  <2>1. /\ Retried(refreshes, k, RefreshRetries) \in Refreshes
        /\ \A j \in 0..RefreshRetries : refreshes[j] > 0 => Retried(refreshes, k, RefreshRetries)[j] > 0
        /\ k < RefreshRetries => \E j \in 0..RefreshRetries : Retried(refreshes, k, RefreshRetries)[j] > 0
    BY <1>0, QueuesAre DEF Refreshes
  <2> QED BY <1>0, <1>1, <2>1 DEF RefreshWaits
<1>4. B \in SUBSET Vaults /\ hist.behind \subseteq B /\ hist'.behind = B
  BY <1>0, <1>1 DEF Histories
<1>5. LimitsFollow'
  <2>1. (Asked => Asked') /\ \A v \in Vaults : IsBehind(v)' <=> IsBehind(v)
    BY <1>0, <1>1, <1>2, <1>3 DEF Asked, IsBehind, Policy, SelfHosted
  <2>2. ASSUME NEW v \in Vaults \ B, IsBehind(v), WillRefresh(task[t], v)
        PROVE  Asked'
    <3>1. v \in failed
      BY <1>1, <2>2 DEF WillRefresh
    <3> QED BY <1>3, <2>2, <3>1 DEF Asked
  <2>3. \A v \in Vaults, u \in Tasks \ {t} : WillRefresh(task[u], v) => WillRefresh(task[u], v)'
    BY <1>1, <1>2 DEF WillRefresh
  <2> HIDE DEF B
  <2> QED BY <1>4, <2>1, <2>2, <2>3 DEF Inductive, LimitsFollow
<1> QED BY <1>0, <1>1, <1>3, <1>4, <1>5, QuietStepKeeps

\* When the plan lapses, every coordinator with the limits of another is behind.
LEMMA LapsesKeep ==
  ASSUME VaultIds, Inductive, Lapses
  PROVE  Inductive'
<1>1. /\ deployment = "managed" /\ plan' = "free"
      /\ UNCHANGED <<deployment, row, queue, refreshes, coord, objects, task>>
      /\ hist' = [hist EXCEPT !.behind = {v \in Vaults : coord[v].state /\ coord[v].limits # "free"}]
  BY DEF Lapses, SelfHosted
<1>2. /\ hist' \in Histories /\ hist'.made = hist.made /\ hist'.filled = hist.filled
      /\ hist'.stuck = hist.stuck /\ hist'.cut = hist.cut /\ hist'.back = hist.back
      /\ hist'.dropped = hist.dropped
      /\ hist'.behind = {v \in Vaults : coord[v].state /\ coord[v].limits # "free"}
  BY <1>1 DEF Inductive, Typed, Histories
<1>3. LimitsFollow'
  BY <1>1, <1>2 DEF LimitsFollow, IsBehind, Policy, SelfHosted
<1>4. Typed' /\ TasksFit'
  BY <1>1, <1>2 DEF Inductive, Typed, Plans, TasksFit, Fits, RefreshWaits, PurgeWaits
<1>5. UnmadeIsNew' /\ NamesAreUnique' /\ RolesHaveWrappers' /\ LockExcludes'
  BY <1>1, <1>2 DEF Inductive, UnmadeIsNew, PurgeWaits, NamesAreUnique, ActiveVaults, Active,
                    RolesHaveWrappers, LockExcludes, IsInside
<1>6. DeletedFirst' /\ Driven'
  BY <1>1, <1>2 DEF Inductive, DeletedFirst, Driven, PurgeWaits, Active, Drives
<1>7. LeftEmpty' /\ BrokenIsPurged'
  BY <1>1, <1>2 DEF Inductive, LeftEmpty, BrokenIsPurged, PurgeWaits, Removes, Inserts, Purges
<1> QED BY <1>3, <1>4, <1>5, <1>6, <1>7 DEF Inductive

-----------------------------------------------------------------------------
(* Faults.                                                                  *)

\* A request that is cut off leaves what it has written; a deletion is remembered as cut.
LEMMA RequestCutKeeps ==
  ASSUME VaultIds, Inductive, NEW t \in Tasks, RequestCut(t)
  PROVE  Inductive'
<1>0. /\ task[t] \in TaskRecords /\ task \in [Tasks -> TaskRecords] /\ Fits(task[t])
      /\ hist \in Histories /\ hist.made \subseteq Vaults
      /\ Idle \in TaskRecords /\ Fits(Idle) /\ Idle.kind = "none" /\ Idle.pc = "idle" /\ Idle.vault = "none"
  BY IdleIs DEF Inductive, Typed, TasksFit, Histories
<1>1. /\ deployment # "node" /\ task[t].kind \in {"create", "grant", "delete", "upload"}
      /\ Moves(t, Idle) /\ UNCHANGED <<deployment, row, plan, queue, refreshes, coord, objects>>
  BY <1>0 DEF RequestCut, Ends, Moves
<1>2. task' \in [Tasks -> TaskRecords] /\ task'[t] = Idle /\ \A u \in Tasks \ {t} : task'[u] = task[u]
  BY <1>1, MovesAre DEF Inductive
<1>3. /\ hist' \in Histories /\ hist'.made = hist.made /\ hist'.filled = hist.filled
      /\ hist'.stuck = hist.stuck /\ hist'.dropped = hist.dropped /\ hist'.back = hist.back
      /\ hist'.behind = hist.behind /\ hist.cut \subseteq hist'.cut
      /\ \A v \in Vaults : Drives(task[t], v) => v \in hist'.cut
  <2>1. task[t].kind = "delete" => task[t].vault \in Vaults
    BY <1>0 DEF Fits
  <2> QED BY <1>0, <1>1, <2>1 DEF RequestCut, Histories, Drives
<1>w. (RefreshWaits' <=> RefreshWaits) /\ \A v \in Vaults : PurgeWaits(v)' <=> PurgeWaits(v)
  BY <1>1 DEF RefreshWaits, PurgeWaits
<1>4. Typed'
  BY <1>1, <1>2, <1>3 DEF Inductive, Typed
<1>5. TasksFit' /\ UnmadeIsNew'
  BY <1>0, <1>1, <1>w, <1>2, <1>3 DEF Inductive, TasksFit, Fits, UnmadeIsNew
<1>6. NamesAreUnique'
  BY <1>1 DEF Inductive, NamesAreUnique, ActiveVaults, Active
<1>7. RolesHaveWrappers'
  BY <1>0, <1>1, <1>2 DEF Inductive, RolesHaveWrappers
<1>8. LockExcludes'
  BY <1>1 DEF LockExcludes
<1>9. DeletedFirst'
  <2>1. \A v \in Vaults : (\E u \in Tasks : Drives(task'[u], v)) => \E u \in Tasks : Drives(task[u], v)
    BY <1>0, <1>2 DEF Drives
  <2> QED BY <1>1, <1>w, <1>3, <2>1 DEF Inductive, DeletedFirst, Active
<1>10. Driven'
  <2>1. ASSUME NEW v \in Vaults, v \notin hist'.cut, NEW u \in Tasks, Drives(task[u], v)
        PROVE  Drives(task'[u], v)
    BY <1>2, <1>3, <2>1
  <2> QED BY <1>1, <1>w, <1>3, <2>1 DEF Inductive, Driven
<1>11. LeftEmpty'
  BY <1>0, <1>1, <1>2, <1>3 DEF Inductive, LeftEmpty, Removes, Inserts
<1>12. BrokenIsPurged'
  BY <1>0, <1>1, <1>w, <1>2, <1>3 DEF Inductive, BrokenIsPurged, Purges
<1>13. LimitsFollow'
  <2>1. Policy' = Policy /\ (Asked' <=> Asked)
    BY <1>0, <1>1, <1>w, <1>2 DEF Policy, SelfHosted, Asked
  <2>2. \A w \in Vaults : (\E u \in Tasks : WillRefresh(task[u], w)) => \E u \in Tasks : WillRefresh(task[u], w)'
    BY <1>0, <1>1, <1>2 DEF WillRefresh
  <2> QED BY <1>1, <1>3, <2>1, <2>2 DEF Inductive, LimitsFollow, IsBehind
<1> QED BY <1>4, <1>5, <1>6, <1>7, <1>8, <1>9, <1>10, <1>11, <1>12, <1>13 DEF Inductive

\* What a coordinator keeps when it starts anew.
LEMMA RestartedIs ==
  ASSUME NEW c \in Coordinators
  PROVE  /\ Restarted(c) \in Coordinators /\ Restarted(c).state = c.state /\ Restarted(c).limits = c.limits
         /\ Restarted(c).entry = c.entry /\ ~Restarted(c).purged /\ ~Restarted(c).lock
BY DEF Restarted, Coordinators

\* A Durable Object that starts anew gets its tables back, but nobody is left to fill them.
LEMMA ObjectRestartsKeeps ==
  ASSUME VaultIds, Inductive, NEW v \in Vaults, ObjectRestarts(v)
  PROVE  Inductive'
<1>0. /\ task \in [Tasks -> TaskRecords] /\ coord \in [Vaults -> Coordinators]
      /\ \A u \in Tasks : task[u] \in TaskRecords /\ Fits(task[u])
      /\ hist \in Histories /\ hist.made \subseteq Vaults
      /\ Idle \in TaskRecords /\ Fits(Idle) /\ Idle.kind = "none" /\ Idle.pc = "idle" /\ Idle.vault = "none"
  BY IdleIs DEF Inductive, Typed, TasksFit, Histories
<1>1. /\ deployment # "node" /\ UNCHANGED <<deployment, row, plan, queue, refreshes, objects, hist>>
      /\ coord' = [coord EXCEPT ![v] = Restarted(@)]
  BY DEF ObjectRestarts
<1>2. \A u \in Tasks : IsInside(task[u], v) =>
        \/ task[u].kind = "open" /\ task[u].pc \in {"limits", "insert"}
        \/ task[u].kind \in {"delete", "purge"} /\ task[u].pc = "prefix"
  <2> TAKE u \in Tasks
  <2> HAVE IsInside(task[u], v)
  <2>1. task[u].vault = v /\ task[u].vault # "none" /\ task[u].pc \in {"limits", "insert", "prefix"}
    BY DEF IsInside, VaultIds
  <2>2. task[u].kind \in {"grant", "rewrap", "delete", "purge", "open", "upload"}
    BY <1>0, <2>1 DEF Fits
  <2> QED BY <1>0, <2>1, <2>2 DEF Fits, Purging
<1>3. /\ coord' \in [Vaults -> Coordinators]
      /\ \A w \in Vaults : /\ coord'[w].state = coord[w].state /\ coord'[w].limits = coord[w].limits
                           /\ coord'[w].entry = coord[w].entry /\ (coord'[w].purged => coord[w].purged)
                           /\ (coord'[w].lock => coord[w].lock)
      /\ \A w \in Vaults \ {v} : coord'[w] = coord[w]
  BY <1>0, <1>1, RestartedIs
\* What becomes of each task.
<1>4. \A u \in Tasks :
        IF ~IsInside(task[u], v) THEN task'[u] = task[u]
        ELSE IF task[u].kind = "open" THEN task'[u] = Idle
        ELSE task'[u] = [task[u] EXCEPT !.pc = "failed"]
  BY DEF ObjectRestarts, Inside, IsInside
<1>5. \A u \in Tasks :
        \/ task'[u] = task[u] /\ ~IsInside(task[u], v)
        \/ task'[u] = Idle /\ task[u].kind = "open"
        \/ /\ task'[u] \in TaskRecords /\ task[u].kind \in {"delete", "purge"} /\ task[u].pc = "prefix"
           /\ task'[u].kind = task[u].kind /\ task'[u].pc = "failed" /\ task'[u].vault = task[u].vault
  <2> TAKE u \in Tasks
  <2>1. CASE ~IsInside(task[u], v)
    BY <1>4, <2>1
  <2>2. CASE IsInside(task[u], v) /\ task[u].kind = "open"
    BY <1>4, <2>2
  <2>3. CASE IsInside(task[u], v) /\ task[u].kind # "open"
    <3>1. task'[u] = [task[u] EXCEPT !.pc = "failed"] /\ task[u].kind \in {"delete", "purge"} /\ task[u].pc = "prefix"
      BY <1>2, <1>4, <2>3
    <3> QED BY <1>0, <3>1 DEF TaskRecords, Pcs
  <2> QED BY <2>1, <2>2, <2>3
<1>6. task' \in [Tasks -> TaskRecords]
  <2>1. \A u \in Tasks : task'[u] \in TaskRecords
    BY <1>0, <1>5
  <2> DEFINE F(u) == IF ~Inside(u, v) THEN task[u]
                     ELSE IF task[u].kind = "open" THEN Idle ELSE [task[u] EXCEPT !.pc = "failed"]
  <2>2. task' = [u \in Tasks |-> F(u)]
    BY DEF ObjectRestarts
  <2> HIDE DEF F
  <2> QED BY <2>1, <2>2
<1>w. (RefreshWaits' <=> RefreshWaits) /\ \A w \in Vaults : PurgeWaits(w)' <=> PurgeWaits(w)
  BY <1>1 DEF RefreshWaits, PurgeWaits
<1>7. Typed'
  BY <1>1, <1>3, <1>6 DEF Inductive, Typed
<1>8. TasksFit' /\ UnmadeIsNew'
  <2>1. ASSUME NEW u \in Tasks
        PROVE  Fits(task[u])'
    BY <1>0, <1>1, <1>5 DEF Fits, Purging
  <2> QED BY <1>1, <1>w, <1>3, <2>1 DEF Inductive, TasksFit, UnmadeIsNew
<1>9. NamesAreUnique'
  BY <1>1 DEF Inductive, NamesAreUnique, ActiveVaults, Active
<1>10. RolesHaveWrappers'
  <2>1. \A u \in Tasks : task'[u].kind = "grant" => task'[u] = task[u]
    BY <1>0, <1>5
  <2> QED BY <1>1, <2>1 DEF Inductive, RolesHaveWrappers
<1>11. LockExcludes'
  BY <1>1 DEF LockExcludes
<1>12. \A u \in Tasks, w \in Vaults : /\ Drives(task'[u], w) <=> Drives(task[u], w)
                                      /\ Purges(task'[u], w) <=> Purges(task[u], w)
                                      /\ Removes(task'[u], w) => Removes(task[u], w)
                                      /\ Inserts(task'[u], w) => Inserts(task[u], w) /\ w # v
  <2> TAKE u \in Tasks, w \in Vaults
  <2>1. Inserts(task[u], v) => IsInside(task[u], v)
    BY DEF Inserts, IsInside
  <2> QED BY <1>0, <1>5, <2>1 DEF Drives, Purges, Removes, Inserts
<1>13. DeletedFirst' /\ Driven'
  BY <1>1, <1>w, <1>12 DEF Inductive, DeletedFirst, Driven, Active
<1>14. LeftEmpty'
  BY <1>0, <1>1, <1>3, <1>12 DEF Inductive, LeftEmpty
<1>15. BrokenIsPurged'
  BY <1>0, <1>1, <1>w, <1>3, <1>12 DEF Inductive, BrokenIsPurged
<1>16. LimitsFollow'
  <2>1. \A u \in Tasks : /\ task[u].kind \in {"webhook", "refresh"} => task'[u] = task[u]
                         /\ task'[u].kind \in {"webhook", "refresh"} => task'[u] = task[u]
    BY <1>0, <1>5
  <2>2. Policy' = Policy /\ (Asked' <=> Asked)
    BY <1>1, <1>w, <2>1 DEF Policy, SelfHosted, Asked
  <2>3. \A w \in Vaults : (\E u \in Tasks : WillRefresh(task[u], w)) => \E u \in Tasks : WillRefresh(task[u], w)'
    BY <1>1, <2>1 DEF WillRefresh
  <2> QED BY <1>1, <1>3, <2>2, <2>3 DEF Inductive, LimitsFollow, IsBehind
<1> QED BY <1>7, <1>8, <1>9, <1>10, <1>11, <1>13, <1>14, <1>15, <1>16 DEF Inductive

\* The Node process starts anew: every task is gone, and with them what they were to do.
LEMMA ProcessRestartsKeeps ==
  ASSUME VaultIds, Inductive, ProcessRestarts
  PROVE  Inductive'
<1>0. /\ task \in [Tasks -> TaskRecords] /\ coord \in [Vaults -> Coordinators]
      /\ \A u \in Tasks : task[u] \in TaskRecords /\ Fits(task[u])
      /\ hist \in Histories /\ hist.made \subseteq Vaults
      /\ Idle \in TaskRecords /\ Fits(Idle) /\ Idle.kind = "none" /\ Idle.pc = "idle" /\ Idle.vault = "none"
  BY IdleIs DEF Inductive, Typed, TasksFit, Histories
<1>1. /\ deployment = "node" /\ UNCHANGED <<deployment, row, plan, queue, refreshes, objects>>
      /\ task' \in [Tasks -> TaskRecords] /\ \A u \in Tasks : task'[u] = Idle
  BY <1>0 DEF ProcessRestarts
<1>2. /\ coord' \in [Vaults -> Coordinators]
      /\ \A w \in Vaults : /\ coord'[w].state = coord[w].state /\ coord'[w].limits = coord[w].limits
                           /\ coord'[w].entry = coord[w].entry /\ ~coord'[w].purged /\ ~coord'[w].lock
  BY <1>0, RestartedIs DEF ProcessRestarts
<1>3. /\ hist' \in Histories /\ hist'.made = hist.made /\ hist'.filled = hist.filled
      /\ hist'.stuck = hist.stuck /\ hist'.dropped = hist.dropped /\ hist'.back = hist.back
      /\ hist'.behind = hist.behind /\ hist.cut \subseteq hist'.cut /\ CutOff \subseteq hist'.cut
  <2>1. \A u \in Tasks : task[u].kind = "delete" => task[u].vault \in Vaults
    BY <1>0 DEF Fits
  <2>2. CutOff \subseteq Vaults
    BY <2>1 DEF CutOff
  <2> QED BY <1>0, <2>2 DEF ProcessRestarts, Histories
<1>w. (RefreshWaits' <=> RefreshWaits) /\ \A v \in Vaults : PurgeWaits(v)' <=> PurgeWaits(v)
  BY <1>1 DEF RefreshWaits, PurgeWaits
<1>4. /\ ~RefreshWaits /\ \A v \in Vaults : ~PurgeWaits(v)
      /\ \A u \in Tasks : task[u].kind \notin {"purge", "webhook", "refresh"}
  BY <1>0, <1>1 DEF Inductive, TasksFit, Fits
<1>5. Typed'
  BY <1>1, <1>2, <1>3 DEF Inductive, Typed
<1>6. TasksFit' /\ UnmadeIsNew'
  BY <1>0, <1>1, <1>w, <1>2, <1>3 DEF Inductive, TasksFit, Fits, UnmadeIsNew
<1>7. NamesAreUnique'
  BY <1>1 DEF Inductive, NamesAreUnique, ActiveVaults, Active
<1>8. RolesHaveWrappers'
  BY <1>0, <1>1 DEF Inductive, RolesHaveWrappers
<1>9. LockExcludes'
  BY <1>0, <1>1 DEF LockExcludes, IsInside, VaultIds
<1>10. DeletedFirst'
  BY <1>0, <1>1, <1>w, <1>4 DEF DeletedFirst, Drives
<1>11. Driven'
  <2>1. ASSUME NEW v \in Vaults, NEW u \in Tasks, Drives(task[u], v)
        PROVE  v \in hist'.cut
    <3>1. task[u].kind = "delete" /\ task[u].pc # "mark" /\ task[u].vault = v
      BY <1>4, <2>1 DEF Drives
    <3> QED BY <1>3, <3>1 DEF CutOff
  <2> QED BY <1>1, <1>w, <1>3, <1>4, <2>1 DEF Inductive, Driven
<1>12. LeftEmpty'
  BY <1>0, <1>1, <1>2, <1>3 DEF Inductive, LeftEmpty, Removes, Inserts
<1>13. BrokenIsPurged'
  BY <1>1 DEF BrokenIsPurged
<1>14. LimitsFollow'
  <2>1. ~Asked /\ Policy' = Policy
    BY <1>1, <1>4 DEF Asked, Policy, SelfHosted
  <2>2. \A u \in Tasks, v \in Vaults : ~WillRefresh(task[u], v)
    BY <1>4 DEF WillRefresh
  <2>3. \A v \in Vaults \ hist.behind : ~IsBehind(v)
    BY <2>1, <2>2 DEF Inductive, LimitsFollow
  <2> QED BY <1>1, <1>2, <1>3, <2>1, <2>3 DEF LimitsFollow, IsBehind
<1> QED BY <1>5, <1>6, <1>7, <1>8, <1>9, <1>10, <1>11, <1>12, <1>13, <1>14 DEF Inductive

-----------------------------------------------------------------------------
(* The theorems.                                                            *)

\* Before anything has happened the invariant holds.
LEMMA InitIsInductive ==
  ASSUME VaultIds, Init
  PROVE  Inductive
<1>0. Idle \in TaskRecords /\ Fits(Idle) /\ Idle.kind = "none" /\ Idle.pc = "idle" /\ Idle.vault = "none"
  BY IdleIs
<1>1. NoRow \in Rows /\ ~NoRow.kept /\ ~NoRow.deleted /\ \A u \in Users : NoRow.role[u] = "none"
  BY DEF NoRow, Rows
<1>2. /\ NewCoordinator \in Coordinators /\ ~NewCoordinator.lock /\ ~NewCoordinator.entry
      /\ ~NewCoordinator.state /\ ~NewCoordinator.purged
  BY DEF NewCoordinator, Coordinators, Plans
<1>3. /\ hist \in Histories /\ hist.made = {} /\ hist.filled = {} /\ hist.stuck = {} /\ hist.cut = {}
      /\ hist.back = {}
  BY DEF Init, Histories
<1>4. /\ \A v \in Vaults : row[v] = NoRow /\ coord[v] = NewCoordinator /\ ~PurgeWaits(v)
      /\ \A t \in Tasks : task[t] = Idle
      /\ ~RefreshWaits
  BY DEF Init, PurgeWaits, RefreshWaits
<1>5. Typed
  <2>1. plan \in Plans
    BY DEF Init, Plans
  <2>2. queue \in [Vaults -> Queues] /\ refreshes \in Refreshes
    BY DEF Init, Queues, Refreshes
  <2> QED BY <1>0, <1>1, <1>2, <1>3, <2>1, <2>2 DEF Init, Typed
<1>6. TasksFit /\ UnmadeIsNew
  BY <1>0, <1>1, <1>2, <1>3, <1>4 DEF TasksFit, UnmadeIsNew
<1>7. NamesAreUnique /\ RolesHaveWrappers
  BY <1>0, <1>1, <1>4 DEF NamesAreUnique, ActiveVaults, Active, RolesHaveWrappers
<1>8. LockExcludes
  BY <1>0, <1>4 DEF LockExcludes, IsInside, VaultIds
<1>9. DeletedFirst /\ Driven
  BY <1>0, <1>1, <1>4 DEF DeletedFirst, Driven, Drives
<1>10. LeftEmpty /\ BrokenIsPurged
  BY <1>3 DEF LeftEmpty, BrokenIsPurged
<1>11. LimitsFollow
  BY <1>2, <1>4 DEF LimitsFollow, IsBehind
<1> QED BY <1>5, <1>6, <1>7, <1>8, <1>9, <1>10, <1>11 DEF Inductive

\* No step breaks the invariant.
LEMMA StepsKeep ==
  ASSUME VaultIds, Inductive, [Next]_vars
  PROVE  Inductive'
<1>1. CASE UNCHANGED vars
  BY <1>1 DEF vars, Inductive, Typed, TasksFit, Fits, UnmadeIsNew, NamesAreUnique, ActiveVaults, Active,
     RolesHaveWrappers, LockExcludes, DeletedFirst, Driven, LeftEmpty, BrokenIsPurged, LimitsFollow, Asked,
     Policy, SelfHosted, WillRefresh, IsBehind, PurgeWaits, RefreshWaits
<1>2. ASSUME NEW t \in Tasks,
             BeginSteps(t) \/ MoveSteps(t) \/ RowSteps(t) \/ PurgeSteps(t) \/ OpenSteps(t) \/ UploadSteps(t)
      PROVE  Inductive'
  BY <1>2, BeginStepsKeep, MoveStepsKeep, RowStepsKeep, PurgeStepsKeep, OpenStepsKeep, UploadStepsKeep
<1>3. ASSUME NEW t \in Tasks,
             \/ CreateInserts(t) \/ Restored(t) \/ RowRemoved(t) \/ WebhookStep(t)
             \/ VaultsListed(t) \/ RefreshEnds(t) \/ RequestCut(t)
             \/ \E k \in 0..RefreshRetries : RefreshArrives(t, k)
             \/ \E v \in Vaults : PolicyApplied(t, v)
      PROVE  Inductive'
  BY <1>3, CreateInsertsKeeps, RestoredKeeps, RowRemovedKeeps, WebhookStepKeeps, RefreshArrivesKeeps,
     VaultsListedKeeps, RefreshEndsKeeps, RequestCutKeeps, PolicyAppliedKeeps
<1>4. ASSUME (\E v \in Vaults : ObjectRestarts(v)) \/ ProcessRestarts \/ Lapses
      PROVE  Inductive'
  BY <1>4, ObjectRestartsKeeps, ProcessRestartsKeeps, LapsesKeep
<1> QED BY <1>1, <1>2, <1>3, <1>4 DEF Next, BeginSteps, MoveSteps, RowSteps, PurgeSteps, OpenSteps, UploadSteps

\* The invariant always holds.
LEMMA AlwaysInductive == VaultIds /\ Spec => []Inductive
<1> SUFFICES ASSUME VaultIds PROVE Spec => []Inductive
  OBVIOUS
<1>1. Init => Inductive
  BY InitIsInductive
<1>2. Inductive /\ [Next]_vars => Inductive'
  BY StepsKeep
<1> QED BY <1>1, <1>2, PTL DEF Spec

\* The rows of a user's vaults always agree with one another, and the types hold: names of active
\* vaults differ, whoever has access is given a wrapper, and with a purge queue a vault that nobody
\* deletes is whole (createVault, addVaultMember, deleteVault, purgeVault).
THEOREM RowsStayAgreed == VaultIds /\ Spec => [](TypeOK /\ RowsAgree)
<1> SUFFICES ASSUME VaultIds PROVE Spec => [](TypeOK /\ RowsAgree)
  OBVIOUS
<1>1. Inductive => TypeOK /\ RowsAgree
  BY InductiveImplies
<1> QED BY <1>1, AlwaysInductive, PTL

\* A vault whose row has been removed never has state or an entry in its coordinator again, whoever
\* was opening it during the purge and wherever the coordinator started anew (purgeVault,
\* ensureVaultState).
THEOREM GoneStaysEmpty == VaultIds /\ Spec => []GoneStaysGone
<1> SUFFICES ASSUME VaultIds PROVE Spec => []GoneStaysGone
  OBVIOUS
<1>1. Inductive => GoneStaysGone
  BY InductiveImplies
<1> QED BY <1>1, AlwaysInductive, PTL

\* A vault marked deleted always has a message or a task that deletes it, but for the requests
\* that were cut off, the names that were taken, and the messages that failed as often as the queue
\* delivers them (deleteVault, the purge queue).
THEOREM DeletionStaysDriven == VaultIds /\ Spec => []DeletionIsDriven
<1> SUFFICES ASSUME VaultIds PROVE Spec => []DeletionIsDriven
  OBVIOUS
<1>1. Inductive => DeletionIsDriven
  BY InductiveImplies
<1> QED BY <1>1, AlwaysInductive, PTL

\* Whenever no refresh is left, an open vault has the limits of the plan, but for those known to
\* be behind: given the limits of a plan that had changed, passed over while they were deleted,
\* failed for as often as the queue delivers, or lapsed
\* (SubscriptionPolicyRefreshService, ensureVaultState).
THEOREM LimitsAlwaysSettle == VaultIds /\ Spec => []LimitsSettle
<1> SUFFICES ASSUME VaultIds PROVE Spec => []LimitsSettle
  OBVIOUS
<1>1. Inductive => LimitsSettle
  BY InductiveImplies
<1> QED BY <1>1, AlwaysInductive, PTL
=============================================================================
