-------------------------------- MODULE Host --------------------------------
(***************************************************************************)
(* The self-hosted server: one process that holds the coordinators of its  *)
(* vaults.  What comes in for a vault (HTTP requests, socket upgrades,     *)
(* messages, closed sockets, maintenance alarms) is a task that takes the  *)
(* lock of the vault, and a signal makes the process drain them and let    *)
(* its storage go.                                                         *)
(*                                                                         *)
(* One vault, since vaults share nothing here.  A task is what one promise *)
(* chain does; what it does in the coordinator once it has the lock is the *)
(* business of other modules.  Each time the namespace opens the vault     *)
(* anew is a generation, with its own database handle, lock and timer.     *)
(***************************************************************************)
EXTENDS Naturals, FiniteSets

CONSTANTS HostTasks,   \* ids of tasks, 1 .. n, given out in order: a bound
          Generations  \* times the vault is opened, 1 .. n: a bound

VARIABLES work,      \* work[t]: the task t
          opened,    \* opened[g]: the coordinator runtime of generation g
          current,   \* the runtime in the map of the namespace, 0 for none
          sockets,   \* sockets[t]: the socket that the upgrade t made
          phase,     \* where the shutdown is
          drain      \* where the close of the web sockets is

hvars == <<work, opened, current, sockets, phase, drain>>

Free == [kind |-> "none", pc |-> "free", gen |-> 0, prev |-> 0, client |-> FALSE]
Unmade == [made |-> FALSE, ready |-> "pending", handle |-> FALSE, tail |-> 0, timer |-> FALSE]

\* Tasks whose promise the upgrade handler has in pendingTasks.
Tracked == {t \in HostTasks : /\ work[t].kind \in {"upgrade", "message", "gone", "completion"}
                              /\ work[t].pc # "done"}
\* HTTP requests that still hold a connection.
Connected == {t \in HostTasks : work[t].client}
LiveSockets == {t \in HostTasks : sockets[t] \in {"open", "closing"}}
Closing == phase # "serving"

\* Tasks are numbered in the order in which they come.
IsNext(t) == work[t] = Free /\ \A u \in HostTasks : u < t => work[u] # Free

-----------------------------------------------------------------------------
(* The lock of the vault: a chain of promises.  The promise of a task is   *)
(* its id, 0 is one that has resolved.                                     *)

\* run, up to the await of the previous tail.
Call(rec, t) == [rec EXCEPT !.pc = "queued", !.prev = opened[rec.gen].tail]
Tailed(g, t) == [opened EXCEPT ![g].tail = t]

\* Mutant: the tail is deleted whoever's it is.
ClearedTail(g, t) == [opened EXCEPT ![g].tail = 0]
\* The finally of run: the next one is released, and the tail deleted if ours.
OwnTailCleared(g, t) == [opened EXCEPT ![g].tail = IF @ = t THEN 0 ELSE @]

\* The promise of t resolves, whether t failed or not.
Released(t) ==
  [u \in HostTasks |-> IF work[u].prev = t THEN [work[u] EXCEPT !.prev = 0] ELSE work[u]]

\* A task fails when its database handle has been closed under it, or by itself.
MayFail(t) == IF opened[work[t].gen].handle THEN BOOLEAN ELSE {TRUE}
\* Work in the coordinator may defer maintenance jobs, which arms the timer.
Armed(g, os) == IF os[g].handle THEN {os, [os EXCEPT ![g].timer = TRUE]} ELSE {os}

-----------------------------------------------------------------------------
(* Coming in.                                                               *)

Generation(g) == [Unmade EXCEPT !.made = TRUE, !.handle = TRUE]

\* getOrCreateRuntime: the task waits for the runtime in the map, or for a new one.
Join(t, rec) ==
  IF current # 0
  THEN /\ work' = [work EXCEPT ![t] = [rec EXCEPT !.pc = "ready", !.gen = current]]
       /\ UNCHANGED <<opened, current>>
  ELSE \E g \in Generations :
         /\ ~opened[g].made /\ \A f \in Generations : f < g => opened[f].made
         /\ work' = [work EXCEPT ![t] = [rec EXCEPT !.pc = "ready", !.gen = g]]
         /\ opened' = [opened EXCEPT ![g] = Generation(g)]
         /\ current' = g

\* Another process holds the file of the vault: nothing is kept, the caller fails.
JoinFails(t, rec) ==
  /\ current = 0
  /\ work' = [work EXCEPT ![t] = [rec EXCEPT !.pc = "done", !.client = FALSE]]
  /\ UNCHANGED <<opened, current>>

HttpArrives(t) ==
  /\ IsNext(t) /\ ~Closing
  /\ work' = [work EXCEPT ![t] = [Free EXCEPT !.kind = "http", !.pc = "routing", !.client = TRUE]]
  /\ UNCHANGED <<opened, current, sockets, phase, drain>>

\* The routes have let the request through to the stub of its vault.
HttpRouted(t) ==
  /\ work[t].kind = "http" /\ work[t].pc = "routing"
  /\ Join(t, work[t]) \/ JoinFails(t, work[t])
  /\ UNCHANGED <<sockets, phase, drain>>

\* The client goes away; nothing stops the handler.
ClientLeaves(t) ==
  /\ work[t].kind = "http" /\ work[t].client
  /\ work' = [work EXCEPT ![t].client = FALSE]
  /\ UNCHANGED <<opened, current, sockets, phase, drain>>

\* handleUpgrade, up to its first await; while closing the socket is destroyed.
UpgradeArrives(t) ==
  /\ IsNext(t) /\ ~Closing
  /\ LET rec == [Free EXCEPT !.kind = "upgrade"] IN Join(t, rec) \/ JoinFails(t, rec)
  /\ UNCHANGED <<sockets, phase, drain>>

\* ready: the storage is migrated and the timer armed for jobs that are stored.
BecomesReady(g) ==
  /\ opened[g].made /\ opened[g].ready = "pending"
  /\ \/ /\ opened[g].handle
        /\ \E jobs \in BOOLEAN :
             opened' = [opened EXCEPT ![g].ready = "yes", ![g].timer = jobs]
     \/ opened' = [opened EXCEPT ![g].ready = "failed"]
  /\ UNCHANGED <<work, current, sockets, phase, drain>>

\* Mutant: a task does not wait for the runtime to be ready.
ProceedUnready(t) ==
  /\ work[t].pc = "ready"
  /\ work' = [work EXCEPT ![t] = Call(work[t], t)]
  /\ opened' = Tailed(work[t].gen, t)
  /\ UNCHANGED <<current, sockets, phase, drain>>
\* await ready, then the call of the lock; a migration that failed fails all that come.
Proceed(t) ==
  /\ work[t].pc = "ready"
  /\ LET g == work[t].gen IN
       \/ /\ opened[g].ready = "yes"
          /\ work' = [work EXCEPT ![t] = Call(work[t], t)]
          /\ opened' = Tailed(g, t)
       \/ /\ opened[g].ready = "failed"
          /\ work' = [work EXCEPT ![t].pc = "done", ![t].client = FALSE]
          /\ UNCHANGED opened
  /\ UNCHANGED <<current, sockets, phase, drain>>

\* A task that calls the lock at once: a message, a closed socket, a completion, an alarm.
Calling(kind, g, t) == Call([Free EXCEPT !.kind = kind, !.gen = g], t)

MessageArrives(s, t) ==
  /\ sockets[s] \in {"open", "closing"} /\ IsNext(t)
  /\ work' = [work EXCEPT ![t] = Calling("message", work[s].gen, t)]
  /\ opened' = Tailed(work[s].gen, t)
  /\ UNCHANGED <<current, sockets, phase, drain>>

\* onDisconnect: the socket is unregistered outside the lock.
SocketGoes(s, t) ==
  /\ sockets[s] \in {"open", "closing", "terminated"} /\ IsNext(t)
  /\ sockets' = [sockets EXCEPT ![s] = "gone"]
  /\ work' = [work EXCEPT ![t] = Calling("gone", work[s].gen, t)]
  /\ opened' = Tailed(work[s].gen, t)
  /\ UNCHANGED <<current, phase, drain>>

AlarmFires(g, t) ==
  /\ opened[g].timer /\ IsNext(t)
  /\ work' = [work EXCEPT ![t] = Calling("alarm", g, t)]
  /\ opened' = [Tailed(g, t) EXCEPT ![g].timer = FALSE]
  /\ UNCHANGED <<current, sockets, phase, drain>>

-----------------------------------------------------------------------------
(* Running.                                                                 *)

\* The previous tail has resolved.
Enter(t) ==
  /\ work[t].pc = "queued" /\ work[t].prev = 0
  /\ work' = [work EXCEPT ![t].pc = "running"]
  /\ UNCHANGED <<opened, current, sockets, phase, drain>>

\* An HTTP request answers; a message, a closed socket, a completion just ends.
Finish(t) ==
  /\ work[t].pc = "running" /\ work[t].kind \notin {"upgrade", "alarm"}
  /\ work' = [Released(t) EXCEPT ![t].pc = "done", ![t].client = FALSE]
  /\ opened' \in Armed(work[t].gen, OwnTailCleared(work[t].gen, t))
  /\ UNCHANGED <<current, sockets, phase, drain>>

\* The alarm is rearmed for the jobs left, or retried when it failed.
FinishAlarm(t) ==
  /\ work[t].pc = "running" /\ work[t].kind = "alarm"
  /\ \E failed \in MayFail(t) :
       /\ work' = [Released(t) EXCEPT ![t].pc = "done"]
       /\ \E jobs \in IF failed THEN {TRUE} ELSE BOOLEAN :
            opened' = [OwnTailCleared(work[t].gen, t) EXCEPT ![work[t].gen].timer = jobs]
  /\ UNCHANGED <<current, sockets, phase, drain>>

\* prepareSocketSession has the lock; the rest of the upgrade does without it.
FinishPreparing(t) ==
  /\ work[t].pc = "running" /\ work[t].kind = "upgrade"
  /\ \E failed \in MayFail(t) :
       work' = [Released(t) EXCEPT ![t].pc = IF failed THEN "done" ELSE "prepared"]
  /\ opened' \in Armed(work[t].gen, OwnTailCleared(work[t].gen, t))
  /\ UNCHANGED <<current, sockets, phase, drain>>

\* The server has begun to close meanwhile: the socket is destroyed.
UpgradeTooLate(t) ==
  /\ work[t].pc = "prepared" /\ Closing
  /\ work' = [work EXCEPT ![t].pc = "done"]
  /\ UNCHANGED <<opened, current, sockets, phase, drain>>

\* The socket t is open, and open sockets of the same local vault get a close frame.
Superseding(t) ==
  {[s \in HostTasks |-> IF s = t THEN "open" ELSE IF s \in old THEN "closing" ELSE sockets[s]] :
     old \in SUBSET {s \in HostTasks : sockets[s] = "open"}}

\* The socket t is registered, those it supersedes are closed, its completion u is called.
UpgradeCompletes(t, u) ==
  /\ work[t].pc = "prepared" /\ ~Closing /\ IsNext(u)
  /\ work' = [work EXCEPT ![t].pc = "done", ![u] = Calling("completion", work[t].gen, u)]
  /\ opened' = Tailed(work[t].gen, u)
  /\ sockets' \in Superseding(t)
  /\ UNCHANGED <<current, phase, drain>>

-----------------------------------------------------------------------------
(* Shutting down.                                                           *)

\* A signal: the server stops listening, sockets get a close frame.
Shutdown ==
  /\ phase = "serving"
  /\ phase' = "closing"
  /\ sockets' = [s \in HostTasks |-> IF sockets[s] = "open" THEN "closing" ELSE sockets[s]]
  /\ drain' = "clients"
  /\ UNCHANGED <<work, opened, current>>

\* Mutant: the tasks under way are not waited for.
SocketsDrainedAtOnce ==
  /\ drain = "clients" /\ {s \in HostTasks : sockets[s] \in {"open", "closing", "terminated"}} = {}
  /\ drain' = "closed"
  /\ UNCHANGED <<work, opened, current, sockets, phase>>
\* wss.close has called back and no promise is pending.
SocketsDrained ==
  /\ drain = "clients" /\ {s \in HostTasks : sockets[s] \in {"open", "closing", "terminated"}} = {}
  /\ Tracked = {}
  /\ drain' = "closed"
  /\ UNCHANGED <<work, opened, current, sockets, phase>>

\* server.close has called back: no request and no socket holds a connection.
HttpClosed == Connected = {} /\ LiveSockets = {}

LetGoOf(g) == [opened EXCEPT ![g].handle = FALSE, ![g].timer = FALSE]
\* dispose: timers are cleared, handles closed, the map emptied.
LetGo == opened' = (IF current = 0 THEN opened ELSE LetGoOf(current)) /\ current' = 0

DisposeDrained ==
  /\ phase = "closing" /\ drain = "closed" /\ HttpClosed
  /\ phase' = "drained"
  /\ LetGo
  /\ UNCHANGED <<work, sockets, drain>>

\* Thirty seconds have passed: connections and sockets are torn down.
TimesOut ==
  /\ phase = "closing" /\ ~(drain = "closed" /\ HttpClosed)
  /\ phase' = "forcing"
  /\ work' = [t \in HostTasks |-> [work[t] EXCEPT !.client = FALSE]]
  /\ sockets' = [s \in HostTasks |-> IF sockets[s] \in {"open", "closing"} THEN "terminated" ELSE sockets[s]]
  /\ UNCHANGED <<opened, current, drain>>

\* The second that is left has passed, or all has closed within it.
DisposeForced ==
  /\ phase = "forcing"
  /\ phase' = "forced"
  /\ LetGo
  /\ UNCHANGED <<work, sockets, drain>>

-----------------------------------------------------------------------------
Init ==
  /\ work = [t \in HostTasks |-> Free]
  /\ opened = [g \in Generations |-> Unmade]
  /\ current = 0
  /\ sockets = [t \in HostTasks |-> "none"]
  /\ phase = "serving"
  /\ drain = "none"

Next ==
  \/ \E t \in HostTasks :
       \/ HttpArrives(t) \/ HttpRouted(t) \/ ClientLeaves(t) \/ UpgradeArrives(t)
       \/ Proceed(t) \/ Enter(t) \/ Finish(t) \/ FinishAlarm(t)
       \/ FinishPreparing(t) \/ UpgradeTooLate(t)
  \/ \E t, u \in HostTasks :
       MessageArrives(t, u) \/ SocketGoes(t, u) \/ UpgradeCompletes(t, u)
  \/ \E g \in Generations : BecomesReady(g) \/ \E t \in HostTasks : AlarmFires(g, t)
  \/ Shutdown \/ SocketsDrained \/ DisposeDrained \/ TimesOut \/ DisposeForced

Spec == Init /\ [][Next]_hvars

-----------------------------------------------------------------------------
(* Properties.                                                              *)

\* Types, and what the fields say of each other.
TypeOK ==
  /\ work \in [HostTasks -> [kind : {"none", "http", "upgrade", "message", "gone", "completion", "alarm"},
                             pc : {"free", "routing", "ready", "queued", "running", "prepared", "done"},
                             gen : Generations \cup {0}, prev : HostTasks \cup {0}, client : BOOLEAN]]
  /\ opened \in [Generations -> [made : BOOLEAN, ready : {"pending", "yes", "failed"},
                                 handle : BOOLEAN, tail : HostTasks \cup {0}, timer : BOOLEAN]]
  /\ current \in Generations \cup {0}
  /\ sockets \in [HostTasks -> {"none", "open", "closing", "terminated", "gone"}]
  /\ phase \in {"serving", "closing", "forcing", "drained", "forced"}
  /\ drain \in {"none", "clients", "closed"}
  /\ current # 0 => opened[current].handle

Under(g, pcs) == {t \in HostTasks : work[t].gen = g /\ work[t].pc \in pcs}

\* The chain of promises is a queue: tasks of a vault have the lock one at a time,
\* in the order of their calls, and one that ends, however it ends, lets the next in
\* (vault-lock.ts run; its test "serializes overlapping calls ... in call order").
Line(g) ==
  LET waiting == Under(g, {"queued", "running"})
      place[t \in waiting] == IF work[t].prev \in waiting THEN 1 + place[work[t].prev] ELSE 1
      Placed(i) == {t \in waiting : place[t] = i}
      inLine == /\ \A i \in 1 .. Cardinality(waiting) : Cardinality(Placed(i)) = 1
                /\ \A t \in waiting : work[t].prev # 0 => work[t].prev \in waiting
                /\ \A t \in waiting : work[t].pc = "running" => place[t] = 1
  IN IF inLine THEN [i \in 1 .. Cardinality(waiting) |-> CHOOSE t \in Placed(i) : TRUE]
     ELSE <<0, 0>>
Lines == [g \in Generations |-> Line(g)]
Fifo == INSTANCE FifoLock WITH Locks <- Generations, Callers <- HostTasks, lines <- Lines
LockIsFifo == Fifo!Spec

\* A lock nobody holds or waits for has no tail left behind, and the tail of one
\* that is in use is the last in line (vault-lock.ts:37; test "cleans up its internal
\* queue once idle").
TailsAreClean ==
  \A g \in Generations :
    LET waiting == Under(g, {"queued", "running"}) IN
      IF waiting = {} THEN opened[g].tail = 0
      ELSE opened[g].tail \in waiting /\ \A t \in waiting : work[t].prev # opened[g].tail

\* No task works in a coordinator whose storage has not been migrated, whatever let
\* it in (node-coordinator-namespace.ts:32, node-websocket.ts:61, node-coordinator.ts:185).
RunsAreMigrated ==
  \A t \in HostTasks : work[t].pc = "running" => opened[work[t].gen].ready = "yes"

\* What is checked of the lock beside the refinement: it leaves nothing behind, and
\* lets nobody work in a coordinator that is not ready.
LockIsClean == TailsAreClean /\ RunsAreMigrated

\* A shutdown that was not forced has let the storage go only after all tracked work
\* and all requests whose client waits: none of them finds its database closed
\* (node-shutdown.ts shutdownNodeServer, node-websocket.ts close).
GracefulWaits ==
  phase = "drained" => /\ Tracked = {} /\ Connected = {} /\ LiveSockets = {}
                       /\ \A t \in HostTasks : work[t].pc \in {"queued", "running"} =>
                            work[t].kind \in {"http", "alarm"}
=============================================================================
