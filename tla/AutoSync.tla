------------------------------ MODULE AutoSync ------------------------------
(***************************************************************************)
(* The plugin's sync loop: one realtime session, a queue of requested work *)
(* and three timers, on one thread (apps/obsidian-plugin/src/sync/engine:  *)
(* auto-sync, auto-sync-state, auto-sync-timers, auto-sync-work-queue).    *)
(*                                                                         *)
(* An action runs from one await to the next, or is a callback: a timer, a *)
(* message of the socket, a call of the plugin.  What runs between awaits  *)
(* is a function from the loop's fields to the loop's fields, so that its  *)
(* steps compose in the order the code takes them.                         *)
(*                                                                         *)
(* Abstractions.  Delays are left out: a timer that is set may fire at any *)
(* later moment.  A pull does not look at the cursor it was requested for. *)
(* dirty counts the changes the store would list for a push, behind says   *)
(* that the server has changes this device has not pulled.  Statuses that  *)
(* report an error, offline or attention_needed, are one.  Policy updates, *)
(* the storage display and withRealtimeSession are not modelled.           *)
(***************************************************************************)
EXTENDS Naturals

CONSTANTS
  Calms,      \* the kinds of day to consider, see calm
  MaxEdits,   \* bound: local changes
  MaxRemote,  \* bound: changes of other devices
  MaxFaults,  \* bound: drops, refusals, failures and passes without progress
  MaxCalls    \* bound: calls of the plugin

\* What the constants are taken to be.
AutoSyncBounds ==
  /\ Calms \subseteq BOOLEAN
  /\ MaxEdits \in Nat /\ MaxRemote \in Nat /\ MaxFaults \in Nat /\ MaxCalls \in Nat

VARIABLES
  loop,    \* the fields of SyncAutoLoop, and the status its callbacks show
  conn,    \* connectPromise: the attempt to open a session
  drain,   \* drainPromise: the pass under way
  dirty,   \* changes in the store waiting to be pushed
  behind,  \* whether the server is ahead of this device
  notice,  \* a cursor_advanced on its way
  spent,   \* how much of each bound is used up
  calm     \* on a calm day neither the user nor a refusal of the server stops the
           \* loop, nobody resumes it, and reading the store is over before a
           \* reconnect delay is; chosen at the start

vars == <<loop, conn, drain, dirty, behind, notice, spent, calm>>

States == {"stopped", "connecting", "live", "draining", "retry_wait", "reconnect_wait"}
Timers == {"push", "reconnect", "syncRetry"}
Statuses == {"paused", "syncing", "reconnecting", "up_to_date", "attention_needed"}

NoConn == [pc |-> "idle", ahead |-> FALSE]
NoDrain == [pc |-> "idle", push |-> FALSE, pull |-> FALSE, hold |-> FALSE,
            open |-> FALSE, late |-> FALSE, missed |-> FALSE, stuck |-> FALSE]

Init ==
  /\ loop = [state |-> "stopped", session |-> FALSE, push |-> FALSE, pull |-> FALSE,
             timers |-> {}, holds |-> FALSE, shown |-> "paused"]
  /\ conn = NoConn
  /\ drain = NoDrain
  /\ dirty = 0
  /\ behind = FALSE
  /\ notice = FALSE
  /\ spent = [edits |-> 0, remote |-> 0, faults |-> 0, calls |-> 0]
  /\ calm \in Calms

Spend(what) == spent' = [spent EXCEPT ![what] = @ + 1]
FaultLeft == spent.faults < MaxFaults

-----------------------------------------------------------------------------
(* What the loop does between two awaits. *)

Active(l) == l.state # "stopped"
Pending(l) == l.push \/ l.pull
Held(l) == l.holds /\ "syncRetry" \in l.timers /\ l.push
Runnable(l) == (l.push /\ ~Held(l)) \/ l.pull

\* state.set: a new connection state is shown.
Goes(l, state) ==
  [l EXCEPT !.state = state,
            !.shown = IF l.state = state THEN @
                      ELSE CASE state = "connecting" -> "syncing"
                             [] state = "reconnect_wait" -> "reconnecting"
                             [] OTHER -> @]

Stopped(l, shown) ==
  [l EXCEPT !.state = "stopped", !.push = FALSE, !.pull = FALSE, !.timers = {},
            !.holds = FALSE, !.session = FALSE, !.shown = shown]

Idle(l) == [l EXCEPT !.state = "live", !.shown = "up_to_date"]
Alarmed(l) == [l EXCEPT !.shown = "attention_needed"]

ResetRetry(l) == [l EXCEPT !.timers = @ \ {"syncRetry"}, !.holds = FALSE]

\* scheduleSyncRetry: whoever asks, one timer is enough.
RetryLater(l, holdsPush) ==
  IF ~Active(l) THEN l
  ELSE LET held == [l EXCEPT !.holds = @ \/ holdsPush]
       IN  IF "syncRetry" \in l.timers THEN held
           ELSE [held EXCEPT !.state = "retry_wait", !.timers = @ \union {"syncRetry"}]

ReconnectLater(l) ==
  IF ~Active(l) \/ "reconnect" \in l.timers THEN l
  ELSE [Goes(l, "reconnect_wait") EXCEPT !.timers = @ \union {"reconnect"}]

Disconnected(l) == IF Active(l) THEN ReconnectLater([l EXCEPT !.session = FALSE]) ELSE l

\* ensureRealtimeSession: l and the attempt under way, if one starts.  An
\* attempt that is done is under way until its promise has settled.
Needed(l, c) == Active(l) /\ ~l.session /\ c.pc = "idle"
Connecting(l, c) == IF Needed(l, c) THEN Goes(l, "connecting") ELSE l
Ended(c) == IF c.pc = "done" THEN NoConn ELSE c
Attempt(l, c) == IF Needed(l, c) THEN [NoConn EXCEPT !.pc = "token"] ELSE Ended(c)

\* The head of the drain's loop: take what can run and ask for a session, or
\* leave.
Taken(l) == [l EXCEPT !.push = @ /\ Held(l), !.pull = FALSE]
Pass(l) == [NoDrain EXCEPT !.pc = "session", !.push = l.push /\ ~Held(l),
                           !.pull = l.pull, !.hold = Held(l)]
Left(l) == IF Active(l) /\ Held(l) THEN [l EXCEPT !.state = "retry_wait"] ELSE l

\* The end of drain().  A loop that leaves work behind has armed a timer, so
\* that drain() starts no other loop: it reports idle, or nothing.
Settled(l) ==
  IF Active(l) /\ ~Pending(l) /\ l.timers \intersect {"reconnect", "syncRetry"} = {}
  THEN Idle(l) ELSE l

Leaves(l) == loop' = Settled(l) /\ drain' = NoDrain

Loops(l, c) ==
  IF Active(l) /\ Runnable(l)
  THEN /\ loop' = Connecting(Taken(l), c)
       /\ conn' = Attempt(Taken(l), c)
       /\ drain' = Pass(l)
  ELSE Leaves(Left(l)) /\ conn' = Ended(c)

\* drain(): one at a time.
Drains(l, c) ==
  IF Active(l) /\ drain.pc = "idle"
  THEN Loops([l EXCEPT !.state = "draining"], c)
  ELSE loop' = l /\ conn' = Ended(c) /\ UNCHANGED drain

-----------------------------------------------------------------------------
(* Calls of the plugin, changes of the vault. *)

Call(l) ==
  /\ spent.calls < MaxCalls /\ Spend("calls")
  /\ loop' = Connecting(l, conn)
  /\ conn' = Attempt(l, conn)
  /\ UNCHANGED <<drain, dirty, behind, notice>>

Start == ~Active(loop) /\ Call([loop EXCEPT !.state = "live"])

ResumeConnection ==
  /\ ~calm
  /\ Active(loop) /\ ~loop.session
  /\ Call([loop EXCEPT !.timers = @ \ {"reconnect"}])

Stop ==
  /\ ~calm /\ Active(loop)
  /\ spent.calls < MaxCalls /\ Spend("calls")
  /\ loop' = Stopped(loop, "paused")
  /\ drain' = [drain EXCEPT !.open = FALSE]
  /\ notice' = FALSE
  /\ UNCHANGED <<conn, dirty, behind>>

\* The recorder stores the change and notifyLocalChange restarts the debounce.
LocalChange ==
  /\ spent.edits < MaxEdits /\ Spend("edits")
  /\ dirty' = dirty + 1
  /\ loop' = IF Active(loop)
             THEN [loop EXCEPT !.shown = "syncing", !.timers = @ \union {"push"}]
             ELSE loop
  /\ UNCHANGED <<conn, drain, behind, notice>>

\* Another device commits; the server tells whoever is connected.
RemoteChange ==
  /\ spent.remote < MaxRemote /\ Spend("remote")
  /\ behind' = TRUE
  /\ notice' = (notice \/ loop.session)
  /\ drain' = [drain EXCEPT !.missed = @ \/ drain.pc \in {"pull", "pullAfter"}]
  /\ UNCHANGED <<loop, conn, dirty>>

NoticeArrives ==
  /\ notice
  /\ notice' = FALSE
  /\ IF Active(loop)
     THEN Drains([loop EXCEPT !.shown = "syncing", !.pull = TRUE], conn)
     ELSE UNCHANGED <<loop, conn, drain>>
  /\ UNCHANGED <<dirty, behind, spent>>

-----------------------------------------------------------------------------
(* Timers. *)

Fires(t) == t \in loop.timers /\ UNCHANGED <<dirty, behind, notice, spent>>
Fired(t) == [loop EXCEPT !.timers = @ \ {t}]

PushTimer == Fires("push") /\ Drains([Fired("push") EXCEPT !.push = TRUE], conn)

ReconnectTimer ==
  /\ Fires("reconnect")
  /\ conn.pc = "ready" => ~calm
  /\ loop' = Connecting(Fired("reconnect"), conn)
  /\ conn' = Attempt(Fired("reconnect"), conn)
  /\ UNCHANGED drain

SyncRetryTimer ==
  LET l == [Fired("syncRetry") EXCEPT !.holds = FALSE]
  IN  /\ Fires("syncRetry")
      /\ IF Pending(l) THEN Drains([l EXCEPT !.shown = "syncing"], conn)
         ELSE loop' = Idle(l) /\ UNCHANGED <<conn, drain>>

-----------------------------------------------------------------------------
(* Opening a session. *)

\* The token has arrived and the cursor has been read.
TokenArrives ==
  /\ conn.pc = "token"
  /\ conn' = [pc |-> "hello", ahead |-> behind]
  /\ UNCHANGED <<loop, drain, dirty, behind, notice, spent>>

\* The server has answered hello with its cursor.
SessionOpens ==
  /\ conn.pc = "hello"
  /\ IF Active(loop)
     THEN /\ loop' = [loop EXCEPT !.session = TRUE]
          /\ conn' = [pc |-> "ready", ahead |-> conn.ahead \/ behind]
     ELSE conn' = NoConn /\ UNCHANGED loop
  /\ UNCHANGED <<drain, dirty, behind, notice, spent>>

\* No token, no answer, or a store that cannot be read: the session goes.
\* Failures that are not the connection's are reported.
OpenFails ==
  /\ conn.pc # "idle"
  /\ FaultLeft /\ Spend("faults")
  /\ conn' = NoConn
  /\ \E l \in {loop, Alarmed(loop)} :
       loop' = ReconnectLater([l EXCEPT !.session = @ /\ conn.pc # "ready"])
  /\ notice' = (notice /\ conn.pc # "ready")
  /\ drain' = [drain EXCEPT !.open = @ /\ conn.pc # "ready"]
  /\ UNCHANGED <<dirty, behind>>

\* The store has said whether edits wait in it, and the server whether it is
\* ahead.
ReadyWith(edits, ahead) ==
  LET l == ResetRetry([loop EXCEPT !.push = @ \/ edits, !.pull = @ \/ ahead,
                                   !.state = "live",
                                   !.shown = IF edits \/ ahead THEN "syncing" ELSE @])
  IN  /\ conn.pc = "ready"
      /\ IF Pending(l) THEN Drains(l, [conn EXCEPT !.pc = "done"])
         ELSE loop' = Idle(l) /\ conn' = NoConn /\ UNCHANGED drain
      /\ UNCHANGED <<dirty, behind, notice, spent>>

\* Mutants: a session that trusts the queue instead of the store, and one that
\* does not compare the server's cursor with its own.
ReadyFromQueue == ReadyWith(FALSE, conn.ahead)
ReadyUnaware == ReadyWith(dirty > 0, FALSE)

SessionIsReady == ReadyWith(dirty > 0, conn.ahead)

\* The socket closes or fails; an error of the server's is reported first.
SessionDrops ==
  /\ loop.session
  /\ FaultLeft /\ Spend("faults")
  /\ \E l \in {loop, Alarmed(loop)} : loop' = Disconnected(l)
  /\ drain' = [drain EXCEPT !.open = FALSE]
  /\ notice' = FALSE
  /\ UNCHANGED <<conn, dirty, behind>>

\* The vault is gone, or this device's history is ahead of it.
SessionIsRefused ==
  /\ ~calm
  /\ loop.session \/ conn.pc \in {"token", "hello"}
  /\ FaultLeft /\ Spend("faults")
  /\ \E shown \in {"paused", "attention_needed"} : loop' = Stopped(loop, shown)
  /\ conn' = IF conn.pc = "ready" THEN conn ELSE NoConn
  /\ drain' = [drain EXCEPT !.open = FALSE]
  /\ notice' = FALSE
  /\ UNCHANGED <<dirty, behind>>

-----------------------------------------------------------------------------
(* A pass of the drain: pull, then push, then pull again if the push asks. *)

\* ensureRealtimeSession has settled.
SessionIsKnown ==
  /\ drain.pc = "session" /\ conn.pc = "idle"
  /\ IF loop.session
     THEN /\ drain' = [drain EXCEPT !.open = TRUE,
                                    !.pc = IF drain.pull THEN "pull" ELSE "push"]
          /\ UNCHANGED loop
     ELSE LET l == [loop EXCEPT !.push = @ \/ drain.push, !.pull = @ \/ drain.pull]
          IN  Leaves(IF "reconnect" \in l.timers THEN l ELSE RetryLater(l, FALSE))
  /\ UNCHANGED <<conn, dirty, behind, notice, spent>>

\* The end of a pass that did not fail: some file waits for a retry (late), the
\* pass went nowhere, or the loop goes round.
PassEnds(l, late, stalled) ==
  IF late \/ stalled
  THEN Leaves(RetryLater(IF late THEN Alarmed(l) ELSE l, TRUE)) /\ UNCHANGED conn
  ELSE Loops(IF drain.hold THEN l ELSE ResetRetry(l), conn)

PullEnds ==
  /\ drain.pc = "pull"
  /\ behind' = drain.missed
  /\ IF drain.push
     THEN drain' = [drain EXCEPT !.pc = "push", !.pull = FALSE, !.missed = FALSE]
          /\ UNCHANGED <<loop, conn>>
     ELSE PassEnds(loop, FALSE, FALSE)
  /\ UNCHANGED <<dirty, notice, spent>>

\* left changes still wait in the store; asks: the push wants a pull after it.
PushDone(left, asks, late, stuck) ==
  LET l == [loop EXCEPT !.push = @ \/ left > 0]
  IN  /\ dirty' = left
      /\ IF asks
         THEN /\ loop' = l /\ UNCHANGED conn
              /\ drain' = [drain EXCEPT !.pc = "pullAfter", !.push = FALSE,
                                        !.pull = TRUE, !.late = late, !.stuck = stuck]
         ELSE PassEnds(l, late, FALSE)

PushEnds ==
  /\ drain.pc = "push"
  /\ \/ \E left \in 0 .. dirty, asks \in BOOLEAN :
          (left < dirty \/ dirty = 0) /\ PushDone(left, asks, FALSE, FALSE) /\ UNCHANGED spent
     \/ \* Some file has to wait, or all were sent back as stale.
        /\ FaultLeft /\ Spend("faults") /\ dirty > 0
        /\ \/ \E left \in 1 .. dirty, asks \in BOOLEAN : PushDone(left, asks, TRUE, FALSE)
           \/ PushDone(dirty, TRUE, FALSE, TRUE)
  /\ UNCHANGED <<behind, notice>>

\* The server is full: the rest stays in the store.
QuotaExceeded ==
  /\ drain.pc = "push" /\ ~calm
  /\ FaultLeft /\ Spend("faults")
  /\ Leaves(Stopped(loop, "paused"))
  /\ notice' = FALSE
  /\ UNCHANGED <<conn, dirty, behind>>

PullAfterPushEnds ==
  /\ drain.pc = "pullAfter"
  /\ behind' = drain.missed
  /\ \E applied \in BOOLEAN : PassEnds(loop, drain.late, drain.stuck /\ ~applied)
  /\ UNCHANGED <<dirty, notice, spent>>

\* A failure gives back the work not done, and waits.  drain.push: the push of
\* this pass has not completed.
PassFails ==
  /\ drain.pc \in {"pull", "push", "pullAfter"}
  /\ IF drain.open THEN FaultLeft /\ Spend("faults") ELSE UNCHANGED spent
  /\ \E l \in {loop, Alarmed(loop)} :
       Leaves(RetryLater([l EXCEPT !.push = @ \/ drain.push, !.pull = @ \/ drain.pull],
                         drain.push))
  /\ UNCHANGED <<conn, dirty, behind, notice>>

Step ==
  \/ Start \/ Stop \/ ResumeConnection
  \/ LocalChange \/ RemoteChange \/ NoticeArrives
  \/ PushTimer \/ ReconnectTimer \/ SyncRetryTimer
  \/ TokenArrives \/ SessionOpens \/ OpenFails \/ SessionIsReady
  \/ SessionDrops \/ SessionIsRefused
  \/ SessionIsKnown \/ PullEnds \/ PushEnds \/ QuotaExceeded
  \/ PullAfterPushEnds \/ PassFails

Next == Step /\ UNCHANGED calm

Spec == Init /\ [][Next]_vars

\* Timers fire, the network and the store answer, and promises settle.
Opens == TokenArrives \/ SessionOpens \/ SessionIsReady
Proceeds == SessionIsKnown \/ PullEnds \/ PushEnds \/ PullAfterPushEnds

Fairness ==
  /\ WF_vars(NoticeArrives /\ UNCHANGED calm)
  /\ WF_vars(PushTimer /\ UNCHANGED calm)
  /\ WF_vars(ReconnectTimer /\ UNCHANGED calm)
  /\ WF_vars(SyncRetryTimer /\ UNCHANGED calm)
  /\ WF_vars(Opens /\ UNCHANGED calm)
  /\ WF_vars(Proceeds /\ UNCHANGED calm)

FairSpec == Spec /\ Fairness

-----------------------------------------------------------------------------
(* Properties. *)

\* The fields have their types; a pass that runs has taken some work, and a
\* stopped loop has neither a timer nor a session (stop clears both).
TypeOK ==
  /\ loop \in [state : States, session : BOOLEAN, push : BOOLEAN, pull : BOOLEAN,
               timers : SUBSET Timers, holds : BOOLEAN, shown : Statuses]
  /\ conn \in [pc : {"idle", "token", "hello", "ready"}, ahead : BOOLEAN]
  /\ drain \in [pc : {"idle", "session", "pull", "push", "pullAfter"},
                push : BOOLEAN, pull : BOOLEAN, hold : BOOLEAN, open : BOOLEAN,
                late : BOOLEAN, missed : BOOLEAN, stuck : BOOLEAN]
  /\ dirty \in 0 .. MaxEdits
  /\ {behind, notice} \subseteq BOOLEAN
  /\ drain.pc \in {"session", "pull", "push"} => drain.push \/ drain.pull
  /\ ~Active(loop) => loop.timers = {} /\ ~loop.session

\* Work that was requested is never forgotten: while the loop is active, a pass
\* runs, a session is being opened, or a timer is armed that leads to one.
WorkIsDriven ==
  Active(loop) /\ Pending(loop) =>
    \/ drain.pc # "idle" \/ conn.pc # "idle"
    \/ loop.timers \intersect {"reconnect", "syncRetry"} # {}

\* A backoff ends: a loop that waits in retry_wait, and a push that is held,
\* have an armed timer to wait for, or a pass that runs.
BackoffEnds ==
  /\ loop.state = "retry_wait" => "syncRetry" \in loop.timers \/ drain.pc # "idle"
  /\ loop.holds => "syncRetry" \in loop.timers

\* A change that waits in the store is never forgotten either, not even by a
\* loop whose queue stop() has emptied.
ChangesAreDriven ==
  Active(loop) /\ dirty > 0 =>
    drain.pc # "idle" \/ conn.pc # "idle" \/ loop.timers # {}

\* An active loop without a session is on its way to one, on a calm day.
ActiveReconnects ==
  calm /\ Active(loop) /\ ~loop.session =>
    \/ conn.pc # "idle" \/ drain.pc # "idle"
    \/ loop.timers # {}

\* An active loop forgets nothing: not what it was asked for, not what waits in the
\* store, not the end of a backoff, and not that it has no session.
NothingIsForgotten ==
  WorkIsDriven /\ BackoffEnds /\ ChangesAreDriven /\ ActiveReconnects

\* Only a call of the plugin that starts the loop takes it out of "stopped".
StoppedStays == [][~Active(loop) /\ Active(loop') => spent'.calls > spent.calls]_vars

\* A local change leaves the device, on a calm day once the loop is started.
LocalEditsArrive == calm /\ Active(loop) /\ dirty > 0 ~> dirty = 0

\* Another device's change reaches this one, on a calm day.
RemoteChangesArrive == calm /\ Active(loop) /\ behind ~> ~behind

\* Changes of either side reach the other once the loop is started: through lost
\* sessions, stalled passes and backoffs, whatever order they come in.
ChangesArrive == LocalEditsArrive /\ RemoteChangesArrive
=============================================================================
