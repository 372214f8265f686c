------------------------------ MODULE Session ------------------------------
(***************************************************************************)
(* The realtime session between the plugin and the coordinator of a vault: *)
(* the client's connections (apps/obsidian-plugin/src/sync/remote), the    *)
(* coordinator's sockets and its message handler                           *)
(* (apps/api/src/sync/coordinator/socket), and the wire between them.      *)
(*                                                                         *)
(* A connection is two ordered channels.  It can be cut without either     *)
(* side being told; the server can restart; an answer can come later than  *)
(* the client waits.  A handler of the coordinator is one step, except a   *)
(* commit: it awaits the object store before its transaction, and on a     *)
(* Durable Object other messages are handled meanwhile.                    *)
(*                                                                         *)
(* Abstractions.  The vault has one entry, which every device edits.       *)
(* Requests that only read, or that change nothing another session is told *)
(* of, are one kind, "history" (list_entry_versions, list_deleted_entries, *)
(* purge_deleted_entries); the restores behave as a commit and are not     *)
(* repeated.  A commit carries one mutation.  Heartbeats share one request *)
(* number.  Frames the client never sends (binary, invalid) are left out.  *)
(***************************************************************************)
EXTENDS Naturals, Sequences, FiniteSets, TLC

CONSTANTS
  Apps,         \* local vaults, each with one plugin running
  MaxConns,     \* bound: connections opened
  MaxAsks,      \* bound: requests, notifications, and heartbeats while there is a network
  MaxEdits,     \* bound: edits
  MaxChanges,   \* bound: changes of the policy and of the storage used
  MaxFaults     \* bound: cuts, restarts, refusals, failures, slow answers and closes

VARIABLES
  client,    \* the client's end of each connection: SyncRealtimeSocketSession
  server,    \* the coordinator's end: a socket and the session attached to it
  up, down,  \* what is on its way to the coordinator and to the client
  cut,       \* the connections whose network is gone
  awaiting,  \* commits waiting for the object store
  vault,     \* the coordinator's state, as far as sessions are told of it
  device,    \* what each plugin knows of it, and its edit waiting to be pushed
  spent      \* how much of each bound is used up

vars == <<client, server, up, down, cut, awaiting, vault, device, spent>>

Conns == 1..MaxConns
None == [id |-> 0, base |-> 0]
Heartbeat == [id |-> 0, kind |-> "heartbeat"]

\* The requests of the client, and the messages it expects no answer to.
Requests == {"hello", "commit", "list", "get", "history", "detach", "heartbeat"}
Notifications == {"watch", "unwatch"}

\* The codes of the errors that carry no request.
SessionErrors == {"cursor_ahead_of_server", "detach_failed", "local_vault_replaced",
                  "invalid_message"}

Unused == [app |-> "nobody", phase |-> "unused", pending |-> {}, next |-> 1,
           beats |-> FALSE, features |-> {}, errors |-> {}, ends |-> 0, own |-> FALSE,
           strays |-> FALSE, crossed |-> FALSE]
NoSocket == [state |-> "none", watch |-> FALSE]

Init ==
  /\ client = [c \in Conns |-> Unused]
  /\ server = [c \in Conns |-> NoSocket]
  /\ up = [c \in Conns |-> <<>>]
  /\ down = [c \in Conns |-> <<>>]
  /\ cut = {}
  /\ awaiting = {}
  /\ vault \in [cursor : {0}, rev : {0}, log : {<<>>}, policy : {0}, used : {0},
                features : SUBSET {"get"}]
  \* A device may have seen a state of the vault that the server has lost.
  /\ \E ahead \in 0..1 :
       device = [a \in Apps |-> [cursor |-> ahead, heard |-> 0, rev |-> 0, todo |-> None,
                                 acked |-> {}, refused |-> {}, policy |-> 0, used |-> 0]]
  /\ spent = [asks |-> 0, edits |-> 0, changes |-> 0, faults |-> 0]

Spend(what) == spent' = [spent EXCEPT ![what] = @ + 1]
AskLeft == spent.asks < MaxAsks
FaultLeft == spent.faults < MaxFaults
Larger(m, n) == IF m > n THEN m ELSE n

-----------------------------------------------------------------------------
(* The client's end of a connection. *)

Closed(cl) == cl.phase \in {"unused", "closed"}

\* rejectPending: every request in flight fails.
Rejected(cl) == [cl EXCEPT !.pending = {}]
\* The session is over: no listener is left, and nobody is told.
Torn(cl) == [Rejected(cl) EXCEPT !.phase = "closed", !.beats = FALSE,
                                 !.next = 1, !.features = {}]
\* close(): the plugin ends the session itself.
ClosedByUs(cl) == IF Closed(cl) THEN cl ELSE [Torn(cl) EXCEPT !.own = TRUE]
\* The session is lost, and onClose says so.
Ended(cl) == [Torn(cl) EXCEPT !.ends = @ + 1]
\* Mutant: a session that is already closed fails once more.
FailedAgain(cl) == Ended(cl)
\* failConnection, of a session that is not closed yet.
FailedOnce(cl) == IF Closed(cl) THEN cl ELSE Ended(cl)

\* Whoever waits for a request learns that it failed: a hello that fails makes
\* openSession close the session, a heartbeat that fails fails the connection.
AfterRejection(cl, before) ==
  IF before.phase = "hello" THEN ClosedByUs(cl)
  ELSE IF Heartbeat \in before.pending THEN FailedOnce(cl) ELSE cl

Failed(cl) == AfterRejection(FailedOnce(cl), cl)
\* handleClose.
Lost(cl) == Failed(cl)
\* session_error fails every request in flight; the socket stays open.
SessionError(cl, code) ==
  AfterRejection([Rejected(cl) EXCEPT !.errors = @ \cup {code}], cl)

Known(cl, id) == \E r \in cl.pending : r.id = id
\* Mutant: answers are taken to come in the order of the requests.
OldestRequest(cl, id) == CHOOSE r \in cl.pending : \A o \in cl.pending : r.id <= o.id
RequestOf(cl, id) == CHOOSE r \in cl.pending : r.id = id

\* An answer settles its request.  Its kind is compared with the kind the request
\* expects.  An answer to no request is a stray, unless a session_error has failed
\* requests whose answers were still to come.
Answered(cl, m) ==
  IF ~Known(cl, m.id) THEN [cl EXCEPT !.strays = @ \/ cl.errors = {}]
  ELSE LET r == RequestOf(cl, m.id) IN
       [cl EXCEPT !.pending = @ \ {r}, !.crossed = @ \/ m.kind # r.kind]

\* openSession, once the hello is acknowledged: the heartbeat starts.
Live(cl, features) == [cl EXCEPT !.phase = "live", !.features = features, !.beats = TRUE]

\* createRequestId.
Numbered(cl) == cl.next

Asked(cl, kind) == [cl EXCEPT !.pending = @ \cup {[id |-> Numbered(cl), kind |-> kind]},
                              !.next = @ + 1]

ToServer(c, m) == IF c \in cut THEN up[c] ELSE Append(up[c], m)
CloseFrame == [type |-> "close"]
\* socket.close() of the client, seen by the server after what was sent before.
Hangs(c) == ToServer(c, CloseFrame)

-----------------------------------------------------------------------------
(* The coordinator's sockets. *)

Open(c) == server[c].state = "open"

\* trySend: only an open socket sends.  What reaches a closed session is ignored.
Reaches(c) == Open(c) /\ c \notin cut /\ ~Closed(client[c])
SendTo(cs, m, d) ==
  [c \in Conns |-> IF c \in cs /\ Reaches(c) THEN Append(d[c], m) ELSE d[c]]

\* Mutant: a cursor is announced to the sessions that watch the storage.
BroadcastToWatchers(c, m, d) == SendTo({o \in Conns \ {c} : server[o].watch}, m, d)
BroadcastExcept(c, m, d) == SendTo(Conns \ {c}, m, d)
BroadcastPolicy(m, d) == SendTo(Conns, m, d)
BroadcastStorageStatus(m, d) == SendTo({o \in Conns : server[o].watch}, m, d)

\* closeSupersededSockets: the other sockets of the same local vault.
Superseded(c) == {o \in Conns \ {c} : Open(o) /\ client[o].app = client[c].app}

-----------------------------------------------------------------------------
(* The plugin. *)

\* openSession: the plugin has one session at a time.
OpenSession(a) ==
  /\ \A c \in Conns : client[c].app = a => Closed(client[c])
  /\ \E c \in Conns :
       /\ client[c].phase = "unused"
       /\ \A o \in Conns : o < c => client[o].phase # "unused"
       /\ client' = [client EXCEPT ![c] = [Unused EXCEPT !.app = a, !.phase = "connecting"]]
  /\ UNCHANGED <<server, up, down, cut, awaiting, vault, device, spent>>

\* waitForOpen fails: the connection is refused, or the network is gone, perhaps
\* after the coordinator has accepted the socket.
OpenFails(c) ==
  /\ FaultLeft /\ Spend("faults")
  /\ client[c].phase = "connecting"
  /\ client' = [client EXCEPT ![c] = ClosedByUs(@)]
  /\ cut' = cut \cup {c}
  /\ down' = [down EXCEPT ![c] = <<>>]
  /\ UNCHANGED <<server, up, awaiting, vault, device>>

\* An edit of the entry, on top of the revision this device has.
Edit(a) ==
  /\ spent.edits < MaxEdits /\ device[a].todo = None
  /\ device' = [device EXCEPT ![a].todo = [id |-> spent.edits + 1, base |-> device[a].rev]]
  /\ Spend("edits")
  /\ UNCHANGED <<client, server, up, down, cut, awaiting, vault>>

Says(c, m) == client[c].phase = "live" /\ up' = [up EXCEPT ![c] = ToServer(c, m)]
Number(c) == Numbered(client[c])
Asks(c, kind) ==
  /\ AskLeft /\ Spend("asks")
  /\ client' = [client EXCEPT ![c] = Asked(@, kind)]
  /\ UNCHANGED <<server, down, cut, awaiting, vault, device>>

\* commitMutations: the waiting edit, again if its fate is not known.
Commit(c) ==
  LET todo == device[client[c].app].todo IN
  /\ client[c].phase = "live" /\ todo # None
  /\ \A r \in client[c].pending : r.kind # "commit"
  /\ Says(c, [type |-> "commit", id |-> Number(c), mutation |-> todo])
  /\ Asks(c, "commit")

\* listEntryStates: a pull from the cursor of this device.
List(c) ==
  /\ Says(c, [type |-> "list", id |-> Number(c), since |-> device[client[c].app].cursor])
  /\ Asks(c, "list")

\* getEntryStatesById: refused here when the server has not said it knows the message.
GetAllowed(cl) == "get" \in cl.features
Get(c) ==
  /\ GetAllowed(client[c])
  /\ Says(c, [type |-> "get", id |-> Number(c)])
  /\ Asks(c, "get")

History(c) == Says(c, [type |-> "history", id |-> Number(c)]) /\ Asks(c, "history")
Detach(c) == Says(c, [type |-> "detach", id |-> Number(c)]) /\ Asks(c, "detach")

\* watchStorageStatus and unwatchStorageStatus.
Watch(c, kind) ==
  /\ server[c].watch = (kind = "unwatch")
  /\ AskLeft /\ Spend("asks")
  /\ Says(c, [type |-> kind])
  /\ UNCHANGED <<client, server, down, cut, awaiting, vault, device>>

\* The heartbeat timer: an answer is due before the next tick.
Beat(c) ==
  /\ client[c].beats /\ Heartbeat \notin client[c].pending
  /\ client' = [client EXCEPT ![c].pending = @ \cup {Heartbeat}]
  /\ Says(c, [type |-> "heartbeat", id |-> 0])
  /\ \/ c \in cut /\ UNCHANGED spent
     \/ c \notin cut /\ AskLeft /\ Spend("asks")
  /\ UNCHANGED <<server, down, cut, awaiting, vault, device>>

\* The end of a session on the client's side.
Ends(c, cl) ==
  /\ client' = [client EXCEPT ![c] = cl]
  /\ down' = [down EXCEPT ![c] = <<>>]
  /\ UNCHANGED <<server, cut, awaiting, vault, device>>

\* A request is not answered in time: the answer is lost, or it is slow.
TimesOut(cl) == Failed(cl)
TimeOut(c) ==
  /\ client[c].pending # {}
  /\ \/ c \in cut /\ UNCHANGED spent
     \/ c \notin cut /\ FaultLeft /\ Spend("faults")
  /\ up' = [up EXCEPT ![c] = Hangs(c)]
  /\ Ends(c, TimesOut(client[c]))

\* The plugin stops, or connects anew.
Close(c) ==
  /\ client[c].phase = "live"
  /\ FaultLeft /\ Spend("faults")
  /\ up' = [up EXCEPT ![c] = Hangs(c)]
  /\ Ends(c, ClosedByUs(client[c]))

-----------------------------------------------------------------------------
(* What the client receives. *)

Receives(c, types) ==
  /\ ~Closed(client[c])
  /\ down[c] # <<>> /\ Head(down[c]).type \in types
  /\ down' = [down EXCEPT ![c] = Tail(@)]
  /\ UNCHANGED <<server, cut, awaiting, vault, spent>>

\* The socket is open: the session listens and says hello.
Opened(c) ==
  /\ Receives(c, {"open"})
  /\ client' = [client EXCEPT ![c] = Asked([@ EXCEPT !.phase = "hello"], "hello")]
  /\ up' = [up EXCEPT ![c] = ToServer(c, [type |-> "hello", id |-> Number(c),
                                          last |-> device[client[c].app].cursor])]
  /\ UNCHANGED device

\* What an answer tells the device.
Informed(d, m) ==
  CASE m.kind = "hello" -> [d EXCEPT !.heard = Larger(@, m.cursor),
                                     !.policy = m.policy, !.used = m.used]
    [] m.kind = "list" -> [d EXCEPT !.cursor = m.cursor, !.rev = m.rev,
                                    !.heard = Larger(@, m.cursor)]
    [] m.kind = "commit" /\ m.mutation = d.todo.id /\ m.stale ->
         [d EXCEPT !.todo = None, !.refused = @ \cup {m.mutation}]
    [] m.kind = "commit" /\ m.mutation = d.todo.id /\ ~m.stale ->
         [d EXCEPT !.todo = None, !.rev = m.rev, !.heard = Larger(@, m.cursor),
                   !.acked = @ \cup {m.mutation}]
    [] OTHER -> d

ReceiveAnswer(c) ==
  LET m == Head(down[c])
      cl == Answered(client[c], m)
  IN /\ Receives(c, {"answer"})
     /\ client' = [client EXCEPT ![c] = IF m.kind = "hello" THEN Live(cl, m.features) ELSE cl]
     /\ device' = [device EXCEPT ![cl.app] =
                     IF Known(client[c], m.id) THEN Informed(@, m) ELSE @]
     /\ UNCHANGED up

ReceiveFailure(c) ==
  /\ Receives(c, {"failed"})
  /\ client' = [client EXCEPT ![c] = Answered(@, Head(down[c]))]
  /\ UNCHANGED <<up, device>>

\* cursor_advanced, storage_status_updated and policy_updated.
Pushed(d, m) ==
  CASE m.type = "cursor_advanced" -> [d EXCEPT !.heard = Larger(@, m.cursor)]
    [] m.type = "policy_updated" -> [d EXCEPT !.policy = m.policy, !.used = m.used]
    [] m.type = "storage_status_updated" -> [d EXCEPT !.used = m.used]
ReceivePush(c) ==
  /\ Receives(c, {"cursor_advanced", "storage_status_updated", "policy_updated"})
  /\ device' = [device EXCEPT ![client[c].app] = Pushed(@, Head(down[c]))]
  /\ UNCHANGED <<client, up>>

ReceiveError(c) ==
  LET cl == SessionError(client[c], Head(down[c]).code) IN
  /\ Receives(c, {"session_error"})
  /\ client' = [client EXCEPT ![c] = cl]
  /\ up' = [up EXCEPT ![c] = IF Closed(cl) THEN Hangs(c) ELSE @]
  /\ UNCHANGED device

\* handleClose; before the session exists it is openSession that fails.
ReceiveClose(c) ==
  /\ Receives(c, {"close"})
  /\ client' = [client EXCEPT ![c] = IF @.phase = "connecting" THEN ClosedByUs(@) ELSE Lost(@)]
  /\ UNCHANGED <<up, device>>

-----------------------------------------------------------------------------
(* The coordinator. *)

\* openSocket: accept, attach the session, close the sockets it supersedes.
Accept(c) ==
  /\ client[c].phase = "connecting" /\ server[c].state = "none" /\ c \notin cut
  /\ LET old == Superseded(c)
         told(o) == <<[type |-> "session_error", code |-> "local_vault_replaced"],
                      CloseFrame>>
     IN /\ server' = [o \in Conns |-> IF o = c THEN [NoSocket EXCEPT !.state = "open"]
                                      ELSE IF o \in old THEN [server[o] EXCEPT !.state = "closing"]
                                      ELSE server[o]]
        /\ down' = [o \in Conns |-> IF o = c THEN <<[type |-> "open"]>>
                                    ELSE IF o \in old /\ Reaches(o) THEN down[o] \o told(o)
                                    ELSE down[o]]
  /\ UNCHANGED <<client, up, cut, awaiting, vault, device, spent>>

\* A message is taken from a socket that is open or closing.
Serves(c, types) ==
  /\ server[c].state \in {"open", "closing"}
  /\ up[c] # <<>> /\ Head(up[c]).type \in types
  /\ up' = [up EXCEPT ![c] = Tail(@)]
  /\ UNCHANGED <<client, cut, device>>

Answer(c, kind) == [type |-> "answer", id |-> Head(up[c]).id, kind |-> kind]
\* commit_mutations_failed and its like: they fail one request.
Failure(kind, id) == [type |-> "failed", id |-> id, kind |-> kind]

HelloAck(c) ==
  [type |-> "answer", id |-> Head(up[c]).id, kind |-> "hello", cursor |-> vault.cursor,
   policy |-> vault.policy, used |-> vault.used, features |-> vault.features]
ServeHello(c) ==
  /\ Serves(c, {"hello"})
  /\ down' = SendTo({c}, IF Head(up[c]).last > vault.cursor
                         THEN [type |-> "session_error", code |-> "cursor_ahead_of_server"]
                         ELSE HelloAck(c), down)
  /\ UNCHANGED <<server, awaiting, vault, spent>>

\* The commit awaits the object store.
ServeCommit(c) ==
  /\ Serves(c, {"commit"})
  /\ awaiting' = awaiting \cup {[conn |-> c, id |-> Head(up[c]).id,
                                 mutation |-> Head(up[c]).mutation]}
  /\ UNCHANGED <<server, down, vault, spent>>

Last(log) == IF log = <<>> THEN 0 ELSE log[Len(log)]

\* Mutant: a mutation that is already applied is not recognised.
OutcomeOnce(m) == IF m.base # vault.rev THEN "stale" ELSE "applied"
\* commitMutations: the mutation the entry already has is accepted again, one with
\* another base is stale, any other takes the next revision and cursor.
Outcome(m) == IF Last(vault.log) = m.id THEN "again"
              ELSE IF m.base # vault.rev THEN "stale" ELSE "applied"

Committed(m) ==
  IF Outcome(m) = "applied"
  THEN [vault EXCEPT !.cursor = @ + 1, !.rev = @ + 1, !.log = Append(@, m.id)]
  ELSE vault

\* The transaction, the answer and the announcement to the other sessions.
CommitReturns(w) ==
  /\ awaiting' = awaiting \ {w}
  /\ vault' = Committed(w.mutation)
  /\ LET answer == [type |-> "answer", id |-> w.id, kind |-> "commit",
                    mutation |-> w.mutation.id, stale |-> Outcome(w.mutation) = "stale",
                    cursor |-> vault'.cursor, rev |-> vault'.rev]
         answered == SendTo({w.conn}, answer, down)
     IN down' = IF Outcome(w.mutation) = "applied"
                THEN BroadcastExcept(w.conn, [type |-> "cursor_advanced",
                                              cursor |-> vault'.cursor], answered)
                ELSE answered
  /\ UNCHANGED <<client, server, up, cut, device, spent>>

\* The object store or the transaction fails.
CommitFails(w) ==
  /\ FaultLeft /\ Spend("faults")
  /\ awaiting' = awaiting \ {w}
  /\ down' = SendTo({w.conn}, Failure("commit", w.id), down)
  /\ UNCHANGED <<client, server, up, cut, vault, device>>

\* listEntryStates: a range that starts after the cursor of the vault is refused.
Page(c) == [type |-> "answer", id |-> Head(up[c]).id, kind |-> "list",
            cursor |-> vault.cursor, rev |-> vault.rev]
ServeList(c) ==
  /\ Serves(c, {"list"})
  /\ down' = SendTo({c}, IF Head(up[c]).since > vault.cursor
                         THEN Failure("list", Head(up[c]).id)
                         ELSE Page(c), down)
  /\ UNCHANGED <<server, awaiting, vault, spent>>

\* A server that does not know a message says so to the whole session.
ServeGet(c) ==
  /\ Serves(c, {"get"})
  /\ down' = SendTo({c}, IF "get" \in vault.features THEN Answer(c, "get")
                         ELSE [type |-> "session_error", code |-> "invalid_message"], down)
  /\ UNCHANGED <<server, awaiting, vault, spent>>

ServeHistory(c) ==
  /\ Serves(c, {"history"})
  /\ \/ down' = SendTo({c}, Answer(c, "history"), down) /\ UNCHANGED spent
     \/ FaultLeft /\ Spend("faults")
        /\ down' = SendTo({c}, Failure("history", Head(up[c]).id), down)
  /\ UNCHANGED <<server, awaiting, vault>>

\* detachLocalVault; its failure is not tied to the request.
ServeDetach(c) ==
  /\ Serves(c, {"detach"})
  /\ \/ down' = SendTo({c}, Answer(c, "detach"), down) /\ UNCHANGED spent
     \/ FaultLeft /\ Spend("faults")
        /\ down' = SendTo({c}, [type |-> "session_error", code |-> "detach_failed"], down)
  /\ UNCHANGED <<server, awaiting, vault>>

ServeHeartbeat(c) ==
  /\ Serves(c, {"heartbeat"})
  /\ down' = SendTo({c}, Answer(c, "heartbeat"), down)
  /\ UNCHANGED <<server, awaiting, vault, spent>>

StatusMessage(v) == [type |-> "storage_status_updated", used |-> v.used]
ServeWatch(c) ==
  /\ Serves(c, {"watch", "unwatch"})
  /\ server' = [server EXCEPT ![c].watch = Head(up[c]).type = "watch"]
  /\ down' = IF Head(up[c]).type = "watch" THEN SendTo({c}, StatusMessage(vault), down) ELSE down
  /\ UNCHANGED <<awaiting, vault, spent>>

\* The socket is closed: it is no longer tracked.
Gone(c) ==
  /\ server' = [server EXCEPT ![c] = [NoSocket EXCEPT !.state = "gone"]]
  /\ up' = [up EXCEPT ![c] = <<>>]
  /\ UNCHANGED <<client, down, cut, awaiting, vault, device, spent>>
ServeClose(c) == /\ server[c].state = "open"
                 /\ up[c] # <<>> /\ Head(up[c]).type = "close"
                 /\ Gone(c)
CloseEnds(c) == server[c].state = "closing" /\ (Closed(client[c]) \/ c \in cut) /\ Gone(c)
ServerNotices(c) == server[c].state = "open" /\ c \in cut /\ Gone(c)

\* applyVaultPolicy.
PolicyChanges ==
  /\ spent.changes < MaxChanges /\ Spend("changes")
  /\ vault' = [vault EXCEPT !.policy = @ + 1]
  /\ down' = BroadcastPolicy([type |-> "policy_updated", policy |-> vault'.policy,
                              used |-> vault.used], down)
  /\ UNCHANGED <<client, server, up, cut, awaiting, device>>

\* A blob is staged or collected.
UsageChanges ==
  /\ spent.changes < MaxChanges /\ Spend("changes")
  /\ vault' = [vault EXCEPT !.used = @ + 1]
  /\ down' = BroadcastStorageStatus(StatusMessage(vault'), down)
  /\ UNCHANGED <<client, server, up, cut, awaiting, device>>

-----------------------------------------------------------------------------
(* What goes wrong. *)

\* The network is gone, and neither side is told.
Cut(c) ==
  /\ FaultLeft /\ Spend("faults")
  /\ c \notin cut /\ client[c].phase \in {"hello", "live"}
  /\ cut' = cut \cup {c}
  /\ up' = [up EXCEPT ![c] = <<>>] /\ down' = [down EXCEPT ![c] = <<>>]
  /\ UNCHANGED <<client, server, awaiting, vault, device>>

\* The server restarts: sockets and handlers are gone, the vault is not.
Restart ==
  /\ FaultLeft /\ Spend("faults")
  /\ \E c \in Conns : Open(c)
  /\ server' = [c \in Conns |-> IF server[c].state = "none" THEN server[c]
                                ELSE [NoSocket EXCEPT !.state = "gone"]]
  /\ awaiting' = {}
  /\ up' = [c \in Conns |-> <<>>]
  /\ down' = SendTo(Conns, CloseFrame, down)
  /\ UNCHANGED <<client, cut, vault, device>>

-----------------------------------------------------------------------------

Ask(c) ==
  \/ Commit(c) \/ List(c) \/ Get(c) \/ History(c) \/ Detach(c)
  \/ \E kind \in Notifications : Watch(c, kind)

Receive(c) ==
  \/ Opened(c) \/ ReceiveAnswer(c) \/ ReceiveFailure(c) \/ ReceivePush(c)
  \/ ReceiveError(c) \/ ReceiveClose(c)

Serve(c) ==
  \/ ServeHello(c) \/ ServeCommit(c) \/ ServeList(c) \/ ServeGet(c) \/ ServeHistory(c)
  \/ ServeDetach(c) \/ ServeHeartbeat(c) \/ ServeWatch(c) \/ ServeClose(c)

Next ==
  \/ \E a \in Apps : OpenSession(a) \/ Edit(a)
  \/ \E c \in Conns : \/ OpenFails(c) \/ Ask(c) \/ Beat(c) \/ TimeOut(c) \/ Close(c)
                       \/ Receive(c) \/ Accept(c) \/ Serve(c) \/ CloseEnds(c)
                       \/ ServerNotices(c) \/ Cut(c)
  \/ \E w \in awaiting : CommitReturns(w) \/ CommitFails(w)
  \/ PolicyChanges \/ UsageChanges \/ Restart

Spec == Init /\ [][Next]_vars

\* The timers of the client fire, what is on the wire arrives, and a handler that
\* has started ends.
Fairness ==
  /\ \A c \in Conns : /\ WF_vars(Beat(c)) /\ WF_vars(TimeOut(c) /\ c \in cut)
                      /\ WF_vars(Receive(c)) /\ WF_vars(Accept(c)) /\ WF_vars(Serve(c))
  /\ WF_vars(\E w \in awaiting : CommitReturns(w))

FairSpec == Spec /\ Fairness

\* The local vaults are alike.
Symmetry == Permutations(Apps)

-----------------------------------------------------------------------------
(* Properties. *)

Phases == {"unused", "connecting", "hello", "live", "closed"}

\* The type of the state.
TypeOK ==
  /\ \A c \in Conns :
       /\ client[c].app \in Apps \cup {"nobody"} /\ client[c].phase \in Phases
       /\ \A r \in client[c].pending : r.id \in 0..MaxAsks + 1 /\ r.kind \in Requests
       /\ client[c].errors \subseteq SessionErrors /\ client[c].ends \in 0..1
       /\ server[c].state \in {"none", "open", "closing", "gone"} /\ server[c].watch \in BOOLEAN
  /\ cut \subseteq Conns
  /\ \A w \in awaiting : w.conn \in Conns /\ w.mutation.id \in 1..MaxEdits
  /\ vault.cursor \in 0..MaxEdits /\ vault.rev = Len(vault.log)
  /\ \A a \in Apps : device[a].acked \cup device[a].refused \subseteq 1..MaxEdits

\* The end of a session is reported to the sync loop exactly once, whichever of a
\* timeout, a failed heartbeat, a close frame and an error brings it about, and not
\* at all when the plugin has closed the session itself: a second report would make
\* the loop drop the session it has opened since (realtime-socket-session.ts).
EndIsReportedOnce ==
  \A c \in Conns : client[c].phase = "closed" =>
                     client[c].ends = IF client[c].own THEN 0 ELSE 1

\* Whatever was lost, late or out of order, an answer settles the request it was
\* made for, and the client is not given an answer to a request it no longer waits
\* for, unless a session_error has failed it (handleMessage).
AnswersFindTheirRequests ==
  \A c \in Conns : ~client[c].strays /\ ~client[c].crossed

\* A server that does not know a message is never sent it: its reply would fail
\* every request in flight (realtime-api-session.ts, getEntryStatesById).
OldServersAreSpared ==
  \A c \in Conns : "invalid_message" \notin client[c].errors

\* The coordinator has one open socket for each local vault: a socket whose network
\* is gone does not stay beside the one that replaces it (closeSupersededSockets).
OneSocketPerLocalVault ==
  \A c, o \in Conns : Open(c) /\ Open(o) /\ client[c].app = client[o].app => c = o

\* What a session owes its users: one report of its end, the answers to their
\* requests, no message that would fail the requests of others, and no second socket.
SessionsAreSound == /\ EndIsReportedOnce /\ AnswersFindTheirRequests
                    /\ OldServersAreSpared /\ OneSocketPerLocalVault

\* Nothing is on its way on connection c, and its session is in use.
Settled(c) ==
  /\ client[c].phase = "live" /\ Open(c) /\ c \notin cut
  /\ up[c] = <<>> /\ down[c] = <<>>

\* A session in use has been told of the cursor of the vault: a change committed
\* while it was opening, or by another session at any moment, is not missed.  The
\* one change it may not have heard of is its own, as long as it will ask again.
NoMissedAdvance ==
  \A c \in Conns : Settled(c) =>
    LET d == device[client[c].app] IN
    d.heard >= vault.cursor \/ (vault.log # <<>> /\ Last(vault.log) = d.todo.id)

\* A session in use knows the policy of the vault, and the storage used if it
\* watches that (broadcastPolicyUpdated, watch_storage_status).
StatusIsKnown ==
  \A c \in Conns : Settled(c) =>
    LET d == device[client[c].app] IN
    d.policy = vault.policy /\ (server[c].watch => d.used = vault.used)

\* A session in use has missed nothing it listens to.
NothingIsMissed == NoMissedAdvance /\ StatusIsKnown

\* An edit is committed at most once however often it is sent, the device is told so
\* only if it is, and a device is told its edit is stale only if another edit has
\* been committed over it: the retry of a commit whose answer was lost is accepted.
CommitsAreKnown ==
  /\ \A i, j \in DOMAIN vault.log : vault.log[i] = vault.log[j] => i = j
  /\ \A a \in Apps : /\ \A id \in device[a].acked : \E i \in DOMAIN vault.log : vault.log[i] = id
                     /\ Last(vault.log) \notin device[a].refused

\* Every request settles: it is answered, it fails, or the session ends.  And a
\* session whose network is gone is given up, even if nobody asks for anything.
SessionsSettle ==
  \A c \in Conns : /\ client[c].pending # {} ~> client[c].pending = {}
                  /\ c \in cut ~> Closed(client[c])
=============================================================================
