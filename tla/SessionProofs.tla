---------------------------- MODULE SessionProofs ---------------------------
(***************************************************************************)
(* What is proved of Session for every value of its constants: that the    *)
(* fate of every edit is known, that sessions end, answer and give way as  *)
(* they should, and that one in use misses nothing; and, from what is      *)
(* proved of Selection, that the run keeps what is selected.               *)
(***************************************************************************)
EXTENDS MCSession, TLAPS

-----------------------------------------------------------------------------
(* Sequences of messages.                                                   *)

Elements(s) == {s[i] : i \in DOMAIN s}

\* What is in a sequence that grows, is read, or is joined to another.
LEMMA ElementsAre ==
  ASSUME NEW S, NEW s \in Seq(S)
  PROVE  /\ Elements(s) \subseteq S /\ Elements(<<>>) = {} /\ <<>> \in Seq(S)
         /\ \A x \in S : Append(s, x) \in Seq(S) /\ Elements(Append(s, x)) = Elements(s) \union {x}
         /\ s # <<>> => /\ Head(s) \in Elements(s) /\ Tail(s) \in Seq(S)
                        /\ Elements(Tail(s)) \subseteq Elements(s)
         /\ \A t \in Seq(S) : s \o t \in Seq(S) /\ Elements(s \o t) = Elements(s) \union Elements(t)
<1>1. Elements(s) \subseteq S /\ Elements(<<>>) = {} /\ <<>> \in Seq(S)
  BY DEF Elements
<1>2. ASSUME NEW x \in S
      PROVE  Append(s, x) \in Seq(S) /\ Elements(Append(s, x)) = Elements(s) \union {x}
  <2>1. Len(s) + 1 \in DOMAIN Append(s, x) /\ Append(s, x)[Len(s) + 1] = x
    OBVIOUS
  <2>2. \A i \in DOMAIN s : i \in DOMAIN Append(s, x) /\ Append(s, x)[i] = s[i]
    OBVIOUS
  <2>3. \A i \in DOMAIN Append(s, x) : i \in DOMAIN s \/ i = Len(s) + 1
    OBVIOUS
  <2>4. Elements(Append(s, x)) \subseteq Elements(s) \union {x}
    BY <2>1, <2>2, <2>3 DEF Elements
  <2>5. Elements(s) \union {x} \subseteq Elements(Append(s, x))
    BY <2>1, <2>2 DEF Elements
  <2> QED BY <2>4, <2>5
<1>3. ASSUME s # <<>>
      PROVE  Head(s) \in Elements(s) /\ Tail(s) \in Seq(S) /\ Elements(Tail(s)) \subseteq Elements(s)
  <2>1. 1 \in DOMAIN s /\ Head(s) = s[1] /\ Tail(s) \in Seq(S)
    BY <1>3
  <2>2. \A i \in DOMAIN Tail(s) : i + 1 \in DOMAIN s /\ Tail(s)[i] = s[i + 1]
    BY <1>3
  <2> QED BY <2>1, <2>2 DEF Elements
<1>4. ASSUME NEW t \in Seq(S)
      PROVE  s \o t \in Seq(S) /\ Elements(s \o t) = Elements(s) \union Elements(t)
  <2>1. \A i \in DOMAIN s : i \in DOMAIN (s \o t) /\ (s \o t)[i] = s[i]
    OBVIOUS
  <2>2. \A i \in DOMAIN t : Len(s) + i \in DOMAIN (s \o t) /\ (s \o t)[Len(s) + i] = t[i]
    OBVIOUS
  <2>3. \A i \in DOMAIN (s \o t) : i \in DOMAIN s \/ \E j \in DOMAIN t : i = Len(s) + j
    <3> TAKE i \in DOMAIN (s \o t)
    <3>1. i \in 1 .. Len(s) + Len(t)
      OBVIOUS
    <3>2. CASE i > Len(s)
      <4>1. i - Len(s) \in DOMAIN t /\ i = Len(s) + (i - Len(s))
        BY <3>1, <3>2
      <4> QED BY <4>1
    <3> QED BY <3>1, <3>2
  <2>4. \A i \in DOMAIN (s \o t) : (s \o t)[i] \in Elements(s) \union Elements(t)
    BY <2>1, <2>2, <2>3 DEF Elements
  <2>5. Elements(s \o t) \subseteq Elements(s) \union Elements(t)
    BY <2>4 DEF Elements
  <2>6. Elements(s) \subseteq Elements(s \o t) /\ Elements(t) \subseteq Elements(s \o t)
    BY <2>1, <2>2 DEF Elements
  <2>7. s \o t \in Seq(S)
    OBVIOUS
  <2> QED BY <2>5, <2>6, <2>7
<1> QED BY <1>1, <1>2, <1>3, <1>4

-----------------------------------------------------------------------------
(* Types.                                                                   *)

Mutations == [id : Nat, base : Nat]
UpMessages ==
  [type : Notifications \union {"close"}]
    \union [type : {"get", "history", "detach", "heartbeat"}, id : Nat]
    \union [type : {"hello"}, id : Nat, last : Nat]
    \union [type : {"list"}, id : Nat, since : Nat]
    \union [type : {"commit"}, id : Nat, mutation : Mutations]
Plain == {"get", "history", "detach", "heartbeat"}
DownMessages ==
  [type : {"open", "close"}]
    \union [type : {"session_error"}, code : SessionErrors]
    \union [type : {"cursor_advanced"}, cursor : Nat]
    \union [type : {"policy_updated"}, policy : Nat, used : Nat]
    \union [type : {"storage_status_updated"}, used : Nat]
    \union [type : {"failed"}, id : Nat, kind : Requests]
    \union [type : {"answer"}, id : Nat, kind : Plain]
    \union [type : {"answer"}, id : Nat, kind : {"hello"}, cursor : Nat, policy : Nat, used : Nat,
            features : SUBSET {"get"}]
    \union [type : {"answer"}, id : Nat, kind : {"list"}, cursor : Nat, rev : Nat]
    \union [type : {"answer"}, id : Nat, kind : {"commit"}, mutation : Nat, stale : BOOLEAN,
            cursor : Nat, rev : Nat]
Clients == [app : Apps \union {"nobody"}, phase : Phases, pending : SUBSET [id : Nat, kind : Requests],
            next : Nat, beats : BOOLEAN, features : SUBSET {"get"}, errors : SUBSET SessionErrors,
            ends : Nat, own : BOOLEAN, strays : BOOLEAN, crossed : BOOLEAN]
Sockets == [state : {"none", "open", "closing", "gone"}, watch : BOOLEAN]
VaultStates == [cursor : Nat, rev : Nat, log : Seq(Nat), policy : Nat, used : Nat,
                features : SUBSET {"get"}]
Devices == [cursor : Nat, heard : Nat, rev : Nat, todo : Mutations, acked : SUBSET Nat,
            refused : SUBSET Nat, policy : Nat, used : Nat]

Typed ==
  /\ client \in [Conns -> Clients] /\ server \in [Conns -> Sockets]
  /\ up \in [Conns -> Seq(UpMessages)] /\ down \in [Conns -> Seq(DownMessages)]
  /\ cut \subseteq Conns /\ awaiting \subseteq [conn : Conns, id : Nat, mutation : Mutations]
  /\ vault \in VaultStates /\ device \in [Apps -> Devices]
  /\ spent \in [asks : Nat, edits : Nat, changes : Nat, faults : Nat]
  /\ \A c \in Conns : client[c].phase # "unused" => client[c].app \in Apps

-----------------------------------------------------------------------------
(* What the operators of the client and of the coordinator return.          *)

\* The session cl is over as x: nothing waits, and what it has seen stays.
Over(cl, x) ==
  /\ x \in Clients /\ x.app = cl.app /\ x.phase = "closed" /\ x.pending = {} /\ x.features = {} /\ ~x.beats
  /\ x.errors = cl.errors /\ x.strays = cl.strays /\ x.crossed = cl.crossed

\* Ending a session, from either side.
LEMMA EndingIs ==
  ASSUME NEW cl \in Clients
  PROVE  /\ Over(cl, Torn(cl)) /\ Torn(cl).ends = cl.ends /\ Torn(cl).own = cl.own
         /\ Over(cl, Ended(cl)) /\ Ended(cl).ends = cl.ends + 1 /\ Ended(cl).own = cl.own
         /\ ~Closed(cl) => /\ Over(cl, ClosedByUs(cl)) /\ ClosedByUs(cl).own
                           /\ ClosedByUs(cl).ends = cl.ends
         /\ Failed(cl) = IF Closed(cl) THEN cl ELSE Ended(cl)
<1>1. Over(cl, Torn(cl)) /\ Torn(cl).ends = cl.ends /\ Torn(cl).own = cl.own
  BY DEF Over, Torn, Rejected, Clients, Phases
<1>2. Over(cl, Ended(cl)) /\ Ended(cl).ends = cl.ends + 1 /\ Ended(cl).own = cl.own
  BY <1>1 DEF Over, Ended, Clients
<1>3. ~Closed(cl) => /\ Over(cl, ClosedByUs(cl)) /\ ClosedByUs(cl).own /\ ClosedByUs(cl).ends = cl.ends
  BY <1>1 DEF Over, ClosedByUs, Clients
<1>4. Closed(Ended(cl))
  BY <1>2 DEF Over, Closed
<1>5. Failed(cl) = IF Closed(cl) THEN cl ELSE Ended(cl)
  BY <1>4 DEF Failed, FailedOnce, AfterRejection, ClosedByUs, Closed
<1> QED BY <1>1, <1>2, <1>3, <1>5

\* An error of the session fails what is in flight, and ends a session that waits for its hello
\* or for a heartbeat.
LEMMA SessionErrorIs ==
  ASSUME NEW cl \in Clients, ~Closed(cl), NEW code \in SessionErrors
  PROVE  LET x == SessionError(cl, code) IN
         /\ x \in Clients /\ x.app = cl.app /\ x.errors = cl.errors \union {code} /\ x.pending = {}
         /\ x.features \subseteq cl.features
         /\ x.strays = cl.strays /\ x.crossed = cl.crossed
         /\ \/ x.phase = cl.phase /\ x.phase # "hello" /\ x.ends = cl.ends /\ x.own = cl.own
               /\ x.next = cl.next /\ x.features = cl.features /\ x.beats = cl.beats
            \/ x.phase = "closed" /\ x.own /\ x.ends = cl.ends
            \/ x.phase = "closed" /\ x.own = cl.own /\ x.ends = cl.ends + 1
<1> DEFINE r == [Rejected(cl) EXCEPT !.errors = @ \cup {code}]
<1>1. /\ r \in Clients /\ r.app = cl.app /\ r.errors = cl.errors \union {code} /\ r.pending = {}
      /\ r.phase = cl.phase /\ r.ends = cl.ends /\ r.own = cl.own /\ r.next = cl.next
      /\ r.features = cl.features /\ r.beats = cl.beats /\ r.strays = cl.strays /\ r.crossed = cl.crossed
  BY DEF Rejected, Clients
<1>2. SessionError(cl, code) = AfterRejection(r, cl)
  BY DEF SessionError
<1> HIDE DEF r
<1>3. ~Closed(r)
  BY <1>1 DEF Closed
<1>4. SessionError(cl, code) = IF cl.phase = "hello" THEN ClosedByUs(r)
                               ELSE IF Heartbeat \in cl.pending THEN Ended(r) ELSE r
  BY <1>2, <1>3 DEF AfterRejection, FailedOnce
<1> QED BY <1>1, <1>3, <1>4, EndingIs DEF Over

\* An answer takes its request out of those that wait.
LEMMA AnsweredIs ==
  ASSUME NEW cl \in Clients, NEW m
  PROVE  LET x == Answered(cl, m) IN
         /\ x \in Clients /\ x.app = cl.app /\ x.phase = cl.phase /\ x.next = cl.next
         /\ x.features = cl.features /\ x.errors = cl.errors /\ x.ends = cl.ends /\ x.own = cl.own
         /\ x.beats = cl.beats
         /\ IF Known(cl, m.id)
            THEN \E r \in cl.pending : /\ r = RequestOf(cl, m.id) /\ r.id = m.id /\ x.pending = cl.pending \ {r}
                                       /\ x.strays = cl.strays
                                       /\ (x.crossed <=> cl.crossed \/ m.kind # r.kind)
            ELSE /\ x.pending = cl.pending /\ x.crossed = cl.crossed
                 /\ (x.strays <=> cl.strays \/ cl.errors = {})
<1>1. CASE Known(cl, m.id)
  <2> DEFINE r == RequestOf(cl, m.id)
  <2>1. r \in cl.pending /\ r.id = m.id
    BY <1>1 DEF Known, RequestOf
  <2>2. Answered(cl, m) = [cl EXCEPT !.pending = @ \ {r}, !.crossed = @ \/ m.kind # r.kind]
    BY <1>1 DEF Answered
  <2> HIDE DEF r
  <2>3. cl.pending \ {r} \in SUBSET [id : Nat, kind : Requests]
    BY DEF Clients
  <2> QED BY <1>1, <2>1, <2>2, <2>3 DEF Clients, r
<1>2. CASE ~Known(cl, m.id)
  <2>1. Answered(cl, m) = [cl EXCEPT !.strays = @ \/ cl.errors = {}]
    BY <1>2 DEF Answered
  <2> QED BY <1>2, <2>1 DEF Clients
<1> QED BY <1>1, <1>2

\* A request is numbered.
LEMMA AskedIs ==
  ASSUME NEW cl \in Clients, NEW kind \in Requests
  PROVE  LET x == Asked(cl, kind) IN
         /\ x \in Clients /\ x.app = cl.app /\ x.phase = cl.phase /\ x.next = cl.next + 1
         /\ x.features = cl.features /\ x.errors = cl.errors /\ x.ends = cl.ends /\ x.own = cl.own
         /\ x.beats = cl.beats /\ x.strays = cl.strays /\ x.crossed = cl.crossed
         /\ x.pending = cl.pending \union {[id |-> cl.next, kind |-> kind]}
<1>1. cl.pending \union {[id |-> cl.next, kind |-> kind]} \in SUBSET [id : Nat, kind : Requests]
  BY DEF Clients
<1> DEFINE p == cl.pending \union {[id |-> cl.next, kind |-> kind]}
<1>2. p \in SUBSET [id : Nat, kind : Requests] /\ cl.next + 1 \in Nat
  BY <1>1 DEF Clients
<1>3. Asked(cl, kind) = [cl EXCEPT !.pending = p, !.next = cl.next + 1]
  BY DEF Asked, Numbered
<1> HIDE DEF p
<1>4. Asked(cl, kind) \in Clients
  BY <1>2, <1>3 DEF Clients
<1>5. Asked(cl, kind).pending = p /\ Asked(cl, kind).next = cl.next + 1
  BY <1>3 DEF Clients
<1> QED BY <1>3, <1>4, <1>5 DEF Clients, p

\* What is sent joins what is under way.
LEMMA ToServerIs ==
  ASSUME Typed, NEW c \in Conns, NEW m \in UpMessages
  PROVE  /\ ToServer(c, m) \in Seq(UpMessages)
         /\ Elements(ToServer(c, m)) \subseteq Elements(up[c]) \union {m}
         /\ Elements(up[c]) \subseteq Elements(ToServer(c, m))
<1>1. up[c] \in Seq(UpMessages)
  BY DEF Typed
<1> QED BY <1>1, ElementsAre DEF ToServer

\* What is sent reaches the open sockets among cs.
LEMMA SendToIs ==
  ASSUME NEW cs, NEW m \in DownMessages, NEW d \in [Conns -> Seq(DownMessages)]
  PROVE  /\ SendTo(cs, m, d) \in [Conns -> Seq(DownMessages)]
         /\ \A c \in Conns : SendTo(cs, m, d)[c] = IF c \in cs /\ Reaches(c) THEN Append(d[c], m) ELSE d[c]
         /\ \A c \in Conns : Elements(SendTo(cs, m, d)[c]) \subseteq Elements(d[c]) \union {m}
<1>1. \A c \in Conns : d[c] \in Seq(DownMessages)
  OBVIOUS
<1>2. \A c \in Conns : SendTo(cs, m, d)[c] = IF c \in cs /\ Reaches(c) THEN Append(d[c], m) ELSE d[c]
  BY DEF SendTo
<1>3. ASSUME NEW c \in Conns
      PROVE  /\ SendTo(cs, m, d)[c] \in Seq(DownMessages)
             /\ Elements(SendTo(cs, m, d)[c]) \subseteq Elements(d[c]) \union {m}
  <2>1. CASE c \in cs /\ Reaches(c)
    <3>1. SendTo(cs, m, d)[c] = Append(d[c], m)
      BY <1>2, <2>1
    <3>2. Append(d[c], m) \in Seq(DownMessages) /\ Elements(Append(d[c], m)) = Elements(d[c]) \union {m}
      BY <1>1, ElementsAre
    <3> QED BY <3>1, <3>2
  <2>2. CASE ~(c \in cs /\ Reaches(c))
    <3>1. SendTo(cs, m, d)[c] = d[c]
      BY <1>2, <2>2
    <3> QED BY <3>1, <1>1
  <2> QED BY <2>1, <2>2
<1>4. SendTo(cs, m, d) = [c \in Conns |-> SendTo(cs, m, d)[c]]
  BY DEF SendTo
<1> QED BY <1>2, <1>3, <1>4

\* A message on its way to the coordinator, field by field.
LEMMA UpMessageIs ==
  ASSUME NEW m \in UpMessages
  PROVE  /\ m.type \in Requests \union Notifications \union {"close"}
         /\ m.type \in Requests => m.id \in Nat
         /\ m.type = "hello" => m.last \in Nat
         /\ m.type = "list" => m.since \in Nat
         /\ m.type = "commit" => m.mutation \in Mutations
  BY DEF UpMessages, Requests, Notifications

\* A message on its way to the client, field by field.
LEMMA DownMessageIs ==
  ASSUME NEW m \in DownMessages
  PROVE  /\ m.type = "session_error" => m.code \in SessionErrors
         /\ m.type \in {"cursor_advanced"} => m.cursor \in Nat
         /\ m.type = "policy_updated" => m.policy \in Nat /\ m.used \in Nat
         /\ m.type = "storage_status_updated" => m.used \in Nat
         /\ m.type \in {"answer", "failed"} => m.id \in Nat /\ m.kind \in Requests
         /\ m.type = "answer" /\ m.kind = "hello" =>
              m.cursor \in Nat /\ m.policy \in Nat /\ m.used \in Nat /\ m.features \in SUBSET {"get"}
         /\ m.type = "answer" /\ m.kind = "list" => m.cursor \in Nat /\ m.rev \in Nat
         /\ m.type = "answer" /\ m.kind = "commit" =>
              m.cursor \in Nat /\ m.rev \in Nat /\ m.mutation \in Nat /\ m.stale \in BOOLEAN
<1>1. \/ m \in [type : {"open", "close"}]
      \/ m \in [type : {"session_error"}, code : SessionErrors]
      \/ m \in [type : {"cursor_advanced"}, cursor : Nat]
      \/ m \in [type : {"policy_updated"}, policy : Nat, used : Nat]
      \/ m \in [type : {"storage_status_updated"}, used : Nat]
      \/ m \in [type : {"failed"}, id : Nat, kind : Requests]
      \/ m \in [type : {"answer"}, id : Nat, kind : Plain]
      \/ m \in [type : {"answer"}, id : Nat, kind : {"hello"}, cursor : Nat, policy : Nat, used : Nat,
                features : SUBSET {"get"}]
      \/ m \in [type : {"answer"}, id : Nat, kind : {"list"}, cursor : Nat, rev : Nat]
      \/ m \in [type : {"answer"}, id : Nat, kind : {"commit"}, mutation : Nat, stale : BOOLEAN,
                cursor : Nat, rev : Nat]
  BY DEF DownMessages
<1> QED BY <1>1 DEF Plain, Requests

\* A message is taken from what is on its way to the coordinator.
LEMMA ServedIs ==
  ASSUME Typed, NEW c \in Conns, NEW types, Serves(c, types)
  PROVE  /\ Head(up[c]) \in UpMessages /\ Head(up[c]) \in Elements(up[c]) /\ Head(up[c]).type \in types
         /\ up[c] \in Seq(UpMessages) /\ up[c] # <<>>
         /\ up' \in [Conns -> Seq(UpMessages)] /\ up'[c] = Tail(up[c])
         /\ \A o \in Conns \ {c} : up'[o] = up[o]
         /\ \A o \in Conns : Elements(up'[o]) \subseteq Elements(up[o])
         /\ client' = client /\ cut' = cut /\ device' = device /\ server[c].state # "none"
<1>1. up[c] \in Seq(UpMessages) /\ up[c] # <<>> /\ up' = [up EXCEPT ![c] = Tail(up[c])]
  BY DEF Serves, Typed
<1>2. Head(up[c]) \in Elements(up[c]) /\ Elements(up[c]) \subseteq UpMessages
      /\ Tail(up[c]) \in Seq(UpMessages) /\ Elements(Tail(up[c])) \subseteq Elements(up[c])
  BY <1>1, ElementsAre
<1>3. up'[c] = Tail(up[c]) /\ \A o \in Conns \ {c} : up'[o] = up[o]
  BY <1>1 DEF Typed
<1>4. up' \in [Conns -> Seq(UpMessages)]
  BY <1>1, <1>2 DEF Typed
<1>5. \A o \in Conns : Elements(up'[o]) \subseteq Elements(up[o])
  <2> TAKE o \in Conns
  <2>1. CASE o = c BY <2>1, <1>2, <1>3
  <2>2. CASE o # c BY <2>2, <1>3
  <2> QED BY <2>1, <2>2
<1> QED BY <1>1, <1>2, <1>3, <1>4, <1>5 DEF Serves

\* A message is taken from what is on its way to the client.
LEMMA ReceivedIs ==
  ASSUME Typed, NEW c \in Conns, NEW types, Receives(c, types)
  PROVE  /\ Head(down[c]) \in DownMessages /\ Head(down[c]) \in Elements(down[c])
         /\ Head(down[c]).type \in types /\ ~Closed(client[c])
         /\ down[c] \in Seq(DownMessages) /\ down[c] # <<>>
         /\ down' \in [Conns -> Seq(DownMessages)] /\ down'[c] = Tail(down[c])
         /\ \A o \in Conns \ {c} : down'[o] = down[o]
         /\ \A o \in Conns : Elements(down'[o]) \subseteq Elements(down[o])
         /\ server' = server /\ cut' = cut /\ awaiting' = awaiting /\ vault' = vault /\ spent' = spent
         /\ client[c] \in Clients /\ client[c].app \in Apps
<1>1. down[c] \in Seq(DownMessages) /\ down[c] # <<>> /\ down' = [down EXCEPT ![c] = Tail(down[c])]
  BY DEF Receives, Typed
<1>2. Head(down[c]) \in Elements(down[c]) /\ Elements(down[c]) \subseteq DownMessages
      /\ Tail(down[c]) \in Seq(DownMessages) /\ Elements(Tail(down[c])) \subseteq Elements(down[c])
  BY <1>1, ElementsAre
<1>3. down'[c] = Tail(down[c]) /\ \A o \in Conns \ {c} : down'[o] = down[o]
  BY <1>1 DEF Typed
<1>4. down' \in [Conns -> Seq(DownMessages)]
  BY <1>1, <1>2 DEF Typed
<1>5. \A o \in Conns : Elements(down'[o]) \subseteq Elements(down[o])
  <2> TAKE o \in Conns
  <2>1. CASE o = c BY <2>1, <1>2, <1>3
  <2>2. CASE o # c BY <2>2, <1>3
  <2> QED BY <2>1, <2>2
<1>6. client[c] \in Clients /\ client[c].app \in Apps
  BY DEF Typed, Receives, Closed
<1> QED BY <1>1, <1>2, <1>3, <1>4, <1>5, <1>6 DEF Receives

-----------------------------------------------------------------------------
(* Every step keeps the types.                                              *)

\* One client changes.
LEMMA ClientSet ==
  ASSUME Typed, NEW c \in Conns, NEW x \in Clients, x.phase # "unused" => x.app \in Apps,
         client' = [client EXCEPT ![c] = x]
  PROVE  /\ client' \in [Conns -> Clients] /\ client'[c] = x
         /\ \A o \in Conns \ {c} : client'[o] = client[o]
         /\ \A o \in Conns : client'[o].phase # "unused" => client'[o].app \in Apps
  BY DEF Typed

\* What is under way to the coordinator on one connection changes.
LEMMA UpSet ==
  ASSUME Typed, NEW c \in Conns, NEW s \in Seq(UpMessages), up' = [up EXCEPT ![c] = s]
  PROVE  /\ up' \in [Conns -> Seq(UpMessages)] /\ up'[c] = s
         /\ \A o \in Conns \ {c} : up'[o] = up[o]
  BY DEF Typed

\* What is under way to the client on one connection changes.
LEMMA DownSet ==
  ASSUME Typed, NEW c \in Conns, NEW s \in Seq(DownMessages), down' = [down EXCEPT ![c] = s]
  PROVE  /\ down' \in [Conns -> Seq(DownMessages)] /\ down'[c] = s
         /\ \A o \in Conns \ {c} : down'[o] = down[o]
  BY DEF Typed

\* A device changes.
LEMMA DeviceSet ==
  ASSUME Typed, NEW a \in Apps, NEW x \in Devices, device' = [device EXCEPT ![a] = x]
  PROVE  /\ device' \in [Apps -> Devices] /\ device'[a] = x
         /\ \A b \in Apps \ {a} : device'[b] = device[b]
  BY DEF Typed

\* Part of a bound is used up.
LEMMA SpendIs ==
  ASSUME Typed, NEW what \in {"asks", "edits", "changes", "faults"}, Spend(what)
  PROVE  /\ spent' \in [asks : Nat, edits : Nat, changes : Nat, faults : Nat]
         /\ spent'.edits = IF what = "edits" THEN spent.edits + 1 ELSE spent.edits
<1>1. /\ spent \in [asks : Nat, edits : Nat, changes : Nat, faults : Nat]
      /\ spent' = [spent EXCEPT ![what] = @ + 1] /\ spent[what] + 1 \in Nat
  BY DEF Typed, Spend
<1>2. spent' \in [asks : Nat, edits : Nat, changes : Nat, faults : Nat]
  BY <1>1
<1>3. spent'.edits = IF what = "edits" THEN spent.edits + 1 ELSE spent.edits
  BY <1>1
<1> QED BY <1>2, <1>3

\* What a live session says, and asks.
LEMMA SaysIs ==
  ASSUME Typed, NEW c \in Conns, NEW m \in UpMessages, Says(c, m)
  PROVE  /\ client[c].phase = "live" /\ client[c] \in Clients /\ client[c].app \in Apps
         /\ up' \in [Conns -> Seq(UpMessages)] /\ up'[c] = ToServer(c, m)
         /\ \A o \in Conns \ {c} : up'[o] = up[o]
  BY ToServerIs, UpSet DEF Says, Typed

\* A request is noted with the client.
LEMMA AsksIs ==
  ASSUME Typed, NEW c \in Conns, NEW kind \in Requests, Asks(c, kind), client[c].phase = "live"
  PROVE  /\ client' \in [Conns -> Clients] /\ client'[c] = Asked(client[c], kind)
         /\ \A o \in Conns \ {c} : client'[o] = client[o]
         /\ \A o \in Conns : client'[o].phase # "unused" => client'[o].app \in Apps
         /\ spent' \in [asks : Nat, edits : Nat, changes : Nat, faults : Nat]
         /\ spent'.edits = spent.edits
         /\ server' = server /\ down' = down /\ cut' = cut /\ awaiting' = awaiting
         /\ vault' = vault /\ device' = device
<1>1. client[c] \in Clients /\ client[c].app \in Apps
  BY DEF Typed
<1>2. Asked(client[c], kind) \in Clients /\ Asked(client[c], kind).app \in Apps
  BY <1>1, AskedIs
<1>3. client' = [client EXCEPT ![c] = Asked(client[c], kind)]
  BY DEF Asks, Typed
<1> HIDE DEF Asks
<1>4. spent' \in [asks : Nat, edits : Nat, changes : Nat, faults : Nat] /\ spent'.edits = spent.edits
  BY SpendIs DEF Asks
<1> QED BY <1>2, <1>3, <1>4, ClientSet DEF Asks

\* The requests of the client are messages it may send.
LEMMA AskMessages ==
  ASSUME Typed, NEW c \in Conns, client[c].phase = "live"
  PROVE  /\ \A k \in {"get", "history", "detach"} : [type |-> k, id |-> Number(c)] \in UpMessages
         /\ [type |-> "heartbeat", id |-> 0] \in UpMessages
         /\ [type |-> "list", id |-> Number(c), since |-> device[client[c].app].cursor] \in UpMessages
         /\ [type |-> "commit", id |-> Number(c), mutation |-> device[client[c].app].todo] \in UpMessages
         /\ \A k \in Notifications : [type |-> k] \in UpMessages
         /\ CloseFrame \in UpMessages
<1>1. Number(c) \in Nat /\ device[client[c].app] \in Devices
  BY DEF Typed, Number, Numbered, Clients
<1>2. device[client[c].app].cursor \in Nat /\ device[client[c].app].todo \in Mutations
  BY <1>1 DEF Devices
<1>3. [type |-> "list", id |-> Number(c), since |-> device[client[c].app].cursor]
        \in [type : {"list"}, id : Nat, since : Nat]
  BY <1>1, <1>2
<1>4. [type |-> "commit", id |-> Number(c), mutation |-> device[client[c].app].todo]
        \in [type : {"commit"}, id : Nat, mutation : Mutations]
  BY <1>1, <1>2
<1>5. \A k \in Notifications : [type |-> k] \in [type : Notifications \union {"close"}]
  OBVIOUS
<1>6. CloseFrame \in [type : Notifications \union {"close"}]
  BY DEF CloseFrame
<1>7. \A k \in {"get", "history", "detach", "heartbeat"}, n \in Nat :
        [type |-> k, id |-> n] \in [type : {"get", "history", "detach", "heartbeat"}, id : Nat]
  OBVIOUS
<1> QED BY <1>1, <1>3, <1>4, <1>5, <1>6, <1>7 DEF UpMessages

\* The close frame of a client.
LEMMA HangsIs ==
  ASSUME Typed, NEW c \in Conns
  PROVE  Hangs(c) \in Seq(UpMessages) /\ Elements(Hangs(c)) \subseteq Elements(up[c]) \union {CloseFrame}
<1>1. CloseFrame \in [type : Notifications \union {"close"}]
  BY DEF CloseFrame
<1>2. CloseFrame \in UpMessages
  BY <1>1 DEF UpMessages
<1> QED BY <1>2, ToServerIs DEF Hangs

\* The steps of the plugin that say nothing.
LEMMA TypedOpenSession == ASSUME Typed, NEW a \in Apps, OpenSession(a) PROVE Typed'
<1>1. PICK c \in Conns : client' = [client EXCEPT ![c] = [Unused EXCEPT !.app = a, !.phase = "connecting"]]
  BY DEF OpenSession
<1> DEFINE x == [Unused EXCEPT !.app = a, !.phase = "connecting"]
<1>2. x \in Clients /\ x.app \in Apps
  BY DEF Unused, Clients, Phases
<1> HIDE DEF x
<1>3. /\ client' \in [Conns -> Clients]
      /\ \A o \in Conns : client'[o].phase # "unused" => client'[o].app \in Apps
  BY <1>1, <1>2, ClientSet DEF x
<1> QED BY <1>3 DEF Typed, OpenSession

\* The socket of a session is refused.
LEMMA TypedOpenFails == ASSUME Typed, NEW c \in Conns, OpenFails(c) PROVE Typed'
<1>1. client[c] \in Clients /\ ~Closed(client[c]) /\ client[c].app \in Apps
  BY DEF OpenFails, Typed, Closed
<1>2. Over(client[c], ClosedByUs(client[c]))
  BY <1>1, EndingIs
<1>3. client' = [client EXCEPT ![c] = ClosedByUs(client[c])]
  BY DEF OpenFails, Typed
<1>4. /\ client' \in [Conns -> Clients]
      /\ \A o \in Conns : client'[o].phase # "unused" => client'[o].app \in Apps
  BY <1>1, <1>2, <1>3, ClientSet DEF Over
<1>5. spent' \in [asks : Nat, edits : Nat, changes : Nat, faults : Nat]
  BY SpendIs DEF OpenFails
<1>6. <<>> \in Seq(DownMessages) /\ down' = [down EXCEPT ![c] = <<>>]
  BY DEF OpenFails
<1>7. down' \in [Conns -> Seq(DownMessages)]
  BY <1>6, DownSet
<1> QED BY <1>4, <1>5, <1>7 DEF Typed, OpenFails

\* An edit waits on its device.
LEMMA TypedEdit == ASSUME Typed, NEW a \in Apps, Edit(a) PROVE Typed'
<1> DEFINE m == [id |-> spent.edits + 1, base |-> device[a].rev]
           x == [device[a] EXCEPT !.todo = m]
<1>1. m \in Mutations
  BY DEF Typed, Mutations, Devices
<1>2. x \in Devices
  BY <1>1 DEF Typed, Devices
<1>3. device' = [device EXCEPT ![a] = x]
  BY DEF Edit, Typed
<1> HIDE DEF x
<1>4. device' \in [Apps -> Devices]
  BY <1>2, <1>3, DeviceSet
<1>5. spent' \in [asks : Nat, edits : Nat, changes : Nat, faults : Nat]
  BY SpendIs DEF Edit
<1> QED BY <1>4, <1>5 DEF Typed, Edit

\* The requests of the plugin.
LEMMA TypedAsk == ASSUME Typed, NEW c \in Conns, Ask(c) PROVE Typed'
<1>1. ASSUME NEW m \in UpMessages, NEW kind \in Requests, Says(c, m), Asks(c, kind)
      PROVE  Typed'
  <2>1. client[c].phase = "live" /\ up' \in [Conns -> Seq(UpMessages)]
    BY <1>1, SaysIs
  <2> QED BY <2>1, <1>1, AsksIs DEF Typed
<1>2. ASSUME NEW kind \in Notifications, Watch(c, kind) PROVE Typed'
  <2>1. client[c].phase = "live" /\ Says(c, [type |-> kind])
    BY <1>2 DEF Watch, Says
  <2>2. up' \in [Conns -> Seq(UpMessages)]
    BY <2>1, SaysIs, AskMessages
  <2>3. spent' \in [asks : Nat, edits : Nat, changes : Nat, faults : Nat]
    BY <1>2, SpendIs DEF Watch
  <2> QED BY <1>2, <2>2, <2>3 DEF Typed, Watch
<1>3. CASE Commit(c)
  BY <1>3, <1>1, AskMessages DEF Commit, Requests
<1>4. CASE List(c)
  <2>1. client[c].phase = "live"
    BY <1>4 DEF List, Says
  <2> QED BY <1>4, <2>1, <1>1, AskMessages DEF List, Requests
<1>5. CASE Get(c) \/ History(c) \/ Detach(c)
  <2>1. client[c].phase = "live"
    BY <1>5 DEF Get, History, Detach, Says
  <2> QED BY <1>5, <2>1, <1>1, AskMessages DEF Get, History, Detach, Requests
<1> QED BY <1>2, <1>3, <1>4, <1>5 DEF Ask

\* A heartbeat is sent.
LEMMA TypedBeat == ASSUME Typed, NEW c \in Conns, Beat(c) PROVE Typed'
<1>1. client[c].phase = "live" /\ Says(c, [type |-> "heartbeat", id |-> 0])
  BY DEF Beat, Says
<1>2. up' \in [Conns -> Seq(UpMessages)] /\ client[c] \in Clients /\ client[c].app \in Apps
  BY <1>1, SaysIs, AskMessages
<1> DEFINE x == [client[c] EXCEPT !.pending = client[c].pending \union {Heartbeat}]
<1>3. Heartbeat \in [id : Nat, kind : Requests]
  BY DEF Heartbeat, Requests
<1>4. x \in Clients /\ x.app \in Apps
  BY <1>2, <1>3 DEF Clients
<1>5. client' = [client EXCEPT ![c] = x]
  BY DEF Beat, Typed
<1> HIDE DEF x
<1>6. /\ client' \in [Conns -> Clients]
      /\ \A o \in Conns : client'[o].phase # "unused" => client'[o].app \in Apps
  BY <1>4, <1>5, ClientSet
<1>7. spent' \in [asks : Nat, edits : Nat, changes : Nat, faults : Nat]
  <2>1. CASE UNCHANGED spent BY <2>1 DEF Typed
  <2>2. CASE Spend("asks") BY <2>2, SpendIs
  <2> QED BY <2>1, <2>2 DEF Beat
<1> QED BY <1>2, <1>6, <1>7 DEF Typed, Beat

\* A session that ends takes what is on its way to it.
LEMMA EndsIs ==
  ASSUME Typed, NEW c \in Conns, NEW x \in Clients, Ends(c, x), x.phase # "unused" => x.app \in Apps
  PROVE  /\ client' \in [Conns -> Clients] /\ client'[c] = x
         /\ \A o \in Conns \ {c} : client'[o] = client[o] /\ down'[o] = down[o]
         /\ \A o \in Conns : client'[o].phase # "unused" => client'[o].app \in Apps
         /\ down' \in [Conns -> Seq(DownMessages)] /\ down'[c] = <<>>
         /\ server' = server /\ cut' = cut /\ awaiting' = awaiting /\ vault' = vault /\ device' = device
<1>1. client' = [client EXCEPT ![c] = x]
  BY DEF Ends
<1>2. <<>> \in Seq(DownMessages) /\ down' = [down EXCEPT ![c] = <<>>]
  BY DEF Ends
<1>3. /\ client' \in [Conns -> Clients] /\ client'[c] = x
      /\ \A o \in Conns \ {c} : client'[o] = client[o]
      /\ \A o \in Conns : client'[o].phase # "unused" => client'[o].app \in Apps
  BY <1>1, ClientSet
<1>4. /\ down' \in [Conns -> Seq(DownMessages)] /\ down'[c] = <<>>
      /\ \A o \in Conns \ {c} : down'[o] = down[o]
  BY <1>2, DownSet
<1> QED BY <1>3, <1>4 DEF Ends

\* A request is not answered in time.
LEMMA TypedTimeOut == ASSUME Typed, NEW c \in Conns, TimeOut(c) PROVE Typed'
<1>1. client[c] \in Clients /\ Failed(client[c]) = IF Closed(client[c]) THEN client[c] ELSE Ended(client[c])
  BY EndingIs DEF Typed
<1>2. Over(client[c], Ended(client[c])) /\ (client[c].phase # "unused" => client[c].app \in Apps)
  BY <1>1, EndingIs DEF Typed
<1>3. Failed(client[c]) \in Clients /\ (Failed(client[c]).phase # "unused" => Failed(client[c]).app \in Apps)
  BY <1>1, <1>2 DEF Over, Closed
<1>4. Ends(c, Failed(client[c])) /\ up' = [up EXCEPT ![c] = Hangs(c)]
  BY DEF TimeOut, TimesOut
<1>5. up' \in [Conns -> Seq(UpMessages)]
  BY <1>4, HangsIs, UpSet
<1>6. spent' \in [asks : Nat, edits : Nat, changes : Nat, faults : Nat]
  <2>1. CASE UNCHANGED spent BY <2>1 DEF Typed
  <2>2. CASE Spend("faults") BY <2>2, SpendIs
  <2> QED BY <2>1, <2>2 DEF TimeOut
<1>7. /\ client' \in [Conns -> Clients]
      /\ \A o \in Conns : client'[o].phase # "unused" => client'[o].app \in Apps
      /\ down' \in [Conns -> Seq(DownMessages)] /\ server' = server /\ cut' = cut
      /\ awaiting' = awaiting /\ vault' = vault /\ device' = device
  BY <1>3, <1>4, EndsIs
<1> QED BY <1>5, <1>6, <1>7 DEF Typed

\* The plugin ends a session.
LEMMA TypedClose == ASSUME Typed, NEW c \in Conns, Close(c) PROVE Typed'
<1>1. client[c] \in Clients /\ ~Closed(client[c]) /\ client[c].app \in Apps
  BY DEF Close, Typed, Closed
<1>2. Over(client[c], ClosedByUs(client[c]))
  BY <1>1, EndingIs
<1>3. Ends(c, ClosedByUs(client[c])) /\ up' = [up EXCEPT ![c] = Hangs(c)]
  BY DEF Close
<1>4. up' \in [Conns -> Seq(UpMessages)]
  BY <1>3, HangsIs, UpSet
<1>5. spent' \in [asks : Nat, edits : Nat, changes : Nat, faults : Nat]
  BY SpendIs DEF Close
<1>6. /\ client' \in [Conns -> Clients]
      /\ \A o \in Conns : client'[o].phase # "unused" => client'[o].app \in Apps
      /\ down' \in [Conns -> Seq(DownMessages)] /\ server' = server /\ cut' = cut
      /\ awaiting' = awaiting /\ vault' = vault /\ device' = device
  BY <1>1, <1>2, <1>3, EndsIs DEF Over
<1> QED BY <1>4, <1>5, <1>6 DEF Typed

\* What the client receives.
LEMMA TypedOpened == ASSUME Typed, NEW c \in Conns, Opened(c) PROVE Typed'
<1>1. Receives(c, {"open"})
  BY DEF Opened
<1>2. /\ down' \in [Conns -> Seq(DownMessages)]
      /\ server' = server /\ cut' = cut /\ awaiting' = awaiting /\ vault' = vault /\ spent' = spent
      /\ client[c] \in Clients /\ client[c].app \in Apps
  BY <1>1, ReceivedIs
<1> DEFINE cl == [client[c] EXCEPT !.phase = "hello"]
           m == [type |-> "hello", id |-> Number(c), last |-> device[client[c].app].cursor]
<1>3. cl \in Clients /\ cl.app \in Apps
  BY <1>2 DEF Clients, Phases
<1>4. m \in [type : {"hello"}, id : Nat, last : Nat]
  BY <1>2 DEF Typed, Number, Numbered, Clients, Devices
<1>5. m \in UpMessages
  BY <1>4 DEF UpMessages
<1>6. client' = [client EXCEPT ![c] = Asked(cl, "hello")] /\ up' = [up EXCEPT ![c] = ToServer(c, m)]
  BY DEF Opened, Typed
<1> HIDE DEF cl, m
<1>7. Asked(cl, "hello") \in Clients /\ Asked(cl, "hello").app \in Apps
  BY <1>3, AskedIs DEF Requests
<1>8. /\ client' \in [Conns -> Clients]
      /\ \A o \in Conns : client'[o].phase # "unused" => client'[o].app \in Apps
  BY <1>6, <1>7, ClientSet
<1>9. up' \in [Conns -> Seq(UpMessages)]
  BY <1>5, <1>6, ToServerIs, UpSet
<1> QED BY <1>2, <1>8, <1>9 DEF Typed, Opened

\* What a device learns from an answer.
LEMMA InformedIs ==
  ASSUME NEW d \in Devices, NEW m \in DownMessages, m.type = "answer"
  PROVE  Informed(d, m) \in Devices
<1>1. CASE m.kind = "hello"
  BY <1>1, DownMessageIs DEF Informed, Devices, Larger
<1>2. CASE m.kind = "list"
  BY <1>2, DownMessageIs DEF Informed, Devices, Larger
<1>3. CASE m.kind = "commit"
  <2>1. None \in Mutations /\ m.mutation \in Nat /\ m.rev \in Nat /\ m.cursor \in Nat
    BY <1>3, DownMessageIs DEF None, Mutations
  <2>2. d.refused \union {m.mutation} \in SUBSET Nat /\ d.acked \union {m.mutation} \in SUBSET Nat
        /\ Larger(d.heard, m.cursor) \in Nat
    BY <2>1 DEF Devices, Larger
  <2>6. m.stale \in BOOLEAN
    BY <1>3, DownMessageIs
  <2>3. CASE m.mutation = d.todo.id /\ m.stale
    <3>1. Informed(d, m) = [d EXCEPT !.todo = None, !.refused = @ \union {m.mutation}]
      BY <1>3, <2>3, <2>6 DEF Informed
    <3> QED BY <3>1, <2>1, <2>2 DEF Devices
  <2>4. CASE m.mutation = d.todo.id /\ ~m.stale
    <3>1. Informed(d, m) = [d EXCEPT !.todo = None, !.rev = m.rev, !.heard = Larger(@, m.cursor),
                                     !.acked = @ \union {m.mutation}]
      BY <1>3, <2>4 DEF Informed
    <3> QED BY <3>1, <2>1, <2>2 DEF Devices
  <2>5. CASE m.mutation # d.todo.id
    <3>1. Informed(d, m) = d
      BY <1>3, <2>5 DEF Informed
    <3> QED BY <3>1
  <2> QED BY <2>3, <2>4, <2>5
<1>4. CASE m.kind \notin {"hello", "list", "commit"}
  BY <1>4 DEF Informed
<1> QED BY <1>1, <1>2, <1>3, <1>4

\* An answer settles its request, and the device learns from it.
LEMMA TypedReceiveAnswer == ASSUME Typed, NEW c \in Conns, ReceiveAnswer(c) PROVE Typed'
<1> DEFINE m == Head(down[c])
           cl == Answered(client[c], m)
           x == IF m.kind = "hello" THEN Live(cl, m.features) ELSE cl
           d == device[client[c].app]
           y == IF Known(client[c], m.id) THEN Informed(d, m) ELSE d
<1>1. Receives(c, {"answer"})
  BY DEF ReceiveAnswer
<1>2. /\ down' \in [Conns -> Seq(DownMessages)]
      /\ server' = server /\ cut' = cut /\ awaiting' = awaiting /\ vault' = vault /\ spent' = spent
      /\ client[c] \in Clients /\ client[c].app \in Apps
      /\ m \in DownMessages /\ m.type = "answer"
  BY <1>1, ReceivedIs
<1>3. cl \in Clients /\ cl.app = client[c].app
  BY <1>2, AnsweredIs
<1>4. client' = [client EXCEPT ![c] = x] /\ device' = [device EXCEPT ![client[c].app] = y]
  BY <1>3 DEF ReceiveAnswer, Typed
<1>5. d \in Devices /\ y \in Devices
  BY <1>2, InformedIs DEF Typed
<1> HIDE DEF cl, d, y
<1>6. x \in Clients /\ x.app \in Apps
  BY <1>2, <1>3, DownMessageIs DEF Live, Clients, Phases
<1> HIDE DEF x
<1>7. /\ client' \in [Conns -> Clients]
      /\ \A o \in Conns : client'[o].phase # "unused" => client'[o].app \in Apps
  BY <1>4, <1>6, ClientSet
<1>8. device' \in [Apps -> Devices]
  BY <1>2, <1>4, <1>5, DeviceSet
<1> QED BY <1>2, <1>7, <1>8 DEF Typed, ReceiveAnswer

\* The failure of a request is received.
LEMMA TypedReceiveFailure == ASSUME Typed, NEW c \in Conns, ReceiveFailure(c) PROVE Typed'
<1>1. Receives(c, {"failed"})
  BY DEF ReceiveFailure
<1>2. /\ down' \in [Conns -> Seq(DownMessages)]
      /\ server' = server /\ cut' = cut /\ awaiting' = awaiting /\ vault' = vault /\ spent' = spent
      /\ client[c] \in Clients /\ client[c].app \in Apps
  BY <1>1, ReceivedIs
<1>3. Answered(client[c], Head(down[c])) \in Clients /\ Answered(client[c], Head(down[c])).app \in Apps
  BY <1>2, AnsweredIs
<1>4. client' = [client EXCEPT ![c] = Answered(client[c], Head(down[c]))]
  BY DEF ReceiveFailure, Typed
<1>5. /\ client' \in [Conns -> Clients]
      /\ \A o \in Conns : client'[o].phase # "unused" => client'[o].app \in Apps
  BY <1>3, <1>4, ClientSet
<1> QED BY <1>2, <1>5 DEF Typed, ReceiveFailure

\* What a device learns from an announcement.
LEMMA PushedIs ==
  ASSUME NEW d \in Devices, NEW m \in DownMessages,
         m.type \in {"cursor_advanced", "storage_status_updated", "policy_updated"}
  PROVE  /\ Pushed(d, m) \in Devices
         /\ Pushed(d, m).cursor = d.cursor /\ Pushed(d, m).rev = d.rev /\ Pushed(d, m).todo = d.todo
         /\ Pushed(d, m).acked = d.acked /\ Pushed(d, m).refused = d.refused
  BY DownMessageIs DEF Pushed, Devices, Larger

\* An announcement is received.
LEMMA TypedReceivePush == ASSUME Typed, NEW c \in Conns, ReceivePush(c) PROVE Typed'
<1> DEFINE m == Head(down[c])
           d == device[client[c].app]
<1>1. Receives(c, {"cursor_advanced", "storage_status_updated", "policy_updated"})
  BY DEF ReceivePush
<1>2. /\ down' \in [Conns -> Seq(DownMessages)]
      /\ server' = server /\ cut' = cut /\ awaiting' = awaiting /\ vault' = vault /\ spent' = spent
      /\ client[c] \in Clients /\ client[c].app \in Apps
      /\ m \in DownMessages /\ m.type \in {"cursor_advanced", "storage_status_updated", "policy_updated"}
  BY <1>1, ReceivedIs
<1>3. d \in Devices
  BY <1>2 DEF Typed
<1>4. Pushed(d, m) \in Devices
  BY <1>2, <1>3, PushedIs
<1>6. device' = [device EXCEPT ![client[c].app] = Pushed(d, m)]
  BY DEF ReceivePush
<1>5. device' \in [Apps -> Devices]
  BY <1>2, <1>4, <1>6, DeviceSet
<1> QED BY <1>2, <1>5 DEF Typed, ReceivePush

\* An error of the session is received.
LEMMA TypedReceiveError == ASSUME Typed, NEW c \in Conns, ReceiveError(c) PROVE Typed'
<1> DEFINE x == SessionError(client[c], Head(down[c]).code)
<1>1. Receives(c, {"session_error"})
  BY DEF ReceiveError
<1>2. /\ down' \in [Conns -> Seq(DownMessages)] /\ ~Closed(client[c])
      /\ server' = server /\ cut' = cut /\ awaiting' = awaiting /\ vault' = vault /\ spent' = spent
      /\ client[c] \in Clients /\ client[c].app \in Apps
      /\ Head(down[c]) \in DownMessages /\ Head(down[c]).type = "session_error"
  BY <1>1, ReceivedIs
<1>3. Head(down[c]).code \in SessionErrors
  BY <1>2, DownMessageIs
<1>4. x \in Clients /\ x.app \in Apps
  BY <1>2, <1>3, SessionErrorIs
<1>5. client' = [client EXCEPT ![c] = x]
      /\ up' = [up EXCEPT ![c] = IF Closed(x) THEN Hangs(c) ELSE up[c]]
  BY DEF ReceiveError, Typed
<1> HIDE DEF x
<1>6. /\ client' \in [Conns -> Clients]
      /\ \A o \in Conns : client'[o].phase # "unused" => client'[o].app \in Apps
  BY <1>4, <1>5, ClientSet
<1>7. up' \in [Conns -> Seq(UpMessages)]
  BY <1>5, HangsIs, UpSet DEF Typed
<1> QED BY <1>2, <1>6, <1>7 DEF Typed, ReceiveError

\* The close frame of the coordinator is received.
LEMMA TypedReceiveClose == ASSUME Typed, NEW c \in Conns, ReceiveClose(c) PROVE Typed'
<1> DEFINE x == IF client[c].phase = "connecting" THEN ClosedByUs(client[c]) ELSE Lost(client[c])
<1>1. Receives(c, {"close"})
  BY DEF ReceiveClose
<1>2. /\ down' \in [Conns -> Seq(DownMessages)] /\ ~Closed(client[c])
      /\ server' = server /\ cut' = cut /\ awaiting' = awaiting /\ vault' = vault /\ spent' = spent
      /\ client[c] \in Clients /\ client[c].app \in Apps
  BY <1>1, ReceivedIs
<1>3. x \in Clients /\ x.app \in Apps
  BY <1>2, EndingIs DEF Over, Lost
<1>4. client' = [client EXCEPT ![c] = x]
  BY DEF ReceiveClose, Typed
<1> HIDE DEF x
<1>5. /\ client' \in [Conns -> Clients]
      /\ \A o \in Conns : client'[o].phase # "unused" => client'[o].app \in Apps
  BY <1>3, <1>4, ClientSet
<1> QED BY <1>2, <1>5 DEF Typed, ReceiveClose

-----------------------------------------------------------------------------
(* What the coordinator does.                                               *)

\* What the coordinator sends to one client is a message.
LEMMA DownMessagesAre ==
  ASSUME Typed
  PROVE  /\ \A code \in SessionErrors : [type |-> "session_error", code |-> code] \in DownMessages
         /\ CloseFrame \in DownMessages /\ [type |-> "open"] \in DownMessages
         /\ \A k \in Requests, n \in Nat : Failure(k, n) \in DownMessages
         /\ StatusMessage(vault) \in DownMessages
         /\ \A c \in Conns : Head(up[c]).id \in Nat =>
              /\ HelloAck(c) \in DownMessages /\ Page(c) \in DownMessages
              /\ \A k \in Plain : Answer(c, k) \in DownMessages
<1>1. /\ vault.cursor \in Nat /\ vault.rev \in Nat /\ vault.policy \in Nat /\ vault.used \in Nat
      /\ vault.features \in SUBSET {"get"}
  BY DEF Typed, VaultStates
<1>2. \A code \in SessionErrors : [type |-> "session_error", code |-> code]
        \in [type : {"session_error"}, code : SessionErrors]
  OBVIOUS
<1>3. CloseFrame \in [type : {"open", "close"}] /\ [type |-> "open"] \in [type : {"open", "close"}]
  BY DEF CloseFrame
<1>4. \A k \in Requests, n \in Nat : Failure(k, n) \in [type : {"failed"}, id : Nat, kind : Requests]
  BY DEF Failure
<1>5. StatusMessage(vault) \in [type : {"storage_status_updated"}, used : Nat]
  BY <1>1 DEF StatusMessage
<1>6. ASSUME NEW c \in Conns, Head(up[c]).id \in Nat
      PROVE  /\ HelloAck(c) \in [type : {"answer"}, id : Nat, kind : {"hello"}, cursor : Nat,
                                 policy : Nat, used : Nat, features : SUBSET {"get"}]
             /\ Page(c) \in [type : {"answer"}, id : Nat, kind : {"list"}, cursor : Nat, rev : Nat]
             /\ \A k \in Plain : Answer(c, k) \in [type : {"answer"}, id : Nat, kind : Plain]
  BY <1>1, <1>6 DEF HelloAck, Page, Answer
<1> QED BY <1>2, <1>3, <1>4, <1>5, <1>6 DEF DownMessages

\* A socket is accepted, and those it supersedes are told.
LEMMA TypedAccept == ASSUME Typed, NEW c \in Conns, Accept(c) PROVE Typed'
<1>1. server' \in [Conns -> Sockets]
  BY DEF Accept, Typed, Sockets, NoSocket
<1>2. ASSUME NEW o \in Conns PROVE down'[o] \in Seq(DownMessages)
  <2> DEFINE told == <<[type |-> "session_error", code |-> "local_vault_replaced"], CloseFrame>>
  <2>1. told \in Seq(DownMessages)
    BY DownMessagesAre DEF SessionErrors
  <2>2. <<[type |-> "open"]>> \in Seq(DownMessages)
    BY DownMessagesAre
  <2>3. down[o] \in Seq(DownMessages)
    BY DEF Typed
  <2> HIDE DEF told
  <2>4. down[o] \o told \in Seq(DownMessages)
    BY <2>1, <2>3
  <2>5. down'[o] \in {<<[type |-> "open"]>>, down[o] \o told, down[o]}
    BY DEF Accept, told
  <2> QED BY <2>2, <2>3, <2>4, <2>5
<1>3. down' = [o \in Conns |-> down'[o]]
  BY DEF Accept
<1>4. down' \in [Conns -> Seq(DownMessages)]
  BY <1>2, <1>3
<1> QED BY <1>1, <1>4 DEF Typed, Accept

\* A socket is no longer tracked.
LEMMA TypedGone == ASSUME Typed, NEW c \in Conns, Gone(c) PROVE Typed'
<1>1. server' \in [Conns -> Sockets]
  BY DEF Gone, Typed, Sockets, NoSocket
<1>2. <<>> \in Seq(UpMessages) /\ up' = [up EXCEPT ![c] = <<>>]
  BY DEF Gone
<1>3. up' \in [Conns -> Seq(UpMessages)]
  BY <1>2, UpSet
<1> QED BY <1>1, <1>3 DEF Gone, Typed

\* The messages that the coordinator answers at once.
LEMMA TypedServe == ASSUME Typed, NEW c \in Conns, Serve(c) PROVE Typed'
<1>1. ASSUME NEW types, types \subseteq Requests, Serves(c, types)
      PROVE  /\ Head(up[c]).id \in Nat /\ up' \in [Conns -> Seq(UpMessages)]
             /\ client' = client /\ cut' = cut /\ device' = device
             /\ Head(up[c]).type \in types /\ Head(up[c]) \in UpMessages
  BY <1>1, ServedIs, UpMessageIs
<1>2. ASSUME NEW m \in DownMessages, NEW cs, down' = SendTo(cs, m, down)
      PROVE  down' \in [Conns -> Seq(DownMessages)]
  BY <1>2, SendToIs DEF Typed
<1>3. ASSUME Spend("faults") \/ UNCHANGED spent
      PROVE  spent' \in [asks : Nat, edits : Nat, changes : Nat, faults : Nat]
  BY <1>3, SpendIs DEF Typed
<1>4. CASE ServeHello(c)
  <2>1. Serves(c, {"hello"}) /\ {"hello"} \subseteq Requests
    BY <1>4 DEF ServeHello, Requests
  <2>2. PICK m \in DownMessages : down' = SendTo({c}, m, down)
    BY <1>4, <2>1, <1>1, DownMessagesAre DEF ServeHello, SessionErrors
  <2> QED BY <1>4, <1>1, <1>2, <2>1, <2>2 DEF Typed, ServeHello
<1>5. CASE ServeCommit(c)
  <2>1. Serves(c, {"commit"}) /\ {"commit"} \subseteq Requests
    BY <1>5 DEF ServeCommit, Requests
  <2>2. Head(up[c]).mutation \in Mutations /\ Head(up[c]).id \in Nat
    BY <2>1, <1>1, UpMessageIs
  <2>3. awaiting' \subseteq [conn : Conns, id : Nat, mutation : Mutations]
    BY <1>5, <2>2 DEF ServeCommit, Typed
  <2> QED BY <1>5, <1>1, <2>1, <2>3 DEF Typed, ServeCommit
<1>6. CASE ServeList(c)
  <2>1. Serves(c, {"list"}) /\ {"list"} \subseteq Requests
    BY <1>6 DEF ServeList, Requests
  <2>2. PICK m \in DownMessages : down' = SendTo({c}, m, down)
    BY <1>6, <2>1, <1>1, DownMessagesAre DEF ServeList, Requests
  <2> QED BY <1>6, <1>1, <1>2, <2>1, <2>2 DEF Typed, ServeList
<1>7. CASE ServeGet(c)
  <2>1. Serves(c, {"get"}) /\ {"get"} \subseteq Requests
    BY <1>7 DEF ServeGet, Requests
  <2>2. PICK m \in DownMessages : down' = SendTo({c}, m, down)
    BY <1>7, <2>1, <1>1, DownMessagesAre DEF ServeGet, SessionErrors, Plain
  <2> QED BY <1>7, <1>1, <1>2, <2>1, <2>2 DEF Typed, ServeGet
<1>8. CASE ServeHistory(c)
  <2>1. Serves(c, {"history"}) /\ {"history"} \subseteq Requests
    BY <1>8 DEF ServeHistory, Requests
  <2>2. PICK m \in DownMessages : down' = SendTo({c}, m, down)
    BY <1>8, <2>1, <1>1, DownMessagesAre DEF ServeHistory, Plain, Requests
  <2>3. Spend("faults") \/ UNCHANGED spent
    BY <1>8 DEF ServeHistory
  <2> QED BY <1>8, <1>1, <1>2, <1>3, <2>1, <2>2, <2>3 DEF Typed, ServeHistory
<1>9. CASE ServeDetach(c)
  <2>1. Serves(c, {"detach"}) /\ {"detach"} \subseteq Requests
    BY <1>9 DEF ServeDetach, Requests
  <2>2. PICK m \in DownMessages : down' = SendTo({c}, m, down)
    BY <1>9, <2>1, <1>1, DownMessagesAre DEF ServeDetach, Plain, SessionErrors
  <2>3. Spend("faults") \/ UNCHANGED spent
    BY <1>9 DEF ServeDetach
  <2> QED BY <1>9, <1>1, <1>2, <1>3, <2>1, <2>2, <2>3 DEF Typed, ServeDetach
<1>10. CASE ServeHeartbeat(c)
  <2>1. Serves(c, {"heartbeat"}) /\ {"heartbeat"} \subseteq Requests
    BY <1>10 DEF ServeHeartbeat, Requests
  <2>2. PICK m \in DownMessages : down' = SendTo({c}, m, down)
    BY <1>10, <2>1, <1>1, DownMessagesAre DEF ServeHeartbeat, Plain
  <2> QED BY <1>10, <1>1, <1>2, <2>1, <2>2 DEF Typed, ServeHeartbeat
<1>11. CASE ServeWatch(c)
  <2>1. Serves(c, {"watch", "unwatch"})
    BY <1>11 DEF ServeWatch
  <2>2. down' \in [Conns -> Seq(DownMessages)]
    BY <1>11, <1>2, DownMessagesAre DEF ServeWatch, Typed
  <2>3. server' \in [Conns -> Sockets]
    <3>1. server' \in {server, [server EXCEPT ![c].watch = TRUE], [server EXCEPT ![c].watch = FALSE]}
      BY <1>11 DEF ServeWatch
    <3>2. server[c] \in Sockets /\ server \in [Conns -> Sockets]
      BY DEF Typed
    <3>3. \A b \in BOOLEAN : [server[c] EXCEPT !.watch = b] \in Sockets
      BY <3>2 DEF Sockets
    <3> QED BY <3>1, <3>2, <3>3
  <2>4. up' \in [Conns -> Seq(UpMessages)] /\ client' = client /\ cut' = cut /\ device' = device
    BY <2>1, ServedIs
  <2> QED BY <1>11, <2>2, <2>3, <2>4 DEF Typed, ServeWatch
<1>12. CASE ServeClose(c)
  <2> QED BY <1>12, TypedGone DEF ServeClose
<1> QED BY <1>4, <1>5, <1>6, <1>7, <1>8, <1>9, <1>10, <1>11, <1>12 DEF Serve

\* Mutations, and what the coordinator makes of them.
LEMMA CommittedIs ==
  ASSUME Typed, NEW m \in Mutations
  PROVE  /\ Committed(m) \in VaultStates
         /\ Outcome(m) \in {"again", "stale", "applied"}
         /\ Committed(m).features = vault.features
         /\ Committed(m).policy = vault.policy /\ Committed(m).used = vault.used
         /\ Outcome(m) = "applied" => /\ Committed(m).log = Append(vault.log, m.id)
                                      /\ Committed(m).rev = vault.rev + 1
                                      /\ Committed(m).cursor = vault.cursor + 1
         /\ Outcome(m) # "applied" => Committed(m) = vault
<1>1. Outcome(m) \in {"again", "stale", "applied"}
  BY DEF Outcome
<1>2. vault \in VaultStates
  BY DEF Typed
<1>3. CASE Outcome(m) = "applied"
  <2> DEFINE l == Append(vault.log, m.id)
  <2>1. l \in Seq(Nat)
    BY <1>2 DEF VaultStates, Mutations
  <2>2. Committed(m) = [vault EXCEPT !.cursor = vault.cursor + 1, !.rev = vault.rev + 1, !.log = l]
    BY <1>2, <1>3 DEF Committed, VaultStates
  <2> HIDE DEF l
  <2>4. vault.cursor + 1 \in Nat /\ vault.rev + 1 \in Nat
    BY <1>2 DEF VaultStates
  <2>5. Committed(m) \in VaultStates
    BY <1>2, <2>1, <2>2, <2>4 DEF VaultStates
  <2>3. /\ Committed(m) \in VaultStates /\ Committed(m).log = l
        /\ Committed(m).rev = vault.rev + 1 /\ Committed(m).cursor = vault.cursor + 1
        /\ Committed(m).features = vault.features
        /\ Committed(m).policy = vault.policy /\ Committed(m).used = vault.used
    BY <1>2, <2>2, <2>5 DEF VaultStates
  <2> QED BY <1>1, <1>3, <2>3 DEF l
<1>4. CASE Outcome(m) # "applied"
  BY <1>1, <1>2, <1>4 DEF Committed
<1> QED BY <1>3, <1>4

\* The answer to a commit.
CommitAnswer(w) ==
  [type |-> "answer", id |-> w.id, kind |-> "commit", mutation |-> w.mutation.id,
   stale |-> Outcome(w.mutation) = "stale", cursor |-> Committed(w.mutation).cursor,
   rev |-> Committed(w.mutation).rev]
Announcement(w) == [type |-> "cursor_advanced", cursor |-> Committed(w.mutation).cursor]
AfterAnswer(w) == SendTo({w.conn}, CommitAnswer(w), down)

\* A commit returns: what its device and the others are told.
LEMMA CommitReturnsIs ==
  ASSUME Typed, NEW w \in awaiting, CommitReturns(w)
  PROVE  /\ w.conn \in Conns /\ w.id \in Nat /\ w.mutation \in Mutations
         /\ CommitAnswer(w) \in DownMessages /\ Announcement(w) \in DownMessages
         /\ AfterAnswer(w) \in [Conns -> Seq(DownMessages)]
         /\ down' = IF Outcome(w.mutation) = "applied"
                    THEN SendTo(Conns \ {w.conn}, Announcement(w), AfterAnswer(w)) ELSE AfterAnswer(w)
         /\ vault' = Committed(w.mutation) /\ awaiting' = awaiting \ {w}
<1>1. w.conn \in Conns /\ w.id \in Nat /\ w.mutation \in Mutations
  BY DEF Typed
<1>2. Committed(w.mutation) \in VaultStates
  BY <1>1, CommittedIs
<1>3. CommitAnswer(w) \in [type : {"answer"}, id : Nat, kind : {"commit"}, mutation : Nat, stale : BOOLEAN,
                           cursor : Nat, rev : Nat]
  BY <1>1, <1>2 DEF CommitAnswer, VaultStates, Mutations
<1>4. Announcement(w) \in [type : {"cursor_advanced"}, cursor : Nat]
  BY <1>2 DEF Announcement, VaultStates
<1>5. CommitAnswer(w) \in DownMessages /\ Announcement(w) \in DownMessages
  BY <1>3, <1>4 DEF DownMessages
<1>6. AfterAnswer(w) \in [Conns -> Seq(DownMessages)]
  BY <1>5, SendToIs DEF AfterAnswer, Typed
<1>7. vault' = Committed(w.mutation) /\ awaiting' = awaiting \ {w}
  BY DEF CommitReturns
<1>8. down' = IF Outcome(w.mutation) = "applied"
              THEN SendTo(Conns \ {w.conn}, Announcement(w), AfterAnswer(w)) ELSE AfterAnswer(w)
  BY <1>7 DEF CommitReturns, BroadcastExcept, CommitAnswer, Announcement, AfterAnswer
<1> QED BY <1>1, <1>5, <1>6, <1>7, <1>8

\* A commit returns from the object store.
LEMMA TypedCommitReturns == ASSUME Typed, NEW w \in awaiting, CommitReturns(w) PROVE Typed'
<1>3. /\ w.mutation \in Mutations /\ Announcement(w) \in DownMessages
      /\ AfterAnswer(w) \in [Conns -> Seq(DownMessages)]
      /\ down' = IF Outcome(w.mutation) = "applied"
                 THEN SendTo(Conns \ {w.conn}, Announcement(w), AfterAnswer(w)) ELSE AfterAnswer(w)
      /\ vault' = Committed(w.mutation)
  BY CommitReturnsIs
<1>4. SendTo(Conns \ {w.conn}, Announcement(w), AfterAnswer(w)) \in [Conns -> Seq(DownMessages)]
  BY <1>3, SendToIs
<1>1. /\ down' \in [Conns -> Seq(DownMessages)] /\ vault' \in VaultStates
  BY <1>3, <1>4, CommittedIs
<1>2. awaiting' \subseteq [conn : Conns, id : Nat, mutation : Mutations]
  BY DEF CommitReturns, Typed
<1> QED BY <1>1, <1>2 DEF Typed, CommitReturns

\* A commit fails.
LEMMA TypedCommitFails == ASSUME Typed, NEW w \in awaiting, CommitFails(w) PROVE Typed'
<1>1. w.conn \in Conns /\ w.id \in Nat /\ Failure("commit", w.id) \in DownMessages
  BY DownMessagesAre DEF Typed, Requests
<1>2. down' \in [Conns -> Seq(DownMessages)]
  BY <1>1, SendToIs DEF CommitFails, Typed
<1>3. spent' \in [asks : Nat, edits : Nat, changes : Nat, faults : Nat]
  BY SpendIs DEF CommitFails
<1>4. awaiting' \subseteq [conn : Conns, id : Nat, mutation : Mutations]
  BY DEF CommitFails, Typed
<1> QED BY <1>2, <1>3, <1>4 DEF Typed, CommitFails

\* The policy of the vault changes, and the storage that is used.
LEMMA TypedChanges == ASSUME Typed, PolicyChanges \/ UsageChanges PROVE Typed'
<1>1. spent' \in [asks : Nat, edits : Nat, changes : Nat, faults : Nat]
  BY SpendIs DEF PolicyChanges, UsageChanges
<1>6. /\ vault \in VaultStates /\ vault.policy + 1 \in Nat /\ vault.used + 1 \in Nat
  BY DEF Typed, VaultStates
<1>7. \/ vault' = [vault EXCEPT !.policy = vault.policy + 1]
      \/ vault' = [vault EXCEPT !.used = vault.used + 1]
  BY <1>6 DEF PolicyChanges, UsageChanges, VaultStates
<1>2. vault' \in VaultStates
  BY <1>6, <1>7 DEF VaultStates
<1>3. ASSUME NEW cs, NEW m \in DownMessages, down' = SendTo(cs, m, down)
      PROVE  down' \in [Conns -> Seq(DownMessages)]
  BY <1>3, SendToIs DEF Typed
<1>4. CASE PolicyChanges
  <2> DEFINE m == [type |-> "policy_updated", policy |-> vault'.policy, used |-> vault.used]
  <2>1. m \in [type : {"policy_updated"}, policy : Nat, used : Nat]
    BY <1>2 DEF Typed, VaultStates
  <2>2. m \in DownMessages
    BY <2>1 DEF DownMessages
  <2>3. down' = SendTo(Conns, m, down)
    BY <1>4 DEF PolicyChanges, BroadcastPolicy
  <2> HIDE DEF m
  <2> QED BY <1>1, <1>2, <1>3, <1>4, <2>2, <2>3 DEF PolicyChanges, Typed
<1>5. CASE UsageChanges
  <2> DEFINE m == [type |-> "storage_status_updated", used |-> vault'.used]
  <2>1. m \in [type : {"storage_status_updated"}, used : Nat]
    BY <1>2 DEF VaultStates
  <2>2. m \in DownMessages
    BY <2>1 DEF DownMessages
  <2>3. \E cs : down' = SendTo(cs, m, down)
    BY <1>5 DEF UsageChanges, BroadcastStorageStatus, StatusMessage
  <2> HIDE DEF m
  <2> QED BY <1>1, <1>2, <1>3, <1>5, <2>2, <2>3 DEF UsageChanges, Typed
<1> QED BY <1>4, <1>5

\* The network of a connection is cut.
LEMMA TypedCut == ASSUME Typed, NEW c \in Conns, Cut(c) PROVE Typed'
<1>1. spent' \in [asks : Nat, edits : Nat, changes : Nat, faults : Nat]
  BY SpendIs DEF Cut
<1>2. /\ <<>> \in Seq(UpMessages) /\ <<>> \in Seq(DownMessages)
      /\ up' = [up EXCEPT ![c] = <<>>] /\ down' = [down EXCEPT ![c] = <<>>]
  BY DEF Cut
<1>3. up' \in [Conns -> Seq(UpMessages)] /\ down' \in [Conns -> Seq(DownMessages)]
  BY <1>2, UpSet, DownSet
<1> QED BY <1>1, <1>3 DEF Typed, Cut

\* The coordinator restarts.
LEMMA TypedRestart == ASSUME Typed, Restart PROVE Typed'
<1>1. spent' \in [asks : Nat, edits : Nat, changes : Nat, faults : Nat]
  BY SpendIs DEF Restart
<1>2. down' \in [Conns -> Seq(DownMessages)]
  BY DownMessagesAre, SendToIs DEF Typed, Restart
<1>3. server' \in [Conns -> Sockets]
  BY DEF Restart, Typed, Sockets, NoSocket
<1>4. <<>> \in Seq(UpMessages)
  OBVIOUS
<1>5. up' \in [Conns -> Seq(UpMessages)]
  BY <1>4 DEF Restart
<1> QED BY <1>1, <1>2, <1>3, <1>5 DEF Typed, Restart

\* The initial states have their types.
LEMMA TypedInit == Init => Typed
<1> SUFFICES ASSUME Init PROVE Typed
  OBVIOUS
<1>1. client \in [Conns -> Clients] /\ \A c \in Conns : client[c].phase = "unused"
  BY DEF Init, Unused, Clients, Phases
<1>2. server \in [Conns -> Sockets]
  BY DEF Init, NoSocket, Sockets
<1>3. up \in [Conns -> Seq(UpMessages)] /\ down \in [Conns -> Seq(DownMessages)]
  BY DEF Init
<1>4. vault \in VaultStates
  <2>1. vault \in [cursor : {0}, rev : {0}, log : {<<>>}, policy : {0}, used : {0},
                    features : SUBSET {"get"}]
    BY DEF Init
  <2>2. <<>> \in Seq(Nat)
    OBVIOUS
  <2>3. PICK f \in SUBSET {"get"} :
          vault = [cursor |-> 0, rev |-> 0, log |-> <<>>, policy |-> 0, used |-> 0, features |-> f]
    BY <2>1
  <2> QED BY <2>2, <2>3 DEF VaultStates
<1>5. device \in [Apps -> Devices]
  BY DEF Init, Devices, None, Mutations
<1>6. spent \in [asks : Nat, edits : Nat, changes : Nat, faults : Nat]
  BY DEF Init
<1> QED BY <1>1, <1>2, <1>3, <1>4, <1>5, <1>6 DEF Typed, Init

\* Every step keeps the types.
LEMMA TypedStep == Typed /\ [Next]_vars => Typed'
<1> SUFFICES ASSUME Typed, [Next]_vars PROVE Typed'
  OBVIOUS
<1>1. CASE UNCHANGED vars
  BY <1>1 DEF vars, Typed
<1>2. ASSUME NEW a \in Apps, OpenSession(a) \/ Edit(a) PROVE Typed'
  BY <1>2, TypedOpenSession, TypedEdit
<1>3. ASSUME NEW c \in Conns,
             \/ OpenFails(c) \/ Ask(c) \/ Beat(c) \/ TimeOut(c) \/ Close(c)
             \/ Receive(c) \/ Accept(c) \/ Serve(c) \/ CloseEnds(c)
             \/ ServerNotices(c) \/ Cut(c)
      PROVE  Typed'
  <2>1. CASE OpenFails(c) \/ Ask(c) \/ Beat(c) \/ TimeOut(c) \/ Close(c) \/ Accept(c) \/ Serve(c) \/ Cut(c)
    BY <2>1, TypedOpenFails, TypedAsk, TypedBeat, TypedTimeOut, TypedClose, TypedAccept, TypedServe, TypedCut
  <2>2. CASE Receive(c)
    BY <2>2, TypedOpened, TypedReceiveAnswer, TypedReceiveFailure, TypedReceivePush, TypedReceiveError,
       TypedReceiveClose DEF Receive
  <2>3. CASE CloseEnds(c) \/ ServerNotices(c)
    BY <2>3, TypedGone DEF CloseEnds, ServerNotices
  <2> QED BY <1>3, <2>1, <2>2, <2>3
<1>4. ASSUME NEW w \in awaiting, CommitReturns(w) \/ CommitFails(w) PROVE Typed'
  BY <1>4, TypedCommitReturns, TypedCommitFails
<1>5. CASE PolicyChanges \/ UsageChanges \/ Restart
  BY <1>5, TypedChanges, TypedRestart
<1> QED BY <1>1, <1>2, <1>3, <1>4, <1>5 DEF Next

\* The state has its types (Session).
THEOREM AlwaysTyped == Spec => []Typed
<1>1. Init => Typed
  BY TypedInit
<1>2. Typed /\ [Next]_vars => Typed'
  BY TypedStep
<1> QED BY <1>1, <1>2, PTL DEF Spec

-----------------------------------------------------------------------------
(* The fate of an edit.  A mutation is in play while a device waits to push *)
(* it, or a commit of it is under way or awaits the object store.           *)

InPlay(m) ==
  \/ m # None /\ \E a \in Apps : device[a].todo = m
  \/ \E c \in Conns : \E x \in Elements(up[c]) : x.type = "commit" /\ x.mutation = m
  \/ \E w \in awaiting : w.mutation = m

\* The answers under way that tell of a revision.
Told(x) == /\ \E c \in Conns : x \in Elements(down[c])
           /\ x.type = "answer" /\ x.kind \in {"commit", "list"}

\* Edit id is in the log; edit id is not its last entry, and can no longer become it.
Applied(id) == \E i \in DOMAIN vault.log : vault.log[i] = id
Passed(id) == /\ id \in 1..spent.edits /\ Last(vault.log) # id
              /\ \A m \in Mutations : InPlay(m) /\ m.id = id => m.base < Len(vault.log)

\* The log has the edits that were made, each once.
LogIsOnce ==
  /\ vault.rev = Len(vault.log)
  /\ \A i \in DOMAIN vault.log : vault.log[i] \in 1..spent.edits
  /\ \A i, j \in DOMAIN vault.log : vault.log[i] = vault.log[j] => i = j
\* A mutation in play is an edit that was made, on a revision there is; if it is in the log, it
\* has the revision after that one.
PlayIsKnown ==
  /\ \A m \in Mutations : InPlay(m) =>
       /\ m.id \in 1..spent.edits /\ m.base <= Len(vault.log)
       /\ \A i \in DOMAIN vault.log : vault.log[i] = m.id => i = m.base + 1
  /\ \A m, n \in Mutations : InPlay(m) /\ InPlay(n) /\ m.id = n.id => m = n
\* What answers under way say is true.
ToldIsTrue ==
  \A x \in DownMessages : Told(x) =>
    /\ x.rev <= Len(vault.log)
    /\ x.kind = "commit" => IF x.stale THEN Passed(x.mutation) ELSE Applied(x.mutation)
\* What devices were told is true.
DevicesKnow ==
  \A a \in Apps : /\ device[a].rev <= Len(vault.log)
                  /\ \A id \in device[a].acked : Applied(id)
                  /\ \A id \in device[a].refused : Passed(id)

Fated == LogIsOnce /\ PlayIsKnown /\ ToldIsTrue /\ DevicesKnow

\* A step that puts no edit in play and tells nobody of a revision.
NoEdit == /\ \A c \in Conns : \A x \in Elements(up'[c]) : x.type = "commit" => x \in Elements(up[c])
          /\ awaiting' \subseteq awaiting
          /\ \A a \in Apps : device'[a].todo \in {device[a].todo, None}
NoWord == \A c \in Conns : \A x \in Elements(down'[c]) :
            x.type = "answer" /\ x.kind \in {"commit", "list"} => x \in Elements(down[c])
NoRecord == /\ spent'.edits = spent.edits /\ vault'.log = vault.log /\ vault'.rev = vault.rev
            /\ \A a \in Apps : /\ device'[a].rev = device[a].rev /\ device'[a].acked = device[a].acked
                               /\ device'[a].refused = device[a].refused

\* The fates of edits survive such a step.
LEMMA QuietStep ==
  ASSUME Fated, NoRecord, NoWord, \A m \in Mutations : InPlay(m)' => InPlay(m)
  PROVE  Fated'
<1>1. \A x \in DownMessages : Told(x)' => Told(x)
  BY DEF NoWord, Told
<1>2. \A id : Applied(id)' <=> Applied(id)
  BY DEF NoRecord, Applied
<1>3. \A id : Passed(id) => Passed(id)'
  BY DEF NoRecord, Passed, Last
<1>4. LogIsOnce'
  BY DEF NoRecord, Fated, LogIsOnce
<1>5. PlayIsKnown'
  BY DEF NoRecord, Fated, PlayIsKnown
<1>6. ToldIsTrue'
  BY <1>1, <1>2, <1>3 DEF NoRecord, Fated, ToldIsTrue
<1>7. DevicesKnow'
  BY <1>2, <1>3 DEF NoRecord, Fated, DevicesKnow
<1> QED BY <1>4, <1>5, <1>6, <1>7 DEF Fated

\* And a step that leaves the edits alone.
LEMMA StillStep ==
  ASSUME Fated, NoRecord, NoWord, NoEdit
  PROVE  Fated'
<1>1. \A m \in Mutations : InPlay(m)' => InPlay(m)
  BY DEF NoEdit, InPlay
<1> QED BY <1>1, QuietStep

\* What is said of a connection that says nothing of an edit.
LEMMA NoEditUp ==
  ASSUME Typed, NEW c \in Conns, \A o \in Conns \ {c} : up'[o] = up[o],
         \A x \in Elements(up'[c]) : x \in Elements(up[c]) \/ x.type # "commit",
         awaiting' \subseteq awaiting, device' = device
  PROVE  NoEdit
  BY DEF NoEdit

\* What the client asks, apart from a commit.
LEMMA FatedSays ==
  ASSUME Typed, Fated, NEW c \in Conns, NEW m \in UpMessages, m.type # "commit", Says(c, m),
         down' = down, awaiting' = awaiting, vault' = vault, device' = device,
         spent'.edits = spent.edits
  PROVE  Fated'
<1>1. /\ up'[c] = ToServer(c, m) /\ \A o \in Conns \ {c} : up'[o] = up[o]
      /\ Elements(ToServer(c, m)) \subseteq Elements(up[c]) \union {m}
  BY SaysIs, ToServerIs
<1>2. NoEdit
  BY <1>1, NoEditUp
<1>3. NoRecord /\ NoWord
  BY DEF NoRecord, NoWord
<1> QED BY <1>2, <1>3, StillStep

\* What the client asks; a commit puts in play the edit that waits, as it was.
LEMMA FatedAsk == ASSUME Typed, Fated, NEW c \in Conns, Ask(c) PROVE Fated'
<1>1. ASSUME NEW m \in UpMessages, NEW kind \in Requests, Says(c, m), Asks(c, kind), m.type # "commit"
      PROVE  Fated'
  <2>1. client[c].phase = "live"
    BY <1>1, SaysIs
  <2> QED BY <2>1, <1>1, AsksIs, FatedSays
<1>2. ASSUME NEW kind \in Notifications, Watch(c, kind) PROVE Fated'
  <2>1. client[c].phase = "live" /\ Says(c, [type |-> kind]) /\ kind # "commit"
    BY <1>2 DEF Watch, Says, Notifications
  <2>2. spent'.edits = spent.edits
    BY <1>2, SpendIs DEF Watch
  <2>3. down' = down /\ awaiting' = awaiting /\ vault' = vault /\ device' = device
    BY <1>2 DEF Watch
  <2> QED BY <2>1, <2>2, <2>3, AskMessages, FatedSays
<1>3. CASE Commit(c)
  <2> DEFINE todo == device[client[c].app].todo
             m == [type |-> "commit", id |-> Number(c), mutation |-> todo]
  <2>1. client[c].phase = "live" /\ todo # None /\ Says(c, m) /\ Asks(c, "commit")
    BY <1>3 DEF Commit
  <2>2. m \in UpMessages
    BY <2>1, AskMessages
  <2>3. /\ client[c].app \in Apps /\ up'[c] = ToServer(c, m) /\ \A o \in Conns \ {c} : up'[o] = up[o]
        /\ Elements(ToServer(c, m)) \subseteq Elements(up[c]) \union {m}
    BY <2>1, <2>2, SaysIs, ToServerIs
  <2>4. down' = down /\ awaiting' = awaiting /\ vault' = vault /\ device' = device /\ spent'.edits = spent.edits
    BY <2>1, AsksIs DEF Requests
  <2>5. \A n \in Mutations : InPlay(n)' => InPlay(n)
    <3>1. InPlay(todo)
      BY <2>1, <2>3 DEF InPlay
    <3>2. \A o \in Conns : \A x \in Elements(up'[o]) : x \in Elements(up[o]) \/ x.mutation = todo
      BY <2>3
    <3> QED BY <2>4, <3>1, <3>2 DEF InPlay
  <2>6. NoRecord /\ NoWord
    BY <2>4 DEF NoRecord, NoWord
  <2> QED BY <2>5, <2>6, QuietStep
<1>4. CASE List(c)
  <2>1. client[c].phase = "live"
    BY <1>4 DEF List, Says
  <2> QED BY <1>4, <2>1, <1>1, AskMessages DEF List, Requests
<1>5. CASE Get(c) \/ History(c) \/ Detach(c)
  <2>1. client[c].phase = "live"
    BY <1>5 DEF Get, History, Detach, Says
  <2> QED BY <1>5, <2>1, <1>1, AskMessages DEF Get, History, Detach, Requests
<1> QED BY <1>2, <1>3, <1>4, <1>5 DEF Ask

\* A heartbeat says nothing of an edit.
LEMMA FatedBeat == ASSUME Typed, Fated, NEW c \in Conns, Beat(c) PROVE Fated'
<1>1. client[c].phase = "live" /\ Says(c, [type |-> "heartbeat", id |-> 0])
  BY DEF Beat, Says
<1>2. spent'.edits = spent.edits
  <2>1. CASE Spend("asks") BY <2>1, SpendIs
  <2> QED BY <2>1 DEF Beat
<1> QED BY <1>1, <1>2, AskMessages, FatedSays DEF Beat

\* The steps that take or lose what is under way, and the ends of sessions.
LEMMA FatedEnds ==
  ASSUME Typed, Fated, NEW c \in Conns, TimeOut(c) \/ Close(c) \/ OpenFails(c) \/ Cut(c)
  PROVE  Fated'
<1>1. Elements(<<>>) = {}
  BY DEF Elements
<1>2. spent'.edits = spent.edits
  <2>1. CASE Spend("faults") BY <2>1, SpendIs
  <2>2. CASE UNCHANGED spent BY <2>2
  <2> QED BY <2>1, <2>2 DEF TimeOut, Close, OpenFails, Cut
<1>3. down' = [down EXCEPT ![c] = <<>>] /\ awaiting' = awaiting /\ vault' = vault /\ device' = device
  BY DEF TimeOut, Close, OpenFails, Cut, Ends
<1>4. down'[c] = <<>> /\ \A o \in Conns \ {c} : down'[o] = down[o]
  BY <1>3 DEF Typed
<1>5. NoRecord /\ NoWord
  BY <1>1, <1>2, <1>3, <1>4 DEF NoRecord, NoWord
<1>6. up' = up \/ up' = [up EXCEPT ![c] = Hangs(c)] \/ up' = [up EXCEPT ![c] = <<>>]
  BY DEF TimeOut, Close, OpenFails, Cut
<1>7. /\ \A o \in Conns \ {c} : up'[o] = up[o]
      /\ \A x \in Elements(up'[c]) : x \in Elements(up[c]) \/ x.type # "commit"
  <2>1. CASE up' = up
    BY <2>1
  <2>2. CASE up' = [up EXCEPT ![c] = <<>>]
    <3>1. up'[c] = <<>> /\ \A o \in Conns \ {c} : up'[o] = up[o]
      BY <2>2 DEF Typed
    <3> QED BY <3>1, <1>1
  <2>3. CASE up' = [up EXCEPT ![c] = Hangs(c)]
    <3>1. up'[c] = Hangs(c) /\ \A o \in Conns \ {c} : up'[o] = up[o]
      BY <2>3 DEF Typed
    <3>2. CloseFrame.type # "commit"
      BY DEF CloseFrame
    <3> QED BY <3>1, <3>2, HangsIs
  <2> QED BY <1>6, <2>1, <2>2, <2>3
<1>8. NoEdit
  BY <1>3, <1>7, NoEditUp
<1> QED BY <1>5, <1>8, StillStep

\* A socket that is no longer tracked takes what was on its way with it.
LEMMA FatedGone == ASSUME Typed, Fated, NEW c \in Conns, Gone(c) PROVE Fated'
<1>1. Elements(<<>>) = {}
  BY DEF Elements
<1>2. up'[c] = <<>> /\ \A o \in Conns \ {c} : up'[o] = up[o]
  BY DEF Gone, Typed
<1>3. NoEdit
  BY <1>1, <1>2, NoEditUp DEF Gone
<1>4. NoRecord /\ NoWord
  BY DEF Gone, NoRecord, NoWord
<1> QED BY <1>3, <1>4, StillStep

\* A restart drops the commits that await the object store.
LEMMA FatedRestart == ASSUME Typed, Fated, Restart PROVE Fated'
<1>1. Elements(<<>>) = {}
  BY DEF Elements
<1>2. NoEdit
  BY <1>1 DEF Restart, NoEdit
<1>3. \A c \in Conns : Elements(down'[c]) \subseteq Elements(down[c]) \union {CloseFrame}
  BY DownMessagesAre, SendToIs DEF Typed, Restart
<1>4. NoWord
  BY <1>3 DEF NoWord, CloseFrame
<1>5. spent'.edits = spent.edits
  BY SpendIs DEF Restart
<1>6. NoRecord
  BY <1>5 DEF Restart, NoRecord
<1> QED BY <1>2, <1>4, <1>6, StillStep

\* A socket that is accepted tells of no edit.
LEMMA FatedAccept == ASSUME Typed, Fated, NEW c \in Conns, Accept(c) PROVE Fated'
<1> DEFINE told == <<[type |-> "session_error", code |-> "local_vault_replaced"], CloseFrame>>
           hi == <<[type |-> "open"]>>
<1>1. told \in Seq(DownMessages) /\ Elements(told) = {told[1], told[2]}
  BY DownMessagesAre DEF SessionErrors, Elements
<1>2. told[1].type = "session_error" /\ told[2].type = "close"
  BY DEF CloseFrame
<1>3. \A x \in Elements(hi) : x.type = "open"
  BY DEF Elements
<1>4. \A o \in Conns : down'[o] \in {hi, down[o] \o told, down[o]}
  BY DEF Accept
<1> HIDE DEF told, hi
<1>5. ASSUME NEW o \in Conns, NEW x \in Elements(down'[o]), x.type = "answer"
      PROVE  x \in Elements(down[o])
  <2>1. Elements(down[o] \o told) = Elements(down[o]) \union Elements(told)
    BY <1>1, ElementsAre DEF Typed
  <2> QED BY <1>1, <1>2, <1>3, <1>4, <1>5, <2>1
<1>6. NoWord
  BY <1>5 DEF NoWord
<1>7. NoEdit /\ NoRecord
  BY DEF Accept, NoEdit, NoRecord
<1> QED BY <1>6, <1>7, StillStep

\* A session that opens tells of no edit.
LEMMA FatedOpenSession == ASSUME Typed, Fated, NEW a \in Apps, OpenSession(a) PROVE Fated'
<1>1. NoEdit /\ NoRecord /\ NoWord
  BY DEF OpenSession, NoEdit, NoRecord, NoWord
<1> QED BY <1>1, StillStep

\* What a client receives, apart from an answer.
LEMMA FatedReceives ==
  ASSUME Typed, Fated, NEW c \in Conns, Receive(c), ~ReceiveAnswer(c)
  PROVE  Fated'
<1>1. ASSUME NEW types, Receives(c, types)
      PROVE  /\ NoWord /\ awaiting' = awaiting /\ vault' = vault /\ spent' = spent
             /\ Head(down[c]) \in DownMessages /\ Head(down[c]).type \in types
             /\ client[c] \in Clients /\ client[c].app \in Apps
  BY <1>1, ReceivedIs DEF NoWord
<1>2. CASE Opened(c)
  <2> DEFINE m == [type |-> "hello", id |-> Number(c), last |-> device[client[c].app].cursor]
  <2>1. Receives(c, {"open"}) /\ up' = [up EXCEPT ![c] = ToServer(c, m)] /\ device' = device
    BY <1>2 DEF Opened
  <2>2. m \in [type : {"hello"}, id : Nat, last : Nat]
    BY <1>1, <2>1 DEF Typed, Number, Numbered, Clients, Devices
  <2>3. m \in UpMessages
    BY <2>2 DEF UpMessages
  <2>4. Elements(ToServer(c, m)) \subseteq Elements(up[c]) \union {m}
    BY <2>3, ToServerIs
  <2>5. up'[c] = ToServer(c, m) /\ \A o \in Conns \ {c} : up'[o] = up[o]
    BY <2>1 DEF Typed
  <2>6. NoEdit
    BY <1>1, <2>1, <2>4, <2>5, NoEditUp
  <2>7. NoWord /\ NoRecord
    BY <1>1, <2>1 DEF NoRecord
  <2> QED BY <2>6, <2>7, StillStep
<1>3. CASE ReceiveFailure(c) \/ ReceiveClose(c)
  <2>1. NoWord /\ NoRecord /\ NoEdit
    BY <1>1, <1>3 DEF ReceiveFailure, ReceiveClose, NoRecord, NoEdit
  <2> QED BY <2>1, StillStep
<1>4. CASE ReceivePush(c)
  <2> DEFINE d == device[client[c].app]
             m == Head(down[c])
  <2>1. Receives(c, {"cursor_advanced", "storage_status_updated", "policy_updated"})
        /\ device' = [device EXCEPT ![client[c].app] = Pushed(d, m)] /\ up' = up
    BY <1>4 DEF ReceivePush
  <2>2. d \in Devices /\ m \in DownMessages
        /\ m.type \in {"cursor_advanced", "storage_status_updated", "policy_updated"}
    BY <1>1, <2>1 DEF Typed
  <2>3. /\ Pushed(d, m).rev = d.rev /\ Pushed(d, m).todo = d.todo
        /\ Pushed(d, m).acked = d.acked /\ Pushed(d, m).refused = d.refused
    BY <2>2, PushedIs
  <2>4. \A a \in Apps : device'[a] = IF a = client[c].app THEN Pushed(d, m) ELSE device[a]
    BY <2>1 DEF Typed
  <2>5. NoWord /\ NoRecord /\ NoEdit
    BY <1>1, <2>1, <2>3, <2>4 DEF NoRecord, NoEdit
  <2> QED BY <2>5, StillStep
<1>5. CASE ReceiveError(c)
  <2>1. Receives(c, {"session_error"}) /\ device' = device
        /\ \/ up' = [up EXCEPT ![c] = Hangs(c)]
           \/ up' = [up EXCEPT ![c] = up[c]]
    BY <1>5 DEF ReceiveError
  <2>2. up'[c] \in {Hangs(c), up[c]} /\ \A o \in Conns \ {c} : up'[o] = up[o]
    BY <2>1 DEF Typed
  <2>3. CloseFrame.type # "commit"
    BY DEF CloseFrame
  <2>4. NoEdit
    BY <1>1, <2>1, <2>2, <2>3, HangsIs, NoEditUp
  <2>5. NoWord /\ NoRecord
    BY <1>1, <2>1 DEF NoRecord
  <2> QED BY <2>4, <2>5, StillStep
<1> QED BY <1>2, <1>3, <1>4, <1>5 DEF Receive

\* What the coordinator sends that tells of no revision.
LEMMA NoWordSent ==
  ASSUME Typed, NEW cs, NEW m \in DownMessages, down' = SendTo(cs, m, down),
         m.type = "answer" => m.kind \notin {"commit", "list"}
  PROVE  NoWord
<1>1. \A c \in Conns : Elements(down'[c]) \subseteq Elements(down[c]) \union {m}
  BY SendToIs DEF Typed
<1> QED BY <1>1 DEF NoWord

\* What the coordinator serves: a commit that is taken stays in play, a page tells of the revision there is.
LEMMA FatedServe == ASSUME Typed, Fated, NEW c \in Conns, Serve(c) PROVE Fated'
<1>1. ASSUME NEW types, types \subseteq Requests, Serves(c, types)
      PROVE  /\ Head(up[c]).id \in Nat /\ \A o \in Conns : Elements(up'[o]) \subseteq Elements(up[o])
             /\ device' = device /\ Head(up[c]).type \in types
             /\ Head(up[c]) \in UpMessages /\ Head(up[c]) \in Elements(up[c])
  BY <1>1, ServedIs, UpMessageIs
<1>2. ASSUME NEW types, types \subseteq Requests, Serves(c, types), awaiting' = awaiting, vault' = vault,
             Spend("faults") \/ UNCHANGED spent, NEW m \in DownMessages, down' = SendTo({c}, m, down),
             m.type = "answer" => m.kind \notin {"commit", "list"}
      PROVE  Fated'
  <2>1. spent'.edits = spent.edits
    BY <1>2, SpendIs
  <2>2. NoEdit /\ NoRecord
    BY <1>1, <1>2, <2>1 DEF NoEdit, NoRecord
  <2>3. NoWord
    BY <1>2, NoWordSent
  <2> QED BY <2>2, <2>3, StillStep
<1>3. CASE ServeHello(c)
  <2>1. Serves(c, {"hello"}) /\ {"hello"} \subseteq Requests /\ awaiting' = awaiting /\ vault' = vault /\ spent' = spent
    BY <1>3 DEF ServeHello, Requests
  <2>2. PICK m \in DownMessages : /\ down' = SendTo({c}, m, down)
                                  /\ m.type = "answer" => m.kind \notin {"commit", "list"}
    <3>1. HelloAck(c).kind = "hello" /\ HelloAck(c) \in DownMessages
      BY <1>1, <2>1, DownMessagesAre DEF HelloAck
    <3>2. [type |-> "session_error", code |-> "cursor_ahead_of_server"] \in DownMessages
      BY DownMessagesAre DEF SessionErrors
    <3>3. \/ down' = SendTo({c}, [type |-> "session_error", code |-> "cursor_ahead_of_server"], down)
          \/ down' = SendTo({c}, HelloAck(c), down)
      BY <1>3 DEF ServeHello
    <3> QED BY <3>1, <3>2, <3>3
  <2> QED BY <1>2, <2>1, <2>2
<1>4. CASE ServeCommit(c)
  <2>1. Serves(c, {"commit"}) /\ {"commit"} \subseteq Requests
    BY <1>4 DEF ServeCommit, Requests
  <2>2. \A m \in Mutations : InPlay(m)' => InPlay(m)
    <3>1. Head(up[c]).type = "commit" /\ Head(up[c]) \in Elements(up[c])
          /\ device' = device /\ \A o \in Conns : Elements(up'[o]) \subseteq Elements(up[o])
      BY <1>1, <2>1
    <3>2. \A w \in awaiting' : w \in awaiting \/ w.mutation = Head(up[c]).mutation
      BY <1>4 DEF ServeCommit
    <3> QED BY <3>1, <3>2 DEF InPlay
  <2>3. NoRecord /\ NoWord
    BY <1>1, <2>1, <1>4 DEF ServeCommit, NoRecord, NoWord
  <2> QED BY <2>2, <2>3, QuietStep
<1>5. CASE ServeList(c)
  <2>1. Serves(c, {"list"}) /\ {"list"} \subseteq Requests /\ awaiting' = awaiting /\ vault' = vault /\ spent' = spent
    BY <1>5 DEF ServeList, Requests
  <2>2. CASE Head(up[c]).since > vault.cursor
    <3>1. Failure("list", Head(up[c]).id) \in DownMessages /\ Failure("list", Head(up[c]).id).type = "failed"
      BY <1>1, <2>1, DownMessagesAre DEF Requests, Failure
    <3>2. down' = SendTo({c}, Failure("list", Head(up[c]).id), down)
      BY <1>5, <2>2 DEF ServeList
    <3> QED BY <1>2, <2>1, <3>1, <3>2
  <2>3. CASE ~(Head(up[c]).since > vault.cursor)
    <3>1. /\ Page(c) \in DownMessages /\ down' = SendTo({c}, Page(c), down)
          /\ Page(c).kind = "list" /\ Page(c).rev = vault.rev
      BY <1>1, <1>5, <2>1, <2>3, DownMessagesAre DEF ServeList, Page
    <3>2. \A o \in Conns : Elements(down'[o]) \subseteq Elements(down[o]) \union {Page(c)}
      BY <3>1, SendToIs DEF Typed
    <3>3. NoEdit /\ NoRecord
      BY <1>1, <2>1 DEF NoEdit, NoRecord
    <3>4. vault.rev = Len(vault.log) /\ Len(vault.log) \in Nat
      BY DEF Fated, LogIsOnce, Typed, VaultStates
    <3>5. \A x \in DownMessages : Told(x)' => Told(x) \/ (x.kind = "list" /\ x.rev = Len(vault.log))
      BY <3>1, <3>2, <3>4 DEF Told
    <3>6. LogIsOnce' /\ PlayIsKnown'
      BY <3>3 DEF NoEdit, NoRecord, Fated, LogIsOnce, PlayIsKnown, InPlay
    <3>7. \A id : (Applied(id)' <=> Applied(id)) /\ (Passed(id) => Passed(id)')
      BY <3>3 DEF NoEdit, NoRecord, Applied, Passed, Last, InPlay
    <3>8. ToldIsTrue'
      <4> SUFFICES ASSUME NEW x \in DownMessages, Told(x)'
                   PROVE  /\ x.rev <= Len(vault'.log)
                          /\ x.kind = "commit" => IF x.stale THEN Passed(x.mutation)' ELSE Applied(x.mutation)'
        BY DEF ToldIsTrue
      <4>1. CASE Told(x)
        BY <4>1, <3>3, <3>7 DEF Fated, ToldIsTrue, NoRecord
      <4>2. CASE x.kind = "list" /\ x.rev = Len(vault.log)
        BY <4>2, <3>3, <3>4 DEF NoRecord
      <4> QED BY <4>1, <4>2, <3>5
    <3>9. DevicesKnow'
      BY <3>3, <3>7 DEF Fated, DevicesKnow, NoRecord
    <3> QED BY <3>6, <3>8, <3>9 DEF Fated
  <2> QED BY <2>2, <2>3
<1>6. CASE ServeGet(c)
  <2>1. Serves(c, {"get"}) /\ {"get"} \subseteq Requests /\ awaiting' = awaiting /\ vault' = vault /\ spent' = spent
    BY <1>6 DEF ServeGet, Requests
  <2>2. PICK m \in DownMessages : /\ down' = SendTo({c}, m, down)
                                  /\ m.type = "answer" => m.kind \notin {"commit", "list"}
    <3>1. Answer(c, "get").kind = "get" /\ Answer(c, "get") \in DownMessages
      BY <1>1, <2>1, DownMessagesAre DEF Answer, Plain
    <3>2. [type |-> "session_error", code |-> "invalid_message"] \in DownMessages
      BY DownMessagesAre DEF SessionErrors
    <3>3. \/ down' = SendTo({c}, [type |-> "session_error", code |-> "invalid_message"], down)
          \/ down' = SendTo({c}, Answer(c, "get"), down)
      BY <1>6 DEF ServeGet
    <3> QED BY <3>1, <3>2, <3>3
  <2> QED BY <1>2, <2>1, <2>2
<1>7. CASE ServeHistory(c)
  <2>1. /\ Serves(c, {"history"}) /\ {"history"} \subseteq Requests /\ awaiting' = awaiting /\ vault' = vault
        /\ Spend("faults") \/ UNCHANGED spent
    BY <1>7 DEF ServeHistory, Requests
  <2>2. PICK m \in DownMessages : /\ down' = SendTo({c}, m, down)
                                  /\ m.type = "answer" => m.kind \notin {"commit", "list"}
    <3>1. Answer(c, "history").kind = "history" /\ Answer(c, "history") \in DownMessages
      BY <1>1, <2>1, DownMessagesAre DEF Answer, Plain
    <3>2. Failure("history", Head(up[c]).id) \in DownMessages /\ Failure("history", Head(up[c]).id).kind = "history"
      BY <1>1, <2>1, DownMessagesAre DEF Failure, Requests
    <3>3. \/ down' = SendTo({c}, Failure("history", Head(up[c]).id), down)
          \/ down' = SendTo({c}, Answer(c, "history"), down)
      BY <1>7 DEF ServeHistory
    <3> QED BY <3>1, <3>2, <3>3
  <2> QED BY <1>2, <2>1, <2>2
<1>8. CASE ServeDetach(c)
  <2>1. /\ Serves(c, {"detach"}) /\ {"detach"} \subseteq Requests /\ awaiting' = awaiting /\ vault' = vault
        /\ Spend("faults") \/ UNCHANGED spent
    BY <1>8 DEF ServeDetach, Requests
  <2>2. PICK m \in DownMessages : /\ down' = SendTo({c}, m, down)
                                  /\ m.type = "answer" => m.kind \notin {"commit", "list"}
    <3>1. Answer(c, "detach").kind = "detach" /\ Answer(c, "detach") \in DownMessages
      BY <1>1, <2>1, DownMessagesAre DEF Answer, Plain
    <3>2. [type |-> "session_error", code |-> "detach_failed"] \in DownMessages
      BY DownMessagesAre DEF SessionErrors
    <3>3. \/ down' = SendTo({c}, [type |-> "session_error", code |-> "detach_failed"], down)
          \/ down' = SendTo({c}, Answer(c, "detach"), down)
      BY <1>8 DEF ServeDetach
    <3> QED BY <3>1, <3>2, <3>3
  <2> QED BY <1>2, <2>1, <2>2
<1>9. CASE ServeHeartbeat(c)
  <2>1. Serves(c, {"heartbeat"}) /\ {"heartbeat"} \subseteq Requests /\ awaiting' = awaiting /\ vault' = vault
        /\ spent' = spent
    BY <1>9 DEF ServeHeartbeat, Requests
  <2>2. /\ Answer(c, "heartbeat").kind = "heartbeat" /\ Answer(c, "heartbeat") \in DownMessages
        /\ down' = SendTo({c}, Answer(c, "heartbeat"), down)
    BY <1>1, <1>9, <2>1, DownMessagesAre DEF ServeHeartbeat, Answer, Plain
  <2> QED BY <1>2, <2>1, <2>2
<1>10. CASE ServeWatch(c)
  <2>1. Serves(c, {"watch", "unwatch"})
    BY <1>10 DEF ServeWatch
  <2>2. NoEdit /\ NoRecord
    BY <1>10, <2>1, ServedIs DEF ServeWatch, NoEdit, NoRecord
  <2>3. StatusMessage(vault) \in DownMessages /\ StatusMessage(vault).type # "answer"
    BY DownMessagesAre DEF StatusMessage
  <2>4. NoWord
    <3>1. CASE down' = SendTo({c}, StatusMessage(vault), down)
      BY <3>1, <2>3, NoWordSent
    <3>2. CASE down' = down
      BY <3>2 DEF NoWord
    <3> QED BY <1>10, <3>1, <3>2 DEF ServeWatch
  <2> QED BY <2>2, <2>4, StillStep
<1>11. CASE ServeClose(c)
  BY <1>11, FatedGone DEF ServeClose
<1> QED BY <1>3, <1>4, <1>5, <1>6, <1>7, <1>8, <1>9, <1>10, <1>11 DEF Serve

\* A commit that fails is no longer in play.
LEMMA FatedCommitFails == ASSUME Typed, Fated, NEW w \in awaiting, CommitFails(w) PROVE Fated'
<1>1. /\ Failure("commit", w.id) \in DownMessages /\ Failure("commit", w.id).type = "failed"
      /\ down' = SendTo({w.conn}, Failure("commit", w.id), down)
  BY DownMessagesAre DEF Typed, Requests, Failure, CommitFails
<1>2. spent'.edits = spent.edits
  BY SpendIs DEF CommitFails
<1>3. NoWord
  BY <1>1, NoWordSent
<1>4. NoEdit /\ NoRecord
  BY <1>2 DEF CommitFails, NoEdit, NoRecord
<1> QED BY <1>3, <1>4, StillStep

\* The policy and the storage used say nothing of an edit.
LEMMA FatedChanges == ASSUME Typed, Fated, PolicyChanges \/ UsageChanges PROVE Fated'
<1>1. spent'.edits = spent.edits
  BY SpendIs DEF PolicyChanges, UsageChanges
<1>2. vault'.log = vault.log /\ vault'.rev = vault.rev
  BY DEF PolicyChanges, UsageChanges, Typed, VaultStates
<1>3. NoEdit /\ NoRecord
  BY <1>1, <1>2 DEF PolicyChanges, UsageChanges, NoEdit, NoRecord
<1>4. vault' \in VaultStates
  BY TypedChanges DEF Typed
<1>5. NoWord
  <2>1. CASE PolicyChanges
    <3> DEFINE m == [type |-> "policy_updated", policy |-> vault'.policy, used |-> vault.used]
    <3>1. m \in [type : {"policy_updated"}, policy : Nat, used : Nat]
      BY <1>4 DEF Typed, VaultStates
    <3>2. m \in DownMessages /\ m.type # "answer"
      BY <3>1 DEF DownMessages
    <3>3. down' = SendTo(Conns, m, down)
      BY <2>1 DEF PolicyChanges, BroadcastPolicy
    <3> HIDE DEF m
    <3> QED BY <3>2, <3>3, NoWordSent
  <2>2. CASE UsageChanges
    <3> DEFINE m == [type |-> "storage_status_updated", used |-> vault'.used]
    <3>1. m \in [type : {"storage_status_updated"}, used : Nat]
      BY <1>4 DEF VaultStates
    <3>2. m \in DownMessages /\ m.type # "answer"
      BY <3>1 DEF DownMessages
    <3>3. \E cs : down' = SendTo(cs, m, down)
      BY <2>2 DEF UsageChanges, BroadcastStorageStatus, StatusMessage
    <3> HIDE DEF m
    <3> QED BY <3>2, <3>3, NoWordSent
  <2> QED BY <2>1, <2>2
<1> QED BY <1>3, <1>5, StillStep

\* An edit is made: it has a number that no other has.
LEMMA FatedEdit == ASSUME Typed, Fated, NEW a \in Apps, Edit(a) PROVE Fated'
<1> DEFINE e == [id |-> spent.edits + 1, base |-> device[a].rev]
<1>1. /\ \A b \in Apps : device'[b] = IF b = a THEN [device[a] EXCEPT !.todo = e] ELSE device[b]
      /\ UNCHANGED <<up, down, awaiting, vault>>
  BY DEF Edit, Typed
<1>2. spent.edits \in Nat /\ spent'.edits = spent.edits + 1 /\ device[a] \in Devices /\ vault.log \in Seq(Nat)
  BY SpendIs DEF Edit, Typed, VaultStates
<1>3. e \in Mutations /\ e.id = spent.edits + 1 /\ e.base <= Len(vault.log)
  BY <1>2 DEF Mutations, Devices, Fated, DevicesKnow
<1>4. \A b \in Apps : /\ device'[b].todo \in {device[b].todo, e} /\ device'[b].rev = device[b].rev
                      /\ device'[b].acked = device[b].acked /\ device'[b].refused = device[b].refused
  <2> SUFFICES ASSUME NEW b \in Apps
               PROVE  /\ device'[b].todo \in {device[b].todo, e} /\ device'[b].rev = device[b].rev
                      /\ device'[b].acked = device[b].acked /\ device'[b].refused = device[b].refused
    OBVIOUS
  <2>1. device[a] \in Devices
    BY DEF Typed
  <2> HIDE DEF e
  <2>2. CASE b = a
    BY <1>1, <2>1, <2>2 DEF Devices
  <2>3. CASE b # a
    BY <1>1, <2>3
  <2> QED BY <2>2, <2>3
<1> HIDE DEF e
<1>5. \A m \in Mutations : InPlay(m)' => InPlay(m) \/ m = e
  BY <1>1, <1>4 DEF InPlay
<1>6. \A m \in Mutations : InPlay(m) => m.id \in 1..spent.edits
  BY DEF Fated, PlayIsKnown
<1>7. LogIsOnce'
  BY <1>1, <1>2 DEF Fated, LogIsOnce
<1>8. PlayIsKnown'
  <2>1. \A m \in Mutations : InPlay(m)' =>
          /\ m.id \in 1..spent'.edits /\ m.base <= Len(vault'.log)
          /\ \A i \in DOMAIN vault'.log : vault'.log[i] = m.id => i = m.base + 1
    <3> SUFFICES ASSUME NEW m \in Mutations, InPlay(m)'
                 PROVE  /\ m.id \in 1..spent.edits + 1 /\ m.base <= Len(vault.log)
                        /\ \A i \in DOMAIN vault.log : vault.log[i] = m.id => i = m.base + 1
      BY <1>1, <1>2
    <3>1. CASE InPlay(m)
      BY <3>1, <1>2 DEF Fated, PlayIsKnown
    <3>2. CASE m = e
      BY <3>2, <1>2, <1>3 DEF Fated, LogIsOnce
    <3> QED BY <1>5, <3>1, <3>2
  <2>2. \A m, n \in Mutations : InPlay(m)' /\ InPlay(n)' /\ m.id = n.id => m = n
    BY <1>2, <1>3, <1>5, <1>6 DEF Fated, PlayIsKnown
  <2> QED BY <2>1, <2>2 DEF PlayIsKnown
<1>9. \A id : (Applied(id) => Applied(id)') /\ (Passed(id) => Passed(id)')
  <2>1. \A id : Applied(id) => Applied(id)'
    BY <1>1 DEF Applied
  <2>2. ASSUME NEW id, Passed(id) PROVE Passed(id)'
    <3>1. id \in 1..spent'.edits /\ Last(vault'.log) # id /\ id # e.id
      BY <2>2, <1>1, <1>2, <1>3 DEF Passed
    <3>2. \A m \in Mutations : InPlay(m)' /\ m.id = id => m.base < Len(vault.log)
      BY <2>2, <1>5, <3>1 DEF Passed
    <3> QED BY <1>1, <3>1, <3>2 DEF Passed
  <2> QED BY <2>1, <2>2
<1>10. ToldIsTrue'
  <2>1. \A x : Told(x)' <=> Told(x)
    BY <1>1 DEF Told
  <2> QED BY <1>1, <1>9, <2>1 DEF Fated, ToldIsTrue
<1>11. DevicesKnow'
  BY <1>1, <1>4, <1>9 DEF Fated, DevicesKnow
<1> QED BY <1>7, <1>8, <1>10, <1>11 DEF Fated

\* An answer is received: the device learns what is true.
LEMMA FatedReceiveAnswer == ASSUME Typed, Fated, NEW c \in Conns, ReceiveAnswer(c) PROVE Fated'
<1> DEFINE m == Head(down[c])
           a == client[c].app
           d == device[a]
<1>1. Receives(c, {"answer"})
  BY DEF ReceiveAnswer
<1>2. /\ \A o \in Conns : Elements(down'[o]) \subseteq Elements(down[o])
      /\ awaiting' = awaiting /\ vault' = vault /\ spent' = spent /\ up' = up
      /\ client[c] \in Clients /\ a \in Apps
      /\ m \in DownMessages /\ m.type = "answer" /\ m \in Elements(down[c])
  BY <1>1, ReceivedIs DEF ReceiveAnswer
<1>3. Answered(client[c], m).app = a
  BY <1>2, AnsweredIs
<1>4. device' = [device EXCEPT ![a] = IF Known(client[c], m.id) THEN Informed(d, m) ELSE d]
  BY <1>3 DEF ReceiveAnswer
<1>5. d \in Devices
  BY <1>2 DEF Typed
<1>6. \A b \in Apps : device'[b] = device[b] \/ (b = a /\ device'[b] = Informed(d, m))
  BY <1>2, <1>4 DEF Typed
<1>7. /\ Informed(d, m).todo \in {d.todo, None}
      /\ Informed(d, m).rev = d.rev \/ (m.kind \in {"list", "commit"} /\ Informed(d, m).rev = m.rev)
      /\ Informed(d, m).acked \subseteq d.acked \union {m.mutation}
      /\ Informed(d, m).refused \subseteq d.refused \union {m.mutation}
      /\ Informed(d, m).acked = d.acked \/ (m.kind = "commit" /\ ~m.stale)
      /\ Informed(d, m).refused = d.refused \/ (m.kind = "commit" /\ m.stale)
  <2>1. CASE m.kind \notin {"hello", "list", "commit"}
    BY <2>1, <1>5 DEF Informed
  <2>2. CASE m.kind = "hello"
    BY <2>2, <1>5 DEF Informed, Devices
  <2>3. CASE m.kind = "list"
    BY <2>3, <1>5 DEF Informed, Devices
  <2>4. CASE m.kind = "commit" /\ m.mutation # d.todo.id
    BY <2>4, <1>5 DEF Informed
  <2>5. CASE m.kind = "commit" /\ m.mutation = d.todo.id /\ m.stale
    <3>1. Informed(d, m) = [d EXCEPT !.todo = None, !.refused = @ \union {m.mutation}]
      BY <2>5 DEF Informed
    <3> QED BY <2>5, <3>1, <1>5 DEF Devices
  <2>6. CASE m.kind = "commit" /\ m.mutation = d.todo.id /\ ~m.stale
    <3>1. Informed(d, m) = [d EXCEPT !.todo = None, !.rev = m.rev, !.heard = Larger(@, m.cursor),
                                     !.acked = @ \union {m.mutation}]
      BY <2>6 DEF Informed
    <3> QED BY <2>6, <3>1, <1>5 DEF Devices
  <2>7. m.kind = "commit" => m.stale \in BOOLEAN
    BY <1>2, DownMessageIs
  <2> QED BY <2>1, <2>2, <2>3, <2>4, <2>5, <2>6, <2>7
<1>8. m.kind \in {"list", "commit"} =>
        /\ m.rev <= Len(vault.log)
        /\ m.kind = "commit" => IF m.stale THEN Passed(m.mutation) ELSE Applied(m.mutation)
  BY <1>2 DEF Fated, ToldIsTrue, Told
<1> HIDE DEF m, d, a
<1>9. \A n \in Mutations : InPlay(n)' => InPlay(n)
  <2>1. \A b \in Apps : device'[b].todo \in {device[b].todo, None}
    BY <1>6, <1>7 DEF d
  <2> QED BY <1>2, <2>1 DEF InPlay
<1>10. \A id : (Applied(id) => Applied(id)') /\ (Passed(id) => Passed(id)')
  BY <1>2, <1>9 DEF Applied, Passed
<1>11. LogIsOnce' /\ PlayIsKnown'
  BY <1>2, <1>9 DEF Fated, LogIsOnce, PlayIsKnown
<1>12. ToldIsTrue'
  <2>1. \A x : Told(x)' => Told(x)
    BY <1>2 DEF Told
  <2> QED BY <1>2, <1>10, <2>1 DEF Fated, ToldIsTrue
<1>13. DevicesKnow'
  <2> SUFFICES ASSUME NEW b \in Apps
               PROVE  /\ device'[b].rev <= Len(vault.log)
                      /\ \A id \in device'[b].acked : Applied(id)
                      /\ \A id \in device'[b].refused : Passed(id)
    BY <1>2, <1>10 DEF DevicesKnow
  <2>1. CASE device'[b] = device[b]
    BY <2>1 DEF Fated, DevicesKnow
  <2>2. CASE b = a /\ device'[b] = Informed(d, m)
    BY <2>2, <1>7, <1>8 DEF Fated, DevicesKnow, d
  <2> QED BY <1>6, <2>1, <2>2
<1> QED BY <1>11, <1>12, <1>13 DEF Fated

\* A commit returns: the edit is in the log, or something else is and the edit cannot get there.
LEMMA FatedCommitReturns ==
  ASSUME Typed, Fated, NEW w \in awaiting, CommitReturns(w)
  PROVE  Fated'
<1> DEFINE n == w.mutation
           L == vault.log
<1>1. /\ n \in Mutations /\ CommitAnswer(w) \in DownMessages /\ Announcement(w) \in DownMessages
      /\ AfterAnswer(w) \in [Conns -> Seq(DownMessages)]
      /\ down' = IF Outcome(n) = "applied"
                 THEN SendTo(Conns \ {w.conn}, Announcement(w), AfterAnswer(w)) ELSE AfterAnswer(w)
      /\ vault' = Committed(n) /\ awaiting' = awaiting \ {w}
  BY CommitReturnsIs
<1>2. /\ up' = up /\ device' = device /\ spent' = spent
      /\ vault \in VaultStates /\ L \in Seq(Nat) /\ Len(L) \in Nat /\ vault.rev = Len(L)
      /\ vault' \in VaultStates /\ spent.edits \in Nat
  <2>1. vault' \in VaultStates
    BY <1>1, CommittedIs
  <2>2. vault \in VaultStates /\ spent.edits \in Nat
    BY DEF Typed
  <2>3. L \in Seq(Nat)
    BY <2>2 DEF VaultStates
  <2> QED BY <2>1, <2>2, <2>3 DEF CommitReturns, Fated, LogIsOnce
<1>3. InPlay(n) /\ \A m \in Mutations : InPlay(m)' => InPlay(m)
  BY <1>1, <1>2 DEF InPlay
<1>4. /\ n.id \in 1..spent.edits /\ n.base <= Len(L) /\ n.id \in Nat /\ n.base \in Nat
      /\ \A i \in DOMAIN L : L[i] = n.id => i = n.base + 1
      /\ \A m \in Mutations : InPlay(m) /\ m.id = n.id => m = n
  BY <1>1, <1>3 DEF Fated, PlayIsKnown, Mutations
<1>5. \A c \in Conns : \A x \in Elements(down'[c]) : x \in Elements(down[c]) \/ x \in {CommitAnswer(w), Announcement(w)}
  <2>1. \A c \in Conns : Elements(AfterAnswer(w)[c]) \subseteq Elements(down[c]) \union {CommitAnswer(w)}
    BY <1>1, SendToIs DEF AfterAnswer, Typed
  <2>2. \A c \in Conns : Elements(SendTo(Conns \ {w.conn}, Announcement(w), AfterAnswer(w))[c])
                           \subseteq Elements(AfterAnswer(w)[c]) \union {Announcement(w)}
    BY <1>1, SendToIs
  <2> QED BY <1>1, <2>1, <2>2
<1>6. \A x : Told(x)' => Told(x) \/ x = CommitAnswer(w)
  BY <1>5 DEF Told, Announcement
<1>7. /\ CommitAnswer(w).kind = "commit" /\ CommitAnswer(w).mutation = n.id
      /\ CommitAnswer(w).rev = vault'.rev /\ (CommitAnswer(w).stale <=> Outcome(n) = "stale")
  BY <1>1 DEF CommitAnswer
<1>8. Outcome(n) \in {"again", "stale", "applied"}
  BY <1>1, CommittedIs
\* What the coordinator makes of the mutation decides the rest.
<1>9. ASSUME LogIsOnce', PlayIsKnown', Len(L) <= Len(vault'.log),
             \A id : Applied(id) => Applied(id)', \A id : Passed(id) => Passed(id)',
             IF Outcome(n) = "stale" THEN Passed(n.id)' ELSE Applied(n.id)'
      PROVE  Fated'
  <2>1. vault'.rev = Len(vault'.log) /\ Len(vault'.log) \in Nat
    BY <1>2, <1>9 DEF LogIsOnce, VaultStates
  <2>2. ToldIsTrue'
    <3> SUFFICES ASSUME NEW x \in DownMessages, Told(x)'
                 PROVE  /\ x.rev <= Len(vault'.log)
                        /\ x.kind = "commit" => IF x.stale THEN Passed(x.mutation)' ELSE Applied(x.mutation)'
      BY DEF ToldIsTrue
    <3>1. CASE Told(x)
      <4>1. /\ x.rev <= Len(L)
            /\ x.kind = "commit" => IF x.stale THEN Passed(x.mutation) ELSE Applied(x.mutation)
        BY <3>1 DEF Fated, ToldIsTrue
      <4>2. x.rev \in Nat
        BY <3>1, DownMessageIs DEF Told
      <4> QED BY <4>1, <4>2, <1>2, <1>9, <2>1
    <3>2. CASE x = CommitAnswer(w)
      BY <3>2, <1>7, <1>9, <2>1
    <3> QED BY <1>6, <3>1, <3>2
  <2>3. DevicesKnow'
    <3> SUFFICES ASSUME NEW a \in Apps
                 PROVE  /\ device[a].rev <= Len(vault'.log)
                        /\ \A id \in device[a].acked : Applied(id)'
                        /\ \A id \in device[a].refused : Passed(id)'
      BY <1>2 DEF DevicesKnow
    <3>1. device[a].rev <= Len(L) /\ device[a].rev \in Nat
      BY DEF Fated, DevicesKnow, Typed, Devices
    <3>2. device[a].rev <= Len(vault'.log)
      BY <3>1, <2>1, <1>2, <1>9
    <3>3. (\A id \in device[a].acked : Applied(id)) /\ (\A id \in device[a].refused : Passed(id))
      BY DEF Fated, DevicesKnow
    <3> QED BY <3>2, <3>3, <1>9
  <2> QED BY <1>9, <2>2, <2>3 DEF Fated
<1>10. CASE Outcome(n) = "applied"
  <2>1. /\ vault'.log = Append(L, n.id) /\ vault'.rev = Len(L) + 1
        /\ Last(L) # n.id /\ n.base = Len(L)
    BY <1>1, <1>2, <1>10, CommittedIs DEF Outcome
  <2>2. /\ Len(vault'.log) = Len(L) + 1 /\ DOMAIN vault'.log = 1..Len(L) + 1 /\ DOMAIN L = 1..Len(L)
        /\ vault'.log[Len(L) + 1] = n.id /\ \A i \in 1..Len(L) : vault'.log[i] = L[i]
    BY <2>1, <1>2, <1>4
  <2>3. \A i \in 1..Len(L) : L[i] # n.id
    <3> SUFFICES ASSUME NEW i \in 1..Len(L), L[i] = n.id PROVE FALSE
      OBVIOUS
    <3>1. i = n.base + 1
      BY <1>4, <2>2
    <3> QED BY <3>1, <1>2, <1>4, <2>1
  <2>4. LogIsOnce'
    <3>1. vault'.rev = Len(vault'.log)
      BY <2>1, <2>2
    <3>2. \A i \in DOMAIN vault'.log : vault'.log[i] \in 1..spent'.edits
      <4> SUFFICES ASSUME NEW i \in 1..Len(L) + 1 PROVE vault'.log[i] \in 1..spent.edits
        BY <1>2, <2>2
      <4>1. CASE i = Len(L) + 1
        BY <4>1, <1>4, <2>2
      <4>2. CASE i # Len(L) + 1
        <5>1. i \in 1..Len(L)
          BY <4>2, <1>2
        <5> QED BY <5>1, <2>2 DEF Fated, LogIsOnce
      <4> QED BY <4>1, <4>2
    <3>3. \A i, j \in DOMAIN vault'.log : vault'.log[i] = vault'.log[j] => i = j
      <4> SUFFICES ASSUME NEW i \in 1..Len(L) + 1, NEW j \in 1..Len(L) + 1, vault'.log[i] = vault'.log[j]
                   PROVE  i = j
        BY <2>2
      <4>1. CASE i = Len(L) + 1 \/ j = Len(L) + 1
        <5>1. \A k \in 1..Len(L) + 1 : vault'.log[k] = n.id => k = Len(L) + 1
          <6> TAKE k \in 1..Len(L) + 1
          <6>1. k # Len(L) + 1 => k \in 1..Len(L)
            BY <1>2
          <6> QED BY <2>2, <2>3, <6>1
        <5> QED BY <4>1, <2>2, <5>1
      <4>2. CASE i # Len(L) + 1 /\ j # Len(L) + 1
        <5>1. i \in 1..Len(L) /\ j \in 1..Len(L)
          BY <4>2, <1>2
        <5> QED BY <5>1, <2>2 DEF Fated, LogIsOnce
      <4> QED BY <4>1, <4>2
    <3> QED BY <3>1, <3>2, <3>3 DEF LogIsOnce
  <2>5. PlayIsKnown'
    <3>1. ASSUME NEW m \in Mutations, InPlay(m)
          PROVE  /\ m.id \in 1..spent.edits /\ m.base <= Len(L) + 1
                 /\ \A i \in 1..Len(L) + 1 : vault'.log[i] = m.id => i = m.base + 1
      <4>1. /\ m.id \in 1..spent.edits /\ m.base <= Len(L) /\ m.base \in Nat
            /\ \A i \in DOMAIN L : L[i] = m.id => i = m.base + 1
        BY <3>1 DEF Fated, PlayIsKnown, Mutations
      <4>2. ASSUME NEW i \in 1..Len(L) + 1, vault'.log[i] = m.id PROVE i = m.base + 1
        <5>1. CASE i = Len(L) + 1
          BY <5>1, <4>2, <3>1, <2>1, <2>2, <1>4
        <5>2. CASE i # Len(L) + 1
          <6>1. i \in 1..Len(L)
            BY <5>2, <1>2
          <6> QED BY <6>1, <4>1, <4>2, <2>2
        <5> QED BY <5>1, <5>2
      <4> QED BY <4>1, <4>2, <1>2
    <3>2. \A m, k \in Mutations : InPlay(m)' /\ InPlay(k)' /\ m.id = k.id => m = k
      BY <1>3 DEF Fated, PlayIsKnown
    <3> QED BY <3>1, <3>2, <1>2, <1>3, <2>2 DEF PlayIsKnown
  <2>6. \A id : Applied(id) => Applied(id)'
    BY <2>2 DEF Applied
  <2>7. Applied(n.id)'
    <3>1. Len(L) + 1 \in DOMAIN vault'.log
      BY <2>2, <1>2
    <3> QED BY <3>1, <2>2 DEF Applied
  <2>8. ASSUME NEW id, Passed(id) PROVE Passed(id)'
    <3>1. id \in 1..spent.edits /\ \A m \in Mutations : InPlay(m) /\ m.id = id => m.base < Len(L)
      BY <2>8 DEF Passed
    <3>2. id # n.id
      BY <3>1, <1>1, <1>2, <1>3, <2>1
    <3>3. Last(vault'.log) = n.id
      <4>1. vault'.log # <<>>
        <5>1. Len(vault'.log) # 0 /\ Len(<<>>) = 0
          BY <2>2, <1>2
        <5> QED BY <5>1
      <4> QED BY <4>1, <2>2 DEF Last
    <3>4. \A m \in Mutations : InPlay(m)' /\ m.id = id => m.base < Len(vault'.log)
      BY <3>1, <1>2, <1>3, <2>2 DEF Mutations
    <3> QED BY <3>1, <3>2, <3>3, <3>4, <1>2 DEF Passed
  <2>9. Len(L) <= Len(vault'.log)
    BY <2>2, <1>2
  <2> QED BY <1>9, <1>10, <2>4, <2>5, <2>6, <2>7, <2>8, <2>9
<1>11. CASE Outcome(n) # "applied"
  <2>1. vault' = vault
    BY <1>1, <1>11, CommittedIs
  <2>2. LogIsOnce' /\ PlayIsKnown'
    BY <2>1, <1>2, <1>3 DEF Fated, LogIsOnce, PlayIsKnown
  <2>3. \A id : (Applied(id) => Applied(id)') /\ (Passed(id) => Passed(id)')
    BY <2>1, <1>2, <1>3 DEF Applied, Passed
  <2>4. CASE Outcome(n) = "stale"
    <3>1. Last(L) # n.id /\ n.base # Len(L)
      BY <2>4, <1>2 DEF Outcome
    <3>2. n.base < Len(L)
      BY <3>1, <1>2, <1>4
    <3>3. Passed(n.id)
      BY <3>1, <3>2, <1>4 DEF Passed
    <3> QED BY <1>9, <2>1, <2>2, <2>3, <2>4, <3>3, <1>2
  <2>5. CASE Outcome(n) = "again"
    <3>1. Last(L) = n.id
      BY <2>5 DEF Outcome
    <3>2. Len(L) \in DOMAIN L /\ L[Len(L)] = n.id
      BY <3>1, <1>2, <1>4 DEF Last
    <3>3. Applied(n.id)
      BY <3>2 DEF Applied
    <3> QED BY <1>9, <2>1, <2>2, <2>3, <2>5, <3>3, <1>2
  <2> QED BY <1>8, <1>11, <2>4, <2>5
<1> QED BY <1>10, <1>11

\* At first nothing was edited.
LEMMA FatedInit == Init => Fated
<1> SUFFICES ASSUME Init PROVE Fated
  OBVIOUS
<1>1. Typed
  BY TypedInit
<1>2. vault.log = <<>> /\ vault.rev = 0 /\ awaiting = {}
      /\ \A c \in Conns : up[c] = <<>> /\ down[c] = <<>>
  BY DEF Init
<1>3. \A a \in Apps : device[a].rev = 0 /\ device[a].todo = None /\ device[a].acked = {} /\ device[a].refused = {}
  BY DEF Init
<1>4. Elements(<<>>) = {} /\ Len(<<>>) = 0 /\ DOMAIN vault.log = {}
  BY <1>2 DEF Elements
<1>5. \A m : ~InPlay(m) /\ ~Told(m)
  BY <1>2, <1>3, <1>4 DEF InPlay, Told
<1> QED BY <1>2, <1>3, <1>4, <1>5 DEF Fated, LogIsOnce, PlayIsKnown, ToldIsTrue, DevicesKnow

\* Every step keeps what is known of the fates of edits.
LEMMA FatedStep == Typed /\ Fated /\ [Next]_vars => Fated'
<1> SUFFICES ASSUME Typed, Fated, [Next]_vars PROVE Fated'
  OBVIOUS
<1>1. CASE UNCHANGED vars
  <2>1. NoEdit /\ NoWord /\ NoRecord
    BY <1>1 DEF vars, NoEdit, NoWord, NoRecord
  <2> QED BY <2>1, StillStep
<1>2. ASSUME NEW a \in Apps, OpenSession(a) \/ Edit(a) PROVE Fated'
  BY <1>2, FatedOpenSession, FatedEdit
<1>3. ASSUME NEW c \in Conns,
             \/ OpenFails(c) \/ Ask(c) \/ Beat(c) \/ TimeOut(c) \/ Close(c)
             \/ Receive(c) \/ Accept(c) \/ Serve(c) \/ CloseEnds(c)
             \/ ServerNotices(c) \/ Cut(c)
      PROVE  Fated'
  <2>1. CASE OpenFails(c) \/ TimeOut(c) \/ Close(c) \/ Cut(c)
    BY <2>1, FatedEnds
  <2>2. CASE Ask(c) \/ Beat(c) \/ Accept(c) \/ Serve(c)
    BY <2>2, FatedAsk, FatedBeat, FatedAccept, FatedServe
  <2>3. CASE Receive(c)
    BY <2>3, FatedReceiveAnswer, FatedReceives
  <2>4. CASE CloseEnds(c) \/ ServerNotices(c)
    BY <2>4, FatedGone DEF CloseEnds, ServerNotices
  <2> QED BY <1>3, <2>1, <2>2, <2>3, <2>4
<1>4. ASSUME NEW w \in awaiting, CommitReturns(w) \/ CommitFails(w) PROVE Fated'
  BY <1>4, FatedCommitReturns, FatedCommitFails
<1>5. CASE PolicyChanges \/ UsageChanges \/ Restart
  BY <1>5, FatedChanges, FatedRestart
<1> QED BY <1>1, <1>2, <1>3, <1>4, <1>5 DEF Next

\* An edit is committed at most once however often it is sent, a device is told so only if it is,
\* and is told its edit is stale only if another edit has been committed over it: for every number
\* of plugins, connections, edits, retries and faults (commitMutations, handleMessage).
THEOREM EveryEditHasOneFate == Spec => []CommitsAreKnown
<1>1. Init => Typed /\ Fated
  BY TypedInit, FatedInit
<1>2. Typed /\ Fated /\ [Next]_vars => (Typed /\ Fated)'
  BY TypedStep, FatedStep
<1>3. Fated => CommitsAreKnown
  BY DEF Fated, LogIsOnce, DevicesKnow, Applied, Passed, CommitsAreKnown
<1> QED BY <1>1, <1>2, <1>3, PTL DEF Spec

-----------------------------------------------------------------------------
(* Sessions end, answer and give way as they should.  A request is flying   *)
(* from the time it is sent until its answer, or its failure, is received.  *)

Items == [id : Nat, kind : Requests]
Carries(x) == x.type \in Requests \union {"answer", "failed"}
Ids(s) == {x.id : x \in {y \in Elements(s) : Carries(y)}}
\* No two messages of s carry the same number.
Single(s) == \A i, j \in DOMAIN s : Carries(s[i]) /\ Carries(s[j]) /\ s[i].id = s[j].id => i = j

Waiting(c) == {w.id : w \in {v \in awaiting : v.conn = c}}
Flying(c, f) ==
  \/ \E x \in Elements(up[c]) : x.type \in Requests /\ x.type = f.kind /\ x.id = f.id
  \/ f.kind = "commit" /\ f.id \in Waiting(c)
  \/ \E x \in Elements(down[c]) : x.type \in {"answer", "failed"} /\ x.kind = f.kind /\ x.id = f.id

\* A request is in one place.
Once(c) ==
  /\ Single(up[c]) /\ Single(down[c])
  /\ \A v, w \in awaiting : v.conn = c /\ w.conn = c /\ v.id = w.id => v = w
  /\ Ids(up[c]) \cap Ids(down[c]) = {}
  /\ Ids(up[c]) \cap Waiting(c) = {} /\ Ids(down[c]) \cap Waiting(c) = {}

\* The numbers of requests: only a heartbeat has 0, and every other has one of its own.
Numbering(r, n) == r.id < n /\ (r.id = 0 <=> r.kind = "heartbeat")

\* What an open session waits for, and what flies.
Ledger(c) ==
  ~Closed(client[c]) =>
    /\ client[c].next > 0
    /\ \A r \in client[c].pending : Numbering(r, client[c].next)
    /\ \A r, q \in client[c].pending : r.id = q.id => r = q
    /\ \A f \in Items : Flying(c, f) =>
         /\ Numbering(f, client[c].next)
         /\ \A r \in client[c].pending : r.id = f.id => r = f
    /\ client[c].errors = {} => Once(c) /\ \A f \in Items : Flying(c, f) => f \in client[c].pending

\* A connection that was not opened yet.
Blank(c) ==
  client[c].phase = "unused" => /\ server[c].state = "none" /\ up[c] = <<>> /\ down[c] = <<>>
                                /\ Waiting(c) = {}

EndIsCounted(c) ==
  /\ client[c].phase = "closed" => client[c].ends = IF client[c].own THEN 0 ELSE 1
  /\ client[c].phase # "closed" => client[c].ends = 0 /\ ~client[c].own
  /\ Closed(client[c]) => client[c].pending = {}

\* What the server can do is all that the client asks of it.
Versed(c) ==
  /\ client[c].features \subseteq vault.features /\ "invalid_message" \notin client[c].errors
  /\ \A x \in Elements(down[c]) : /\ x.type = "answer" /\ x.kind = "hello" => x.features \subseteq vault.features
                                  /\ x.type = "session_error" => x.code # "invalid_message"
  /\ \A x \in Elements(up[c]) : x.type = "get" => "get" \in vault.features

Kept(c) == /\ Ledger(c) /\ Blank(c) /\ EndIsCounted(c) /\ Versed(c)
           /\ ~client[c].strays /\ ~client[c].crossed

Sound == (\A c \in Conns : Kept(c)) /\ OneSocketPerLocalVault

\* What changes of a sequence can do to the numbers it carries.
Lighter(t, s) == (Single(s) => Single(t)) /\ \A x \in Elements(t) : Carries(x) => x \in Elements(s)

\* What becomes of the numbers in a sequence that grows, or is read.
LEMMA SinglesAre ==
  ASSUME NEW S, NEW s \in Seq(S)
  PROVE  /\ Single(<<>>) /\ Elements(<<>>) = {} /\ Lighter(s, s) /\ Lighter(<<>>, s)
         /\ \A x \in S : /\ Single(s) /\ (Carries(x) => x.id \notin Ids(s)) => Single(Append(s, x))
                         /\ ~Carries(x) => Lighter(Append(s, x), s)
         /\ s # <<>> => /\ Lighter(Tail(s), s)
                        /\ Single(s) /\ Carries(Head(s)) => Head(s).id \notin Ids(Tail(s))
<1>1. Single(<<>>) /\ Elements(<<>>) = {} /\ Lighter(s, s) /\ Lighter(<<>>, s)
  BY DEF Single, Elements, Lighter
<1>2. ASSUME NEW x \in S
      PROVE  /\ Single(s) /\ (Carries(x) => x.id \notin Ids(s)) => Single(Append(s, x))
             /\ ~Carries(x) => Lighter(Append(s, x), s)
  <2> DEFINE t == Append(s, x)
  <2>1. /\ Len(s) \in Nat /\ DOMAIN t = 1..Len(s) + 1 /\ DOMAIN s = 1..Len(s)
        /\ t[Len(s) + 1] = x /\ \A i \in 1..Len(s) : t[i] = s[i]
    OBVIOUS
  <2>2. \A i \in 1..Len(s) : Carries(s[i]) => s[i].id \in Ids(s)
    BY <2>1 DEF Ids, Elements
  <2> HIDE DEF t
  <2>3. ASSUME Single(s), Carries(x) => x.id \notin Ids(s) PROVE Single(t)
    <3> SUFFICES ASSUME NEW i \in 1..Len(s) + 1, NEW j \in 1..Len(s) + 1,
                        Carries(t[i]), Carries(t[j]), t[i].id = t[j].id
                 PROVE  i = j
      BY <2>1 DEF Single
    <3>1. CASE i = Len(s) + 1 /\ j # Len(s) + 1
      <4>1. j \in 1..Len(s)
        BY <3>1, <2>1
      <4> QED BY <3>1, <4>1, <2>1, <2>2, <2>3
    <3>2. CASE j = Len(s) + 1 /\ i # Len(s) + 1
      <4>1. i \in 1..Len(s)
        BY <3>2, <2>1
      <4> QED BY <3>2, <4>1, <2>1, <2>2, <2>3
    <3>3. CASE i # Len(s) + 1 /\ j # Len(s) + 1
      <4>1. i \in 1..Len(s) /\ j \in 1..Len(s)
        BY <3>3, <2>1
      <4> QED BY <4>1, <2>1, <2>3 DEF Single
    <3> QED BY <3>1, <3>2, <3>3
  <2>4. ASSUME ~Carries(x) PROVE Lighter(t, s)
    <3>1. Elements(t) = Elements(s) \union {x}
      BY ElementsAre DEF t
    <3> QED BY <2>3, <2>4, <3>1 DEF Lighter
  <2> QED BY <2>3, <2>4 DEF t
<1>3. ASSUME s # <<>>
      PROVE  /\ Lighter(Tail(s), s)
             /\ Single(s) /\ Carries(Head(s)) => Head(s).id \notin Ids(Tail(s))
  <2> DEFINE t == Tail(s)
  <2>1. /\ Len(s) \in Nat /\ 1 \in DOMAIN s /\ Head(s) = s[1]
        /\ \A i \in DOMAIN t : i + 1 \in DOMAIN s /\ t[i] = s[i + 1] /\ i \in Nat /\ i # 0
    BY <1>3
  <2>2. Elements(t) \subseteq Elements(s)
    BY <1>3, ElementsAre
  <2> HIDE DEF t
  <2>3. Single(s) => Single(t)
    <3> SUFFICES ASSUME Single(s), NEW i \in DOMAIN t, NEW j \in DOMAIN t,
                        Carries(t[i]), Carries(t[j]), t[i].id = t[j].id
                 PROVE  i = j
      BY DEF Single
    <3>1. i + 1 = j + 1
      BY <2>1 DEF Single
    <3> QED BY <3>1, <2>1
  <2>4. ASSUME Single(s), Carries(Head(s)), Head(s).id \in Ids(t) PROVE FALSE
    <3>1. PICK i \in DOMAIN t : Carries(t[i]) /\ t[i].id = Head(s).id
      BY <2>4 DEF Ids, Elements
    <3>2. i + 1 = 1
      BY <2>1, <2>4, <3>1 DEF Single
    <3> QED BY <2>1, <3>2
  <2> QED BY <2>2, <2>3, <2>4 DEF Lighter, t
<1> QED BY <1>1, <1>2, <1>3

\* Two messages that carry no number.
LEMMA LighterTwice ==
  ASSUME NEW S, NEW s \in Seq(S), NEW x \in S, NEW y \in S, ~Carries(x), ~Carries(y)
  PROVE  Lighter(s \o <<x, y>>, s)
<1>1. s \o <<x, y>> = Append(Append(s, x), y)
  OBVIOUS
<1>2. Append(s, x) \in Seq(S) /\ Lighter(Append(s, x), s)
  BY SinglesAre
<1>3. Lighter(Append(Append(s, x), y), Append(s, x))
  BY <1>2, SinglesAre
<1> QED BY <1>1, <1>2, <1>3 DEF Lighter

\* What the numbers of a lighter sequence are.
LEMMA LighterIds ==
  ASSUME NEW s, NEW t, Lighter(t, s)
  PROVE  Ids(t) \subseteq Ids(s)
  BY DEF Lighter, Ids

\* A message that carries no number, to any of the sockets.
LEMMA LighterSent ==
  ASSUME NEW d \in [Conns -> Seq(DownMessages)], NEW cs, NEW m \in DownMessages, NEW c \in Conns,
         ~Carries(m) \/ c \notin cs \/ ~Reaches(c)
  PROVE  Lighter(SendTo(cs, m, d)[c], d[c])
<1>1. SendTo(cs, m, d)[c] = IF c \in cs /\ Reaches(c) THEN Append(d[c], m) ELSE d[c]
  BY DEF SendTo
<1>2. Lighter(d[c], d[c]) /\ (~Carries(m) => Lighter(Append(d[c], m), d[c]))
  BY SinglesAre
<1> QED BY <1>1, <1>2

\* The part of a client that its ledger is about.
SameBook(c) == /\ client'[c].pending = client[c].pending /\ client'[c].next = client[c].next
               /\ client'[c].errors = client[c].errors

\* A step that makes nothing fly keeps the ledger of a session.
LEMMA MoveLedger ==
  ASSUME NEW c \in Conns, Ledger(c), ~Closed(client[c]), SameBook(c),
         \A f \in Items : Flying(c, f)' => Flying(c, f),
         Once(c) => Once(c)'
  PROVE  Ledger(c)'
<1>1. /\ client[c].next > 0
      /\ \A r \in client[c].pending : Numbering(r, client[c].next)
      /\ \A r, q \in client[c].pending : r.id = q.id => r = q
      /\ \A f \in Items : Flying(c, f) =>
           /\ Numbering(f, client[c].next)
           /\ \A r \in client[c].pending : r.id = f.id => r = f
      /\ client[c].errors = {} => Once(c) /\ \A f \in Items : Flying(c, f) => f \in client[c].pending
  BY DEF Ledger
<1>2. /\ client'[c].next > 0
      /\ \A r \in client'[c].pending : Numbering(r, client'[c].next)
      /\ \A r, q \in client'[c].pending : r.id = q.id => r = q
      /\ \A f \in Items : Flying(c, f)' =>
           /\ Numbering(f, client'[c].next)
           /\ \A r \in client'[c].pending : r.id = f.id => r = f
      /\ client'[c].errors = {} => Once(c)' /\ \A f \in Items : Flying(c, f)' => f \in client'[c].pending
  BY <1>1 DEF SameBook
<1> QED BY <1>2 DEF Ledger, Numbering

\* What a lighter traffic keeps.
Calm(c) == /\ Lighter(up'[c], up[c]) /\ Lighter(down'[c], down[c])
           /\ \A w \in awaiting' : w.conn = c => w \in awaiting

\* Under a lighter traffic nothing new flies, and a request is still in one place.
LEMMA CalmIs ==
  ASSUME NEW c \in Conns, Calm(c)
  PROVE  /\ \A f \in Items : Flying(c, f)' => Flying(c, f)
         /\ Once(c) => Once(c)'
<1>1. Waiting(c)' \subseteq Waiting(c)
  BY DEF Calm, Waiting
<1>2. Ids(up'[c]) \subseteq Ids(up[c]) /\ Ids(down'[c]) \subseteq Ids(down[c])
  BY LighterIds DEF Calm
<1>3. ASSUME NEW f \in Items, Flying(c, f)' PROVE Flying(c, f)
  BY <1>1, <1>3 DEF Flying, Calm, Lighter, Carries, Requests
<1>4. ASSUME Once(c) PROVE Once(c)'
  <2>1. Single(up'[c]) /\ Single(down'[c])
    BY <1>4 DEF Once, Calm, Lighter
  <2>2. \A v, w \in awaiting' : v.conn = c /\ w.conn = c /\ v.id = w.id => v = w
    BY <1>4 DEF Once, Calm
  <2>3. Ids(up'[c]) \cap Ids(down'[c]) = {} /\ Ids(up'[c]) \cap Waiting(c)' = {}
        /\ Ids(down'[c]) \cap Waiting(c)' = {}
    BY <1>1, <1>2, <1>4 DEF Once
  <2> QED BY <2>1, <2>2, <2>3 DEF Once
<1> QED BY <1>3, <1>4

\* The ledger of a session that goes on as it was, or ends.
LEMMA QuietLedger ==
  ASSUME NEW c \in Conns, Ledger(c), Calm(c),
         Closed(client'[c]) \/ (~Closed(client[c]) /\ SameBook(c))
  PROVE  Ledger(c)'
<1>1. CASE Closed(client'[c])
  BY <1>1 DEF Ledger, Closed
<1>2. CASE ~Closed(client[c]) /\ SameBook(c)
  BY <1>2, CalmIs, MoveLedger
<1> QED BY <1>1, <1>2

\* A number that is under way is that of a request that flies.
LEMMA IdsFly ==
  ASSUME Typed, NEW c \in Conns, NEW n, n \in Ids(up[c]) \/ n \in Waiting(c) \/ n \in Ids(down[c])
  PROVE  \E f \in Items : Flying(c, f) /\ f.id = n
<1>1. ASSUME n \in Ids(up[c]) PROVE \E f \in Items : Flying(c, f) /\ f.id = n
  <2>1. PICK x \in Elements(up[c]) : Carries(x) /\ x.id = n
    BY <1>1 DEF Ids
  <2>2. x \in UpMessages
    BY ElementsAre DEF Typed
  <2>3. x.type \in Requests /\ n \in Nat
    BY <2>1, <2>2, UpMessageIs DEF Carries, Requests, Notifications
  <2>4. [id |-> n, kind |-> x.type] \in Items /\ Flying(c, [id |-> n, kind |-> x.type])
    BY <2>1, <2>3 DEF Items, Flying
  <2> QED BY <2>4
<1>2. ASSUME n \in Waiting(c) PROVE \E f \in Items : Flying(c, f) /\ f.id = n
  <2>1. n \in Nat
    BY <1>2 DEF Waiting, Typed
  <2>2. [id |-> n, kind |-> "commit"] \in Items /\ Flying(c, [id |-> n, kind |-> "commit"])
    BY <1>2, <2>1 DEF Items, Flying, Requests
  <2> QED BY <2>2
<1>3. ASSUME n \in Ids(down[c]) PROVE \E f \in Items : Flying(c, f) /\ f.id = n
  <2>1. PICK x \in Elements(down[c]) : Carries(x) /\ x.id = n
    BY <1>3 DEF Ids
  <2>2. x \in DownMessages
    BY ElementsAre DEF Typed
  <2>3. x.type \in {"answer", "failed"}
    BY <2>1, <2>2 DEF Carries, Requests, DownMessages
  <2>4. x.kind \in Requests /\ n \in Nat
    BY <2>1, <2>2, <2>3, DownMessageIs
  <2>5. [id |-> n, kind |-> x.kind] \in Items /\ Flying(c, [id |-> n, kind |-> x.kind])
    BY <2>1, <2>3, <2>4 DEF Items, Flying
  <2> QED BY <2>5
<1> QED BY <1>1, <1>2, <1>3

\* A request leaves: it has a number that no other has.
LEMMA AskLedger ==
  ASSUME Typed, NEW c \in Conns, Ledger(c), ~Closed(client[c]), NEW q \in Items,
         NEW m \in UpMessages, m.type = q.kind, m.id = q.id,
         client'[c].pending = client[c].pending \union {q},
         client'[c].next \in Nat, client'[c].next >= client[c].next, Numbering(q, client'[c].next),
         \A r \in client[c].pending : r.id # q.id,
         \A f \in Items : Flying(c, f) /\ f.id = q.id => f = q,
         client'[c].errors = client[c].errors,
         up'[c] = ToServer(c, m), Lighter(down'[c], down[c]), awaiting' = awaiting
  PROVE  Ledger(c)'
<1> DEFINE n == client[c].next
           k == client'[c].next
           P == client[c].pending
<1>1. n \in Nat /\ k \in Nat /\ k >= n /\ n > 0 /\ P \subseteq Items /\ up[c] \in Seq(UpMessages)
  BY DEF Typed, Clients, Items, Ledger
<1>2. /\ \A r \in P : Numbering(r, n)
      /\ \A r, s \in P : r.id = s.id => r = s
      /\ \A f \in Items : Flying(c, f) => Numbering(f, n) /\ \A r \in P : r.id = f.id => r = f
      /\ client[c].errors = {} => Once(c) /\ \A f \in Items : Flying(c, f) => f \in P
  BY DEF Ledger
<1>3. /\ Elements(up'[c]) \subseteq Elements(up[c]) \union {m}
  BY ToServerIs
<1>4. Waiting(c)' = Waiting(c) /\ \A x \in Elements(down'[c]) : Carries(x) => x \in Elements(down[c])
  BY DEF Waiting, Lighter
<1>5. ASSUME NEW f \in Items, Flying(c, f)' PROVE Flying(c, f) \/ f = q
  <2>1. CASE \E x \in Elements(up'[c]) : x.type \in Requests /\ x.type = f.kind /\ x.id = f.id
    BY <2>1, <1>3 DEF Flying, Items
  <2>2. CASE f.kind = "commit" /\ f.id \in Waiting(c)
    BY <2>2 DEF Flying
  <2>3. CASE \E x \in Elements(down'[c]) : x.type \in {"answer", "failed"} /\ x.kind = f.kind /\ x.id = f.id
    BY <2>3, <1>4 DEF Flying, Carries
  <2> QED BY <1>4, <1>5, <2>1, <2>2, <2>3 DEF Flying
<1> HIDE DEF P, n, k
<1>6. \A r \in Items : Numbering(r, n) => Numbering(r, k)
  BY <1>1 DEF Numbering, Items
<1>7. \A r, s \in P \union {q} : r.id = s.id => r = s
  BY <1>2 DEF P
<1>8. ASSUME NEW f \in Items, Flying(c, f)'
      PROVE  /\ Numbering(f, k)
             /\ \A r \in P \union {q} : r.id = f.id => r = f
  <2>1. CASE Flying(c, f)
    BY <2>1, <1>2, <1>6
  <2>2. CASE f = q
    BY <2>2, <1>7 DEF k
  <2> QED BY <1>5, <1>8, <2>1, <2>2
<1>9. ASSUME client[c].errors = {}
      PROVE  Once(c)' /\ \A f \in Items : Flying(c, f)' => f \in P \union {q}
  <2>1. Once(c) /\ \A f \in Items : Flying(c, f) => f \in P
    BY <1>2, <1>9
  \* Nothing that flies has the number of the new request.
  <2>2. q.id \notin Ids(up[c]) /\ q.id \notin Waiting(c) /\ q.id \notin Ids(down[c])
    BY <2>1, IdsFly DEF P
  <2>3. Single(up'[c]) /\ Ids(up'[c]) \subseteq Ids(up[c]) \union {q.id}
    <3>1. CASE c \in cut
      BY <3>1, <2>1 DEF ToServer, Once
    <3>2. CASE c \notin cut
      <4>1. up'[c] = Append(up[c], m)
        BY <3>2 DEF ToServer
      <4>2. Single(up'[c])
        BY <4>1, <2>1, <2>2, <1>1, SinglesAre DEF Once
      <4> QED BY <4>2, <1>3 DEF Ids
    <3> QED BY <3>1, <3>2
  <2>4. Single(down'[c]) /\ Ids(down'[c]) \subseteq Ids(down[c])
    BY <2>1, LighterIds DEF Lighter, Once
  <2>5. \A v, w \in awaiting' : v.conn = c /\ w.conn = c /\ v.id = w.id => v = w
    BY <2>1 DEF Once
  <2>6. Ids(up'[c]) \cap Ids(down'[c]) = {} /\ Ids(up'[c]) \cap Waiting(c)' = {}
        /\ Ids(down'[c]) \cap Waiting(c)' = {}
    BY <1>4, <2>1, <2>2, <2>3, <2>4 DEF Once
  <2>7. Once(c)'
    BY <2>3, <2>4, <2>5, <2>6 DEF Once
  <2> QED BY <1>5, <2>1, <2>7
<1>10. /\ client'[c].next > 0
       /\ \A r \in client'[c].pending : Numbering(r, client'[c].next)
       /\ \A r, s \in client'[c].pending : r.id = s.id => r = s
       /\ \A f \in Items : Flying(c, f)' =>
            /\ Numbering(f, client'[c].next)
            /\ \A r \in client'[c].pending : r.id = f.id => r = f
       /\ client'[c].errors = {} => Once(c)' /\ \A f \in Items : Flying(c, f)' => f \in client'[c].pending
  <2>1. k > 0
    BY <1>1
  <2>2. \A r \in P \union {q} : Numbering(r, k)
    BY <1>1, <1>2, <1>6 DEF k
  <2> QED BY <1>7, <1>8, <1>9, <2>1, <2>2 DEF P, k
<1> QED BY <1>10 DEF Ledger, Numbering

\* A request of the client that is not a heartbeat has the next number.
LEMMA NumberedLedger ==
  ASSUME Typed, NEW c \in Conns, Ledger(c), ~Closed(client[c]), NEW kind \in Requests, kind # "heartbeat",
         NEW m \in UpMessages, m.type = kind, m.id = client[c].next,
         client'[c].pending = client[c].pending \union {[id |-> client[c].next, kind |-> kind]},
         client'[c].next = client[c].next + 1, client'[c].errors = client[c].errors,
         up'[c] = ToServer(c, m), Lighter(down'[c], down[c]), awaiting' = awaiting
  PROVE  Ledger(c)'
<1> DEFINE q == [id |-> client[c].next, kind |-> kind]
<1>1. client[c].next \in Nat /\ client[c].next > 0 /\ client[c].pending \subseteq Items
  BY DEF Typed, Clients, Items, Ledger
<1>2. q \in Items /\ Numbering(q, client'[c].next) /\ client'[c].next \in Nat
      /\ client'[c].next >= client[c].next
  BY <1>1 DEF Items, Numbering
<1>3. \A r \in client[c].pending : r.id # q.id
  BY <1>1 DEF Ledger, Numbering, Items
<1>4. \A f \in Items : Flying(c, f) => f.id # q.id
  BY <1>1 DEF Ledger, Numbering, Items
<1>5. m.type = q.kind /\ m.id = q.id
  OBVIOUS
<1> HIDE DEF q
<1>6. client'[c].pending = client[c].pending \union {q}
  BY DEF q
<1> QED BY <1>2, <1>3, <1>4, <1>5, <1>6, AskLedger

\* A heartbeat has the number that is kept for heartbeats.
LEMMA BeatLedger ==
  ASSUME Typed, NEW c \in Conns, Ledger(c), ~Closed(client[c]), Heartbeat \notin client[c].pending,
         NEW m \in UpMessages, m.type = "heartbeat", m.id = 0,
         client'[c].pending = client[c].pending \union {Heartbeat},
         client'[c].next = client[c].next, client'[c].errors = client[c].errors,
         up'[c] = ToServer(c, m), down' = down, awaiting' = awaiting
  PROVE  Ledger(c)'
<1>1. client[c].next \in Nat /\ client[c].next > 0 /\ client[c].pending \subseteq Items
  BY DEF Typed, Clients, Items, Ledger
<1>2. /\ Heartbeat \in Items /\ Heartbeat.id = 0 /\ Heartbeat.kind = "heartbeat"
      /\ \A f \in Items : f.id = 0 /\ f.kind = "heartbeat" => f = Heartbeat
  BY DEF Heartbeat, Items, Requests
<1>3. Numbering(Heartbeat, client'[c].next)
  BY <1>1, <1>2 DEF Numbering
<1>4. \A r \in client[c].pending : r.id # 0
  BY <1>1, <1>2 DEF Ledger, Numbering
<1>5. \A f \in Items : Flying(c, f) /\ f.id = 0 => f = Heartbeat
  BY <1>2 DEF Ledger, Numbering
<1>6. Lighter(down'[c], down[c])
  BY DEF Lighter
<1> QED BY <1>1, <1>2, <1>3, <1>4, <1>5, <1>6, AskLedger

\* A request is taken and answered.
LEMMA ReplyLedger ==
  ASSUME Typed, NEW c \in Conns, Ledger(c), ~Closed(client[c]), SameBook(c),
         NEW types, types \subseteq Requests, Serves(c, types), awaiting' = awaiting,
         NEW m \in DownMessages, m.type \in {"answer", "failed"}, m.id = Head(up[c]).id,
         m.kind = Head(up[c]).type, down'[c] = down[c] \/ down'[c] = Append(down[c], m)
  PROVE  Ledger(c)'
<1> DEFINE h == Head(up[c])
           s == up[c]
           d == down[c]
<1>1. /\ h \in UpMessages /\ h \in Elements(s) /\ h.type \in Requests /\ s \in Seq(UpMessages) /\ s # <<>>
      /\ up'[c] = Tail(s) /\ Elements(up'[c]) \subseteq Elements(s)
  BY ServedIs
<1>2. d \in Seq(DownMessages)
  BY DEF Typed
<1>3. /\ Lighter(Tail(s), s) /\ Ids(Tail(s)) \subseteq Ids(s) /\ Carries(h) /\ h.id \in Ids(s)
      /\ Single(s) => h.id \notin Ids(Tail(s))
  BY <1>1, SinglesAre, LighterIds DEF Carries, Ids
<1>9. Elements(Append(d, m)) = Elements(d) \union {m}
  BY <1>2, ElementsAre
<1>4. Elements(down'[c]) \subseteq Elements(d) \union {m}
  BY <1>9
<1>5. Waiting(c)' = Waiting(c)
  BY DEF Waiting
<1>6. Carries(m)
  BY DEF Carries
<1> HIDE DEF h, s, d
<1>7. ASSUME NEW f \in Items, Flying(c, f)' PROVE Flying(c, f)
  <2>1. CASE \E x \in Elements(up'[c]) : x.type \in Requests /\ x.type = f.kind /\ x.id = f.id
    BY <2>1, <1>1 DEF Flying, s
  <2>2. CASE f.kind = "commit" /\ f.id \in Waiting(c)
    BY <2>2 DEF Flying
  <2>3. CASE \E x \in Elements(down'[c]) : x.type \in {"answer", "failed"} /\ x.kind = f.kind /\ x.id = f.id
    BY <2>3, <1>1, <1>4 DEF Flying, s, d, h
  <2> QED BY <1>5, <1>7, <2>1, <2>2, <2>3 DEF Flying
<1>8. ASSUME Once(c) PROVE Once(c)'
  <2>1. /\ Single(s) /\ Single(d) /\ Ids(s) \cap Ids(d) = {} /\ Ids(s) \cap Waiting(c) = {}
        /\ Ids(d) \cap Waiting(c) = {}
    BY <1>8 DEF Once, s, d
  <2>2. h.id \notin Ids(d) /\ h.id \notin Waiting(c) /\ h.id \notin Ids(Tail(s))
    BY <1>3, <2>1
  <2>3. Single(down'[c]) /\ Ids(down'[c]) \subseteq Ids(d) \union {h.id}
    <3>1. Single(Append(d, m))
      BY <1>2, <2>1, <2>2, SinglesAre DEF h
    <3> QED BY <1>4, <2>1, <3>1 DEF Ids, d, h
  <2>4. Single(up'[c]) /\ Ids(up'[c]) = Ids(Tail(s))
    BY <1>1, <1>3, <2>1 DEF Lighter
  <2>5. \A v, w \in awaiting' : v.conn = c /\ w.conn = c /\ v.id = w.id => v = w
    BY <1>8 DEF Once
  <2>6. Ids(up'[c]) \cap Ids(down'[c]) = {} /\ Ids(up'[c]) \cap Waiting(c)' = {}
        /\ Ids(down'[c]) \cap Waiting(c)' = {}
    BY <1>3, <1>5, <2>1, <2>2, <2>3, <2>4
  <2> QED BY <2>3, <2>4, <2>5, <2>6 DEF Once
<1> QED BY <1>7, <1>8, MoveLedger

\* A commit is taken and awaits the object store.
LEMMA WaitLedger ==
  ASSUME Typed, NEW c \in Conns, Ledger(c), ~Closed(client[c]), SameBook(c), ServeCommit(c)
  PROVE  Ledger(c)'
<1> DEFINE h == Head(up[c])
           s == up[c]
           v == [conn |-> c, id |-> h.id, mutation |-> h.mutation]
<1>1. Serves(c, {"commit"}) /\ awaiting' = awaiting \union {v} /\ down' = down
  BY DEF ServeCommit
<1>2. /\ h \in UpMessages /\ h \in Elements(s) /\ h.type = "commit" /\ s \in Seq(UpMessages) /\ s # <<>>
      /\ up'[c] = Tail(s) /\ Elements(up'[c]) \subseteq Elements(s)
  BY <1>1, ServedIs
<1>3. /\ Lighter(Tail(s), s) /\ Ids(Tail(s)) \subseteq Ids(s) /\ Carries(h) /\ h.id \in Ids(s)
      /\ Single(s) => h.id \notin Ids(Tail(s))
  BY <1>2, SinglesAre, LighterIds DEF Carries, Ids, Requests
<1>8. v.conn = c /\ v.id = h.id
  OBVIOUS
<1> HIDE DEF h, s, v
<1>4. Waiting(c)' = Waiting(c) \union {h.id}
  BY <1>1, <1>8 DEF Waiting
<1>5. \A w \in awaiting' : w \in awaiting \/ (w.id = h.id /\ w = v)
  BY <1>1, <1>8
<1>6. ASSUME NEW f \in Items, Flying(c, f)' PROVE Flying(c, f)
  <2>1. CASE \E x \in Elements(up'[c]) : x.type \in Requests /\ x.type = f.kind /\ x.id = f.id
    BY <2>1, <1>2 DEF Flying, s
  <2>2. CASE f.kind = "commit" /\ f.id \in Waiting(c) \union {h.id}
    BY <2>2, <1>2 DEF Flying, s, h, Requests
  <2>3. CASE \E x \in Elements(down'[c]) : x.type \in {"answer", "failed"} /\ x.kind = f.kind /\ x.id = f.id
    BY <2>3, <1>1 DEF Flying
  <2> QED BY <1>4, <1>6, <2>1, <2>2, <2>3 DEF Flying
<1>7. ASSUME Once(c) PROVE Once(c)'
  <2>1. /\ Single(s) /\ Single(down[c]) /\ Ids(s) \cap Ids(down[c]) = {} /\ Ids(s) \cap Waiting(c) = {}
        /\ Ids(down[c]) \cap Waiting(c) = {}
    BY <1>7 DEF Once, s
  <2>2. h.id \notin Ids(down[c]) /\ h.id \notin Waiting(c) /\ h.id \notin Ids(Tail(s))
    BY <1>3, <2>1
  <2>3. Single(up'[c]) /\ Ids(up'[c]) = Ids(Tail(s))
    BY <1>2, <1>3, <2>1 DEF Lighter
  <2>4. \A u, w \in awaiting' : u.conn = c /\ w.conn = c /\ u.id = w.id => u = w
    <3>1. \A w \in awaiting : w.conn = c => w.id # h.id
      BY <2>2 DEF Waiting
    <3> QED BY <1>5, <1>7, <3>1 DEF Once
  <2>5. Ids(up'[c]) \cap Ids(down'[c]) = {} /\ Ids(up'[c]) \cap Waiting(c)' = {}
        /\ Ids(down'[c]) \cap Waiting(c)' = {}
    BY <1>1, <1>3, <1>4, <2>1, <2>2, <2>3
  <2> QED BY <1>1, <2>1, <2>3, <2>4, <2>5 DEF Once
<1> QED BY <1>6, <1>7, MoveLedger

\* A commit that awaited the object store is answered.
LEMMA ReturnLedger ==
  ASSUME Typed, NEW w \in awaiting, NEW c \in Conns, c = w.conn, Ledger(c), ~Closed(client[c]), SameBook(c),
         awaiting' = awaiting \ {w}, up' = up,
         NEW m \in DownMessages, m.type \in {"answer", "failed"}, m.id = w.id, m.kind = "commit",
         down'[c] = down[c] \/ down'[c] = Append(down[c], m)
  PROVE  Ledger(c)'
<1> DEFINE d == down[c]
<1>1. d \in Seq(DownMessages)
  BY DEF Typed
<1>9. Elements(Append(d, m)) = Elements(d) \union {m}
  BY <1>1, ElementsAre
<1>2. Elements(down'[c]) \subseteq Elements(d) \union {m}
  BY <1>9
<1>3. Waiting(c)' \subseteq Waiting(c) /\ w.id \in Waiting(c)
  BY DEF Waiting
<1> HIDE DEF d
<1>4. ASSUME NEW f \in Items, Flying(c, f)' PROVE Flying(c, f)
  <2>1. CASE \E x \in Elements(up[c]) : x.type \in Requests /\ x.type = f.kind /\ x.id = f.id
    BY <2>1 DEF Flying
  <2>2. CASE f.kind = "commit" /\ f.id \in Waiting(c)
    BY <2>2 DEF Flying
  <2>3. CASE \E x \in Elements(down'[c]) : x.type \in {"answer", "failed"} /\ x.kind = f.kind /\ x.id = f.id
    BY <2>3, <1>2, <1>3 DEF Flying, d
  <2> QED BY <1>3, <1>4, <2>1, <2>2, <2>3 DEF Flying
<1>5. ASSUME Once(c) PROVE Once(c)'
  <2>1. /\ Single(up[c]) /\ Single(d) /\ Ids(up[c]) \cap Ids(d) = {} /\ Ids(up[c]) \cap Waiting(c) = {}
        /\ Ids(d) \cap Waiting(c) = {}
        /\ \A u, v \in awaiting : u.conn = c /\ v.conn = c /\ u.id = v.id => u = v
    BY <1>5 DEF Once, d
  <2>2. w.id \notin Ids(d) /\ w.id \notin Ids(up[c]) /\ w.id \notin Waiting(c)'
    BY <1>3, <2>1 DEF Waiting
  <2>3. Single(down'[c]) /\ Ids(down'[c]) \subseteq Ids(d) \union {w.id}
    <3>1. Single(Append(d, m))
      BY <1>1, <2>1, <2>2, SinglesAre
    <3> QED BY <1>2, <2>1, <3>1 DEF Ids, d
  <2>4. \A u, v \in awaiting' : u.conn = c /\ v.conn = c /\ u.id = v.id => u = v
    BY <2>1
  <2>5. Ids(up'[c]) \cap Ids(down'[c]) = {} /\ Ids(up'[c]) \cap Waiting(c)' = {}
        /\ Ids(down'[c]) \cap Waiting(c)' = {}
    BY <1>3, <2>1, <2>2, <2>3
  <2> QED BY <2>1, <2>3, <2>4, <2>5 DEF Once
<1> QED BY <1>4, <1>5, MoveLedger

\* An answer or a failure finds the request that it is for.
LEMMA SettleLedger ==
  ASSUME Typed, NEW c \in Conns, Ledger(c), NEW types, types \subseteq {"answer", "failed"}, Receives(c, types),
         LET x == Answered(client[c], Head(down[c])) IN
           /\ client'[c].pending = x.pending /\ client'[c].next = x.next /\ client'[c].errors = x.errors,
         ~client[c].strays, ~client[c].crossed, up' = up
  PROVE  /\ Ledger(c)'
         /\ ~Answered(client[c], Head(down[c])).strays /\ ~Answered(client[c], Head(down[c])).crossed
<1> DEFINE m == Head(down[c])
           d == down[c]
           cl == client[c]
           x == Answered(cl, m)
           P == cl.pending
<1>1. /\ m \in DownMessages /\ m \in Elements(d) /\ m.type \in {"answer", "failed"} /\ ~Closed(cl)
      /\ d \in Seq(DownMessages) /\ d # <<>> /\ down'[c] = Tail(d) /\ Elements(down'[c]) \subseteq Elements(d)
      /\ awaiting' = awaiting /\ cl \in Clients
  BY ReceivedIs
<1>2. m.id \in Nat /\ m.kind \in Requests
  BY <1>1, DownMessageIs
<1> DEFINE g == [id |-> m.id, kind |-> m.kind]
<1>3. g \in Items /\ Flying(c, g) /\ g.id = m.id /\ g.kind = m.kind
  BY <1>1, <1>2 DEF Items, Flying
<1>4. /\ \A r \in P : Numbering(r, cl.next)
      /\ \A r, q \in P : r.id = q.id => r = q
      /\ \A f \in Items : Flying(c, f) => Numbering(f, cl.next) /\ \A r \in P : r.id = f.id => r = f
      /\ cl.errors = {} => Once(c) /\ \A f \in Items : Flying(c, f) => f \in P
      /\ cl.next > 0
  BY <1>1 DEF Ledger
<1>5. /\ x.next = cl.next /\ x.errors = cl.errors
      /\ IF Known(cl, m.id)
         THEN \E r \in P : /\ r.id = m.id /\ x.pending = P \ {r} /\ x.strays = cl.strays
                           /\ (x.crossed <=> cl.crossed \/ m.kind # r.kind)
         ELSE /\ x.pending = P /\ x.crossed = cl.crossed
              /\ (x.strays <=> cl.strays \/ cl.errors = {})
  <2>1. cl \in Clients
    BY <1>1
  <2> HIDE DEF cl, m
  <2>2. x.next = cl.next /\ x.errors = cl.errors
    BY <2>1, AnsweredIs
  <2>3. ASSUME Known(cl, m.id)
        PROVE  \E r \in P : /\ r.id = m.id /\ x.pending = P \ {r} /\ x.strays = cl.strays
                            /\ (x.crossed <=> cl.crossed \/ m.kind # r.kind)
    BY <2>1, <2>3, AnsweredIs
  <2>4. ASSUME ~Known(cl, m.id)
        PROVE  x.pending = P /\ x.crossed = cl.crossed /\ (x.strays <=> cl.strays \/ cl.errors = {})
    BY <2>1, <2>4, AnsweredIs
  <2> QED BY <2>2, <2>3, <2>4
<1>6. Calm(c)
  BY <1>1, SinglesAre DEF Calm, Lighter
<1>7. /\ \A f \in Items : Flying(c, f)' => Flying(c, f)
      /\ Once(c) => Once(c)'
  BY <1>6, CalmIs
<1>8. /\ client'[c].pending = x.pending /\ client'[c].next = cl.next /\ client'[c].errors = cl.errors
      /\ ~cl.strays /\ ~cl.crossed
  BY <1>5
<1> HIDE DEF x, g, P
<1>9. CASE Known(cl, m.id)
  <2>1. PICK r \in P : /\ r.id = m.id /\ x.pending = P \ {r} /\ x.strays = cl.strays
                       /\ (x.crossed <=> cl.crossed \/ m.kind # r.kind)
    BY <1>5, <1>9
  <2>2. r = g
    BY <1>3, <1>4, <2>1
  <2>3. ~x.strays /\ ~x.crossed
    BY <1>3, <1>8, <2>1, <2>2
  <2>4. ASSUME cl.errors = {}, NEW f \in Items, Flying(c, f)' PROVE f \in P \ {r}
    <3>1. f \in P /\ Once(c)
      BY <1>4, <1>7, <2>4
    <3>2. m.id \notin Ids(down'[c]) /\ m.id \in Ids(d)
      BY <1>1, <3>1, SinglesAre DEF Once, Carries, Ids
    <3>3. f.id # m.id
      <4>1. CASE \E y \in Elements(up[c]) : y.type \in Requests /\ y.type = f.kind /\ y.id = f.id
        <5>1. f.id \in Ids(up[c])
          BY <4>1 DEF Ids, Carries
        <5> QED BY <5>1, <3>1, <3>2 DEF Once
      <4>2. CASE f.id \in Waiting(c)
        BY <4>2, <3>1, <3>2 DEF Once
      <4>3. CASE \E y \in Elements(down'[c]) : y.type \in {"answer", "failed"} /\ y.kind = f.kind /\ y.id = f.id
        <5>1. f.id \in Ids(down'[c])
          BY <4>3 DEF Ids, Carries
        <5> QED BY <5>1, <3>2
      <4> QED BY <2>4, <1>1, <4>1, <4>2, <4>3 DEF Flying, Waiting
    <3> QED BY <3>1, <3>3, <2>1
  <2>5. /\ client'[c].next > 0
        /\ \A q \in client'[c].pending : Numbering(q, client'[c].next)
        /\ \A q, s \in client'[c].pending : q.id = s.id => q = s
        /\ \A f \in Items : Flying(c, f)' =>
             /\ Numbering(f, client'[c].next)
             /\ \A q \in client'[c].pending : q.id = f.id => q = f
        /\ client'[c].errors = {} => Once(c)' /\ \A f \in Items : Flying(c, f)' => f \in client'[c].pending
    BY <1>4, <1>7, <1>8, <2>1, <2>4
  <2> QED BY <2>3, <2>5 DEF Ledger, Numbering, x
<1>10. CASE ~Known(cl, m.id)
  <2>1. cl.errors # {}
    BY <1>3, <1>4, <1>10 DEF Known, P
  <2>2. x.pending = P /\ ~x.strays /\ ~x.crossed
    BY <1>5, <1>8, <1>10, <2>1
  <2>3. SameBook(c)
    BY <1>8, <2>2 DEF SameBook, P
  <2> QED BY <1>1, <1>6, <2>2, <2>3, QuietLedger DEF x
<1> QED BY <1>9, <1>10

\* What is sent on a connection says nothing of what a server can do.
Innocent(x) == /\ x.type = "answer" => x.kind # "hello"
               /\ x.type = "session_error" => x.code # "invalid_message"
Harmless(c) == /\ \A x \in Elements(down'[c]) : x \in Elements(down[c]) \/ Innocent(x)
               /\ \A x \in Elements(up'[c]) : x \in Elements(up[c]) \/ x.type # "get"
               /\ vault'.features = vault.features

\* A step that leaves the client of a connection as it was.
Aside(c) ==
  /\ client'[c] = client[c] /\ Calm(c) /\ Harmless(c)
  /\ client[c].phase = "unused" => /\ server'[c].state = server[c].state
                                   /\ up'[c] = up[c] /\ down'[c] = down[c]

\* A step beside a session keeps what the session owes.
LEMMA AsideKept ==
  ASSUME NEW c \in Conns, Kept(c), Aside(c)
  PROVE  Kept(c)'
<1>1. Ledger(c)'
  <2>1. Closed(client[c]) => Closed(client'[c])
    BY DEF Aside
  <2>2. SameBook(c)
    BY DEF Aside, SameBook
  <2> QED BY <2>1, <2>2, QuietLedger DEF Kept, Aside
<1>2. Waiting(c)' \subseteq Waiting(c)
  BY DEF Aside, Calm, Waiting
<1>3. Blank(c)' /\ EndIsCounted(c)'
  BY <1>2 DEF Kept, Aside, Blank, EndIsCounted, Closed
<1>4. Versed(c)'
  BY DEF Kept, Aside, Harmless, Innocent, Versed
<1> QED BY <1>1, <1>3, <1>4 DEF Kept, Aside

\* A session that ends.
LEMMA EndedKept ==
  ASSUME NEW c \in Conns, Kept(c), ~Closed(client[c]), client[c] \in Clients,
         Over(client[c], client'[c]), Harmless(c),
         \/ client'[c].own /\ client'[c].ends = client[c].ends
         \/ client'[c].own = client[c].own /\ client'[c].ends = client[c].ends + 1
  PROVE  Kept(c)'
<1>1. client'[c].phase = "closed" /\ client'[c].pending = {} /\ client'[c].features = {}
      /\ client'[c].errors = client[c].errors
      /\ client'[c].strays = client[c].strays /\ client'[c].crossed = client[c].crossed
  BY DEF Over
<1>2. client[c].ends = 0 /\ ~client[c].own
  BY DEF Kept, EndIsCounted, Closed
<1>3. Ledger(c)' /\ Blank(c)'
  BY <1>1 DEF Ledger, Blank, Closed
<1>4. EndIsCounted(c)'
  BY <1>1, <1>2 DEF EndIsCounted
<1>5. Versed(c)'
  BY <1>1 DEF Kept, Harmless, Innocent, Versed
<1> QED BY <1>1, <1>3, <1>4, <1>5 DEF Kept

\* Sockets that are open were open before, for the same local vault.
LEMMA SocketsKept ==
  ASSUME OneSocketPerLocalVault,
         \A c \in Conns : Open(c)' => Open(c) /\ client'[c].app = client[c].app
  PROVE  OneSocketPerLocalVault'
  BY DEF OneSocketPerLocalVault

\* What the coordinator sends to those it reaches.
LEMMA SentAside ==
  ASSUME Typed, Sound, NEW cs, NEW m \in DownMessages, NEW c \in Conns,
         down'[c] = SendTo(cs, m, down)[c], ~Carries(m) \/ c \notin cs, Innocent(m)
  PROVE  /\ Lighter(down'[c], down[c])
         /\ \A x \in Elements(down'[c]) : x \in Elements(down[c]) \/ Innocent(x)
         /\ client[c].phase = "unused" => down'[c] = down[c]
<1>1. down \in [Conns -> Seq(DownMessages)]
  BY DEF Typed
<1>2. /\ SendTo(cs, m, down)[c] = IF c \in cs /\ Reaches(c) THEN Append(down[c], m) ELSE down[c]
      /\ Elements(SendTo(cs, m, down)[c]) \subseteq Elements(down[c]) \union {m}
  <2>1. SendTo(cs, m, down)[c] = IF c \in cs /\ Reaches(c) THEN Append(down[c], m) ELSE down[c]
    BY DEF SendTo
  <2>2. \A o \in Conns : Elements(SendTo(cs, m, down)[o]) \subseteq Elements(down[o]) \union {m}
    BY <1>1, SendToIs
  <2> QED BY <2>1, <2>2
<1>3. Lighter(down'[c], down[c])
  BY <1>1, LighterSent
<1>4. client[c].phase = "unused" => ~Reaches(c)
  BY DEF Reaches, Closed
<1> QED BY <1>2, <1>3, <1>4

\* An open socket belongs to a session that was opened.
LEMMA OpenIsUsed ==
  ASSUME Sound, NEW c \in Conns, client[c].phase = "unused"
  PROVE  /\ server[c].state = "none" /\ up[c] = <<>> /\ down[c] = <<>> /\ Waiting(c) = {}
         /\ \A w \in awaiting : w.conn # c
<1>1. /\ server[c].state = "none" /\ up[c] = <<>> /\ down[c] = <<>> /\ Waiting(c) = {}
  BY DEF Sound, Kept, Blank
<1> QED BY <1>1 DEF Waiting

\* A connection that opens owes nothing yet.
LEMMA SoundOpenSession == ASSUME Typed, Sound, NEW a \in Apps, OpenSession(a) PROVE Sound'
<1>1. PICK c \in Conns : /\ client[c].phase = "unused"
                         /\ client' = [client EXCEPT ![c] = [Unused EXCEPT !.app = a, !.phase = "connecting"]]
  BY DEF OpenSession
<1>2. /\ client'[c] = [Unused EXCEPT !.app = a, !.phase = "connecting"]
      /\ \A o \in Conns \ {c} : client'[o] = client[o]
      /\ UNCHANGED <<server, up, down, awaiting, vault>>
  BY <1>1 DEF OpenSession, Typed
<1>3. /\ server[c].state = "none" /\ up[c] = <<>> /\ down[c] = <<>> /\ Waiting(c) = {}
  BY <1>1, OpenIsUsed
<1>4. /\ client'[c].phase = "connecting" /\ client'[c].pending = {} /\ client'[c].next = 1
      /\ client'[c].errors = {} /\ client'[c].features = {} /\ client'[c].ends = 0
      /\ ~client'[c].own /\ ~client'[c].strays /\ ~client'[c].crossed
  BY <1>2 DEF Unused
<1>5. \A o \in Conns : up[o] \in Seq(UpMessages) /\ down[o] \in Seq(DownMessages)
  BY DEF Typed
<1>6. ASSUME NEW o \in Conns \ {c} PROVE Kept(o)'
  <2>1. Aside(o)
    BY <1>2, <1>5, SinglesAre DEF Aside, Calm, Harmless
  <2> QED BY <2>1, AsideKept DEF Sound
<1>7. Kept(c)'
  <2>1. Elements(<<>>) = {} /\ Single(<<>>) /\ Ids(<<>>) = {}
    BY DEF Elements, Single, Ids
  <2>2. Waiting(c)' = {} /\ up'[c] = <<>> /\ down'[c] = <<>>
    BY <1>2, <1>3 DEF Waiting
  <2>3. \A f : ~Flying(c, f)'
    BY <2>1, <2>2 DEF Flying
  <2>4. Once(c)'
    BY <2>1, <2>2 DEF Once, Waiting
  <2>5. Ledger(c)'
    BY <1>4, <2>3, <2>4 DEF Ledger
  <2>6. Blank(c)' /\ EndIsCounted(c)'
    BY <1>4 DEF Blank, EndIsCounted, Closed
  <2>7. Versed(c)'
    BY <1>4, <2>1, <2>2 DEF Versed
  <2> QED BY <1>4, <2>5, <2>6, <2>7 DEF Kept
<1>8. OneSocketPerLocalVault'
  BY <1>2, <1>3, SocketsKept DEF Sound, Open
<1> QED BY <1>6, <1>7, <1>8 DEF Sound

\* Steps that leave every client as it was, and open no socket.
LEMMA AllAside ==
  ASSUME Sound, \A c \in Conns : Aside(c), \A c \in Conns : Open(c)' => Open(c)
  PROVE  Sound'
<1>1. \A c \in Conns : Kept(c)'
  BY AsideKept DEF Sound
<1>2. OneSocketPerLocalVault'
  BY SocketsKept DEF Sound, Aside
<1> QED BY <1>1, <1>2 DEF Sound

\* Traffic that stays as it is.
LEMMA StillTraffic ==
  ASSUME Typed, NEW c \in Conns
  PROVE  /\ up'[c] = up[c] => Lighter(up'[c], up[c])
         /\ down'[c] = down[c] => Lighter(down'[c], down[c])
         /\ up'[c] = <<>> => Lighter(up'[c], up[c]) /\ Elements(up'[c]) = {}
         /\ down'[c] = <<>> => Lighter(down'[c], down[c]) /\ Elements(down'[c]) = {}
<1>1. up[c] \in Seq(UpMessages) /\ down[c] \in Seq(DownMessages)
  BY DEF Typed
<1> QED BY <1>1, SinglesAre

\* An edit touches no session.
LEMMA SoundEdit == ASSUME Typed, Sound, NEW a \in Apps, Edit(a) PROVE Sound'
<1>1. UNCHANGED <<client, server, up, down, awaiting, vault>>
  BY DEF Edit
<1>2. \A c \in Conns : Aside(c)
  BY <1>1, StillTraffic DEF Aside, Calm, Harmless
<1> QED BY <1>1, <1>2, AllAside DEF Open

\* The close frame of a client carries nothing.
LEMMA HangsAside ==
  ASSUME Typed, NEW c \in Conns
  PROVE  Lighter(Hangs(c), up[c]) /\ \A x \in Elements(Hangs(c)) : x \in Elements(up[c]) \/ x.type # "get"
<1>1. up[c] \in Seq(UpMessages)
  BY DEF Typed
<1>2. CloseFrame \in [type : Notifications \union {"close"}] /\ CloseFrame.type = "close"
  BY DEF CloseFrame
<1>3. CloseFrame \in UpMessages /\ ~Carries(CloseFrame)
  BY <1>2 DEF UpMessages, Carries, Requests
<1>4. Hangs(c) \in {up[c], Append(up[c], CloseFrame)}
  BY DEF Hangs, ToServer
<1>5. Lighter(Hangs(c), up[c])
  BY <1>1, <1>3, <1>4, SinglesAre
<1> QED BY <1>2, <1>5, HangsIs

\* The steps that end a session, whoever brings the end about.
LEMMA SoundEnds ==
  ASSUME Typed, Sound, NEW c \in Conns, TimeOut(c) \/ Close(c) \/ OpenFails(c)
  PROVE  Sound'
<1>1. /\ down' = [down EXCEPT ![c] = <<>>]
      /\ UNCHANGED <<server, awaiting, vault>>
  BY DEF TimeOut, Close, OpenFails, Ends
<1>2. up' = up \/ up' = [up EXCEPT ![c] = Hangs(c)]
  BY DEF TimeOut, Close, OpenFails
<1>3. /\ \A o \in Conns \ {c} : up'[o] = up[o] /\ down'[o] = down[o]
      /\ up'[c] \in {up[c], Hangs(c)} /\ down'[c] = <<>>
  BY <1>1, <1>2 DEF Typed
<1>4. /\ client[c] \in Clients
      /\ Closed(client[c]) => client[c].pending = {}
  BY DEF Typed, Sound, Kept, EndIsCounted
<1>5. ~Closed(client[c]) /\ client' = [client EXCEPT ![c] = client'[c]]
      /\ client'[c] \in {ClosedByUs(client[c]), Ended(client[c])}
  <2>1. CASE TimeOut(c)
    <3>1. ~Closed(client[c]) /\ client' = [client EXCEPT ![c] = Failed(client[c])]
      BY <1>4, <2>1 DEF TimeOut, Ends, TimesOut
    <3>2. Failed(client[c]) = Ended(client[c])
      BY <1>4, <3>1, EndingIs
    <3> QED BY <3>1, <3>2 DEF Typed
  <2>2. CASE Close(c) \/ OpenFails(c)
    BY <2>2 DEF Close, OpenFails, Ends, Closed, Typed
  <2> QED BY <2>1, <2>2
<1>6. \A o \in Conns \ {c} : client'[o] = client[o]
  BY <1>5 DEF Typed
<1>7. /\ Over(client[c], client'[c])
      /\ \/ client'[c].own /\ client'[c].ends = client[c].ends
         \/ client'[c].own = client[c].own /\ client'[c].ends = client[c].ends + 1
  BY <1>4, <1>5, EndingIs
<1>8. Harmless(c)
  <2>1. Elements(down'[c]) = {}
    BY <1>3, StillTraffic
  <2>2. \A x \in Elements(up'[c]) : x \in Elements(up[c]) \/ x.type # "get"
    BY <1>3, HangsAside
  <2> QED BY <1>1, <2>1, <2>2 DEF Harmless
<1>9. Kept(c)'
  BY <1>4, <1>5, <1>7, <1>8, EndedKept DEF Sound
<1>10. ASSUME NEW o \in Conns \ {c} PROVE Kept(o)'
  <2>1. Aside(o)
    BY <1>1, <1>3, <1>6, StillTraffic DEF Aside, Calm, Harmless
  <2> QED BY <2>1, AsideKept DEF Sound
<1>11. OneSocketPerLocalVault'
  BY <1>1, <1>6, <1>7, SocketsKept DEF Sound, Open, Over
<1> QED BY <1>9, <1>10, <1>11 DEF Sound

\* The server no longer tracks a socket, the network is cut, or the server restarts.
LEMMA SoundGone == ASSUME Typed, Sound, NEW c \in Conns, Gone(c), server[c].state # "none" PROVE Sound'
<1>1. /\ up'[c] = <<>> /\ \A o \in Conns \ {c} : up'[o] = up[o] /\ server'[o] = server[o]
      /\ server'[c].state = "gone" /\ UNCHANGED <<client, down, awaiting, vault>>
  BY DEF Gone, Typed, NoSocket
<1>2. client[c].phase # "unused"
  BY OpenIsUsed
<1>3. ASSUME NEW o \in Conns PROVE Aside(o)
  <2>1. CASE o = c
    BY <1>1, <1>2, <2>1, StillTraffic DEF Aside, Calm, Harmless
  <2>2. CASE o # c
    BY <1>1, <2>2, StillTraffic DEF Aside, Calm, Harmless
  <2> QED BY <2>1, <2>2
<1>4. \A o \in Conns : Open(o)' => Open(o)
  BY <1>1 DEF Open
<1> QED BY <1>3, <1>4, AllAside

\* The network of a connection is cut: what was under way on it is gone.
LEMMA SoundCut == ASSUME Typed, Sound, NEW c \in Conns, Cut(c) PROVE Sound'
<1>1. /\ up'[c] = <<>> /\ down'[c] = <<>> /\ \A o \in Conns \ {c} : up'[o] = up[o] /\ down'[o] = down[o]
      /\ client[c].phase # "unused" /\ UNCHANGED <<client, server, awaiting, vault>>
  BY DEF Cut, Typed
<1>2. ASSUME NEW o \in Conns PROVE Aside(o)
  <2>1. CASE o = c
    BY <1>1, <2>1, StillTraffic DEF Aside, Calm, Harmless
  <2>2. CASE o # c
    BY <1>1, <2>2, StillTraffic DEF Aside, Calm, Harmless
  <2> QED BY <2>1, <2>2
<1> QED BY <1>1, <1>2, AllAside DEF Open

\* The coordinator restarts: the sockets are closed, and no commit waits.
LEMMA SoundRestart == ASSUME Typed, Sound, Restart PROVE Sound'
<1>1. /\ UNCHANGED <<client, vault>> /\ awaiting' = {} /\ down' = SendTo(Conns, CloseFrame, down)
      /\ \A c \in Conns : up'[c] = <<>>
      /\ \A c \in Conns : server'[c].state = IF server[c].state = "none" THEN "none" ELSE "gone"
  BY DEF Restart, NoSocket
<1>2. CloseFrame \in DownMessages /\ ~Carries(CloseFrame) /\ Innocent(CloseFrame)
  BY DownMessagesAre DEF CloseFrame, Carries, Requests, Innocent
<1>3. ASSUME NEW c \in Conns PROVE Aside(c)
  <2>1. /\ Lighter(down'[c], down[c])
        /\ \A x \in Elements(down'[c]) : x \in Elements(down[c]) \/ Innocent(x)
        /\ client[c].phase = "unused" => down'[c] = down[c]
    BY <1>1, <1>2, SentAside
  <2>2. client[c].phase = "unused" => server'[c].state = server[c].state /\ up'[c] = up[c]
    BY <1>1, OpenIsUsed
  <2>3. Lighter(up'[c], up[c]) /\ Elements(up'[c]) = {}
    BY <1>1, StillTraffic
  <2> QED BY <1>1, <2>1, <2>2, <2>3 DEF Aside, Calm, Harmless
<1>4. \A c \in Conns : Open(c)' => Open(c)
  BY <1>1 DEF Open
<1> QED BY <1>3, <1>4, AllAside

\* The policy of the vault changes, and the storage that is used.
LEMMA SoundChanges == ASSUME Typed, Sound, PolicyChanges \/ UsageChanges PROVE Sound'
<1>1. vault' \in VaultStates
  BY TypedChanges DEF Typed
<1>2. vault'.features = vault.features /\ UNCHANGED <<client, server, up, awaiting>>
  BY DEF PolicyChanges, UsageChanges, Typed, VaultStates
<1>3. \E m \in DownMessages : (\E cs : down' = SendTo(cs, m, down)) /\ ~Carries(m) /\ Innocent(m)
  <2>1. CASE PolicyChanges
    <3> DEFINE m == [type |-> "policy_updated", policy |-> vault'.policy, used |-> vault.used]
    <3>1. m \in [type : {"policy_updated"}, policy : Nat, used : Nat] /\ m.type = "policy_updated"
      BY <1>1 DEF Typed, VaultStates
    <3>2. m \in DownMessages /\ ~Carries(m) /\ Innocent(m)
      BY <3>1 DEF DownMessages, Carries, Requests, Innocent
    <3>3. down' = SendTo(Conns, m, down)
      BY <2>1 DEF PolicyChanges, BroadcastPolicy
    <3> HIDE DEF m
    <3> QED BY <3>2, <3>3
  <2>2. CASE UsageChanges
    <3> DEFINE m == [type |-> "storage_status_updated", used |-> vault'.used]
    <3>1. m \in [type : {"storage_status_updated"}, used : Nat] /\ m.type = "storage_status_updated"
      BY <1>1 DEF VaultStates
    <3>2. m \in DownMessages /\ ~Carries(m) /\ Innocent(m)
      BY <3>1 DEF DownMessages, Carries, Requests, Innocent
    <3>3. \E cs : down' = SendTo(cs, m, down)
      BY <2>2 DEF UsageChanges, BroadcastStorageStatus, StatusMessage
    <3> HIDE DEF m
    <3> QED BY <3>2, <3>3
  <2> QED BY <2>1, <2>2
<1>4. PICK m \in DownMessages : (\E cs : down' = SendTo(cs, m, down)) /\ ~Carries(m) /\ Innocent(m)
  BY <1>3
<1>5. PICK cs : down' = SendTo(cs, m, down)
  BY <1>4
<1>6. ASSUME NEW c \in Conns PROVE Aside(c)
  <2>1. /\ Lighter(down'[c], down[c])
        /\ \A x \in Elements(down'[c]) : x \in Elements(down[c]) \/ Innocent(x)
        /\ client[c].phase = "unused" => down'[c] = down[c]
    BY <1>4, <1>5, SentAside
  <2> QED BY <1>2, <2>1, StillTraffic DEF Aside, Calm, Harmless
<1> QED BY <1>2, <1>6, AllAside DEF Open

\* The session of c goes on: what it owes was shown, and its end is not counted.
LEMMA GoesOn ==
  ASSUME NEW c \in Conns, Kept(c), ~Closed(client[c]), ~Closed(client'[c]), Ledger(c)', Versed(c)',
         client'[c].ends = client[c].ends, client'[c].own = client[c].own,
         ~client'[c].strays, ~client'[c].crossed
  PROVE  Kept(c)'
  BY DEF Kept, Blank, EndIsCounted, Closed

\* A step of one connection leaves the others as they were.
LEMMA OneMoves ==
  ASSUME Typed, Sound, NEW c \in Conns, Kept(c)', client'[c].app = client[c].app,
         \A o \in Conns \ {c} : client'[o] = client[o] /\ up'[o] = up[o] /\ down'[o] = down[o],
         \A w \in awaiting' : w.conn # c => w \in awaiting,
         \A o \in Conns : server'[o].state = server[o].state, vault'.features = vault.features
  PROVE  Sound'
<1>1. ASSUME NEW o \in Conns \ {c} PROVE Kept(o)'
  <2>1. Aside(o)
    BY StillTraffic DEF Aside, Calm, Harmless
  <2> QED BY <2>1, AsideKept DEF Sound
<1>2. \A o \in Conns : client'[o].app = client[o].app
  OBVIOUS
<1>3. OneSocketPerLocalVault'
  BY <1>2, SocketsKept DEF Sound, Open
<1> QED BY <1>1, <1>3 DEF Sound

\* A request is sent.
LEMMA SoundRequest ==
  ASSUME Typed, Sound, NEW c \in Conns, NEW kind \in Requests, kind # "heartbeat",
         NEW m \in UpMessages, m.type = kind, m.id = Number(c), Says(c, m), Asks(c, kind),
         kind = "get" => "get" \in vault.features
  PROVE  Sound'
<1>1. /\ client[c].phase = "live" /\ client[c] \in Clients /\ ~Closed(client[c])
      /\ up'[c] = ToServer(c, m) /\ \A o \in Conns \ {c} : up'[o] = up[o]
  BY SaysIs DEF Closed
<1>2. /\ client'[c] = Asked(client[c], kind) /\ \A o \in Conns \ {c} : client'[o] = client[o]
      /\ UNCHANGED <<server, down, awaiting, vault>>
  BY <1>1, AsksIs
<1> HIDE DEF Asks, Says
<1>3. /\ client'[c].app = client[c].app /\ client'[c].phase = client[c].phase
      /\ client'[c].next = client[c].next + 1
      /\ client'[c].features = client[c].features /\ client'[c].errors = client[c].errors
      /\ client'[c].ends = client[c].ends /\ client'[c].own = client[c].own
      /\ client'[c].strays = client[c].strays /\ client'[c].crossed = client[c].crossed
      /\ client'[c].pending = client[c].pending \union {[id |-> client[c].next, kind |-> kind]}
  BY <1>1, <1>2, AskedIs
<1>4. Kept(c)
  BY DEF Sound
<1>5. Ledger(c)'
  <2>1. Lighter(down'[c], down[c])
    BY <1>2, StillTraffic
  <2>2. m.id = client[c].next
    BY DEF Number, Numbered
  <2> QED BY <1>1, <1>2, <1>3, <1>4, <2>1, <2>2, NumberedLedger DEF Kept
<1>6. Versed(c)'
  <2>1. Elements(up'[c]) \subseteq Elements(up[c]) \union {m}
    BY <1>1, ToServerIs
  <2> QED BY <1>2, <1>3, <1>4, <2>1 DEF Kept, Versed
<1>7. Kept(c)'
  BY <1>1, <1>3, <1>4, <1>5, <1>6, GoesOn DEF Closed, Kept
<1> QED BY <1>1, <1>2, <1>3, <1>7, OneMoves

\* The requests of the client: what it asks is known to the server.
LEMMA SoundAsk == ASSUME Typed, Sound, NEW c \in Conns, Ask(c) PROVE Sound'
<1>1. CASE Commit(c)
  BY <1>1, SoundRequest, AskMessages DEF Commit, Requests
<1>2. CASE List(c)
  <2>1. client[c].phase = "live"
    BY <1>2 DEF List, Says
  <2> QED BY <1>2, <2>1, SoundRequest, AskMessages DEF List, Requests
<1>3. CASE Get(c)
  <2>1. client[c].phase = "live"
    BY <1>3 DEF Get, Says
  <2>2. "get" \in vault.features
    BY <1>3 DEF Get, GetAllowed, Sound, Kept, Versed
  <2> QED BY <1>3, <2>1, <2>2, SoundRequest, AskMessages DEF Get, Requests
<1>4. CASE History(c) \/ Detach(c)
  <2>1. client[c].phase = "live"
    BY <1>4 DEF History, Detach, Says
  <2> QED BY <1>4, <2>1, SoundRequest, AskMessages DEF History, Detach, Requests
<1>5. ASSUME NEW kind \in Notifications, Watch(c, kind) PROVE Sound'
  <2> DEFINE m == [type |-> kind]
  <2>1. client[c].phase = "live" /\ Says(c, m) /\ UNCHANGED <<client, server, down, awaiting, vault>>
    BY <1>5 DEF Watch, Says
  <2>2. m \in UpMessages /\ ~Carries(m) /\ m.type # "get"
    BY <2>1, AskMessages DEF Notifications, Carries, Requests
  <2> HIDE DEF m
  <2>3. up'[c] = ToServer(c, m) /\ \A o \in Conns \ {c} : up'[o] = up[o]
    BY <2>1, <2>2, SaysIs
  <2>4. up[c] \in Seq(UpMessages)
    BY DEF Typed
  <2>5. Lighter(up'[c], up[c])
    BY <2>2, <2>3, <2>4, SinglesAre DEF ToServer
  <2>6. Elements(up'[c]) \subseteq Elements(up[c]) \union {m}
    BY <2>2, <2>3, ToServerIs
  <2>7. ASSUME NEW o \in Conns PROVE Aside(o)
    <3>1. CASE o = c
      BY <2>1, <2>2, <2>5, <2>6, <3>1, StillTraffic DEF Aside, Calm, Harmless
    <3>2. CASE o # c
      BY <2>1, <2>3, <3>2, StillTraffic DEF Aside, Calm, Harmless
    <3> QED BY <3>1, <3>2
  <2> QED BY <2>1, <2>7, AllAside DEF Open
<1> QED BY <1>1, <1>2, <1>3, <1>4, <1>5 DEF Ask

\* A heartbeat is sent.
LEMMA SoundBeat == ASSUME Typed, Sound, NEW c \in Conns, Beat(c) PROVE Sound'
<1> DEFINE m == [type |-> "heartbeat", id |-> 0]
<1>1. client[c].phase = "live" /\ Says(c, m) /\ UNCHANGED <<server, down, awaiting, vault>>
      /\ Heartbeat \notin client[c].pending /\ ~Closed(client[c])
  BY DEF Beat, Says, Closed
<1>2. m \in UpMessages /\ m.type = "heartbeat" /\ m.id = 0
  BY <1>1, AskMessages
<1> HIDE DEF m
<1>3. up'[c] = ToServer(c, m) /\ client[c] \in Clients /\ \A o \in Conns \ {c} : up'[o] = up[o]
  BY <1>1, <1>2, SaysIs
<1>4. client' = [client EXCEPT ![c] = [client[c] EXCEPT !.pending = client[c].pending \union {Heartbeat}]]
  BY DEF Beat, Typed
<1>5. client'[c] = [client[c] EXCEPT !.pending = client[c].pending \union {Heartbeat}]
      /\ \A o \in Conns \ {c} : client'[o] = client[o]
  BY <1>4 DEF Typed
<1>6. /\ client'[c].pending = client[c].pending \union {Heartbeat}
      /\ client'[c].app = client[c].app /\ client'[c].phase = client[c].phase
      /\ client'[c].next = client[c].next
      /\ client'[c].features = client[c].features /\ client'[c].errors = client[c].errors
      /\ client'[c].ends = client[c].ends /\ client'[c].own = client[c].own
      /\ client'[c].strays = client[c].strays /\ client'[c].crossed = client[c].crossed
  BY <1>3, <1>5 DEF Clients
<1>7. Kept(c)
  BY DEF Sound
<1>8. Ledger(c)'
  BY <1>1, <1>2, <1>3, <1>6, <1>7, BeatLedger DEF Kept
<1>9. Versed(c)'
  <2>1. Elements(up'[c]) \subseteq Elements(up[c]) \union {m}
    BY <1>2, <1>3, ToServerIs
  <2> QED BY <1>1, <1>2, <1>6, <1>7, <2>1 DEF Kept, Versed
<1>10. Kept(c)'
  BY <1>1, <1>6, <1>7, <1>8, <1>9, GoesOn DEF Closed, Kept
<1> QED BY <1>1, <1>3, <1>5, <1>6, <1>10, OneMoves

\* The socket is open, and the session says hello.
LEMMA SoundOpened == ASSUME Typed, Sound, NEW c \in Conns, Opened(c) PROVE Sound'
<1> DEFINE m == [type |-> "hello", id |-> Number(c), last |-> device[client[c].app].cursor]
           y == [client[c] EXCEPT !.phase = "hello"]
<1>1. Receives(c, {"open"}) /\ client' = [client EXCEPT ![c] = Asked(y, "hello")]
      /\ up' = [up EXCEPT ![c] = ToServer(c, m)]
  BY DEF Opened, Typed
<1>2. /\ ~Closed(client[c]) /\ down[c] \in Seq(DownMessages) /\ down[c] # <<>> /\ down'[c] = Tail(down[c])
      /\ \A o \in Conns \ {c} : down'[o] = down[o]
      /\ \A o \in Conns : Elements(down'[o]) \subseteq Elements(down[o])
      /\ UNCHANGED <<server, awaiting, vault>> /\ client[c] \in Clients /\ client[c].app \in Apps
  BY <1>1, ReceivedIs
<1>3. m \in UpMessages /\ m.type = "hello" /\ m.id = client[c].next
  <2>1. device[client[c].app] \in Devices
    BY <1>2 DEF Typed
  <2>2. device[client[c].app].cursor \in Nat /\ Number(c) \in Nat /\ Number(c) = client[c].next
    BY <1>2, <2>1 DEF Devices, Number, Numbered, Clients
  <2>3. m \in [type : {"hello"}, id : Nat, last : Nat] /\ m.type = "hello" /\ m.id = client[c].next
    BY <2>2
  <2> HIDE DEF m
  <2> QED BY <2>3 DEF UpMessages
<1>4. /\ y \in Clients /\ y.phase = "hello" /\ y.app = client[c].app /\ y.next = client[c].next
      /\ y.pending = client[c].pending
      /\ y.features = client[c].features /\ y.errors = client[c].errors
      /\ y.ends = client[c].ends /\ y.own = client[c].own
      /\ y.strays = client[c].strays /\ y.crossed = client[c].crossed
  BY <1>2 DEF Clients, Phases
<1> HIDE DEF m, y
<1>5. client'[c] = Asked(y, "hello") /\ \A o \in Conns \ {c} : client'[o] = client[o]
  BY <1>1 DEF Typed
<1>6. /\ client'[c].app = client[c].app /\ client'[c].phase = "hello"
      /\ client'[c].next = client[c].next + 1
      /\ client'[c].features = client[c].features /\ client'[c].errors = client[c].errors
      /\ client'[c].ends = client[c].ends /\ client'[c].own = client[c].own
      /\ client'[c].strays = client[c].strays /\ client'[c].crossed = client[c].crossed
      /\ client'[c].pending = client[c].pending \union {[id |-> client[c].next, kind |-> "hello"]}
  BY <1>4, <1>5, AskedIs DEF Requests
<1>7. up'[c] = ToServer(c, m) /\ \A o \in Conns \ {c} : up'[o] = up[o]
  BY <1>1 DEF Typed
<1>8. Kept(c)
  BY DEF Sound
<1>9. Ledger(c)'
  <2>1. Lighter(down'[c], down[c])
    BY <1>2, SinglesAre
  <2>2. "hello" \in Requests /\ "hello" # "heartbeat"
    BY DEF Requests
  <2> QED BY <1>2, <1>3, <1>6, <1>7, <1>8, <2>1, <2>2, NumberedLedger DEF Kept
<1>10. Versed(c)'
  <2>1. Elements(up'[c]) \subseteq Elements(up[c]) \union {m}
    BY <1>3, <1>7, ToServerIs
  <2> QED BY <1>2, <1>3, <1>6, <1>8, <2>1 DEF Kept, Versed
<1>11. Kept(c)'
  BY <1>2, <1>6, <1>8, <1>9, <1>10, GoesOn DEF Closed, Kept
<1> QED BY <1>2, <1>5, <1>6, <1>7, <1>11, OneMoves

\* An answer or a failure is received.
LEMMA SoundSettled ==
  ASSUME Typed, Sound, NEW c \in Conns, NEW types, types \subseteq {"answer", "failed"}, Receives(c, types),
         NEW x, x = Answered(client[c], Head(down[c])), up' = up,
         \A o \in Conns \ {c} : client'[o] = client[o],
         /\ client'[c].app = x.app /\ client'[c].pending = x.pending /\ client'[c].next = x.next
         /\ client'[c].errors = x.errors /\ client'[c].ends = x.ends /\ client'[c].own = x.own
         /\ client'[c].strays = x.strays /\ client'[c].crossed = x.crossed,
         ~Closed(client'[c]), client'[c].features \subseteq vault.features
  PROVE  Sound'
<1>1. /\ ~Closed(client[c]) /\ client[c] \in Clients
      /\ \A o \in Conns \ {c} : down'[o] = down[o]
      /\ Elements(down'[c]) \subseteq Elements(down[c])
      /\ UNCHANGED <<server, awaiting, vault>>
  BY ReceivedIs
<1>2. /\ x.app = client[c].app /\ x.errors = client[c].errors
      /\ x.ends = client[c].ends /\ x.own = client[c].own
  <2> DEFINE m == Head(down[c])
             cl == client[c]
  <2>1. x = Answered(cl, m) /\ cl \in Clients
    BY <1>1
  <2> HIDE DEF m, cl
  <2>2. Answered(cl, m).app = cl.app
    BY <2>1, AnsweredIs
  <2>3. Answered(cl, m).errors = cl.errors
    BY <2>1, AnsweredIs
  <2>4. Answered(cl, m).ends = cl.ends
    BY <2>1, AnsweredIs
  <2>5. Answered(cl, m).own = cl.own
    BY <2>1, AnsweredIs
  <2> QED BY <2>1, <2>2, <2>3, <2>4, <2>5 DEF cl
<1>3. Kept(c)
  BY DEF Sound
<1>4. Ledger(c)' /\ ~x.strays /\ ~x.crossed
  BY <1>3, SettleLedger DEF Kept
<1>5. Versed(c)'
  BY <1>1, <1>2, <1>3 DEF Kept, Versed
<1>6. Kept(c)'
  BY <1>1, <1>2, <1>3, <1>4, <1>5, GoesOn
<1> QED BY <1>1, <1>2, <1>6, OneMoves

\* What the client receives for a request.
LEMMA SoundReceiveAnswer == ASSUME Typed, Sound, NEW c \in Conns, ReceiveAnswer(c) PROVE Sound'
<1> DEFINE m == Head(down[c])
           x == Answered(client[c], m)
           y == IF m.kind = "hello" THEN Live(x, m.features) ELSE x
<1>1. Receives(c, {"answer"}) /\ client' = [client EXCEPT ![c] = y] /\ up' = up
  BY DEF ReceiveAnswer, Typed
<1>2. client[c] \in Clients /\ m \in DownMessages /\ m \in Elements(down[c]) /\ m.type = "answer"
      /\ ~Closed(client[c])
  BY <1>1, ReceivedIs
<1>3. client'[c] = y /\ \A o \in Conns \ {c} : client'[o] = client[o]
  BY <1>1 DEF Typed
<1>4. x \in Clients /\ x.phase = client[c].phase /\ x.features = client[c].features
  BY <1>2, AnsweredIs
<1>5. /\ client[c].features \subseteq vault.features
      /\ m.kind = "hello" => m.features \subseteq vault.features
  BY <1>2 DEF Sound, Kept, Versed
<1>6. x = Answered(client[c], Head(down[c]))
  OBVIOUS
<1> HIDE DEF m, x
<1>7. /\ y.app = x.app /\ y.pending = x.pending /\ y.next = x.next
      /\ y.errors = x.errors /\ y.ends = x.ends /\ y.own = x.own
      /\ y.strays = x.strays /\ y.crossed = x.crossed
      /\ ~Closed(y) /\ y.features \subseteq vault.features
  BY <1>2, <1>4, <1>5 DEF Live, Clients, Closed
<1> HIDE DEF y
<1>8. {"answer"} \subseteq {"answer", "failed"}
  OBVIOUS
<1> QED BY <1>1, <1>3, <1>6, <1>7, <1>8, SoundSettled

\* What the client receives when a request has failed.
LEMMA SoundReceiveFailure == ASSUME Typed, Sound, NEW c \in Conns, ReceiveFailure(c) PROVE Sound'
<1> DEFINE x == Answered(client[c], Head(down[c]))
<1>1. Receives(c, {"failed"}) /\ client' = [client EXCEPT ![c] = x] /\ up' = up
  BY DEF ReceiveFailure, Typed
<1>2. client[c] \in Clients /\ ~Closed(client[c])
  BY <1>1, ReceivedIs
<1>3. client'[c] = x /\ \A o \in Conns \ {c} : client'[o] = client[o]
  BY <1>1 DEF Typed
<1>4. x.phase = client[c].phase /\ x.features = client[c].features
  BY <1>2, AnsweredIs
<1>5. x.features \subseteq vault.features /\ ~Closed(x)
  BY <1>2, <1>4 DEF Sound, Kept, Versed, Closed
<1>6. x = Answered(client[c], Head(down[c])) /\ {"failed"} \subseteq {"answer", "failed"}
  OBVIOUS
<1> HIDE DEF x
<1> QED BY <1>1, <1>3, <1>5, <1>6, SoundSettled

\* What the coordinator announces changes nothing of the session.
LEMMA SoundReceivePush == ASSUME Typed, Sound, NEW c \in Conns, ReceivePush(c) PROVE Sound'
<1>1. Receives(c, {"cursor_advanced", "storage_status_updated", "policy_updated"})
      /\ UNCHANGED <<client, up>>
  BY DEF ReceivePush
<1>2. /\ ~Closed(client[c]) /\ down[c] \in Seq(DownMessages) /\ down[c] # <<>> /\ down'[c] = Tail(down[c])
      /\ \A o \in Conns \ {c} : down'[o] = down[o]
      /\ Elements(down'[c]) \subseteq Elements(down[c])
      /\ UNCHANGED <<server, awaiting, vault>>
  BY <1>1, ReceivedIs
<1>3. Lighter(down'[c], down[c])
  BY <1>2, SinglesAre
<1>4. ASSUME NEW o \in Conns PROVE Aside(o)
  <2>1. CASE o = c
    BY <1>1, <1>2, <1>3, <2>1, StillTraffic DEF Aside, Calm, Harmless, Closed
  <2>2. CASE o # c
    BY <1>1, <1>2, <2>2, StillTraffic DEF Aside, Calm, Harmless
  <2> QED BY <2>1, <2>2
<1> QED BY <1>2, <1>4, AllAside DEF Open

\* An error of the session fails what waits; what comes later for it is expected.
LEMMA SoundReceiveError == ASSUME Typed, Sound, NEW c \in Conns, ReceiveError(c) PROVE Sound'
<1> DEFINE m == Head(down[c])
           x == SessionError(client[c], m.code)
<1>1. /\ Receives(c, {"session_error"}) /\ client' = [client EXCEPT ![c] = x]
      /\ up' = [up EXCEPT ![c] = IF Closed(x) THEN Hangs(c) ELSE up[c]]
  BY DEF ReceiveError, Typed
<1>2. /\ ~Closed(client[c]) /\ down[c] \in Seq(DownMessages) /\ down[c] # <<>> /\ down'[c] = Tail(down[c])
      /\ \A o \in Conns \ {c} : down'[o] = down[o]
      /\ Elements(down'[c]) \subseteq Elements(down[c])
      /\ UNCHANGED <<server, awaiting, vault>> /\ client[c] \in Clients
      /\ m \in DownMessages /\ m \in Elements(down[c]) /\ m.type = "session_error"
  BY <1>1, ReceivedIs
<1>3. m.code \in SessionErrors /\ m.code # "invalid_message"
  BY <1>2, DownMessageIs DEF Sound, Kept, Versed
<1>4. /\ client'[c] = x /\ \A o \in Conns \ {c} : client'[o] = client[o] /\ up'[o] = up[o]
      /\ up'[c] = IF Closed(x) THEN Hangs(c) ELSE up[c]
  BY <1>1 DEF Typed
<1>5. /\ x.app = client[c].app /\ x.errors = client[c].errors \union {m.code} /\ x.pending = {}
      /\ x.features \subseteq client[c].features
      /\ x.strays = client[c].strays /\ x.crossed = client[c].crossed
      /\ \/ x.phase = client[c].phase /\ x.ends = client[c].ends /\ x.own = client[c].own
            /\ x.next = client[c].next
         \/ x.phase = "closed" /\ x.own /\ x.ends = client[c].ends
         \/ x.phase = "closed" /\ x.own = client[c].own /\ x.ends = client[c].ends + 1
  BY <1>2, <1>3, SessionErrorIs
<1> HIDE DEF x
<1>6. Kept(c)
  BY DEF Sound
<1>7. Lighter(down'[c], down[c]) /\ Lighter(up'[c], up[c])
      /\ \A y \in Elements(up'[c]) : y \in Elements(up[c]) \/ y.type # "get"
  BY <1>2, <1>4, SinglesAre, HangsAside, StillTraffic
<1>8. Versed(c)'
  BY <1>2, <1>3, <1>4, <1>5, <1>6, <1>7 DEF Kept, Versed
<1>9. Kept(c)'
  <2>1. CASE Closed(x)
    <3>1. x.phase = "closed" /\ client[c].ends = 0 /\ ~client[c].own
      BY <1>2, <1>5, <1>6, <2>1 DEF Closed, Kept, EndIsCounted
    <3>2. Ledger(c)' /\ Blank(c)' /\ EndIsCounted(c)'
      BY <1>4, <1>5, <1>2, <3>1 DEF Ledger, Blank, EndIsCounted, Closed
    <3> QED BY <1>4, <1>5, <1>6, <1>8, <3>2 DEF Kept
  <2>2. CASE ~Closed(x)
    <3>1. /\ x.phase = client[c].phase /\ x.ends = client[c].ends /\ x.own = client[c].own
          /\ x.next = client[c].next
      BY <1>5, <2>2 DEF Closed
    <3>2. \A f \in Items : Flying(c, f)' => Flying(c, f)
      <4>1. Calm(c)
        BY <1>2, <1>7 DEF Calm
      <4> QED BY <4>1, CalmIs
    <3>3. /\ client[c].next > 0
          /\ \A f \in Items : Flying(c, f) => Numbering(f, client[c].next)
      BY <1>2, <1>6 DEF Kept, Ledger
    <3>4. Ledger(c)'
      BY <1>4, <1>5, <3>1, <3>2, <3>3 DEF Ledger, Numbering
    <3> QED BY <1>2, <1>4, <1>5, <1>6, <1>8, <2>2, <3>1, <3>4, GoesOn DEF Kept
  <2> QED BY <2>1, <2>2
<1> QED BY <1>2, <1>4, <1>5, <1>9, OneMoves

\* The socket is closed.
LEMMA SoundReceiveClose == ASSUME Typed, Sound, NEW c \in Conns, ReceiveClose(c) PROVE Sound'
<1> DEFINE x == IF client[c].phase = "connecting" THEN ClosedByUs(client[c]) ELSE Lost(client[c])
<1>1. Receives(c, {"close"}) /\ client' = [client EXCEPT ![c] = x] /\ up' = up
  BY DEF ReceiveClose, Typed
<1>2. /\ ~Closed(client[c]) /\ \A o \in Conns \ {c} : down'[o] = down[o]
      /\ Elements(down'[c]) \subseteq Elements(down[c])
      /\ UNCHANGED <<server, awaiting, vault>> /\ client[c] \in Clients
  BY <1>1, ReceivedIs
<1>3. /\ Over(client[c], x)
      /\ \/ x.own /\ x.ends = client[c].ends
         \/ x.own = client[c].own /\ x.ends = client[c].ends + 1
  BY <1>2, EndingIs DEF Lost
<1> HIDE DEF x
<1>4. client'[c] = x /\ \A o \in Conns \ {c} : client'[o] = client[o]
  BY <1>1 DEF Typed
<1>5. Harmless(c)
  BY <1>1, <1>2 DEF Harmless
<1>6. Kept(c)'
  BY <1>2, <1>3, <1>4, <1>5, EndedKept DEF Sound
<1> QED BY <1>1, <1>2, <1>3, <1>4, <1>6, OneMoves DEF Over

\* The coordinator accepts a socket, and closes those that it replaces.
LEMMA SoundAccept == ASSUME Typed, Sound, NEW c \in Conns, Accept(c) PROVE Sound'
<1> DEFINE s1 == [type |-> "session_error", code |-> "local_vault_replaced"]
           first == [type |-> "open"]
<1>1. /\ UNCHANGED <<client, up, awaiting, vault>> /\ client[c].phase = "connecting"
      /\ server[c].state = "none"
      /\ \A o \in Conns : server'[o].state = IF o = c THEN "open"
                                             ELSE IF o \in Superseded(c) THEN "closing" ELSE server[o].state
      /\ down'[c] = <<first>>
      /\ \A o \in Conns \ {c} : down'[o] = IF o \in Superseded(c) /\ Reaches(o)
                                           THEN down[o] \o <<s1, CloseFrame>> ELSE down[o]
  BY DEF Accept, NoSocket, Typed, Sockets
<1>2. /\ s1 \in DownMessages /\ ~Carries(s1) /\ Innocent(s1)
      /\ first \in DownMessages /\ ~Carries(first) /\ Innocent(first)
      /\ CloseFrame \in DownMessages /\ ~Carries(CloseFrame) /\ Innocent(CloseFrame)
  BY DownMessagesAre DEF CloseFrame, Carries, Requests, Innocent, SessionErrors
<1> HIDE DEF s1, first
<1>3. Aside(c)
  <2>1. Elements(<<first>>) = {first} /\ Single(<<first>>)
    BY <1>2 DEF Elements, Single
  <2>2. Lighter(down'[c], down[c])
    BY <1>1, <1>2, <2>1 DEF Lighter
  <2> QED BY <1>1, <1>2, <2>1, <2>2, StillTraffic DEF Aside, Calm, Harmless
<1>4. ASSUME NEW o \in Conns \ {c} PROVE Aside(o)
  <2>1. CASE o \in Superseded(c) /\ Reaches(o)
    <3>1. down[o] \in Seq(DownMessages) /\ <<s1, CloseFrame>> \in Seq(DownMessages)
      BY <1>2 DEF Typed
    <3>2. Lighter(down'[o], down[o])
      BY <1>1, <1>2, <2>1, <3>1, LighterTwice
    <3>3. Elements(<<s1, CloseFrame>>) = {s1, CloseFrame}
      <4>1. \A i \in DOMAIN <<s1, CloseFrame>> : i = 1 \/ i = 2
        OBVIOUS
      <4> QED BY <4>1 DEF Elements
    <3>4. Elements(down'[o]) = Elements(down[o]) \union {s1, CloseFrame}
      <4>1. \A d, t \in Seq(DownMessages) : Elements(d \o t) = Elements(d) \union Elements(t)
        BY ElementsAre
      <4>2. Elements(down[o] \o <<s1, CloseFrame>>) = Elements(down[o]) \union Elements(<<s1, CloseFrame>>)
        BY <3>1, <4>1
      <4> QED BY <1>1, <2>1, <3>3, <4>2
    <3>5. client[o].phase # "unused"
      BY <2>1 DEF Reaches, Closed
    <3> QED BY <1>1, <1>2, <3>2, <3>4, <3>5, StillTraffic DEF Aside, Calm, Harmless
  <2>2. CASE ~(o \in Superseded(c) /\ Reaches(o))
    <3>1. client[o].phase = "unused" => server'[o].state = server[o].state
      BY <1>1, OpenIsUsed DEF Superseded, Open
    <3> QED BY <1>1, <2>2, <3>1, StillTraffic DEF Aside, Calm, Harmless
  <2> QED BY <2>1, <2>2
<1>5. \A o \in Conns : Kept(o)'
  BY <1>3, <1>4, AsideKept DEF Sound
<1>6. OneSocketPerLocalVault'
  BY <1>1 DEF Sound, OneSocketPerLocalVault, Open, Superseded
<1> QED BY <1>5, <1>6 DEF Sound

\* A session that is over, or that goes on as it was.
LEMMA StaysKept ==
  ASSUME NEW c \in Conns, Kept(c), client'[c] = client[c], client[c].phase # "unused",
         Versed(c)', ~Closed(client[c]) => Ledger(c)'
  PROVE  Kept(c)'
<1>1. Ledger(c)'
  BY DEF Ledger
<1> QED BY <1>1 DEF Kept, Blank, EndIsCounted, Closed

\* What the coordinator may say to a session.
Truthful(x) ==
  /\ x.type = "answer" /\ x.kind = "hello" => x.features \subseteq vault.features
  /\ x.type = "session_error" => x.code # "invalid_message"

\* A message is taken and answered, with nothing else done.
LEMMA SoundReply ==
  ASSUME Typed, Sound, NEW c \in Conns, NEW types, Serves(c, types),
         NEW m \in DownMessages, down' = SendTo({c}, m, down) \/ down' = down, Truthful(m),
         \/ ~Carries(m)
         \/ /\ types \subseteq Requests /\ m.type \in {"answer", "failed"}
            /\ m.id = Head(up[c]).id /\ m.kind = Head(up[c]).type,
         awaiting' = awaiting, vault' = vault, \A o \in Conns : server'[o].state = server[o].state
  PROVE  Sound'
<1>1. /\ Head(up[c]).type \in types /\ up[c] \in Seq(UpMessages) /\ up[c] # <<>> /\ up'[c] = Tail(up[c])
      /\ \A o \in Conns \ {c} : up'[o] = up[o]
      /\ Elements(up'[c]) \subseteq Elements(up[c])
      /\ client' = client /\ server[c].state # "none"
  BY ServedIs
<1>2. down \in [Conns -> Seq(DownMessages)] /\ down[c] \in Seq(DownMessages)
  BY DEF Typed
<1>3. /\ \A o \in Conns \ {c} : down'[o] = down[o]
      /\ down'[c] = down[c] \/ (Reaches(c) /\ down'[c] = Append(down[c], m))
  BY DEF SendTo
<1>4. Elements(down'[c]) \subseteq Elements(down[c]) \union {m}
  <2>1. Elements(Append(down[c], m)) = Elements(down[c]) \union {m}
    BY <1>2, ElementsAre
  <2> QED BY <1>3, <2>1
<1>5. Kept(c) /\ client[c].phase # "unused"
  BY <1>1, OpenIsUsed DEF Sound
<1>6. Versed(c)'
  BY <1>1, <1>4, <1>5 DEF Kept, Versed, Truthful
<1>7. ASSUME ~Closed(client[c]) PROVE Ledger(c)'
  <2>1. SameBook(c)
    BY <1>1 DEF SameBook
  <2>2. CASE ~Carries(m)
    <3>1. Lighter(down'[c], down[c])
      <4>1. Lighter(Append(down[c], m), down[c]) /\ Lighter(down[c], down[c])
        BY <1>2, <2>2, SinglesAre
      <4> QED BY <1>3, <4>1
    <3>2. Lighter(up'[c], up[c])
      BY <1>1, SinglesAre
    <3>3. Calm(c)
      BY <3>1, <3>2 DEF Calm
    <3> QED BY <1>5, <1>7, <2>1, <3>3, QuietLedger DEF Kept
  <2>3. CASE Carries(m)
    BY <1>3, <1>5, <1>7, <2>1, <2>3, ReplyLedger DEF Kept
  <2> QED BY <2>2, <2>3
<1>8. Kept(c)'
  BY <1>1, <1>5, <1>6, <1>7, StaysKept
<1> QED BY <1>1, <1>3, <1>8, OneMoves

\* A commit is taken.
LEMMA SoundServeCommit == ASSUME Typed, Sound, NEW c \in Conns, ServeCommit(c) PROVE Sound'
<1>1. /\ Serves(c, {"commit"}) /\ UNCHANGED <<server, down, vault>>
      /\ awaiting' = awaiting \union {[conn |-> c, id |-> Head(up[c]).id, mutation |-> Head(up[c]).mutation]}
  BY DEF ServeCommit
<1>2. /\ \A o \in Conns \ {c} : up'[o] = up[o]
      /\ Elements(up'[c]) \subseteq Elements(up[c])
      /\ client' = client /\ server[c].state # "none"
  BY <1>1, ServedIs
<1>3. Kept(c) /\ client[c].phase # "unused"
  BY <1>2, OpenIsUsed DEF Sound
<1>4. Versed(c)'
  BY <1>1, <1>2, <1>3 DEF Kept, Versed
<1>5. ~Closed(client[c]) => Ledger(c)'
  BY <1>2, <1>3, WaitLedger DEF SameBook, Kept
<1>6. Kept(c)'
  BY <1>2, <1>3, <1>4, <1>5, StaysKept
<1>7. \A w \in awaiting' : w.conn # c => w \in awaiting
  BY <1>1
<1> QED BY <1>1, <1>2, <1>6, <1>7, OneMoves

\* What the coordinator serves.
LEMMA SoundServe == ASSUME Typed, Sound, NEW c \in Conns, Serve(c) PROVE Sound'
<1> DEFINE h == Head(up[c])
<1>1. ASSUME NEW types, types \subseteq Requests, Serves(c, types)
      PROVE  h.id \in Nat /\ h.type \in types /\ h \in Elements(up[c])
  BY <1>1, ServedIs, UpMessageIs
<1>3. ASSUME NEW types, types \subseteq Requests, Serves(c, types),
             NEW m \in DownMessages, down' = SendTo({c}, m, down), Truthful(m),
             \/ ~Carries(m)
             \/ m.type \in {"answer", "failed"} /\ m.id = h.id /\ m.kind = h.type,
             UNCHANGED <<server, awaiting, vault>>
      PROVE  Sound'
  BY <1>3, SoundReply
<1>4. /\ \A code \in SessionErrors : LET m == [type |-> "session_error", code |-> code] IN
           m \in DownMessages /\ ~Carries(m) /\ (code # "invalid_message" => Truthful(m))
      /\ \A k \in Requests, n \in Nat : LET m == Failure(k, n) IN
           /\ m \in DownMessages /\ m.type = "failed" /\ m.id = n /\ m.kind = k /\ Truthful(m)
      /\ h.id \in Nat =>
           /\ HelloAck(c) \in DownMessages /\ Truthful(HelloAck(c)) /\ HelloAck(c).type = "answer"
           /\ HelloAck(c).id = h.id /\ HelloAck(c).kind = "hello"
           /\ Page(c) \in DownMessages /\ Truthful(Page(c)) /\ Page(c).type = "answer"
           /\ Page(c).id = h.id /\ Page(c).kind = "list"
           /\ \A k \in Plain : /\ Answer(c, k) \in DownMessages /\ Truthful(Answer(c, k))
                               /\ Answer(c, k).type = "answer" /\ Answer(c, k).id = h.id
                               /\ Answer(c, k).kind = k
      /\ StatusMessage(vault) \in DownMessages /\ ~Carries(StatusMessage(vault)) /\ Truthful(StatusMessage(vault))
  BY DownMessagesAre DEF Failure, HelloAck, Page, Answer, StatusMessage, Truthful, Carries, Requests, Plain
<1> HIDE DEF h
<1>5. CASE ServeHello(c)
  <2>1. Serves(c, {"hello"}) /\ {"hello"} \subseteq Requests
    BY <1>5 DEF ServeHello, Requests
  <2>2. h.type = "hello" /\ h.id \in Nat
    BY <2>1, <1>1
  <2>3. \/ down' = SendTo({c}, [type |-> "session_error", code |-> "cursor_ahead_of_server"], down)
        \/ down' = SendTo({c}, HelloAck(c), down)
    BY <1>5 DEF ServeHello
  <2>4. UNCHANGED <<server, awaiting, vault>> /\ "cursor_ahead_of_server" \in SessionErrors
    BY <1>5 DEF ServeHello, SessionErrors
  <2>5. CASE down' = SendTo({c}, HelloAck(c), down)
    BY <1>3, <1>4, <2>1, <2>2, <2>4, <2>5
  <2>6. CASE down' = SendTo({c}, [type |-> "session_error", code |-> "cursor_ahead_of_server"], down)
    BY <1>3, <1>4, <2>1, <2>4, <2>6
  <2> QED BY <2>3, <2>5, <2>6
<1>6. CASE ServeList(c)
  <2>1. Serves(c, {"list"}) /\ {"list"} \subseteq Requests
    BY <1>6 DEF ServeList, Requests
  <2>2. h.type = "list" /\ h.id \in Nat
    BY <2>1, <1>1
  <2>3. down' = SendTo({c}, Failure("list", h.id), down) \/ down' = SendTo({c}, Page(c), down)
    BY <1>6 DEF ServeList, h
  <2>4. UNCHANGED <<server, awaiting, vault>> /\ "list" \in Requests
    BY <1>6 DEF ServeList, Requests
  <2>5. \A m \in {Failure("list", h.id), Page(c)} :
          /\ m \in DownMessages /\ Truthful(m)
          /\ m.type \in {"answer", "failed"} /\ m.id = h.id /\ m.kind = h.type
    BY <1>4, <2>2, <2>4
  <2> QED BY <1>3, <2>1, <2>3, <2>4, <2>5
<1>7. CASE ServeGet(c)
  <2>1. Serves(c, {"get"}) /\ {"get"} \subseteq Requests
    BY <1>7 DEF ServeGet, Requests
  <2>2. h.type = "get" /\ h.id \in Nat /\ h \in Elements(up[c])
    BY <2>1, <1>1
  \* The client asks it only of a server that knows it.
  <2>3. "get" \in vault.features
    BY <2>2 DEF Sound, Kept, Versed
  <2>4. down' = SendTo({c}, Answer(c, "get"), down) /\ "get" \in Plain
    BY <1>7, <2>3 DEF ServeGet, Plain
  <2>5. /\ Answer(c, "get") \in DownMessages /\ Truthful(Answer(c, "get"))
        /\ Answer(c, "get").type = "answer" /\ Answer(c, "get").id = h.id /\ Answer(c, "get").kind = h.type
    BY <1>4, <2>2, <2>4
  <2>6. UNCHANGED <<server, awaiting, vault>>
    BY <1>7 DEF ServeGet
  <2> QED BY <1>3, <2>1, <2>4, <2>5, <2>6
<1>8. CASE ServeHistory(c)
  <2>1. Serves(c, {"history"}) /\ {"history"} \subseteq Requests
    BY <1>8 DEF ServeHistory, Requests
  <2>2. h.type = "history" /\ h.id \in Nat
    BY <2>1, <1>1
  <2>3. /\ \/ down' = SendTo({c}, Failure("history", h.id), down)
           \/ down' = SendTo({c}, Answer(c, "history"), down)
        /\ "history" \in Plain
    BY <1>8 DEF ServeHistory, Plain, h
  <2>4. \A m \in {Failure("history", h.id), Answer(c, "history")} :
          /\ m \in DownMessages /\ Truthful(m)
          /\ m.type \in {"answer", "failed"} /\ m.id = h.id /\ m.kind = h.type
    BY <1>4, <2>2, <2>3 DEF Requests
  <2>5. UNCHANGED <<server, awaiting, vault>>
    BY <1>8 DEF ServeHistory
  <2> QED BY <1>3, <2>1, <2>3, <2>4, <2>5
<1>9. CASE ServeDetach(c)
  <2>1. Serves(c, {"detach"}) /\ {"detach"} \subseteq Requests
    BY <1>9 DEF ServeDetach, Requests
  <2>2. h.type = "detach" /\ h.id \in Nat
    BY <2>1, <1>1
  <2>3. /\ \/ down' = SendTo({c}, [type |-> "session_error", code |-> "detach_failed"], down)
           \/ down' = SendTo({c}, Answer(c, "detach"), down)
        /\ "detach" \in Plain /\ "detach_failed" \in SessionErrors
    BY <1>9 DEF ServeDetach, Plain, SessionErrors
  <2>4. UNCHANGED <<server, awaiting, vault>>
    BY <1>9 DEF ServeDetach
  <2>5. CASE down' = SendTo({c}, Answer(c, "detach"), down)
    BY <1>3, <1>4, <2>1, <2>2, <2>3, <2>4, <2>5
  <2>6. CASE down' = SendTo({c}, [type |-> "session_error", code |-> "detach_failed"], down)
    BY <1>3, <1>4, <2>1, <2>3, <2>4, <2>6
  <2> QED BY <2>3, <2>5, <2>6
<1>10. CASE ServeHeartbeat(c)
  <2>1. Serves(c, {"heartbeat"}) /\ {"heartbeat"} \subseteq Requests
    BY <1>10 DEF ServeHeartbeat, Requests
  <2>2. h.type = "heartbeat" /\ h.id \in Nat
    BY <2>1, <1>1
  <2>3. down' = SendTo({c}, Answer(c, "heartbeat"), down) /\ "heartbeat" \in Plain
    BY <1>10 DEF ServeHeartbeat, Plain
  <2>4. UNCHANGED <<server, awaiting, vault>>
    BY <1>10 DEF ServeHeartbeat
  <2> QED BY <1>3, <1>4, <2>1, <2>2, <2>3, <2>4
<1>11. CASE ServeWatch(c)
  <2>1. /\ Serves(c, {"watch", "unwatch"}) /\ UNCHANGED <<awaiting, vault>>
        /\ down' = SendTo({c}, StatusMessage(vault), down) \/ down' = down
    BY <1>11 DEF ServeWatch
  <2>2. \A o \in Conns : server'[o].state = server[o].state
    BY <1>11 DEF ServeWatch, Typed, Sockets
  <2> QED BY <1>4, <2>1, <2>2, SoundReply
<1>12. CASE ServeClose(c)
  BY <1>12, SoundGone DEF ServeClose
<1> QED BY <1>5, <1>6, <1>7, <1>8, <1>9, <1>10, <1>11, <1>12, SoundServeCommit DEF Serve

\* A commit that awaited the object store ends.
LEMMA SoundReturn ==
  ASSUME Typed, Sound, NEW w \in awaiting, NEW c \in Conns, c = w.conn, awaiting' = awaiting \ {w},
         UNCHANGED <<client, server, up>>, vault'.features = vault.features,
         NEW m \in DownMessages, m.type \in {"answer", "failed"}, m.id = w.id, m.kind = "commit",
         down'[c] = SendTo({c}, m, down)[c],
         \A o \in Conns \ {c} :
            /\ Lighter(down'[o], down[o])
            /\ \A x \in Elements(down'[o]) : x \in Elements(down[o]) \/ Innocent(x)
            /\ client[o].phase = "unused" => down'[o] = down[o]
  PROVE  Sound'
<1>1. Kept(c) /\ client[c].phase # "unused"
  BY OpenIsUsed DEF Sound
<1>2. down[c] \in Seq(DownMessages)
  BY DEF Typed
<1>3. down'[c] = down[c] \/ down'[c] = Append(down[c], m)
  BY DEF SendTo
<1>4. Elements(down'[c]) \subseteq Elements(down[c]) \union {m}
  <2>1. Elements(Append(down[c], m)) = Elements(down[c]) \union {m}
    BY <1>2, ElementsAre
  <2> QED BY <1>3, <2>1
<1>5. Versed(c)'
  BY <1>1, <1>4 DEF Kept, Versed
<1>6. ~Closed(client[c]) => Ledger(c)'
  BY <1>1, <1>3, ReturnLedger DEF SameBook, Kept
<1>7. Kept(c)'
  BY <1>1, <1>5, <1>6, StaysKept
<1>8. ASSUME NEW o \in Conns \ {c} PROVE Kept(o)'
  <2>1. Aside(o)
    BY StillTraffic DEF Aside, Calm, Harmless
  <2> QED BY <2>1, AsideKept DEF Sound
<1>9. OneSocketPerLocalVault'
  BY SocketsKept DEF Sound, Open
<1> QED BY <1>7, <1>8, <1>9 DEF Sound

\* The commit is answered, and the others are told of it.
LEMMA SoundCommitReturns == ASSUME Typed, Sound, NEW w \in awaiting, CommitReturns(w) PROVE Sound'
<1> DEFINE c == w.conn
<1>1. /\ c \in Conns /\ w.mutation \in Mutations
      /\ CommitAnswer(w) \in DownMessages /\ Announcement(w) \in DownMessages
      /\ down' = IF Outcome(w.mutation) = "applied"
                 THEN SendTo(Conns \ {c}, Announcement(w), AfterAnswer(w)) ELSE AfterAnswer(w)
      /\ vault' = Committed(w.mutation) /\ awaiting' = awaiting \ {w}
  BY CommitReturnsIs
<1>2. vault'.features = vault.features
  BY <1>1, CommittedIs
<1>3. UNCHANGED <<client, server, up>>
  BY DEF CommitReturns
<1>4. /\ CommitAnswer(w).type = "answer" /\ CommitAnswer(w).id = w.id /\ CommitAnswer(w).kind = "commit"
      /\ ~Carries(Announcement(w)) /\ Innocent(Announcement(w))
  BY DEF CommitAnswer, Announcement, Carries, Requests, Innocent
<1>5. down'[c] = SendTo({c}, CommitAnswer(w), down)[c]
  BY <1>1 DEF SendTo, AfterAnswer
<1>6. ASSUME NEW o \in Conns \ {c}
      PROVE  /\ Lighter(down'[o], down[o])
             /\ \A x \in Elements(down'[o]) : x \in Elements(down[o]) \/ Innocent(x)
             /\ client[o].phase = "unused" => down'[o] = down[o]
  <2>1. down'[o] = down[o] \/ down'[o] = SendTo(Conns \ {c}, Announcement(w), down)[o]
    BY <1>1 DEF SendTo, AfterAnswer
  <2>2. CASE down'[o] = down[o]
    BY <2>2, StillTraffic
  <2>3. CASE down'[o] = SendTo(Conns \ {c}, Announcement(w), down)[o]
    <3> DEFINE a == Announcement(w)
    <3>1. a \in DownMessages /\ ~Carries(a) /\ Innocent(a) /\ down'[o] = SendTo(Conns \ {c}, a, down)[o]
      BY <1>1, <1>4, <2>3
    <3> HIDE DEF a, c
    <3> QED BY <3>1, SentAside
  <2> QED BY <2>1, <2>2, <2>3
<1>7. c = w.conn
  OBVIOUS
<1> HIDE DEF c
<1> QED BY <1>1, <1>2, <1>3, <1>4, <1>5, <1>6, <1>7, SoundReturn

\* The object store or the transaction fails.
LEMMA SoundCommitFails == ASSUME Typed, Sound, NEW w \in awaiting, CommitFails(w) PROVE Sound'
<1> DEFINE c == w.conn
           m == Failure("commit", w.id)
<1>1. c \in Conns /\ w.id \in Nat /\ m \in DownMessages
  BY DownMessagesAre DEF Typed, Requests
<1>2. m.type = "failed" /\ m.id = w.id /\ m.kind = "commit"
  BY DEF Failure
<1>3. /\ UNCHANGED <<client, server, up, vault>> /\ awaiting' = awaiting \ {w}
      /\ down' = SendTo({c}, m, down)
  BY DEF CommitFails
<1>4. c = w.conn
  OBVIOUS
<1> HIDE DEF c, m
<1>5. down'[c] = SendTo({c}, m, down)[c] /\ \A o \in Conns \ {c} : down'[o] = down[o]
  BY <1>1, <1>3 DEF SendTo
<1>6. \A o \in Conns \ {c} : /\ Lighter(down'[o], down[o])
                             /\ \A x \in Elements(down'[o]) : x \in Elements(down[o]) \/ Innocent(x)
                             /\ client[o].phase = "unused" => down'[o] = down[o]
  BY <1>5, StillTraffic
<1> QED BY <1>1, <1>2, <1>3, <1>4, <1>5, <1>6, SoundReturn

\* At first no connection was opened.
LEMMA SoundInit == Init => Sound
<1> SUFFICES ASSUME Init PROVE Sound
  OBVIOUS
<1>1. \A c \in Conns : client[c] = Unused /\ server[c] = NoSocket /\ up[c] = <<>> /\ down[c] = <<>>
  BY DEF Init
<1>2. Elements(<<>>) = {}
  BY DEF Elements
<1>3. ASSUME NEW c \in Conns PROVE Kept(c)
  <2>1. Ledger(c) /\ EndIsCounted(c)
    BY <1>1 DEF Ledger, EndIsCounted, Closed, Unused
  <2>2. Waiting(c) = {}
    BY DEF Init, Waiting
  <2>3. Blank(c)
    BY <1>1, <2>2 DEF Blank, NoSocket
  <2>4. Versed(c) /\ ~client[c].strays /\ ~client[c].crossed
    BY <1>1, <1>2 DEF Versed, Unused
  <2> QED BY <2>1, <2>3, <2>4 DEF Kept
<1>4. OneSocketPerLocalVault
  BY <1>1 DEF OneSocketPerLocalVault, Open, NoSocket
<1> QED BY <1>3, <1>4 DEF Sound

\* Nothing happens.
LEMMA SoundStutter == ASSUME Typed, Sound, UNCHANGED vars PROVE Sound'
<1>1. UNCHANGED <<client, server, up, down, awaiting, vault>>
  BY DEF vars
<1>2. \A c \in Conns : Aside(c)
  BY <1>1, StillTraffic DEF Aside, Calm, Harmless
<1> QED BY <1>1, <1>2, AllAside DEF Open

\* Every step keeps what sessions owe.
LEMMA SoundStep == Typed /\ Sound /\ [Next]_vars => Sound'
<1> SUFFICES ASSUME Typed, Sound, [Next]_vars PROVE Sound'
  OBVIOUS
<1>1. CASE UNCHANGED vars
  BY <1>1, SoundStutter
<1>2. ASSUME NEW a \in Apps, OpenSession(a) \/ Edit(a) PROVE Sound'
  BY <1>2, SoundOpenSession, SoundEdit
<1>3. ASSUME NEW c \in Conns,
             \/ OpenFails(c) \/ Ask(c) \/ Beat(c) \/ TimeOut(c) \/ Close(c)
             \/ Receive(c) \/ Accept(c) \/ Serve(c) \/ CloseEnds(c)
             \/ ServerNotices(c) \/ Cut(c)
      PROVE  Sound'
  <2>1. CASE OpenFails(c) \/ Ask(c) \/ Beat(c) \/ TimeOut(c) \/ Close(c) \/ Accept(c) \/ Serve(c) \/ Cut(c)
    BY <2>1, SoundEnds, SoundAsk, SoundBeat, SoundAccept, SoundServe, SoundCut
  <2>2. CASE Receive(c)
    BY <2>2, SoundOpened, SoundReceiveAnswer, SoundReceiveFailure, SoundReceivePush, SoundReceiveError,
       SoundReceiveClose DEF Receive
  <2>3. CASE CloseEnds(c) \/ ServerNotices(c)
    BY <2>3, SoundGone DEF CloseEnds, ServerNotices
  <2> QED BY <1>3, <2>1, <2>2, <2>3
<1>4. ASSUME NEW w \in awaiting, CommitReturns(w) \/ CommitFails(w) PROVE Sound'
  BY <1>4, SoundCommitReturns, SoundCommitFails
<1>5. CASE PolicyChanges \/ UsageChanges \/ Restart
  BY <1>5, SoundChanges, SoundRestart
<1> QED BY <1>1, <1>2, <1>3, <1>4, <1>5 DEF Next

\* Whatever is lost, late or refused, and whoever ends a session: its end is reported once, an
\* answer settles the request it was made for, no server is asked what it does not know, and a
\* local vault has one open socket (Session.SessionsAreSound).
THEOREM SessionsAreAlwaysSound == Spec => []SessionsAreSound
<1>1. Init => Typed /\ Sound
  BY TypedInit, SoundInit
<1>2. Typed /\ Sound /\ [Next]_vars => (Typed /\ Sound)'
  BY TypedStep, SoundStep
<1>3. Sound => SessionsAreSound
  BY DEF Sound, Kept, EndIsCounted, Versed, SessionsAreSound, EndIsReportedOnce,
         AnswersFindTheirRequests, OldServersAreSpared
<1> QED BY <1>1, <1>2, <1>3, PTL DEF Spec

-----------------------------------------------------------------------------
(* A session in use has missed nothing.  What it was not told yet is on its *)
(* way, and what is on its way is in the order in which it happened.        *)

HelloAnswer(x) == x.type = "answer" /\ x.kind = "hello"
NoOpen(s) == \A x \in Elements(s) : x.type # "open"

\* How a session begins: the open socket is the first it hears of, the answer to its hello the
\* last it waits for.
Begins(c) ==
  /\ client[c].phase = "connecting" =>
       /\ client[c].errors = {} /\ client[c].pending = {} /\ client[c].next = 1
       /\ \/ down[c] = <<>> /\ ~Open(c)
          \/ down[c] # <<>> /\ Head(down[c]).type = "open" /\ NoOpen(Tail(down[c]))
  /\ client[c].phase \in {"hello", "live"} => NoOpen(down[c])
  /\ client[c].phase = "hello" =>
       client[c].errors = {} /\ client[c].pending \subseteq {[id |-> 1, kind |-> "hello"]}
  /\ client[c].phase = "live" => /\ \A x \in Elements(up[c]) : x.type # "hello"
                                 /\ \A x \in Elements(down[c]) : ~HelloAnswer(x)

\* An edit under way on c is the one its device waits for, or has lost to another.
InFlight(c, m) == \/ \E x \in Elements(up[c]) : x.type = "commit" /\ x.mutation = m
                  \/ \E w \in awaiting : w.conn = c /\ w.mutation = m
Mine(c) ==
  \A m \in Mutations : InFlight(c, m) =>
    m.id = device[client[c].app].todo.id \/ m.base < Len(vault.log)

\* The answer to the last edit of the log has the cursor of the vault.
Fresh(c) ==
  \A x \in Elements(down[c]) : x.type = "answer" /\ x.kind = "commit" =>
    x.stale \/ Last(vault.log) # x.mutation \/ x.cursor >= vault.cursor

\* The device of c knows the cursor of the vault, or is going to.
Own(c) == vault.log # <<>> /\ Last(vault.log) = device[client[c].app].todo.id
Hears(c) ==
  \/ device[client[c].app].heard >= vault.cursor \/ Own(c)
  \/ \E x \in Elements(down[c]) : x.type = "cursor_advanced" /\ x.cursor >= vault.cursor
Attentive(c) ==
  Reaches(c) =>
    /\ client[c].phase = "live" => Hears(c)
    /\ \A x \in Elements(down[c]) : HelloAnswer(x) => x.cursor >= vault.cursor \/ Hears(c)

\* The last message of s that tells k says v.
Tells(x, k) == \/ x.type = "policy_updated" \/ HelloAnswer(x)
               \/ k = "used" /\ x.type = "storage_status_updated"
Content(x, k) == IF k = "used" THEN x.used ELSE x.policy
Silent(s, k) == \A x \in Elements(s) : ~Tells(x, k)
Word(s, k, v) ==
  \A i \in DOMAIN s : Tells(s[i], k) /\ (\A j \in DOMAIN s : j > i => ~Tells(s[j], k))
                        => Content(s[i], k) = v

\* A session is told of the policy, and of the storage used if it watches that.
Wanted(c, k) == k = "policy" \/ (k = "used" /\ server[c].watch)
Current(c) ==
  Reaches(c) =>
    \A k \in {"policy", "used"} : Wanted(c, k) =>
      /\ Word(down[c], k, Content(vault, k))
      /\ client[c].phase = "live" /\ Silent(down[c], k) =>
           Content(device[client[c].app], k) = Content(vault, k)

\* A plugin has one session at a time.
OneSession ==
  \A c, o \in Conns : /\ ~Closed(client[c]) /\ ~Closed(client[o]) /\ client[c].app = client[o].app
                      => c = o

\* What a connection is told, and its device with it.
Listens(c) == Begins(c) /\ Fresh(c) /\ Attentive(c) /\ Current(c)
Heeded == (\A c \in Conns : Listens(c) /\ Mine(c)) /\ OneSession

Keys == {"policy", "used"}

\* What the last word of a sequence is, when the sequence grows or is read.
LEMMA WordIs ==
  ASSUME NEW S, NEW s \in Seq(S), NEW k, NEW v
  PROVE  /\ \A x \in S : /\ Tells(x, k) /\ Content(x, k) = v => Word(Append(s, x), k, v)
                         /\ ~Tells(x, k) /\ Word(s, k, v) => Word(Append(s, x), k, v)
                         /\ Silent(Append(s, x), k) => Silent(s, k) /\ ~Tells(x, k)
                         /\ ~Tells(x, k) => Word(<<x>>, k, v)
         /\ s # <<>> /\ Word(s, k, v) =>
              /\ Word(Tail(s), k, v)
              /\ Silent(Tail(s), k) =>
                   IF Tells(Head(s), k) THEN Content(Head(s), k) = v ELSE Silent(s, k)
<1>1. ASSUME NEW x \in S
      PROVE  /\ Tells(x, k) /\ Content(x, k) = v => Word(Append(s, x), k, v)
             /\ ~Tells(x, k) /\ Word(s, k, v) => Word(Append(s, x), k, v)
             /\ Silent(Append(s, x), k) => Silent(s, k) /\ ~Tells(x, k)
             /\ ~Tells(x, k) => Word(<<x>>, k, v)
  <2> DEFINE t == Append(s, x)
  <2>1. /\ DOMAIN t = 1 .. Len(s) + 1 /\ DOMAIN s = 1 .. Len(s) /\ Len(s) \in Nat
        /\ t[Len(s) + 1] = x /\ \A i \in DOMAIN s : t[i] = s[i]
    OBVIOUS
  <2>2. Elements(t) = Elements(s) \union {x}
    BY ElementsAre
  <2> HIDE DEF t
  <2>3. ASSUME Tells(x, k), Content(x, k) = v PROVE Word(t, k, v)
    <3> SUFFICES ASSUME NEW i \in DOMAIN t, \A j \in DOMAIN t : j > i => ~Tells(t[j], k)
                 PROVE  Content(t[i], k) = v
      BY DEF Word
    <3>1. i = Len(s) + 1
      BY <2>1, <2>3
    <3> QED BY <2>1, <2>3, <3>1
  <2>4. ASSUME ~Tells(x, k), Word(s, k, v) PROVE Word(t, k, v)
    <3> SUFFICES ASSUME NEW i \in DOMAIN t, Tells(t[i], k), \A j \in DOMAIN t : j > i => ~Tells(t[j], k)
                 PROVE  Content(t[i], k) = v
      BY DEF Word
    <3>1. i \in DOMAIN s /\ t[i] = s[i]
      BY <2>1, <2>4
    <3>2. \A j \in DOMAIN s : j \in DOMAIN t /\ t[j] = s[j]
      BY <2>1
    <3> QED BY <2>4, <3>1, <3>2 DEF Word
  <2>5. Silent(t, k) => Silent(s, k) /\ ~Tells(x, k)
    BY <2>2 DEF Silent
  <2>6. ~Tells(x, k) => Word(<<x>>, k, v)
    BY DEF Word
  <2> QED BY <2>3, <2>4, <2>5, <2>6 DEF t
<1>2. ASSUME s # <<>>, Word(s, k, v)
      PROVE  /\ Word(Tail(s), k, v)
             /\ Silent(Tail(s), k) =>
                  IF Tells(Head(s), k) THEN Content(Head(s), k) = v ELSE Silent(s, k)
  <2> DEFINE t == Tail(s)
  <2>1. /\ Len(s) \in Nat /\ Len(s) > 0 /\ DOMAIN s = 1 .. Len(s) /\ DOMAIN t = 1 .. Len(s) - 1
        /\ Head(s) = s[1] /\ \A i \in DOMAIN t : t[i] = s[i + 1]
    BY <1>2
  <2> HIDE DEF t
  <2>2. Word(t, k, v)
    <3> SUFFICES ASSUME NEW i \in DOMAIN t, Tells(t[i], k), \A j \in DOMAIN t : j > i => ~Tells(t[j], k)
                 PROVE  Content(t[i], k) = v
      BY DEF Word
    <3>1. i + 1 \in DOMAIN s /\ t[i] = s[i + 1]
      BY <2>1
    <3>2. ASSUME NEW j \in DOMAIN s, j > i + 1 PROVE ~Tells(s[j], k)
      <4>1. j - 1 \in DOMAIN t /\ j - 1 > i /\ t[j - 1] = s[j - 1 + 1] /\ j - 1 + 1 = j
        BY <2>1, <3>2
      <4> QED BY <4>1
    <3> QED BY <1>2, <3>1, <3>2 DEF Word
  <2>3. ASSUME Silent(t, k) PROVE IF Tells(Head(s), k) THEN Content(Head(s), k) = v ELSE Silent(s, k)
    <3>1. ASSUME NEW j \in DOMAIN s, j > 1 PROVE ~Tells(s[j], k)
      <4>1. j - 1 \in DOMAIN t /\ t[j - 1] = s[j - 1 + 1] /\ j - 1 + 1 = j
        BY <2>1, <3>1
      <4>2. t[j - 1] \in Elements(t)
        BY <4>1 DEF Elements
      <4> QED BY <2>3, <4>1, <4>2 DEF Silent
    <3>2. 1 \in DOMAIN s
      BY <2>1
    <3>3. CASE Tells(Head(s), k)
      BY <1>2, <2>1, <3>1, <3>2, <3>3 DEF Word
    <3>4. CASE ~Tells(Head(s), k)
      <4>1. \A j \in DOMAIN s : ~Tells(s[j], k)
        BY <2>1, <3>1, <3>4
      <4> QED BY <3>4, <4>1 DEF Silent, Elements
    <3> QED BY <3>3, <3>4
  <2> QED BY <2>2, <2>3 DEF t
<1> QED BY <1>1, <1>2

\* A connection of which a step shows its client nothing.
LEMMA Unmoved ==
  ASSUME NEW o \in Conns, Listens(o), vault' = vault, down'[o] = down[o],
         client'[o].phase = client[o].phase, client'[o].app = client[o].app,
         client[o].phase = "live" \/ client'[o] = client[o],
         \A x \in Elements(up'[o]) : x.type = "hello" => x \in Elements(up[o]),
         Open(o)' => Open(o), Reaches(o)' => Reaches(o) /\ server'[o].watch = server[o].watch,
         \/ Closed(client[o])
         \/ /\ device'[client[o].app].heard = device[client[o].app].heard
            /\ device'[client[o].app].policy = device[client[o].app].policy
            /\ device'[client[o].app].used = device[client[o].app].used
            /\ Own(o) => device'[client[o].app].todo = device[client[o].app].todo
  PROVE  Listens(o)'
<1>1. Begins(o)'
  BY DEF Listens, Begins
<1>2. Fresh(o)'
  BY DEF Listens, Fresh
<1>3. ASSUME Reaches(o)' PROVE Reaches(o) /\ ~Closed(client[o]) /\ server'[o].watch = server[o].watch
  BY <1>3 DEF Reaches
<1>4. Attentive(o)'
  <2> SUFFICES ASSUME Reaches(o)'
               PROVE  /\ client'[o].phase = "live" => Hears(o)'
                      /\ \A x \in Elements(down'[o]) : HelloAnswer(x) => x.cursor >= vault'.cursor \/ Hears(o)'
    BY DEF Attentive
  <2>1. Hears(o) => Hears(o)'
    BY <1>3 DEF Hears, Own
  <2> QED BY <1>3, <2>1 DEF Listens, Attentive
<1>5. Current(o)'
  <2> SUFFICES ASSUME Reaches(o)', NEW k \in Keys, Wanted(o, k)'
               PROVE  /\ Word(down'[o], k, Content(vault', k))
                      /\ client'[o].phase = "live" /\ Silent(down'[o], k) =>
                           Content(device'[client'[o].app], k) = Content(vault', k)
    BY DEF Current, Keys
  <2>1. Wanted(o, k)
    BY <1>3 DEF Wanted
  <2>2. Content(device'[client'[o].app], k) = Content(device[client[o].app], k)
    BY <1>3 DEF Content
  <2>3. k \in {"policy", "used"}
    BY DEF Keys
  <2> QED BY <1>3, <2>1, <2>2, <2>3 DEF Listens, Current
<1> QED BY <1>1, <1>2, <1>4, <1>5 DEF Listens

\* A connection that is over for its client.
LEMMA Departed ==
  ASSUME NEW o \in Conns, Listens(o), vault' = vault, Closed(client'[o]),
         \A x \in Elements(down'[o]) : x \in Elements(down[o])
  PROVE  Listens(o)'
<1>1. ~Reaches(o)'
  BY DEF Reaches
<1>2. Begins(o)'
  BY DEF Begins, Closed
<1>3. Fresh(o)'
  BY DEF Listens, Fresh
<1> QED BY <1>1, <1>2, <1>3 DEF Listens, Attentive, Current

\* A connection that the coordinator no longer reaches.
LEMMA Unreached ==
  ASSUME NEW o \in Conns, Listens(o), vault' = vault, Begins(o)', ~Reaches(o)',
         \A x \in Elements(down'[o]) : x \in Elements(down[o])
  PROVE  Listens(o)'
<1>1. Fresh(o)'
  BY DEF Listens, Fresh
<1> QED BY <1>1 DEF Listens, Attentive, Current

\* What is joined to a sequence that has a head is part of its tail.
LEMMA HeadStays ==
  ASSUME NEW S, NEW s \in Seq(S), NEW x \in S, s # <<>>
  PROVE  /\ Append(s, x) # <<>> /\ Head(Append(s, x)) = Head(s)
         /\ Elements(Tail(Append(s, x))) \subseteq Elements(Tail(s)) \union {x}
<1> DEFINE t == Append(s, x)
<1>1. /\ Len(s) \in Nat /\ Len(s) > 0 /\ Len(t) = Len(s) + 1 /\ t[Len(s) + 1] = x
      /\ \A i \in 1 .. Len(s) : t[i] = s[i]
  OBVIOUS
<1>2. t \in Seq(S) /\ t # <<>>
  BY <1>1
<1> HIDE DEF t
<1>3. Head(t) = t[1] /\ Head(s) = s[1] /\ t[1] = s[1]
  BY <1>1, <1>2
<1>4. /\ DOMAIN Tail(t) = 1 .. Len(s) /\ \A i \in 1 .. Len(s) : Tail(t)[i] = t[i + 1]
      /\ DOMAIN Tail(s) = 1 .. Len(s) - 1 /\ \A i \in 1 .. Len(s) - 1 : Tail(s)[i] = s[i + 1]
  BY <1>1, <1>2
<1>5. ASSUME NEW i \in DOMAIN Tail(t) PROVE Tail(t)[i] \in Elements(Tail(s)) \union {x}
  <2>1. i \in 1 .. Len(s)
    BY <1>4
  <2>2. CASE i = Len(s)
    BY <1>1, <1>4, <2>2
  <2>3. CASE i # Len(s)
    <3>1. i \in DOMAIN Tail(s) /\ i + 1 \in 1 .. Len(s)
      BY <1>1, <1>4, <2>1, <2>3
    <3>2. Tail(t)[i] = Tail(s)[i]
      BY <1>1, <1>4, <2>1, <3>1
    <3> QED BY <3>1, <3>2 DEF Elements
  <2> QED BY <2>2, <2>3
<1>6. Elements(Tail(t)) \subseteq Elements(Tail(s)) \union {x}
  BY <1>5 DEF Elements
<1> QED BY <1>2, <1>3, <1>6 DEF t

\* What the coordinator tells a client, or does not.
LEMMA SentListens ==
  ASSUME Typed, NEW o \in Conns, Begins(o), Attentive(o), Current(o),
         client' = client, device' = device, cut' = cut, Open(o)' => Open(o),
         \A y \in Elements(up'[o]) : y.type = "hello" => y \in Elements(up[o]),
         NEW x \in DownMessages, NEW hears \in BOOLEAN,
         down'[o] = IF hears /\ Reaches(o) THEN Append(down[o], x) ELSE down[o],
         x.type # "open", hears /\ HelloAnswer(x) => client[o].phase # "live",
         \/ ~Reaches(o) \/ Hears(o)'
         \/ /\ vault'.cursor = vault.cursor /\ vault'.log = vault.log
            /\ hears /\ HelloAnswer(x) => x.cursor >= vault.cursor,
         \A k \in Keys : Wanted(o, k)' =>
           \/ hears /\ Tells(x, k) /\ Content(x, k) = Content(vault', k)
           \/ Wanted(o, k) /\ Content(vault', k) = Content(vault, k) /\ (hears => ~Tells(x, k))
  PROVE  Begins(o)' /\ Attentive(o)' /\ Current(o)'
<1>1. down[o] \in Seq(DownMessages)
  BY DEF Typed
<1>2. Reaches(o)' => Reaches(o)
  BY DEF Reaches
<1>3. ASSUME hears, Reaches(o)
      PROVE  down'[o] = Append(down[o], x) /\ Elements(down'[o]) = Elements(down[o]) \union {x}
  BY <1>1, <1>3, ElementsAre
<1>4. ~(hears /\ Reaches(o)) => down'[o] = down[o]
  OBVIOUS
<1>5. Elements(down[o]) \subseteq Elements(down'[o]) /\ Elements(down'[o]) \subseteq Elements(down[o]) \union {x}
  BY <1>3, <1>4
<1>6. Begins(o)'
  <2>1. CASE client[o].phase = "connecting"
    <3>1. CASE ~(hears /\ Reaches(o))
      BY <1>4, <2>1, <3>1 DEF Begins
    <3>2. CASE hears /\ Reaches(o)
      <4>1. down[o] # <<>> /\ Head(down[o]).type = "open" /\ NoOpen(Tail(down[o]))
        BY <2>1, <3>2 DEF Begins, Reaches
      <4>2. /\ down'[o] # <<>> /\ Head(down'[o]) = Head(down[o])
            /\ Elements(Tail(down'[o])) \subseteq Elements(Tail(down[o])) \union {x}
        BY <1>1, <1>3, <3>2, <4>1, HeadStays
      <4>3. NoOpen(Tail(down'[o]))
        BY <4>1, <4>2 DEF NoOpen
      <4> QED BY <2>1, <4>1, <4>2, <4>3 DEF Begins
    <3> QED BY <3>1, <3>2
  <2>2. CASE client[o].phase # "connecting"
    <3>1. client[o].phase \in {"hello", "live"} => NoOpen(down'[o])
      BY <1>5 DEF Begins, NoOpen
    <3>2. client[o].phase = "live" => \A y \in Elements(down'[o]) : ~HelloAnswer(y)
      BY <1>3, <1>4 DEF Begins
    <3> QED BY <2>2, <3>1, <3>2 DEF Begins
  <2> QED BY <2>1, <2>2
<1>7. Attentive(o)'
  <2> SUFFICES ASSUME Reaches(o)', ~Hears(o)'
               PROVE  /\ client'[o].phase # "live"
                      /\ \A y \in Elements(down'[o]) : HelloAnswer(y) => y.cursor >= vault'.cursor
    BY DEF Attentive
  <2>1. /\ vault'.cursor = vault.cursor /\ vault'.log = vault.log
        /\ hears /\ HelloAnswer(x) => x.cursor >= vault.cursor
    BY <1>2
  <2>2. ~Hears(o)
    BY <1>5, <2>1 DEF Hears, Own
  <2>3. /\ client[o].phase # "live"
        /\ \A y \in Elements(down[o]) : HelloAnswer(y) => y.cursor >= vault.cursor
    BY <1>2, <2>2 DEF Attentive
  <2> QED BY <1>2, <1>3, <1>4, <2>1, <2>3
<1>8. Current(o)'
  <2> SUFFICES ASSUME Reaches(o)', NEW k \in Keys, Wanted(o, k)'
               PROVE  /\ Word(down'[o], k, Content(vault', k))
                      /\ client'[o].phase = "live" /\ Silent(down'[o], k) =>
                           Content(device'[client'[o].app], k) = Content(vault', k)
    BY DEF Current, Keys
  <2>1. CASE hears /\ Tells(x, k) /\ Content(x, k) = Content(vault', k)
    <3>1. down'[o] = Append(down[o], x)
      BY <1>2, <1>3, <2>1
    <3>2. Word(down'[o], k, Content(vault', k))
      <4>1. \A v : Tells(x, k) /\ Content(x, k) = v => Word(Append(down[o], x), k, v)
        BY <1>1, WordIs
      <4> QED BY <2>1, <3>1, <4>1
    <3>3. ~Silent(down'[o], k)
      <4>1. Silent(Append(down[o], x), k) => ~Tells(x, k)
        BY <1>1, WordIs
      <4> QED BY <2>1, <3>1, <4>1
    <3> QED BY <3>2, <3>3
  <2>2. CASE Wanted(o, k) /\ Content(vault', k) = Content(vault, k) /\ (hears => ~Tells(x, k))
    <3>1. /\ Word(down[o], k, Content(vault', k))
          /\ client[o].phase = "live" /\ Silent(down[o], k) =>
               Content(device[client[o].app], k) = Content(vault', k)
      BY <1>2, <2>2 DEF Current, Keys
    <3>2. CASE hears
      <4>1. down'[o] = Append(down[o], x) /\ ~Tells(x, k)
        BY <1>2, <1>3, <2>2, <3>2
      <4>2. Word(down'[o], k, Content(vault', k))
        BY <1>1, <3>1, <4>1, WordIs
      <4>3. Silent(down'[o], k) => Silent(down[o], k)
        BY <1>1, <4>1, WordIs
      <4> QED BY <3>1, <4>2, <4>3
    <3>3. CASE ~hears
      BY <1>4, <3>1, <3>3
    <3> QED BY <3>2, <3>3
  <2> QED BY <2>1, <2>2
<1> QED BY <1>6, <1>7, <1>8

\* What is in a sequence is its head, or is in its tail.
LEMMA HeadOrTail ==
  ASSUME NEW S, NEW s \in Seq(S), s # <<>>, NEW x \in Elements(s), x # Head(s)
  PROVE  x \in Elements(Tail(s))
<1>1. PICK i \in DOMAIN s : x = s[i]
  BY DEF Elements
<1>2. /\ Len(s) \in Nat /\ DOMAIN s = 1 .. Len(s) /\ DOMAIN Tail(s) = 1 .. Len(s) - 1 /\ Head(s) = s[1]
      /\ \A j \in 1 .. Len(s) - 1 : Tail(s)[j] = s[j + 1]
  OBVIOUS
<1>3. i - 1 \in DOMAIN Tail(s) /\ Tail(s)[i - 1] = s[i - 1 + 1] /\ i - 1 + 1 = i
  BY <1>1, <1>2
<1> QED BY <1>1, <1>3 DEF Elements

\* What a client reads of the coordinator.
LEMMA ReadListens ==
  ASSUME Typed, NEW c \in Conns, Attentive(c), Current(c), ~Closed(client[c]),
         down[c] # <<>>, down'[c] = Tail(down[c]), vault' = vault, server' = server, cut' = cut,
         client'[c].app = client[c].app,
         NEW m, m = Head(down[c]), NEW d, d = device[client[c].app], NEW e, e = device'[client[c].app],
         d.heard \in Nat, e.heard \in Nat, e.heard >= d.heard,
         m.type = "cursor_advanced" => e.heard >= m.cursor,
         Own(c) => Own(c)' \/ e.heard >= vault.cursor,
         \A k \in Keys : Content(e, k) = IF Tells(m, k) THEN Content(m, k) ELSE Content(d, k),
         client'[c].phase = "live" =>
           client[c].phase = "live" \/ (HelloAnswer(m) /\ e.heard >= m.cursor)
  PROVE  Attentive(c)' /\ Current(c)'
<1>1. /\ down[c] \in Seq(DownMessages) /\ Elements(down'[c]) \subseteq Elements(down[c])
      /\ m \in Elements(down[c]) /\ m \in DownMessages /\ vault.cursor \in Nat
  BY ElementsAre DEF Typed, VaultStates
<1>2. \A x \in Elements(down[c]) : x = m \/ x \in Elements(down'[c])
  BY <1>1, HeadOrTail
<1>3. Reaches(c)' => Reaches(c)
  BY DEF Reaches, Open
<1>4. Hears(c) => Hears(c)'
  <2>1. CASE d.heard >= vault.cursor
    BY <1>1, <2>1 DEF Hears
  <2>2. CASE Own(c)
    BY <2>2 DEF Hears
  <2>3. CASE \E x \in Elements(down[c]) : x.type = "cursor_advanced" /\ x.cursor >= vault.cursor
    <3>1. PICK x \in Elements(down[c]) : x.type = "cursor_advanced" /\ x.cursor >= vault.cursor
      BY <2>3
    <3>2. x \in DownMessages
      BY <1>1, <3>1, ElementsAre
    <3>3. x.cursor \in Nat
      BY <3>1, <3>2, DownMessageIs
    <3>4. CASE x = m
      <4>1. e.heard >= vault.cursor
        BY <1>1, <3>1, <3>3, <3>4
      <4> QED BY <4>1 DEF Hears
    <3>5. CASE x # m
      BY <1>2, <3>1, <3>5 DEF Hears
    <3> QED BY <3>4, <3>5
  <2> QED BY <2>1, <2>2, <2>3 DEF Hears
<1>5. Attentive(c)'
  <2> SUFFICES ASSUME Reaches(c)', ~Hears(c)'
               PROVE  /\ client'[c].phase # "live"
                      /\ \A x \in Elements(down'[c]) : HelloAnswer(x) => x.cursor >= vault'.cursor
    BY DEF Attentive
  <2>1. /\ client[c].phase # "live"
        /\ \A x \in Elements(down[c]) : HelloAnswer(x) => x.cursor >= vault.cursor
    BY <1>3, <1>4 DEF Attentive
  <2>2. ~(HelloAnswer(m) /\ e.heard >= m.cursor)
    <3> SUFFICES ASSUME HelloAnswer(m), e.heard >= m.cursor PROVE FALSE
      OBVIOUS
    <3>1. m.cursor >= vault.cursor
      BY <1>1, <2>1
    <3>2. m.cursor \in Nat
      BY <1>1, DownMessageIs DEF HelloAnswer
    <3>3. e.heard >= vault.cursor
      BY <1>1, <3>1, <3>2
    <3> QED BY <3>3 DEF Hears
  <2> QED BY <1>1, <2>1, <2>2
<1>6. Current(c)'
  <2> SUFFICES ASSUME Reaches(c)', NEW k \in Keys, Wanted(c, k)'
               PROVE  /\ Word(down'[c], k, Content(vault', k))
                      /\ client'[c].phase = "live" /\ Silent(down'[c], k) =>
                           Content(device'[client'[c].app], k) = Content(vault', k)
    BY DEF Current, Keys
  <2>1. /\ Word(down[c], k, Content(vault, k))
        /\ client[c].phase = "live" /\ Silent(down[c], k) =>
             Content(device[client[c].app], k) = Content(vault, k)
    BY <1>3 DEF Current, Keys, Wanted
  <2>2. Word(down'[c], k, Content(vault', k))
    BY <1>1, <2>1, WordIs
  <2>3. ASSUME client'[c].phase = "live", Silent(down'[c], k) PROVE Content(e, k) = Content(vault, k)
    <3>1. IF Tells(m, k) THEN Content(m, k) = Content(vault, k) ELSE Silent(down[c], k)
      BY <1>1, <2>1, <2>3, WordIs
    <3>2. ~Tells(m, k) => client[c].phase = "live"
      BY <2>3 DEF Tells
    <3> QED BY <2>1, <3>1, <3>2
  <2> QED BY <2>2, <2>3
<1> QED BY <1>5, <1>6

\* The answers to edits stay as fresh as they were.
LEMMA FreshKept ==
  ASSUME NEW o \in Conns, Fresh(o), vault'.log = vault.log, vault'.cursor = vault.cursor,
         \A x \in Elements(down'[o]) : x.type = "answer" /\ x.kind = "commit" => x \in Elements(down[o])
  PROVE  Fresh(o)'
BY DEF Fresh

\* The edits under way on a connection stay those its device waits for, or has lost.
LEMMA MineKept ==
  ASSUME Typed, NEW o \in Conns, Mine(o), client'[o].app = client[o].app, awaiting' \subseteq awaiting,
         \A x \in Elements(up'[o]) : x.type = "commit" => x \in Elements(up[o]),
         Len(vault'.log) \in Nat, Len(vault'.log) >= Len(vault.log),
         device'[client[o].app].todo = device[client[o].app].todo
  PROVE  Mine(o)'
<1> SUFFICES ASSUME NEW n \in Mutations, InFlight(o, n)'
             PROVE  n.id = device'[client'[o].app].todo.id \/ n.base < Len(vault'.log)
  BY DEF Mine
<1>1. InFlight(o, n)
  BY DEF InFlight
<1>2. n.base \in Nat /\ Len(vault.log) \in Nat
  BY DEF Typed, Mutations, VaultStates
<1> QED BY <1>1, <1>2 DEF Mine

\* Nothing is under way on a connection that was not opened.
LEMMA NoFlight ==
  ASSUME NEW o \in Conns, Blank(o), client[o].phase = "unused"
  PROVE  /\ down[o] = <<>> /\ ~Open(o) /\ \A n : ~InFlight(o, n)
         /\ up[o] = <<>> /\ \A w \in awaiting : w.conn # o
<1>1. up[o] = <<>> /\ down[o] = <<>> /\ server[o].state = "none" /\ Waiting(o) = {}
  BY DEF Blank
<1>2. \A w \in awaiting : w.conn # o
  BY <1>1 DEF Waiting
<1>3. Elements(up[o]) = {}
  BY <1>1 DEF Elements
<1> QED BY <1>1, <1>2, <1>3 DEF InFlight, Open

\* A step of one connection, of which the others see nothing.
LEMMA OneActs ==
  ASSUME Typed, Heeded, NEW c \in Conns, vault' = vault,
         \A o \in Conns \ {c} : /\ client'[o] = client[o] /\ up'[o] = up[o] /\ down'[o] = down[o]
                                /\ server'[o] = server[o] /\ (o \in cut' <=> o \in cut),
         \/ device' = device
         \/ ~Closed(client[c]) /\ \A a \in Apps \ {client[c].app} : device'[a] = device[a],
         Listens(c)', \A o \in Conns : Mine(o)',
         ~Closed(client'[c]) => ~Closed(client[c]) /\ client'[c].app = client[c].app
  PROVE  Heeded'
<1>1. ASSUME NEW o \in Conns \ {c} PROVE Listens(o)'
  <2>1. Closed(client[o]) \/ device'[client[o].app] = device[client[o].app]
    <3> SUFFICES ASSUME ~Closed(client[o]), device' # device
                 PROVE  device'[client[o].app] = device[client[o].app]
      OBVIOUS
    <3>1. client[o].app \in Apps
      BY DEF Typed, Closed
    <3>2. client[o].app # client[c].app
      BY DEF Heeded, OneSession
    <3> QED BY <3>1, <3>2
  <2>2. /\ client'[o] = client[o] /\ up'[o] = up[o] /\ down'[o] = down[o]
        /\ server'[o] = server[o] /\ (o \in cut' <=> o \in cut)
    OBVIOUS
  <2>3. (Open(o)' => Open(o)) /\ (Reaches(o)' => Reaches(o) /\ server'[o].watch = server[o].watch)
    BY <2>2 DEF Open, Reaches
  <2> QED BY <2>1, <2>2, <2>3, Unmoved DEF Heeded
<1>2. OneSession'
  BY DEF Heeded, OneSession
<1> QED BY <1>1, <1>2 DEF Heeded

\* A session begins with nothing said on its connection.
LEMMA HeedOpenSession == ASSUME Typed, Sound, Heeded, NEW a \in Apps, OpenSession(a) PROVE Heeded'
<1>1. PICK c \in Conns : /\ client[c].phase = "unused"
                         /\ client' = [client EXCEPT ![c] = [Unused EXCEPT !.app = a, !.phase = "connecting"]]
  BY DEF OpenSession
<1>2. /\ client'[c].app = a /\ client'[c].phase = "connecting" /\ client'[c].errors = {}
      /\ client'[c].pending = {} /\ client'[c].next = 1
      /\ \A o \in Conns \ {c} : client'[o] = client[o]
  BY <1>1 DEF Typed, Unused
<1>3. UNCHANGED <<server, up, down, cut, awaiting, vault, device>> /\ \A o \in Conns : client[o].app = a => Closed(client[o])
  BY DEF OpenSession
<1>4. down[c] = <<>> /\ ~Open(c) /\ (\A n : ~InFlight(c, n)) /\ Elements(<<>>) = {}
  BY <1>1, NoFlight DEF Sound, Kept, Elements
<1>5. Listens(c)'
  <2>1. ~Reaches(c)' /\ ~Open(c)'
    BY <1>3, <1>4 DEF Reaches, Open
  <2>2. Begins(c)'
    BY <1>2, <1>3, <1>4, <2>1 DEF Begins
  <2> QED BY <1>3, <2>1, <2>2, Unreached DEF Heeded
<1>6. ASSUME NEW o \in Conns \ {c} PROVE Listens(o)'
  BY <1>2, <1>3, Unmoved DEF Heeded, Open, Reaches
<1>7. ASSUME NEW o \in Conns PROVE Mine(o)'
  <2>1. CASE o = c
    BY <1>3, <1>4, <2>1 DEF Mine, InFlight
  <2>2. CASE o # c
    BY <1>2, <1>3, <2>2 DEF Heeded, Mine, InFlight
  <2> QED BY <2>1, <2>2
<1>8. OneSession'
  BY <1>2, <1>3 DEF Heeded, OneSession, Closed
<1> QED BY <1>5, <1>6, <1>7, <1>8 DEF Heeded

\* An edit that begins to wait is not one that is known already.
LEMMA HeedEdit == ASSUME Typed, Fated, Sound, Heeded, NEW a \in Apps, Edit(a) PROVE Heeded'
<1>1. UNCHANGED <<client, server, up, down, cut, awaiting, vault>> /\ device[a].todo = None
  BY DEF Edit
<1>2. /\ device'[a].heard = device[a].heard /\ device'[a].policy = device[a].policy
      /\ device'[a].used = device[a].used
      /\ \A b \in Apps \ {a} : device'[b] = device[b]
  BY DEF Edit, Typed, Devices
<1>3. Len(vault.log) \in Nat /\ vault.log \in Seq(Nat) /\ spent.edits \in Nat
  BY DEF Typed, VaultStates
<1>4. vault.log # <<>> => Last(vault.log) # 0
  <2> SUFFICES ASSUME vault.log # <<>> PROVE Last(vault.log) # 0
    OBVIOUS
  <2>1. Len(vault.log) \in DOMAIN vault.log
    BY <1>3
  <2>2. vault.log[Len(vault.log)] \in 1 .. spent.edits
    BY <2>1 DEF Fated, LogIsOnce
  <2> QED BY <1>3, <2>2 DEF Last
<1>5. ASSUME NEW o \in Conns PROVE Listens(o)'
  <2>1. CASE Closed(client[o])
    BY <1>1, <2>1, Departed DEF Heeded
  <2>2. CASE ~Closed(client[o])
    <3>1. client[o].app \in Apps
      BY <2>2 DEF Typed, Closed
    <3>2. Own(o) => device'[client[o].app].todo = device[client[o].app].todo
      <4>1. CASE client[o].app = a
        BY <1>1, <1>4, <4>1 DEF Own, None
      <4> QED BY <1>2, <3>1, <4>1
    <3>3. /\ device'[client[o].app].heard = device[client[o].app].heard
          /\ device'[client[o].app].policy = device[client[o].app].policy
          /\ device'[client[o].app].used = device[client[o].app].used
      BY <1>2, <3>1
    <3>4. /\ Listens(o) /\ client'[o] = client[o] /\ up'[o] = up[o] /\ down'[o] = down[o] /\ vault' = vault
          /\ (Open(o)' => Open(o)) /\ (Reaches(o)' => Reaches(o) /\ server'[o].watch = server[o].watch)
      BY <1>1 DEF Heeded, Open, Reaches
    <3> QED BY <3>2, <3>3, <3>4, Unmoved
  <2> QED BY <2>1, <2>2
<1>6. ASSUME NEW o \in Conns, NEW n \in Mutations, InFlight(o, n)'
      PROVE  n.id = device'[client'[o].app].todo.id \/ n.base < Len(vault'.log)
  <2>1. InFlight(o, n)
    BY <1>1, <1>6 DEF InFlight
  <2>2. n.id = device[client[o].app].todo.id \/ n.base < Len(vault.log)
    BY <2>1 DEF Heeded, Mine
  <2>3. client[o].phase # "unused"
    BY <2>1, NoFlight DEF Sound, Kept
  <2>4. client[o].app \in Apps
    BY <2>3 DEF Typed
  <2>5. CASE client[o].app = a
    <3>1. InPlay(n)
      BY <2>1 DEF InPlay, InFlight
    <3>2. n.id # 0
      BY <1>3, <3>1 DEF Fated, PlayIsKnown
    <3> QED BY <1>1, <2>2, <2>5, <3>2 DEF None
  <2>6. CASE client[o].app # a
    BY <1>1, <1>2, <2>2, <2>4, <2>6
  <2> QED BY <2>5, <2>6
<1>7. \A o \in Conns : Mine(o)'
  BY <1>6 DEF Mine
<1>8. OneSession'
  BY <1>1 DEF Heeded, OneSession
<1> QED BY <1>5, <1>7, <1>8 DEF Heeded

\* A session that ends on the side of its client.
LEMMA HeedEnds ==
  ASSUME Typed, Sound, Heeded, NEW c \in Conns, TimeOut(c) \/ Close(c) \/ OpenFails(c)
  PROVE  Heeded'
<1>1. /\ down' = [down EXCEPT ![c] = <<>>] /\ UNCHANGED <<server, awaiting, vault, device>>
      /\ cut' = cut \/ cut' = cut \union {c}
      /\ up' = up \/ up' = [up EXCEPT ![c] = Hangs(c)]
  BY DEF TimeOut, Close, OpenFails, Ends
<1>2. ~Closed(client[c])
  BY DEF TimeOut, Close, OpenFails, Sound, Kept, EndIsCounted, Closed
<1>3. PICK x : client' = [client EXCEPT ![c] = x] /\ Closed(x) /\ x.app = client[c].app
  <2>1. client[c] \in Clients
    BY DEF Typed
  <2>2. Failed(client[c]) = Ended(client[c]) /\ Over(client[c], Ended(client[c])) /\ Over(client[c], ClosedByUs(client[c]))
    BY <1>2, <2>1, EndingIs
  <2>3. \/ client' = [client EXCEPT ![c] = Failed(client[c])]
        \/ client' = [client EXCEPT ![c] = ClosedByUs(client[c])]
    BY DEF TimeOut, Close, OpenFails, Ends, TimesOut
  <2> QED BY <2>2, <2>3 DEF Over, Closed
<1>4. /\ client'[c] = x /\ \A o \in Conns \ {c} : client'[o] = client[o]
      /\ down'[c] = <<>> /\ \A o \in Conns \ {c} : down'[o] = down[o] /\ up'[o] = up[o]
      /\ up'[c] = up[c] \/ up'[c] = Hangs(c)
  BY <1>1, <1>3 DEF Typed
<1>5. Elements(<<>>) = {}
  BY DEF Elements
<1>6. Listens(c)'
  BY <1>1, <1>3, <1>4, <1>5, Departed DEF Heeded
<1>7. ASSUME NEW o \in Conns PROVE Mine(o)'
  <2>1. \A y \in Elements(up'[o]) : y.type = "commit" => y \in Elements(up[o])
    BY <1>4, HangsIs DEF CloseFrame
  <2>2. client'[o].app = client[o].app /\ device' = device /\ awaiting' = awaiting
    BY <1>1, <1>3, <1>4
  <2>3. Len(vault'.log) \in Nat /\ Len(vault'.log) >= Len(vault.log)
    BY <1>1 DEF Typed, VaultStates
  <2> QED BY <2>1, <2>2, <2>3, MineKept DEF Heeded
<1> QED BY <1>1, <1>3, <1>4, <1>6, <1>7, OneActs

\* A live session that speaks, and puts no edit under way.
LEMMA HeedSays ==
  ASSUME Typed, Heeded, NEW c \in Conns, NEW m \in UpMessages, m.type \notin {"hello", "commit"}, Says(c, m),
         UNCHANGED <<server, down, cut, awaiting, vault, device>>,
         client'[c].phase = "live", client'[c].app = client[c].app,
         \A o \in Conns \ {c} : client'[o] = client[o]
  PROVE  Heeded'
<1>1. /\ client[c].phase = "live" /\ up'[c] = ToServer(c, m) /\ \A o \in Conns \ {c} : up'[o] = up[o]
      /\ Elements(ToServer(c, m)) \subseteq Elements(up[c]) \union {m}
  BY SaysIs, ToServerIs
<1>2. Reaches(c)' => Reaches(c)
  BY <1>1 DEF Reaches, Open, Closed
<1>3. Listens(c)'
  BY <1>1, <1>2, Unmoved DEF Heeded, Open
<1>4. ASSUME NEW o \in Conns PROVE Mine(o)'
  <2>1. \A x \in Elements(up'[o]) : x.type = "commit" => x \in Elements(up[o])
    BY <1>1
  <2>2. vault' = vault /\ client'[o].app = client[o].app
    OBVIOUS
  <2>3. Len(vault'.log) \in Nat /\ Len(vault'.log) >= Len(vault.log)
    BY <2>2 DEF Typed, VaultStates
  <2> QED BY <2>1, <2>2, <2>3, MineKept DEF Heeded
<1> QED BY <1>1, <1>3, <1>4, OneActs DEF Closed

\* A live session that asks something of the coordinator, but for a commit.
LEMMA HeedAsks ==
  ASSUME Typed, Heeded, NEW c \in Conns, NEW m \in UpMessages, m.type \notin {"hello", "commit"}, Says(c, m),
         NEW kind \in Requests, Asks(c, kind)
  PROVE  Heeded'
<1>1. client[c].phase = "live" /\ client[c] \in Clients
  BY DEF Says, Typed
<1>2. client'[c] = Asked(client[c], kind) /\ \A o \in Conns \ {c} : client'[o] = client[o]
  BY <1>1, AsksIs
<1>3. client'[c].phase = "live" /\ client'[c].app = client[c].app
  BY <1>1, <1>2, AskedIs
<1>4. UNCHANGED <<server, down, cut, awaiting, vault, device>>
  BY DEF Asks
<1> QED BY <1>2, <1>3, <1>4, HeedSays

\* The requests of the plugin; a commit is of the edit that its device waits for.
LEMMA HeedAsk == ASSUME Typed, Heeded, NEW c \in Conns, Ask(c) PROVE Heeded'
<1>1. CASE Commit(c)
  <2> DEFINE todo == device[client[c].app].todo
             m == [type |-> "commit", id |-> Number(c), mutation |-> todo]
  <2>1. client[c].phase = "live" /\ client[c] \in Clients /\ Says(c, m) /\ Asks(c, "commit")
    BY <1>1 DEF Commit, Typed
  <2>2. m \in UpMessages /\ m.type = "commit" /\ m.mutation = todo
    BY <2>1, AskMessages
  <2> HIDE DEF m
  <2>3. client'[c] = Asked(client[c], "commit") /\ \A o \in Conns \ {c} : client'[o] = client[o]
    BY <2>1, AsksIs DEF Requests
  <2>4. client'[c].phase = "live" /\ client'[c].app = client[c].app
    BY <2>1, <2>3, AskedIs DEF Requests
  <2>5. UNCHANGED <<server, down, cut, awaiting, vault, device>>
    BY <2>1 DEF Asks
  <2>6. /\ up'[c] = ToServer(c, m) /\ \A o \in Conns \ {c} : up'[o] = up[o]
        /\ Elements(ToServer(c, m)) \subseteq Elements(up[c]) \union {m}
    BY <2>1, <2>2, SaysIs, ToServerIs
  <2>7. Reaches(c)' => Reaches(c)
    BY <2>1, <2>5 DEF Reaches, Open, Closed
  <2>8. Listens(c)'
    BY <2>1, <2>2, <2>4, <2>5, <2>6, <2>7, Unmoved DEF Heeded, Open
  <2>9. ASSUME NEW o \in Conns PROVE Mine(o)'
    <3>1. ASSUME NEW n \in Mutations, InFlight(o, n)' PROVE InFlight(o, n) \/ (o = c /\ n = todo)
      BY <2>2, <2>5, <2>6, <3>1 DEF InFlight
    <3>2. client'[o].app = client[o].app
      BY <2>3, <2>4
    <3> QED BY <2>5, <3>1, <3>2 DEF Heeded, Mine
  <2> QED BY <2>1, <2>3, <2>4, <2>5, <2>6, <2>8, <2>9, OneActs DEF Closed
<1>2. CASE List(c)
  <2>1. client[c].phase = "live"
    BY <1>2 DEF List, Says
  <2> QED BY <1>2, <2>1, AskMessages, HeedAsks DEF List, Requests
<1>3. CASE Get(c) \/ History(c) \/ Detach(c)
  <2>1. client[c].phase = "live"
    BY <1>3 DEF Get, History, Detach, Says
  <2> QED BY <1>3, <2>1, AskMessages, HeedAsks DEF Get, History, Detach, Requests
<1>4. ASSUME NEW kind \in Notifications, Watch(c, kind) PROVE Heeded'
  <2>1. client[c].phase = "live" /\ Says(c, [type |-> kind])
    BY <1>4 DEF Watch, Says
  <2>2. UNCHANGED <<client, server, down, cut, awaiting, vault, device>>
    BY <1>4 DEF Watch
  <2>3. [type |-> kind] \in UpMessages /\ [type |-> kind].type \notin {"hello", "commit"}
    BY <2>1, AskMessages DEF Notifications
  <2> QED BY <2>1, <2>2, <2>3, HeedSays
<1> QED BY <1>1, <1>2, <1>3, <1>4 DEF Ask

\* A heartbeat is sent.
LEMMA HeedBeat == ASSUME Typed, Heeded, NEW c \in Conns, Beat(c) PROVE Heeded'
<1>1. client[c].phase = "live" /\ Says(c, [type |-> "heartbeat", id |-> 0])
  BY DEF Beat, Says
<1>2. client' = [client EXCEPT ![c].pending = @ \union {Heartbeat}]
      /\ UNCHANGED <<server, down, cut, awaiting, vault, device>>
  BY DEF Beat
<1>3. client'[c].phase = "live" /\ client'[c].app = client[c].app
      /\ \A o \in Conns \ {c} : client'[o] = client[o]
  BY <1>1, <1>2 DEF Typed, Clients
<1> QED BY <1>1, <1>2, <1>3, AskMessages, HeedSays

-----------------------------------------------------------------------------
(* What the client receives.                                                *)

\* A client that waits for its socket hears first that it is open.
LEMMA HeadIsOpen ==
  ASSUME Typed, Heeded, NEW c \in Conns, NEW types, Receives(c, types), "open" \notin types
  PROVE  /\ client[c].phase \in {"hello", "live"}
         /\ NoOpen(down[c])
<1>1. ~Closed(client[c]) /\ down[c] # <<>> /\ Head(down[c]).type \in types
  BY DEF Receives
<1>2. client[c].phase # "connecting"
  BY <1>1 DEF Heeded, Listens, Begins
<1>3. client[c].phase \in Phases
  BY DEF Typed, Clients
<1>4. client[c].phase \in {"hello", "live"}
  BY <1>1, <1>2, <1>3 DEF Closed, Phases
<1> QED BY <1>4 DEF Heeded, Listens, Begins

\* The edits under way stay known when no device takes one back.
LEMMA MineReceived ==
  ASSUME Typed, Sound, Heeded, NEW c \in Conns, NEW types, Receives(c, types), awaiting' = awaiting,
         \A o \in Conns : client'[o].app = client[o].app,
         \A o \in Conns : \A x \in Elements(up'[o]) : x.type = "commit" => x \in Elements(up[o]),
         \A a \in Apps : device'[a].todo = device[a].todo
  PROVE  \A o \in Conns : Mine(o)'
<1> SUFFICES ASSUME NEW o \in Conns PROVE Mine(o)'
  OBVIOUS
<1>1. CASE client[o].phase = "unused"
  <2>1. \A n \in Mutations : ~InFlight(o, n)'
    BY <1>1, NoFlight DEF Sound, Kept, InFlight, Elements
  <2> QED BY <2>1 DEF Mine
<1>2. CASE client[o].phase # "unused"
  <2>1. client[o].app \in Apps
    BY <1>2 DEF Typed
  <2>2. vault' = vault
    BY ReceivedIs
  <2>3. Len(vault'.log) \in Nat /\ Len(vault'.log) >= Len(vault.log)
    BY <2>2 DEF Typed, VaultStates
  <2> QED BY <2>1, <2>3, MineKept DEF Heeded
<1> QED BY <1>1, <1>2

\* The hello of a session is a message that it may send.
LEMMA HelloMessage ==
  ASSUME Typed, NEW c \in Conns, client[c].app \in Apps
  PROVE  [type |-> "hello", id |-> Number(c), last |-> device[client[c].app].cursor] \in UpMessages
<1> DEFINE m == [type |-> "hello", id |-> Number(c), last |-> device[client[c].app].cursor]
<1>1. device[client[c].app] \in Devices /\ client[c] \in Clients
  BY DEF Typed
<1>2. device[client[c].app].cursor \in Nat /\ Number(c) \in Nat
  BY <1>1 DEF Devices, Number, Numbered, Clients
<1>3. m \in [type : {"hello"}, id : Nat, last : Nat]
  BY <1>2
<1> HIDE DEF m
<1>4. m \in UpMessages
  BY <1>3 DEF UpMessages
<1> QED BY <1>4 DEF m

\* The socket opens, and the session says hello.
LEMMA HeedOpened == ASSUME Typed, Sound, Heeded, NEW c \in Conns, Opened(c) PROVE Heeded'
<1> DEFINE m == [type |-> "hello", id |-> Number(c), last |-> device[client[c].app].cursor]
           y == [client[c] EXCEPT !.phase = "hello"]
<1>1. Receives(c, {"open"}) /\ client' = [client EXCEPT ![c] = Asked(y, "hello")] /\ device' = device
      /\ up' = [up EXCEPT ![c] = ToServer(c, m)]
  BY DEF Opened, Typed
<1>2. /\ ~Closed(client[c]) /\ down[c] \in Seq(DownMessages) /\ down[c] # <<>> /\ down'[c] = Tail(down[c])
      /\ \A o \in Conns \ {c} : down'[o] = down[o]
      /\ \A o \in Conns : Elements(down'[o]) \subseteq Elements(down[o])
      /\ UNCHANGED <<server, cut, awaiting, vault>> /\ client[c] \in Clients /\ client[c].app \in Apps
      /\ Head(down[c]).type = "open"
  BY <1>1, ReceivedIs
<1>3. m \in UpMessages /\ m.type = "hello"
  BY <1>2, HelloMessage
<1>4. y \in Clients /\ y.phase = "hello" /\ y.app = client[c].app /\ y.next = client[c].next
      /\ y.pending = client[c].pending /\ y.errors = client[c].errors
  BY <1>2 DEF Clients, Phases
<1> HIDE DEF m, y
<1>5. client'[c] = Asked(y, "hello") /\ \A o \in Conns \ {c} : client'[o] = client[o]
  BY <1>1 DEF Typed
<1>6. /\ client'[c].app = client[c].app /\ client'[c].phase = "hello" /\ client'[c].errors = client[c].errors
      /\ client'[c].pending = client[c].pending \union {[id |-> client[c].next, kind |-> "hello"]}
  BY <1>4, <1>5, AskedIs DEF Requests
<1>7. /\ up'[c] = ToServer(c, m) /\ \A o \in Conns \ {c} : up'[o] = up[o]
      /\ Elements(up'[c]) \subseteq Elements(up[c]) \union {m}
  BY <1>1, <1>3, ToServerIs DEF Typed
<1>8. /\ client[c].errors = {} /\ client[c].pending = {} /\ client[c].next = 1 /\ NoOpen(Tail(down[c]))
  <2>1. client[c].phase = "connecting"
    <3> SUFFICES ASSUME client[c].phase # "connecting" PROVE FALSE
      OBVIOUS
    <3>1. NoOpen(down[c]) /\ Head(down[c]) \in Elements(down[c])
      BY <1>2, ElementsAre DEF Heeded, Listens, Begins, Closed, Typed, Clients, Phases
    <3> QED BY <1>2, <3>1 DEF NoOpen
  <2> QED BY <1>2, <2>1 DEF Heeded, Listens, Begins
<1>9. Begins(c)'
  BY <1>2, <1>6, <1>8 DEF Begins
<1>10. Fresh(c)'
  BY <1>2, FreshKept DEF Heeded, Listens
<1>11. Attentive(c)' /\ Current(c)'
  <2> DEFINE h == Head(down[c])
             d == device[client[c].app]
  <2>1. /\ h = Head(down[c]) /\ d = device[client[c].app] /\ d = device'[client[c].app]
        /\ d.heard \in Nat /\ d.heard >= d.heard /\ h.type = "open"
    BY <1>1, <1>2 DEF Typed, Devices
  <2>2. Own(c) => Own(c)'
    BY <1>1, <1>2, <1>6 DEF Own
  <2>3. \A k \in Keys : ~Tells(h, k)
    BY <1>2 DEF Tells, HelloAnswer
  <2>4. Attentive(c) /\ Current(c) /\ client'[c].phase # "live"
    BY <1>6 DEF Heeded, Listens
  <2> HIDE DEF h, d
  <2> QED BY <1>2, <1>6, <2>1, <2>2, <2>3, <2>4, ReadListens
<1>12. \A o \in Conns : Mine(o)'
  <2>1. \A o \in Conns : client'[o].app = client[o].app
    BY <1>5, <1>6
  <2>2. \A o \in Conns : \A x \in Elements(up'[o]) : x.type = "commit" => x \in Elements(up[o])
    BY <1>3, <1>7
  <2> QED BY <1>1, <1>2, <2>1, <2>2, MineReceived
<1>13. Listens(c)'
  BY <1>9, <1>10, <1>11 DEF Listens
<1> QED BY <1>1, <1>2, <1>5, <1>6, <1>7, <1>12, <1>13, OneActs

\* An announcement is taken in.
LEMMA HeedReceivePush == ASSUME Typed, Sound, Heeded, NEW c \in Conns, ReceivePush(c) PROVE Heeded'
<1> DEFINE m == Head(down[c])
           d == device[client[c].app]
           e == Pushed(d, m)
           types == {"cursor_advanced", "storage_status_updated", "policy_updated"}
<1>1. Receives(c, types) /\ UNCHANGED <<client, up>> /\ device' = [device EXCEPT ![client[c].app] = e]
  BY DEF ReceivePush
<1>2. /\ ~Closed(client[c]) /\ down[c] \in Seq(DownMessages) /\ down[c] # <<>> /\ down'[c] = Tail(down[c])
      /\ \A o \in Conns \ {c} : down'[o] = down[o]
      /\ \A o \in Conns : Elements(down'[o]) \subseteq Elements(down[o])
      /\ UNCHANGED <<server, cut, awaiting, vault>> /\ client[c] \in Clients /\ client[c].app \in Apps
      /\ m \in DownMessages /\ m.type \in types
  BY <1>1, ReceivedIs
<1>3. d \in Devices /\ device'[client[c].app] = e /\ \A a \in Apps \ {client[c].app} : device'[a] = device[a]
  BY <1>1, <1>2 DEF Typed
<1>4. e \in Devices /\ e.todo = d.todo
  BY <1>2, <1>3, PushedIs
<1>5. d.heard \in Nat /\ e.heard \in Nat
  BY <1>3, <1>4 DEF Devices
<1>6. m.type = "cursor_advanced" => m.cursor \in Nat
  BY <1>2, DownMessageIs
<1>7. e.heard >= d.heard /\ (m.type = "cursor_advanced" => e.heard >= m.cursor)
  BY <1>2, <1>3, <1>5, <1>6 DEF Pushed, Larger, Devices
<1>8. \A k \in Keys : Content(e, k) = IF Tells(m, k) THEN Content(m, k) ELSE Content(d, k)
  BY <1>2, <1>3 DEF Pushed, Devices, Content, Tells, HelloAnswer, Keys
<1>9. client[c].phase \in {"hello", "live"} /\ NoOpen(down[c])
  BY <1>1, HeadIsOpen
<1>10. m = Head(down[c]) /\ d = device[client[c].app]
  OBVIOUS
<1> HIDE DEF m, d, e, types
<1>11. Own(c) => Own(c)'
  BY <1>1, <1>2, <1>3, <1>4, <1>10 DEF Own
<1>12. Begins(c)'
  BY <1>1, <1>2, <1>9 DEF Heeded, Listens, Begins, NoOpen
<1>13. Fresh(c)'
  BY <1>2, FreshKept DEF Heeded, Listens
<1>14. Attentive(c)' /\ Current(c)'
  <2>1. Attentive(c) /\ Current(c) /\ client'[c].app = client[c].app
        /\ (client'[c].phase = "live" => client[c].phase = "live")
    BY <1>1 DEF Heeded, Listens
  <2> QED BY <1>2, <1>3, <1>5, <1>7, <1>8, <1>10, <1>11, <2>1, ReadListens
<1>15. \A o \in Conns : Mine(o)'
  <2>1. \A a \in Apps : device'[a].todo = device[a].todo
    BY <1>2, <1>3, <1>4, <1>10
  <2>2. \A o \in Conns : \A x \in Elements(up'[o]) : x.type = "commit" => x \in Elements(up[o])
    BY <1>1
  <2> QED BY <1>1, <1>2, <2>1, <2>2, MineReceived
<1>16. Listens(c)'
  BY <1>12, <1>13, <1>14 DEF Listens
<1> QED BY <1>1, <1>2, <1>3, <1>15, <1>16, OneActs

\* What an answer makes of a device.
LEMMA LearntIs ==
  ASSUME NEW d \in Devices, NEW m \in DownMessages, m.type = "answer"
  PROVE  /\ Informed(d, m) \in Devices /\ Informed(d, m).heard >= d.heard
         /\ m.kind = "hello" => /\ Informed(d, m).heard >= m.cursor
                                /\ Informed(d, m).policy = m.policy /\ Informed(d, m).used = m.used
         /\ m.kind # "hello" => Informed(d, m).policy = d.policy /\ Informed(d, m).used = d.used
         /\ \/ Informed(d, m).todo = d.todo
            \/ m.kind = "commit" /\ m.mutation = d.todo.id /\ (~m.stale => Informed(d, m).heard >= m.cursor)
<1>1. Informed(d, m) \in Devices
  BY InformedIs
<1>2. d.heard \in Nat
  BY DEF Devices
<1>3. CASE m.kind = "hello"
  <2>1. m.cursor \in Nat
    BY <1>3, DownMessageIs
  <2>2. Informed(d, m) = [d EXCEPT !.heard = Larger(@, m.cursor), !.policy = m.policy, !.used = m.used]
    BY <1>3 DEF Informed
  <2>3. /\ Informed(d, m).heard = Larger(d.heard, m.cursor) /\ Informed(d, m).policy = m.policy
        /\ Informed(d, m).used = m.used /\ Informed(d, m).todo = d.todo
    BY <2>2 DEF Devices
  <2> QED BY <1>1, <1>2, <1>3, <2>1, <2>3 DEF Larger
<1>4. CASE m.kind = "list"
  <2>1. m.cursor \in Nat
    BY <1>4, DownMessageIs
  <2>2. Informed(d, m) = [d EXCEPT !.cursor = m.cursor, !.rev = m.rev, !.heard = Larger(@, m.cursor)]
    BY <1>4 DEF Informed
  <2>3. /\ Informed(d, m).heard = Larger(d.heard, m.cursor) /\ Informed(d, m).policy = d.policy
        /\ Informed(d, m).used = d.used /\ Informed(d, m).todo = d.todo
    BY <2>2 DEF Devices
  <2> QED BY <1>1, <1>2, <1>4, <2>1, <2>3 DEF Larger
<1>5. CASE m.kind = "commit"
  <2>1. m.cursor \in Nat /\ m.stale \in BOOLEAN
    BY <1>5, DownMessageIs
  <2>2. CASE m.mutation = d.todo.id /\ m.stale
    <3>1. Informed(d, m) = [d EXCEPT !.todo = None, !.refused = @ \union {m.mutation}]
      BY <1>5, <2>1, <2>2 DEF Informed
    <3>2. Informed(d, m).heard = d.heard /\ Informed(d, m).policy = d.policy /\ Informed(d, m).used = d.used
      BY <3>1 DEF Devices
    <3> QED BY <1>1, <1>2, <1>5, <2>2, <3>2
  <2>3. CASE m.mutation = d.todo.id /\ ~m.stale
    <3>1. Informed(d, m) = [d EXCEPT !.todo = None, !.rev = m.rev, !.heard = Larger(@, m.cursor),
                                     !.acked = @ \union {m.mutation}]
      BY <1>5, <2>3 DEF Informed
    <3>2. /\ Informed(d, m).heard = Larger(d.heard, m.cursor) /\ Informed(d, m).policy = d.policy
          /\ Informed(d, m).used = d.used
      BY <3>1 DEF Devices
    <3> QED BY <1>1, <1>2, <1>5, <2>1, <2>3, <3>2 DEF Larger
  <2>4. CASE m.mutation # d.todo.id
    <3>1. Informed(d, m) = d
      BY <1>5, <2>4 DEF Informed
    <3> QED BY <1>1, <1>2, <1>5, <3>1
  <2> QED BY <2>1, <2>2, <2>3, <2>4
<1>6. CASE m.kind \notin {"hello", "list", "commit"}
  <2>1. Informed(d, m) = d
    BY <1>6 DEF Informed
  <2> QED BY <1>1, <1>2, <1>6, <2>1
<1> QED BY <1>3, <1>4, <1>5, <1>6

\* The answer that a session waits for to be live is that to its hello, and none other.
LEMMA HelloFirst ==
  ASSUME Typed, Sound, Heeded, NEW c \in Conns, Receives(c, {"answer"})
  PROVE  /\ client[c].phase \in {"hello", "live"}
         /\ Head(down[c]).kind = "hello" <=> client[c].phase = "hello"
         /\ client[c].phase = "hello" => /\ Known(client[c], Head(down[c]).id) /\ client[c].errors = {}
                                         /\ Answered(client[c], Head(down[c])).pending = {}
<1> DEFINE m == Head(down[c])
           cl == client[c]
           f == [id |-> m.id, kind |-> m.kind]
<1>1. /\ ~Closed(cl) /\ cl \in Clients /\ m \in DownMessages /\ m \in Elements(down[c]) /\ m.type = "answer"
  BY ReceivedIs
<1>2. m.id \in Nat /\ m.kind \in Requests
  BY <1>1, DownMessageIs
<1>3. f \in Items /\ Flying(c, f) /\ f.id = m.id /\ f.kind = m.kind
  BY <1>1, <1>2 DEF Items, Flying
<1> HIDE DEF f
<1>4. cl.phase \in {"hello", "live"}
  BY HeadIsOpen
<1>5. Begins(c)
  BY DEF Heeded, Listens
<1>6. cl.phase = "live" => m.kind # "hello"
  BY <1>1, <1>5 DEF Begins, HelloAnswer
<1>7. ASSUME cl.phase = "hello"
      PROVE  m.kind = "hello" /\ Known(cl, m.id) /\ cl.errors = {} /\ Answered(cl, m).pending = {}
  <2>1. cl.errors = {} /\ cl.pending \subseteq {[id |-> 1, kind |-> "hello"]}
    BY <1>5, <1>7 DEF Begins
  <2>2. f \in cl.pending
    BY <1>1, <1>3, <2>1 DEF Sound, Kept, Ledger
  <2>3. m.kind = "hello" /\ Known(cl, m.id)
    BY <1>3, <2>1, <2>2 DEF Known
  <2> HIDE DEF m, cl
  <2>4. \E r \in cl.pending : Answered(cl, m).pending = cl.pending \ {r}
    BY <1>1, <2>3, AnsweredIs
  <2>5. Answered(cl, m).pending = {}
    BY <2>1, <2>4
  <2> QED BY <2>1, <2>3, <2>5
<1> QED BY <1>4, <1>6, <1>7

\* No answer takes back an edit that may still be applied.
LEMMA MineAnswered ==
  ASSUME Typed, Sound, Fated, Heeded, NEW c \in Conns, Receives(c, {"answer"}), up' = up,
         \A o \in Conns : client'[o].app = client[o].app,
         NEW m, m = Head(down[c]), NEW e,
         e.todo = device[client[c].app].todo
           \/ (m.kind = "commit" /\ m.mutation = device[client[c].app].todo.id),
         \A a \in Apps : device'[a] = IF a = client[c].app THEN e ELSE device[a]
  PROVE  \A o \in Conns : Mine(o)'
<1>1. /\ m \in DownMessages /\ m \in Elements(down[c]) /\ m.type = "answer"
      /\ awaiting' = awaiting /\ vault' = vault /\ client[c].app \in Apps
  BY ReceivedIs
<1>2. Len(vault.log) \in Nat
  BY DEF Typed, VaultStates
<1> SUFFICES ASSUME NEW o \in Conns, NEW n \in Mutations, InFlight(o, n)'
             PROVE  n.id = device'[client'[o].app].todo.id \/ n.base < Len(vault'.log)
  BY DEF Mine
<1>3. InFlight(o, n)
  BY <1>1 DEF InFlight
<1>4. n.id = device[client[o].app].todo.id \/ n.base < Len(vault.log)
  BY <1>3 DEF Heeded, Mine
<1>5. client[o].app \in Apps
  BY <1>3, NoFlight DEF Sound, Kept, Typed
<1>6. CASE client[o].app # client[c].app \/ e.todo = device[client[c].app].todo
  BY <1>1, <1>4, <1>5, <1>6
<1>7. CASE /\ client[o].app = client[c].app
           /\ m.kind = "commit" /\ m.mutation = device[client[c].app].todo.id
  <2> SUFFICES ASSUME n.id = m.mutation PROVE n.base < Len(vault.log)
    BY <1>1, <1>4, <1>7
  <2>1. InPlay(n)
    BY <1>3 DEF InPlay, InFlight
  <2>2. IF m.stale THEN Passed(m.mutation) ELSE Applied(m.mutation)
    BY <1>1, <1>7 DEF Fated, ToldIsTrue, Told
  <2>3. CASE m.stale
    BY <2>1, <2>2, <2>3 DEF Passed
  <2>4. CASE ~m.stale
    <3>1. PICK i \in DOMAIN vault.log : vault.log[i] = n.id
      BY <2>2, <2>4 DEF Applied
    <3>2. i = n.base + 1
      BY <2>1, <3>1 DEF Fated, PlayIsKnown
    <3>3. vault.log \in Seq(Nat) /\ n.base \in Nat
      BY DEF Typed, VaultStates, Mutations
    <3>4. i \in 1 .. Len(vault.log)
      BY <3>1, <3>3
    <3> QED BY <1>2, <3>2, <3>3, <3>4
  <2> QED BY <2>3, <2>4
<1> QED BY <1>6, <1>7

\* An answer is received: a device that took its own edit for the news is told the cursor.
LEMMA HeedReceiveAnswer ==
  ASSUME Typed, Sound, Fated, Heeded, NEW c \in Conns, ReceiveAnswer(c) PROVE Heeded'
<1> DEFINE m == Head(down[c])
           cl == client[c]
           x == Answered(cl, m)
           y == IF m.kind = "hello" THEN Live(x, m.features) ELSE x
           d == device[cl.app]
           e == IF Known(cl, m.id) THEN Informed(d, m) ELSE d
<1>1. Receives(c, {"answer"}) /\ client' = [client EXCEPT ![c] = y] /\ up' = up
  BY DEF ReceiveAnswer, Typed
<1>2. /\ ~Closed(cl) /\ down[c] \in Seq(DownMessages) /\ down[c] # <<>> /\ down'[c] = Tail(down[c])
      /\ \A o \in Conns \ {c} : down'[o] = down[o]
      /\ \A o \in Conns : Elements(down'[o]) \subseteq Elements(down[o])
      /\ UNCHANGED <<server, cut, awaiting, vault>> /\ cl \in Clients /\ cl.app \in Apps
      /\ m \in DownMessages /\ m \in Elements(down[c]) /\ m.type = "answer"
  BY <1>1, ReceivedIs
<1>3. /\ cl.phase \in {"hello", "live"}
      /\ m.kind = "hello" <=> cl.phase = "hello"
      /\ cl.phase = "hello" => Known(cl, m.id) /\ cl.errors = {} /\ x.pending = {}
  BY <1>1, HelloFirst
<1>4. x \in Clients /\ x.app = cl.app /\ x.phase = cl.phase /\ x.errors = cl.errors
  <2> HIDE DEF m, cl
  <2>1. x \in Clients
    BY <1>2, AnsweredIs
  <2>2. x.app = cl.app
    BY <1>2, AnsweredIs
  <2>3. x.phase = cl.phase
    BY <1>2, AnsweredIs
  <2>4. x.errors = cl.errors
    BY <1>2, AnsweredIs
  <2> QED BY <2>1, <2>2, <2>3, <2>4
<1>5. device' = [device EXCEPT ![cl.app] = e]
  BY <1>4 DEF ReceiveAnswer
<1>6. d \in Devices /\ device'[cl.app] = e /\ \A a \in Apps \ {cl.app} : device'[a] = device[a]
  BY <1>2, <1>5 DEF Typed
<1>7. /\ e \in Devices /\ e.heard >= d.heard
      /\ m.kind = "hello" => e.heard >= m.cursor /\ e.policy = m.policy /\ e.used = m.used
      /\ m.kind # "hello" => e.policy = d.policy /\ e.used = d.used
      /\ e.todo = d.todo \/ (m.kind = "commit" /\ m.mutation = d.todo.id /\ (~m.stale => e.heard >= m.cursor))
  <2> HIDE DEF m, cl, d
  <2>1. CASE Known(cl, m.id)
    BY <1>2, <1>6, <2>1, LearntIs
  <2>2. CASE ~Known(cl, m.id)
    <3>1. m.kind # "hello"
      BY <1>3, <2>2
    <3>2. d.heard \in Nat
      BY <1>6 DEF Devices
    <3> QED BY <1>6, <2>2, <3>1, <3>2
  <2> QED BY <2>1, <2>2
<1>8. d.heard \in Nat /\ e.heard \in Nat /\ vault.cursor \in Nat
  BY <1>6, <1>7 DEF Devices, Typed, VaultStates
<1>9. y.phase = "live" /\ y.app = cl.app /\ y.pending = x.pending /\ y.errors = cl.errors
  BY <1>3, <1>4 DEF Live, Clients
<1>10. client'[c] = y /\ \A o \in Conns \ {c} : client'[o] = client[o]
  BY <1>1 DEF Typed
<1>11. m = Head(down[c]) /\ cl = client[c] /\ d = device[client[c].app]
  OBVIOUS
<1> HIDE DEF m, cl, d, e, x, y
<1>12. Begins(c)'
  <2>1. NoOpen(down'[c])
    <3>1. NoOpen(down[c])
      BY <1>1, HeadIsOpen
    <3> QED BY <1>2, <3>1 DEF NoOpen
  <2>2. /\ \A z \in Elements(up'[c]) : z.type # "hello"
        /\ \A z \in Elements(down'[c]) : ~HelloAnswer(z)
    <3>1. CASE cl.phase = "live"
      BY <1>1, <1>2, <1>11, <3>1 DEF Heeded, Listens, Begins
    <3>2. CASE cl.phase = "hello"
      <4>1. client'[c].pending = {} /\ client'[c].errors = {} /\ ~Closed(client'[c])
        BY <1>3, <1>9, <1>10, <3>2 DEF Closed
      <4>2. Sound'
        BY SoundReceiveAnswer
      <4>3. \A f \in Items : ~Flying(c, f)'
        BY <4>1, <4>2 DEF Sound, Kept, Ledger
      <4>4. ASSUME NEW z \in Elements(up'[c]), z.type = "hello" PROVE FALSE
        <5>1. z \in UpMessages
          BY <1>1, <4>4, ElementsAre DEF Typed
        <5>2. z.id \in Nat
          BY <4>4, <5>1, UpMessageIs DEF Requests
        <5>3. [id |-> z.id, kind |-> "hello"] \in Items /\ Flying(c, [id |-> z.id, kind |-> "hello"])'
          BY <4>4, <5>2 DEF Items, Flying, Requests
        <5> QED BY <4>3, <5>3
      <4>5. ASSUME NEW z \in Elements(down'[c]), HelloAnswer(z) PROVE FALSE
        <5>1. z \in DownMessages
          BY <1>2, <4>5, ElementsAre
        <5>2. z.id \in Nat
          BY <4>5, <5>1, DownMessageIs DEF HelloAnswer
        <5>3. [id |-> z.id, kind |-> "hello"] \in Items /\ Flying(c, [id |-> z.id, kind |-> "hello"])'
          BY <4>5, <5>2 DEF Items, Flying, Requests, HelloAnswer
        <5> QED BY <4>3, <5>3
      <4> QED BY <4>4, <4>5
    <3> QED BY <1>3, <3>1, <3>2
  <2> QED BY <1>9, <1>10, <2>1, <2>2 DEF Begins
<1>13. Fresh(c)'
  BY <1>2, FreshKept DEF Heeded, Listens
<1>14. Attentive(c)' /\ Current(c)'
  <2>1. Own(c) => Own(c)' \/ e.heard >= vault.cursor
    <3> SUFFICES ASSUME Own(c), e.todo # d.todo PROVE e.heard >= vault.cursor
      BY <1>2, <1>6, <1>9, <1>10, <1>11 DEF Own
    <3>1. m.kind = "commit" /\ m.mutation = d.todo.id /\ (~m.stale => e.heard >= m.cursor)
      BY <1>7
    <3>2. Last(vault.log) = m.mutation
      BY <1>11, <3>1 DEF Own
    <3>3. ~m.stale
      BY <1>2, <3>1, <3>2 DEF Fated, ToldIsTrue, Told, Passed
    <3>4. m.cursor >= vault.cursor /\ m.cursor \in Nat
      BY <1>2, <3>1, <3>2, <3>3, DownMessageIs DEF Heeded, Listens, Fresh
    <3> QED BY <1>8, <3>1, <3>3, <3>4
  <2>2. \A k \in Keys : Content(e, k) = IF Tells(m, k) THEN Content(m, k) ELSE Content(d, k)
    BY <1>2, <1>7 DEF Keys, Content, Tells, HelloAnswer
  <2>3. client'[c].phase = "live" => client[c].phase = "live" \/ (HelloAnswer(m) /\ e.heard >= m.cursor)
    BY <1>2, <1>3, <1>7, <1>11 DEF HelloAnswer
  <2>4. Attentive(c) /\ Current(c) /\ client'[c].app = client[c].app /\ e = device'[client[c].app]
        /\ m.type # "cursor_advanced"
    BY <1>2, <1>6, <1>9, <1>10, <1>11 DEF Heeded, Listens
  <2> QED BY <1>2, <1>7, <1>8, <1>11, <2>1, <2>2, <2>3, <2>4, ReadListens
<1>15. \A o \in Conns : Mine(o)'
  <2>1. \A o \in Conns : client'[o].app = client[o].app
    BY <1>9, <1>10, <1>11
  <2>2. \A a \in Apps : device'[a] = IF a = client[c].app THEN e ELSE device[a]
    BY <1>6, <1>11
  <2> QED BY <1>1, <1>7, <1>11, <2>1, <2>2, MineAnswered
<1>16. Listens(c)'
  BY <1>12, <1>13, <1>14 DEF Listens
<1> QED BY <1>1, <1>2, <1>6, <1>9, <1>10, <1>11, <1>15, <1>16, OneActs

\* A message is read that tells nothing.
LEMMA ReadsNothing ==
  ASSUME Typed, Sound, Heeded, NEW c \in Conns, NEW types, Receives(c, types),
         types \subseteq {"failed", "session_error"}, device' = device,
         client'[c].app = client[c].app, \A o \in Conns \ {c} : client'[o] = client[o] /\ up'[o] = up[o],
         \/ Closed(client'[c])
         \/ /\ client'[c].phase = client[c].phase /\ up'[c] = up[c]
            /\ client[c].phase = "hello" => /\ client'[c].errors = client[c].errors
                                            /\ client'[c].pending \subseteq client[c].pending,
         \A x \in Elements(up'[c]) : x.type = "commit" => x \in Elements(up[c])
  PROVE  Heeded'
<1>1. /\ ~Closed(client[c]) /\ down[c] \in Seq(DownMessages) /\ down[c] # <<>> /\ down'[c] = Tail(down[c])
      /\ \A o \in Conns \ {c} : down'[o] = down[o]
      /\ \A o \in Conns : Elements(down'[o]) \subseteq Elements(down[o])
      /\ UNCHANGED <<server, cut, awaiting, vault>> /\ client[c].app \in Apps
      /\ Head(down[c]).type \in types
  BY ReceivedIs
<1>2. client[c].phase \in {"hello", "live"} /\ NoOpen(down[c])
  BY HeadIsOpen
<1>3. Listens(c)'
  <2>1. CASE Closed(client'[c])
    BY <1>1, <2>1, Departed DEF Heeded
  <2>2. CASE ~Closed(client'[c])
    <3>1. client'[c].phase = client[c].phase /\ up'[c] = up[c]
      BY <2>2
    <3>2. Begins(c)'
      BY <1>1, <1>2, <2>2, <3>1 DEF Heeded, Listens, Begins, NoOpen
    <3>3. Fresh(c)'
      BY <1>1, FreshKept DEF Heeded, Listens
    <3>4. Attentive(c)' /\ Current(c)'
      <4> DEFINE m == Head(down[c])
                 d == device[client[c].app]
      <4>1. /\ m = Head(down[c]) /\ d = device[client[c].app] /\ d = device'[client[c].app]
            /\ d.heard \in Nat /\ d.heard >= d.heard /\ m.type \in {"failed", "session_error"}
        <5>1. d \in Devices
          BY <1>1 DEF Typed
        <5>2. d.heard \in Nat
          BY <5>1 DEF Devices
        <5>3. d = device'[client[c].app]
          OBVIOUS
        <5>4. m.type \in {"failed", "session_error"}
          BY <1>1
        <5> HIDE DEF m
        <5>5. d.heard >= d.heard
          <6> HIDE DEF d
          <6> QED BY <5>2
        <5>6. m = Head(down[c])
          BY DEF m
        <5>7. d = device[client[c].app]
          OBVIOUS
        <5> HIDE DEF d
        <5> QED BY <5>2, <5>3, <5>4, <5>5, <5>6, <5>7
      <4>2. Own(c) => Own(c)'
        BY <1>1 DEF Own
      <4>3. Attentive(c) /\ Current(c)
        BY DEF Heeded, Listens
      <4> HIDE DEF m, d
      <4>4. \A k \in Keys : ~Tells(m, k)
        BY <4>1 DEF Tells, HelloAnswer
      <4>5. m.type # "cursor_advanced"
        BY <4>1
      <4> QED BY <1>1, <3>1, <4>1, <4>2, <4>3, <4>4, <4>5, ReadListens
    <3> QED BY <3>2, <3>3, <3>4 DEF Listens
  <2> QED BY <2>1, <2>2
<1>4. \A o \in Conns : Mine(o)'
  <2>1. \A o \in Conns : client'[o].app = client[o].app
    OBVIOUS
  <2>2. \A o \in Conns : \A x \in Elements(up'[o]) : x.type = "commit" => x \in Elements(up[o])
    OBVIOUS
  <2> QED BY <1>1, <2>1, <2>2, MineReceived
<1> QED BY <1>1, <1>3, <1>4, OneActs

\* The failure of a request is received.
LEMMA HeedReceiveFailure == ASSUME Typed, Sound, Heeded, NEW c \in Conns, ReceiveFailure(c) PROVE Heeded'
<1> DEFINE m == Head(down[c])
           cl == client[c]
           x == Answered(cl, m)
<1>1. Receives(c, {"failed"}) /\ client' = [client EXCEPT ![c] = x] /\ up' = up /\ device' = device
  BY DEF ReceiveFailure, Typed
<1>2. cl \in Clients
  BY DEF Typed
<1>3. client'[c] = x /\ \A o \in Conns \ {c} : client'[o] = client[o] /\ up'[o] = up[o]
  BY <1>1 DEF Typed
<1> HIDE DEF m
<1>4. x.app = cl.app
  <2> HIDE DEF cl
  <2> QED BY <1>2, AnsweredIs
<1>5. x.phase = cl.phase
  <2> HIDE DEF cl
  <2> QED BY <1>2, AnsweredIs
<1>6. x.errors = cl.errors
  <2> HIDE DEF cl
  <2> QED BY <1>2, AnsweredIs
<1>7. x.pending \subseteq cl.pending
  <2> HIDE DEF cl
  <2> QED BY <1>2, AnsweredIs
<1> HIDE DEF x
<1> QED BY <1>1, <1>3, <1>4, <1>5, <1>6, <1>7, ReadsNothing

\* An error of the session is received.
LEMMA HeedReceiveError == ASSUME Typed, Sound, Heeded, NEW c \in Conns, ReceiveError(c) PROVE Heeded'
<1> DEFINE m == Head(down[c])
           x == SessionError(client[c], m.code)
<1>1. /\ Receives(c, {"session_error"}) /\ client' = [client EXCEPT ![c] = x] /\ device' = device
      /\ up' = [up EXCEPT ![c] = IF Closed(x) THEN Hangs(c) ELSE up[c]]
  BY DEF ReceiveError, Typed
<1>2. ~Closed(client[c]) /\ client[c] \in Clients /\ m \in DownMessages /\ m.type = "session_error"
  BY <1>1, ReceivedIs
<1>3. m.code \in SessionErrors
  BY <1>2, DownMessageIs
<1>4. /\ client'[c] = x /\ \A o \in Conns \ {c} : client'[o] = client[o] /\ up'[o] = up[o]
      /\ up'[c] = IF Closed(x) THEN Hangs(c) ELSE up[c]
  BY <1>1 DEF Typed
<1>5. /\ x.app = client[c].app
      /\ x.phase = "closed" \/ (x.phase = client[c].phase /\ x.phase # "hello")
  BY <1>2, <1>3, SessionErrorIs
<1> HIDE DEF x
<1>6. \A z \in Elements(up'[c]) : z.type = "commit" => z \in Elements(up[c])
  BY <1>4, HangsIs DEF CloseFrame
<1>7. Closed(client'[c]) \/ (client'[c].phase = client[c].phase /\ up'[c] = up[c] /\ client[c].phase # "hello")
  BY <1>4, <1>5 DEF Closed
<1> QED BY <1>1, <1>4, <1>5, <1>6, <1>7, ReadsNothing

\* The close frame of the coordinator is received.
LEMMA HeedReceiveClose == ASSUME Typed, Sound, Heeded, NEW c \in Conns, ReceiveClose(c) PROVE Heeded'
<1> DEFINE x == IF client[c].phase = "connecting" THEN ClosedByUs(client[c]) ELSE Lost(client[c])
<1>1. Receives(c, {"close"}) /\ client' = [client EXCEPT ![c] = x] /\ up' = up /\ device' = device
  BY DEF ReceiveClose, Typed
<1>2. /\ ~Closed(client[c]) /\ client[c] \in Clients
      /\ \A o \in Conns \ {c} : down'[o] = down[o]
      /\ \A o \in Conns : Elements(down'[o]) \subseteq Elements(down[o])
      /\ UNCHANGED <<server, cut, awaiting, vault>>
  BY <1>1, ReceivedIs
<1>3. Over(client[c], x)
  BY <1>2, EndingIs DEF Lost
<1> HIDE DEF x
<1>4. client'[c] = x /\ \A o \in Conns \ {c} : client'[o] = client[o]
  BY <1>1 DEF Typed
<1>5. Closed(client'[c]) /\ client'[c].app = client[c].app
  BY <1>3, <1>4 DEF Over, Closed
<1>6. Listens(c)'
  BY <1>2, <1>5, Departed DEF Heeded
<1>7. \A o \in Conns : Mine(o)'
  <2>1. \A o \in Conns : client'[o].app = client[o].app
    BY <1>4, <1>5
  <2> QED BY <1>1, <1>2, <2>1, MineReceived
<1> QED BY <1>1, <1>2, <1>4, <1>5, <1>6, <1>7, OneActs

-----------------------------------------------------------------------------
(* What the coordinator does.                                               *)

\* One client is told something, or nothing.
LEMMA HeedTold ==
  ASSUME Typed, Heeded, NEW c \in Conns,
         client' = client, cut' = cut, device' = device, vault' = vault, awaiting' \subseteq awaiting,
         \A o \in Conns \ {c} : up'[o] = up[o] /\ server'[o] = server[o],
         Elements(up'[c]) \subseteq Elements(up[c]), server'[c].state = server[c].state,
         NEW m \in DownMessages, NEW said \in BOOLEAN,
         down' = IF said THEN SendTo({c}, m, down) ELSE down, m.type # "open",
         said /\ HelloAnswer(m) => client[c].phase # "live" /\ m.cursor >= vault.cursor,
         m.type = "answer" /\ m.kind = "commit" => m.cursor >= vault.cursor,
         \A k \in Keys : Wanted(c, k)' =>
           \/ said /\ Tells(m, k) /\ Content(m, k) = Content(vault, k)
           \/ Wanted(c, k) /\ (said => ~Tells(m, k))
  PROVE  Heeded'
<1>1. /\ down'[c] = IF said /\ Reaches(c) THEN Append(down[c], m) ELSE down[c]
      /\ \A o \in Conns \ {c} : down'[o] = down[o]
  BY DEF SendTo
<1>2. Elements(down'[c]) \subseteq Elements(down[c]) \union {m}
  <2>1. down[c] \in Seq(DownMessages)
    BY DEF Typed
  <2>2. Elements(Append(down[c], m)) = Elements(down[c]) \union {m}
    BY <2>1, ElementsAre
  <2> QED BY <1>1, <2>2
<1>3. Open(c)' => Open(c)
  BY DEF Open
<1>4. Begins(c) /\ Fresh(c) /\ Attentive(c) /\ Current(c)
  BY DEF Heeded, Listens
<1>5. Begins(c)' /\ Attentive(c)' /\ Current(c)'
  <2>1. \A y \in Elements(up'[c]) : y.type = "hello" => y \in Elements(up[c])
    OBVIOUS
  <2>2. said /\ HelloAnswer(m) => client[c].phase # "live"
    OBVIOUS
  <2>3. /\ vault'.cursor = vault.cursor /\ vault'.log = vault.log
        /\ said /\ HelloAnswer(m) => m.cursor >= vault.cursor
    OBVIOUS
  <2>4. \A k \in Keys : Wanted(c, k)' =>
          \/ said /\ Tells(m, k) /\ Content(m, k) = Content(vault', k)
          \/ Wanted(c, k) /\ Content(vault', k) = Content(vault, k) /\ (said => ~Tells(m, k))
    OBVIOUS
  <2> QED BY <1>1, <1>3, <1>4, <2>1, <2>2, <2>3, <2>4, SentListens
<1>6. Fresh(c)'
  BY <1>2, <1>4 DEF Fresh
<1>7. Listens(c)'
  BY <1>5, <1>6 DEF Listens
<1>8. ASSUME NEW o \in Conns PROVE Mine(o)'
  <2>1. \A x \in Elements(up'[o]) : x.type = "commit" => x \in Elements(up[o])
    OBVIOUS
  <2>2. Len(vault'.log) \in Nat /\ Len(vault'.log) >= Len(vault.log)
    BY DEF Typed, VaultStates
  <2> QED BY <2>1, <2>2, MineKept DEF Heeded
<1> QED BY <1>1, <1>7, <1>8, OneActs

\* A socket is accepted; those that it replaces are of sessions that are over.
LEMMA HeedAccept == ASSUME Typed, Heeded, NEW c \in Conns, Accept(c) PROVE Heeded'
<1> DEFINE first == [type |-> "open"]
<1>1. /\ UNCHANGED <<client, up, cut, awaiting, vault, device>> /\ client[c].phase = "connecting"
  BY DEF Accept
<1>7. down'[c] = <<first>>
  BY DEF Accept
<1>8. ASSUME NEW o \in Conns \ {c} PROVE (o \in Superseded(c) /\ Reaches(o)) \/ down'[o] = down[o]
  BY DEF Accept
<1>9. ASSUME NEW o \in Conns \ {c}, o \notin Superseded(c) PROVE server'[o] = server[o]
  BY <1>9 DEF Accept
<1>2. first.type = "open" /\ Elements(<<first>>) = {first}
  BY DEF Elements
<1> HIDE DEF first
<1>3. Listens(c)'
  <2>1. Head(<<first>>) = first /\ Tail(<<first>>) = <<>> /\ <<first>> # <<>> /\ Elements(<<>>) = {}
    BY DEF Elements
  <2>2. Begins(c)'
    BY <1>1, <1>2, <1>7, <2>1 DEF Heeded, Listens, Begins, NoOpen
  <2>3. Fresh(c)' /\ Attentive(c)'
    BY <1>1, <1>2, <1>7 DEF Fresh, Attentive, HelloAnswer
  <2>4. \A k : ~Tells(first, k)
    BY <1>2 DEF Tells, HelloAnswer
  <2>5. \A k, v : Word(<<first>>, k, v)
    <3>1. \A i \in DOMAIN <<first>> : <<first>>[i] = first
      OBVIOUS
    <3> QED BY <2>4, <3>1 DEF Word
  <2>6. Current(c)'
    BY <1>1, <1>7, <2>5 DEF Current
  <2> QED BY <2>2, <2>3, <2>6 DEF Listens
<1>4. ASSUME NEW o \in Conns \ {c} PROVE Listens(o)'
  <2>1. CASE o \in Superseded(c)
    <3>1. Closed(client[o])
      BY <1>1, <2>1 DEF Superseded, Heeded, OneSession, Closed
    <3>2. down'[o] = down[o] /\ Closed(client'[o])
      BY <1>1, <1>8, <3>1 DEF Reaches
    <3> QED BY <1>1, <3>2, Departed DEF Heeded
  <2>2. CASE o \notin Superseded(c)
    <3>1. down'[o] = down[o] /\ server'[o] = server[o]
      BY <1>8, <1>9, <2>2
    <3>2. (Open(o)' => Open(o)) /\ (Reaches(o)' => Reaches(o) /\ server'[o].watch = server[o].watch)
      BY <1>1, <3>1 DEF Open, Reaches
    <3> QED BY <1>1, <3>1, <3>2, Unmoved DEF Heeded
  <2> QED BY <2>1, <2>2
<1>5. \A o \in Conns : Mine(o)'
  BY <1>1 DEF Heeded, Mine, InFlight
<1>6. OneSession'
  BY <1>1 DEF Heeded, OneSession
<1> QED BY <1>3, <1>4, <1>5, <1>6 DEF Heeded

\* A socket is no longer tracked, or its network is cut.
LEMMA HeedGone ==
  ASSUME Typed, Heeded, NEW c \in Conns, Gone(c) \/ Cut(c)
  PROVE  Heeded'
<1>1. /\ UNCHANGED <<client, awaiting, vault, device>> /\ up'[c] = <<>>
      /\ \A o \in Conns \ {c} : /\ up'[o] = up[o] /\ down'[o] = down[o] /\ server'[o] = server[o]
                                /\ (o \in cut' <=> o \in cut)
      /\ down'[c] = down[c] \/ (down'[c] = <<>> /\ client[c].phase # "connecting")
  BY DEF Gone, Cut, Typed
<1>2. ~Reaches(c)' /\ (client[c].phase = "connecting" => ~Open(c)')
  BY DEF Gone, Cut, Typed, Reaches, Open, NoSocket
<1>3. Elements(<<>>) = {}
  BY DEF Elements
<1>4. Begins(c)'
  BY <1>1, <1>2, <1>3 DEF Heeded, Listens, Begins, NoOpen
<1>5. Listens(c)'
  <2>1. \A x \in Elements(down'[c]) : x \in Elements(down[c])
    BY <1>1, <1>3
  <2> QED BY <1>1, <1>2, <1>4, <2>1, Unreached DEF Heeded
<1>6. ASSUME NEW o \in Conns PROVE Mine(o)'
  <2>1. \A x \in Elements(up'[o]) : x.type = "commit" => x \in Elements(up[o])
    BY <1>1, <1>3
  <2>2. Len(vault'.log) \in Nat /\ Len(vault'.log) >= Len(vault.log)
    BY <1>1 DEF Typed, VaultStates
  <2> QED BY <1>1, <2>1, <2>2, MineKept DEF Heeded
<1> QED BY <1>1, <1>5, <1>6, OneActs

\* Every client is told something, or nothing, of the state that the vault now has.
LEMMA HeedAll ==
  ASSUME Typed, Heeded, client' = client, device' = device, cut' = cut, awaiting' \subseteq awaiting,
         \A o \in Conns : (Open(o)' => Open(o)) /\ Elements(up'[o]) \subseteq Elements(up[o]),
         vault'.cursor = vault.cursor, vault'.log = vault.log,
         NEW m \in DownMessages, m.type \notin {"open", "answer"},
         NEW cs, down' = SendTo(cs, m, down),
         \A o \in Conns : \A k \in Keys : Wanted(o, k)' =>
           \/ o \in cs /\ Tells(m, k) /\ Content(m, k) = Content(vault', k)
           \/ Wanted(o, k) /\ Content(vault', k) = Content(vault, k) /\ (o \in cs => ~Tells(m, k))
  PROVE  Heeded'
<1>1. ASSUME NEW o \in Conns PROVE Listens(o)'
  <2> DEFINE hears == o \in cs
  <2>1. down'[o] = IF hears /\ Reaches(o) THEN Append(down[o], m) ELSE down[o]
    BY DEF SendTo
  <2>2. Elements(down'[o]) \subseteq Elements(down[o]) \union {m}
    BY SendToIs DEF Typed
  <2>3. Begins(o) /\ Fresh(o) /\ Attentive(o) /\ Current(o) /\ hears \in BOOLEAN
    BY DEF Heeded, Listens
  <2>4. \A k \in Keys : Wanted(o, k)' =>
           \/ hears /\ Tells(m, k) /\ Content(m, k) = Content(vault', k)
           \/ Wanted(o, k) /\ Content(vault', k) = Content(vault, k) /\ (hears => ~Tells(m, k))
    OBVIOUS
  <2>5. ~HelloAnswer(m) /\ m.type # "open"
    BY DEF HelloAnswer
  <2>6. Open(o)' => Open(o)
    OBVIOUS
  <2>7. \A y \in Elements(up'[o]) : y.type = "hello" => y \in Elements(up[o])
    OBVIOUS
  <2> HIDE DEF hears
  <2>8. Begins(o)' /\ Attentive(o)' /\ Current(o)'
    BY <2>1, <2>3, <2>4, <2>5, <2>6, <2>7, SentListens
  <2>9. Fresh(o)'
    BY <2>2, <2>3, FreshKept
  <2> QED BY <2>8, <2>9 DEF Listens
<1>2. ASSUME NEW o \in Conns PROVE Mine(o)'
  <2>1. \A x \in Elements(up'[o]) : x.type = "commit" => x \in Elements(up[o])
    OBVIOUS
  <2>2. Len(vault'.log) \in Nat /\ Len(vault'.log) >= Len(vault.log)
    BY DEF Typed, VaultStates
  <2> QED BY <2>1, <2>2, MineKept DEF Heeded
<1>3. OneSession'
  BY DEF Heeded, OneSession
<1> QED BY <1>1, <1>2, <1>3 DEF Heeded

\* The coordinator restarts.
LEMMA HeedRestart == ASSUME Typed, Heeded, Restart PROVE Heeded'
<1>1. /\ UNCHANGED <<client, cut, vault, device>> /\ awaiting' \subseteq awaiting
      /\ down' = SendTo(Conns, CloseFrame, down)
      /\ \A o \in Conns : up'[o] = <<>> /\ server'[o] \in {server[o], [NoSocket EXCEPT !.state = "gone"]}
  BY DEF Restart
<1>2. Elements(<<>>) = {}
  BY DEF Elements
<1>3. CloseFrame \in DownMessages /\ CloseFrame.type \notin {"open", "answer"} /\ \A k : ~Tells(CloseFrame, k)
  BY DownMessagesAre DEF CloseFrame, Tells, HelloAnswer
<1>4. \A o \in Conns : (Open(o)' => Open(o)) /\ Elements(up'[o]) \subseteq Elements(up[o])
  BY <1>1, <1>2 DEF Open, NoSocket
<1>5. \A o \in Conns : \A k : Wanted(o, k)' => Wanted(o, k)
  BY <1>1 DEF Wanted, NoSocket
<1> QED BY <1>1, <1>3, <1>4, <1>5, HeedAll

\* The policy of the vault changes, and the storage that is used.
LEMMA HeedChanges == ASSUME Typed, Heeded, PolicyChanges \/ UsageChanges PROVE Heeded'
<1>1. vault \in VaultStates /\ vault' \in VaultStates
  <2>1. Typed'
    BY TypedChanges
  <2> QED BY <2>1 DEF Typed
<1>2. UNCHANGED <<client, server, up, cut, awaiting, device>>
  BY DEF PolicyChanges, UsageChanges
<1>3. \A o \in Conns : /\ (Open(o)' => Open(o)) /\ Elements(up'[o]) \subseteq Elements(up[o])
                       /\ \A k : Wanted(o, k)' <=> Wanted(o, k)
  BY <1>2 DEF Open, Wanted
<1>4. CASE PolicyChanges
  <2> DEFINE m == [type |-> "policy_updated", policy |-> vault'.policy, used |-> vault.used]
  <2>1. m \in [type : {"policy_updated"}, policy : Nat, used : Nat]
    BY <1>1 DEF VaultStates
  <2>2. m \in DownMessages
    BY <2>1 DEF DownMessages
  <2>3. down' = SendTo(Conns, m, down) /\ vault' = [vault EXCEPT !.policy = @ + 1]
    BY <1>4 DEF PolicyChanges, BroadcastPolicy
  <2>4. vault'.cursor = vault.cursor /\ vault'.log = vault.log /\ vault'.used = vault.used
    BY <1>1, <2>3 DEF VaultStates
  <2>5. m.type = "policy_updated" /\ m.policy = vault'.policy /\ m.used = vault'.used
    BY <2>4
  <2> HIDE DEF m
  <2>6. \A k \in Keys : Tells(m, k) /\ Content(m, k) = Content(vault', k)
    BY <2>5 DEF Tells, Content
  <2>7. m.type \notin {"open", "answer"} /\ awaiting' \subseteq awaiting
    BY <1>2, <2>5
  <2> QED BY <1>2, <1>3, <2>2, <2>3, <2>4, <2>6, <2>7, HeedAll
<1>5. CASE UsageChanges
  <2> DEFINE m == [type |-> "storage_status_updated", used |-> vault'.used]
             cs == {o \in Conns : server[o].watch}
  <2>1. m \in [type : {"storage_status_updated"}, used : Nat]
    BY <1>1 DEF VaultStates
  <2>2. m \in DownMessages
    BY <2>1 DEF DownMessages
  <2>3. down' = SendTo(cs, m, down) /\ vault' = [vault EXCEPT !.used = @ + 1]
    BY <1>5 DEF UsageChanges, BroadcastStorageStatus, StatusMessage
  <2>4. vault'.cursor = vault.cursor /\ vault'.log = vault.log /\ vault'.policy = vault.policy
    BY <1>1, <2>3 DEF VaultStates
  <2>5. m.type = "storage_status_updated" /\ m.used = vault'.used
    OBVIOUS
  <2> HIDE DEF m
  <2>6. Tells(m, "used") /\ Content(m, "used") = Content(vault', "used") /\ ~Tells(m, "policy")
        /\ Content(vault', "policy") = Content(vault, "policy")
    BY <2>4, <2>5 DEF Tells, Content, HelloAnswer
  <2>7. m.type \notin {"open", "answer"} /\ awaiting' \subseteq awaiting
    BY <1>2, <2>5
  <2>8. ASSUME NEW o \in Conns, NEW k \in Keys, Wanted(o, k)'
        PROVE  \/ o \in cs /\ Tells(m, k) /\ Content(m, k) = Content(vault', k)
               \/ Wanted(o, k) /\ Content(vault', k) = Content(vault, k) /\ (o \in cs => ~Tells(m, k))
    <3>1. CASE k = "policy"
      BY <1>3, <2>6, <2>8, <3>1
    <3>2. CASE k = "used"
      <4>1. server[o].watch
        BY <1>2, <2>8, <3>2 DEF Wanted
      <4> QED BY <2>6, <3>2, <4>1
    <3> QED BY <3>1, <3>2 DEF Keys
  <2> HIDE DEF cs
  <2> QED BY <1>2, <1>3, <2>2, <2>3, <2>4, <2>7, <2>8, HeedAll
<1> QED BY <1>4, <1>5

\* The answers of the coordinator; nothing of them is an edit's.
LEMMA HeedReply ==
  ASSUME Typed, Heeded, NEW c \in Conns, NEW types, Serves(c, types), server' = server,
         awaiting' = awaiting, vault' = vault,
         NEW m \in DownMessages, m.type # "open", ~(m.type = "answer" /\ m.kind = "commit"),
         down' = SendTo({c}, m, down),
         HelloAnswer(m) => /\ client[c].phase # "live" /\ m.cursor = vault.cursor
                           /\ m.policy = vault.policy /\ m.used = vault.used,
         m.type \notin {"policy_updated", "storage_status_updated"}
  PROVE  Heeded'
<1>1. /\ client' = client /\ cut' = cut /\ device' = device
      /\ \A o \in Conns \ {c} : up'[o] = up[o]
      /\ Elements(up'[c]) \subseteq Elements(up[c])
  BY ServedIs
<1>2. vault.cursor \in Nat
  BY DEF Typed, VaultStates
<1>3. HelloAnswer(m) => client[c].phase # "live" /\ m.cursor >= vault.cursor
  BY <1>2
<1>4. ASSUME NEW k \in Keys, Wanted(c, k)'
      PROVE  (Tells(m, k) /\ Content(m, k) = Content(vault, k)) \/ (Wanted(c, k) /\ ~Tells(m, k))
  <2>1. Wanted(c, k)
    BY <1>4 DEF Wanted
  <2>2. CASE HelloAnswer(m)
    BY <2>1, <2>2 DEF Content, Tells
  <2>3. CASE ~HelloAnswer(m)
    BY <2>1, <2>3 DEF Tells
  <2> QED BY <2>2, <2>3
<1> DEFINE said == TRUE
<1>5. said \in BOOLEAN /\ down' = IF said THEN SendTo({c}, m, down) ELSE down
  OBVIOUS
<1>6. \A k \in Keys : Wanted(c, k)' =>
           \/ said /\ Tells(m, k) /\ Content(m, k) = Content(vault, k)
           \/ Wanted(c, k) /\ (said => ~Tells(m, k))
  BY <1>4
<1>7. said /\ HelloAnswer(m) => client[c].phase # "live" /\ m.cursor >= vault.cursor
  BY <1>3
<1> HIDE DEF said
<1> QED BY <1>1, <1>5, <1>6, <1>7, HeedTold

\* A commit is taken: it stays under way.
LEMMA HeedServeCommit == ASSUME Typed, Heeded, NEW c \in Conns, ServeCommit(c) PROVE Heeded'
<1> DEFINE h == Head(up[c])
           w == [conn |-> c, id |-> h.id, mutation |-> h.mutation]
<1>1. Serves(c, {"commit"}) /\ UNCHANGED <<server, down, vault>> /\ awaiting' = awaiting \union {w}
  BY DEF ServeCommit
<1>2. /\ client' = client /\ cut' = cut /\ device' = device
      /\ \A o \in Conns \ {c} : up'[o] = up[o]
      /\ \A o \in Conns : Elements(up'[o]) \subseteq Elements(up[o])
      /\ h \in Elements(up[c]) /\ h.type = "commit"
  BY <1>1, ServedIs
<1>3. w.conn = c /\ w.mutation = h.mutation
  OBVIOUS
<1> HIDE DEF h, w
<1>4. Listens(c)'
  <2>1. (Open(c)' => Open(c)) /\ (Reaches(c)' => Reaches(c) /\ server'[c].watch = server[c].watch)
    BY <1>1, <1>2 DEF Open, Reaches
  <2> QED BY <1>1, <1>2, <2>1, Unmoved DEF Heeded
<1>5. ASSUME NEW o \in Conns, NEW n \in Mutations, InFlight(o, n)' PROVE InFlight(o, n)
  BY <1>1, <1>2, <1>3, <1>5 DEF InFlight
<1>6. \A o \in Conns : Mine(o)'
  BY <1>1, <1>2, <1>5 DEF Heeded, Mine
<1> QED BY <1>1, <1>2, <1>4, <1>6, OneActs

\* What the coordinator serves.
LEMMA HeedServe == ASSUME Typed, Heeded, NEW c \in Conns, Serve(c) PROVE Heeded'
<1> DEFINE h == Head(up[c])
<1>1. ASSUME NEW types, types \subseteq Requests, Serves(c, types)
      PROVE  /\ h \in Elements(up[c]) /\ h.type \in types /\ h.id \in Nat
             /\ HelloAck(c) \in DownMessages /\ Page(c) \in DownMessages
             /\ \A k \in Plain : Answer(c, k) \in DownMessages
             /\ \A k \in Requests : Failure(k, h.id) \in DownMessages
  BY <1>1, ServedIs, UpMessageIs, DownMessagesAre
<1>2. \A code \in SessionErrors : [type |-> "session_error", code |-> code] \in DownMessages
  BY DownMessagesAre
<1>3. CASE ServeHello(c)
  <2>1. Serves(c, {"hello"}) /\ {"hello"} \subseteq Requests /\ UNCHANGED <<server, awaiting, vault>>
    BY <1>3 DEF ServeHello, Requests
  <2>2. client[c].phase # "live"
    BY <1>1, <2>1 DEF Heeded, Listens, Begins
  <2>3. CASE h.last > vault.cursor
    <3> DEFINE m == [type |-> "session_error", code |-> "cursor_ahead_of_server"]
    <3>1. m \in DownMessages /\ down' = SendTo({c}, m, down) /\ m.type = "session_error"
      BY <1>2, <1>3, <2>3 DEF ServeHello, SessionErrors
    <3> HIDE DEF m
    <3> QED BY <2>1, <3>1, HeedReply DEF HelloAnswer
  <2>4. CASE ~(h.last > vault.cursor)
    <3> DEFINE m == HelloAck(c)
    <3>1. m \in DownMessages /\ down' = SendTo({c}, m, down)
      BY <1>1, <1>3, <2>1, <2>4 DEF ServeHello
    <3>2. m.type = "answer" /\ m.kind = "hello" /\ m.cursor = vault.cursor
          /\ m.policy = vault.policy /\ m.used = vault.used
      BY DEF HelloAck
    <3> HIDE DEF m
    <3> QED BY <2>1, <2>2, <3>1, <3>2, HeedReply
  <2> QED BY <2>3, <2>4
<1>4. CASE ServeList(c)
  <2>1. Serves(c, {"list"}) /\ {"list"} \subseteq Requests /\ UNCHANGED <<server, awaiting, vault>>
    BY <1>4 DEF ServeList, Requests
  <2>2. PICK m \in DownMessages : down' = SendTo({c}, m, down) /\ m.type \in {"answer", "failed"} /\ m.kind = "list"
    BY <1>1, <1>4, <2>1 DEF ServeList, Failure, Page
  <2> QED BY <2>1, <2>2, HeedReply DEF HelloAnswer
<1>5. CASE ServeGet(c)
  <2>1. Serves(c, {"get"}) /\ {"get"} \subseteq Requests /\ UNCHANGED <<server, awaiting, vault>>
    BY <1>5 DEF ServeGet, Requests
  <2>2. PICK m \in DownMessages : /\ down' = SendTo({c}, m, down)
                                  /\ m.type = "session_error" \/ (m.type = "answer" /\ m.kind = "get")
    BY <1>1, <1>2, <1>5, <2>1 DEF ServeGet, Answer, Plain, SessionErrors
  <2> QED BY <2>1, <2>2, HeedReply DEF HelloAnswer
<1>6. CASE ServeHistory(c)
  <2>1. Serves(c, {"history"}) /\ {"history"} \subseteq Requests /\ UNCHANGED <<server, awaiting, vault>>
    BY <1>6 DEF ServeHistory, Requests
  <2>2. PICK m \in DownMessages : /\ down' = SendTo({c}, m, down)
                                  /\ m.type \in {"answer", "failed"} /\ m.kind = "history"
    BY <1>1, <1>6, <2>1 DEF ServeHistory, Answer, Failure, Plain, Requests
  <2> QED BY <2>1, <2>2, HeedReply DEF HelloAnswer
<1>7. CASE ServeDetach(c)
  <2>1. Serves(c, {"detach"}) /\ {"detach"} \subseteq Requests /\ UNCHANGED <<server, awaiting, vault>>
    BY <1>7 DEF ServeDetach, Requests
  <2>2. PICK m \in DownMessages : /\ down' = SendTo({c}, m, down)
                                  /\ m.type = "session_error" \/ (m.type = "answer" /\ m.kind = "detach")
    BY <1>1, <1>2, <1>7, <2>1 DEF ServeDetach, Answer, Plain, SessionErrors
  <2> QED BY <2>1, <2>2, HeedReply DEF HelloAnswer
<1>8. CASE ServeHeartbeat(c)
  <2>1. Serves(c, {"heartbeat"}) /\ {"heartbeat"} \subseteq Requests /\ UNCHANGED <<server, awaiting, vault>>
    BY <1>8 DEF ServeHeartbeat, Requests
  <2>2. PICK m \in DownMessages : /\ down' = SendTo({c}, m, down)
                                  /\ m.type = "answer" /\ m.kind = "heartbeat"
    BY <1>1, <1>8, <2>1 DEF ServeHeartbeat, Answer, Plain
  <2> QED BY <2>1, <2>2, HeedReply DEF HelloAnswer
<1>9. CASE ServeWatch(c)
  <2> DEFINE said == h.type = "watch"
             m == StatusMessage(vault)
  <2>1. /\ Serves(c, {"watch", "unwatch"}) /\ awaiting' \subseteq awaiting /\ vault' = vault
        /\ server' = [server EXCEPT ![c].watch = said]
        /\ down' = IF said THEN SendTo({c}, m, down) ELSE down
    BY <1>9 DEF ServeWatch
  <2>2. /\ client' = client /\ cut' = cut /\ device' = device
        /\ \A o \in Conns \ {c} : up'[o] = up[o]
        /\ Elements(up'[c]) \subseteq Elements(up[c])
    BY <2>1, ServedIs
  <2>3. m \in DownMessages /\ m.type = "storage_status_updated" /\ m.used = vault.used
    BY DownMessagesAre DEF StatusMessage
  <2>4. said \in BOOLEAN
    OBVIOUS
  <2> HIDE DEF said, m
  <2>5. /\ \A o \in Conns \ {c} : server'[o] = server[o]
        /\ server'[c].state = server[c].state /\ server'[c].watch = said
    BY <2>1, <2>4 DEF Typed, Sockets
  <2>6. ASSUME NEW k \in Keys, Wanted(c, k)'
        PROVE  \/ said /\ Tells(m, k) /\ Content(m, k) = Content(vault, k)
               \/ Wanted(c, k) /\ (said => ~Tells(m, k))
    <3>1. CASE k = "policy"
      BY <2>3, <3>1 DEF Wanted, Tells, HelloAnswer
    <3>2. CASE k = "used"
      BY <2>3, <2>5, <2>6, <3>2 DEF Wanted, Tells, Content
    <3> QED BY <3>1, <3>2 DEF Keys
  <2>7. ~HelloAnswer(m) /\ m.type # "open" /\ m.type # "answer"
    BY <2>3 DEF HelloAnswer
  <2> QED BY <2>1, <2>2, <2>3, <2>4, <2>5, <2>6, <2>7, HeedTold
<1>10. CASE ServeClose(c)
  BY <1>10, HeedGone DEF ServeClose
<1>11. CASE ServeCommit(c)
  BY <1>11, HeedServeCommit
<1> QED BY <1>3, <1>4, <1>5, <1>6, <1>7, <1>8, <1>9, <1>10, <1>11 DEF Serve

\* A commit fails.
LEMMA HeedCommitFails == ASSUME Typed, Heeded, NEW w \in awaiting, CommitFails(w) PROVE Heeded'
<1> DEFINE m == Failure("commit", w.id)
           said == TRUE
<1>1. w.conn \in Conns /\ m \in DownMessages /\ m.type = "failed"
  BY DownMessagesAre DEF Typed, Requests, Failure
<1>2. /\ UNCHANGED <<client, server, up, cut, vault, device>> /\ awaiting' \subseteq awaiting
      /\ down' = IF said THEN SendTo({w.conn}, m, down) ELSE down
  BY DEF CommitFails
<1>3. said \in BOOLEAN
  OBVIOUS
<1> HIDE DEF m, said
<1>4. ~HelloAnswer(m) /\ m.type # "open" /\ m.type # "answer" /\ \A k : ~Tells(m, k)
  BY <1>1 DEF HelloAnswer, Tells
<1>5. \A k \in Keys : Wanted(w.conn, k)' => Wanted(w.conn, k)
  BY <1>2 DEF Wanted
<1>6. /\ \A o \in Conns \ {w.conn} : up'[o] = up[o] /\ server'[o] = server[o]
      /\ Elements(up'[w.conn]) \subseteq Elements(up[w.conn])
      /\ server'[w.conn].state = server[w.conn].state
  BY <1>2
<1> QED BY <1>1, <1>2, <1>3, <1>4, <1>5, <1>6, HeedTold

\* A commit returns: who asked for it knows that it was its own, the others are told.
LEMMA HeedCommitReturns ==
  ASSUME Typed, Fated, Heeded, NEW w \in awaiting, CommitReturns(w)
  PROVE  Heeded'
<1> DEFINE c == w.conn
           n == w.mutation
           answer == CommitAnswer(w)
           news == Announcement(w)
<1>1. /\ c \in Conns /\ n \in Mutations /\ answer \in DownMessages /\ news \in DownMessages
      /\ AfterAnswer(w) \in [Conns -> Seq(DownMessages)]
      /\ down' = IF Outcome(n) = "applied" THEN SendTo(Conns \ {c}, news, AfterAnswer(w)) ELSE AfterAnswer(w)
      /\ vault' = Committed(n) /\ awaiting' \subseteq awaiting
  BY CommitReturnsIs
<1>2. UNCHANGED <<client, server, up, cut, device>> /\ AfterAnswer(w) = SendTo({c}, answer, down)
  BY DEF CommitReturns, AfterAnswer
<1>3. /\ answer.type = "answer" /\ answer.kind = "commit" /\ answer.cursor = vault'.cursor
      /\ news.type = "cursor_advanced" /\ news.cursor = vault'.cursor
  BY <1>1 DEF CommitAnswer, Announcement
<1>4. vault.cursor \in Nat /\ vault.log \in Seq(Nat) /\ Len(vault.log) \in Nat
  BY DEF Typed, VaultStates
<1>5. ~HelloAnswer(answer) /\ ~HelloAnswer(news) /\ \A k : ~Tells(answer, k) /\ ~Tells(news, k)
  BY <1>3 DEF HelloAnswer, Tells
<1>6. \A o \in Conns : (Open(o)' => Open(o)) /\ \A k \in Keys : Wanted(o, k)' => Wanted(o, k)
  BY <1>2 DEF Open, Wanted
<1>7. CASE Outcome(n) # "applied"
  <2> DEFINE said == TRUE
  <2>1. vault' = vault
    BY <1>1, <1>7, CommittedIs
  <2>2. said \in BOOLEAN /\ down' = IF said THEN SendTo({c}, answer, down) ELSE down
    BY <1>1, <1>2, <1>7
  <2> HIDE DEF said, answer, news
  <2>3. answer.type # "open" /\ answer.cursor >= vault.cursor
    BY <1>3, <1>4, <2>1
  <2>4. \A k \in Keys : Wanted(c, k)' => Wanted(c, k) /\ ~Tells(answer, k)
    BY <1>1, <1>5, <1>6
  <2>5. /\ \A o \in Conns \ {c} : up'[o] = up[o] /\ server'[o] = server[o]
        /\ Elements(up'[c]) \subseteq Elements(up[c]) /\ server'[c].state = server[c].state
    BY <1>2
  <2> HIDE DEF c
  <2> QED BY <1>1, <1>2, <1>5, <2>1, <2>2, <2>3, <2>4, <2>5, HeedTold
<1>8. CASE Outcome(n) = "applied"
  <2>1. /\ vault'.log = Append(vault.log, n.id) /\ vault'.cursor = vault.cursor + 1
        /\ vault'.policy = vault.policy /\ vault'.used = vault.used
    BY <1>1, <1>8, CommittedIs
  <2>2. n.base = Len(vault.log) /\ n.id \in Nat
    BY <1>1, <1>8 DEF Outcome, Fated, LogIsOnce, Mutations
  <2>3. /\ Len(vault'.log) = Len(vault.log) + 1 /\ vault'.log # <<>> /\ Last(vault'.log) = n.id
        /\ Len(vault'.log) \in Nat /\ Len(vault'.log) >= Len(vault.log)
    <3> DEFINE s == vault.log
               t == vault'.log
    <3>1. s \in Seq(Nat) /\ Len(s) \in Nat /\ n.id \in Nat /\ t = Append(s, n.id)
      BY <1>4, <2>1, <2>2
    <3> HIDE DEF s, t, n
    <3>2. /\ Len(t) = Len(s) + 1 /\ t # <<>> /\ t[Len(t)] = n.id /\ Len(t) \in Nat
          /\ Len(t) >= Len(s)
      BY <3>1
    <3> QED BY <3>2 DEF Last, s, t
  <2>4. ~Applied(n.id)
    <3> SUFFICES ASSUME NEW i \in DOMAIN vault.log, vault.log[i] = n.id PROVE FALSE
      BY DEF Applied
    <3>1. InPlay(n)
      BY DEF InPlay
    <3>2. i = n.base + 1
      BY <1>1, <3>1 DEF Fated, PlayIsKnown
    <3>3. i \in 1 .. Len(vault.log)
      BY <1>4
    <3> QED BY <1>4, <2>2, <3>2, <3>3
  <2>5. /\ down'[c] = IF Reaches(c) THEN Append(down[c], answer) ELSE down[c]
        /\ \A o \in Conns \ {c} : down'[o] = IF Reaches(o) THEN Append(down[o], news) ELSE down[o]
    <3>1. \A o \in Conns : AfterAnswer(w)[o] = IF o \in {c} /\ Reaches(o) THEN Append(down[o], answer) ELSE down[o]
      BY <1>2 DEF SendTo
    <3>2. \A o \in Conns : down'[o] = IF o \in Conns \ {c} /\ Reaches(o) THEN Append(AfterAnswer(w)[o], news)
                                      ELSE AfterAnswer(w)[o]
      BY <1>1, <1>8 DEF SendTo
    <3>3. c \in Conns
      BY <1>1
    <3> HIDE DEF c, answer, news
    <3>4. down'[c] = IF Reaches(c) THEN Append(down[c], answer) ELSE down[c]
      BY <3>1, <3>2, <3>3
    <3>5. ASSUME NEW o \in Conns \ {c}
          PROVE  down'[o] = IF Reaches(o) THEN Append(down[o], news) ELSE down[o]
      BY <3>1, <3>2, <3>5
    <3> QED BY <3>4, <3>5
  <2>6. Own(c)'
    <3>1. InFlight(c, n)
      BY DEF InFlight
    <3>2. Mine(c) /\ n \in Mutations
      BY <1>1 DEF Heeded
    <3>3. ~(n.base < Len(vault.log))
      BY <1>4, <2>2
    <3> HIDE DEF c, n
    <3>4. n.id = device[client[c].app].todo.id
      BY <3>1, <3>2, <3>3 DEF Mine
    <3> QED BY <1>2, <2>3, <3>4 DEF Own
  <2> HIDE DEF answer, news, c
  <2>7. \A o \in Conns, x \in DownMessages : Elements(Append(down[o], x)) = Elements(down[o]) \union {x}
    BY ElementsAre DEF Typed
  <2>8. ASSUME NEW o \in Conns PROVE Listens(o)'
    <3> DEFINE x == IF o = c THEN answer ELSE news
               hears == TRUE
    <3>1. /\ x \in DownMessages /\ x.type \in {"answer", "cursor_advanced"} /\ hears \in BOOLEAN
          /\ down'[o] = IF hears /\ Reaches(o) THEN Append(down[o], x) ELSE down[o]
          /\ ~HelloAnswer(x) /\ \A k : ~Tells(x, k)
      BY <1>1, <1>3, <1>5, <2>5
    <3>2. ~Reaches(o) \/ Hears(o)'
      <4>1. CASE o = c
        BY <2>6, <4>1 DEF Hears
      <4>2. CASE o # c /\ Reaches(o)
        <5>1. news \in Elements(down'[o])
          BY <1>1, <2>5, <2>7, <4>2
        <5>2. news.cursor >= vault'.cursor
          BY <1>3, <1>4, <2>1
        <5> QED BY <1>3, <5>1, <5>2 DEF Hears
      <4> QED BY <4>1, <4>2
    <3>3. \A k \in Keys : Wanted(o, k)' =>
            \/ hears /\ Tells(x, k) /\ Content(x, k) = Content(vault', k)
            \/ Wanted(o, k) /\ Content(vault', k) = Content(vault, k) /\ (hears => ~Tells(x, k))
      <4>1. \A k \in Keys : Content(vault', k) = Content(vault, k)
        BY <2>1 DEF Content
      <4> QED BY <1>6, <3>1, <4>1
    <3>4. Elements(down'[o]) \subseteq Elements(down[o]) \union {x}
      BY <2>7, <3>1
    <3>5. Begins(o) /\ Fresh(o) /\ Attentive(o) /\ Current(o)
      BY DEF Heeded, Listens
    <3>6. Fresh(o)'
      <4> SUFFICES ASSUME NEW y \in Elements(down'[o]), y.type = "answer", y.kind = "commit", ~y.stale,
                          Last(vault'.log) = y.mutation
                   PROVE  y.cursor >= vault'.cursor
        BY DEF Fresh
      <4>1. CASE y = answer
        BY <1>3, <1>4, <2>1, <4>1
      <4>2. CASE y # answer
        <5>1. y \in Elements(down[o])
          BY <1>3, <3>4, <4>2
        <5>2. y \in DownMessages
          BY <5>1, ElementsAre DEF Typed
        <5>3. Applied(y.mutation)
          BY <5>1, <5>2 DEF Fated, ToldIsTrue, Told
        <5> QED BY <2>3, <2>4, <5>3
      <4> QED BY <4>1, <4>2
    <3>7. \A y \in Elements(up'[o]) : y.type = "hello" => y \in Elements(up[o])
      BY <1>2
    <3> HIDE DEF x, hears
    <3>8. Begins(o)' /\ Attentive(o)' /\ Current(o)'
      BY <1>2, <1>6, <3>1, <3>2, <3>3, <3>5, <3>7, SentListens
    <3> QED BY <3>6, <3>8 DEF Listens
  <2>9. ASSUME NEW o \in Conns PROVE Mine(o)'
    <3>1. client'[o].app = client[o].app /\ \A x \in Elements(up'[o]) : x.type = "commit" => x \in Elements(up[o])
      BY <1>2
    <3>2. device'[client[o].app].todo = device[client[o].app].todo
      BY <1>2
    <3> QED BY <1>1, <2>3, <3>1, <3>2, MineKept DEF Heeded
  <2>10. OneSession'
    BY <1>2 DEF Heeded, OneSession
  <2> QED BY <2>8, <2>9, <2>10 DEF Heeded
<1> QED BY <1>7, <1>8

\* Nothing was missed at first.
LEMMA HeedInit == Init => Heeded
<1> SUFFICES ASSUME Init PROVE Heeded
  OBVIOUS
<1>1. /\ \A c \in Conns : client[c].phase = "unused" /\ up[c] = <<>> /\ down[c] = <<>>
      /\ awaiting = {} /\ Elements(<<>>) = {}
  BY DEF Init, Unused, Elements
<1>2. ASSUME NEW c \in Conns PROVE Listens(c) /\ Mine(c)
  <2>1. Closed(client[c])
    BY <1>1 DEF Closed
  <2>2. Begins(c)
    BY <1>1 DEF Begins
  <2>3. Fresh(c)
    BY <1>1 DEF Fresh
  <2>4. Attentive(c) /\ Current(c)
    BY <2>1 DEF Attentive, Current, Reaches
  <2>5. Mine(c)
    BY <1>1 DEF Mine, InFlight
  <2> QED BY <2>2, <2>3, <2>4, <2>5 DEF Listens
<1>3. OneSession
  BY <1>1 DEF OneSession, Closed
<1> QED BY <1>2, <1>3 DEF Heeded

\* Every step keeps what sessions have heard of.
LEMMA HeedStep == Typed /\ Fated /\ Sound /\ Heeded /\ [Next]_vars => Heeded'
<1> SUFFICES ASSUME Typed, Fated, Sound, Heeded, [Next]_vars PROVE Heeded'
  OBVIOUS
<1>1. CASE UNCHANGED vars
  <2>1. UNCHANGED <<client, server, up, down, cut, awaiting, vault, device>>
    BY <1>1 DEF vars
  <2>2. \A o \in Conns : Listens(o)'
    BY <2>1, Unmoved DEF Heeded, Open, Reaches
  <2>3. (\A o \in Conns : Mine(o)') /\ OneSession'
    BY <2>1 DEF Heeded, Mine, InFlight, OneSession
  <2> QED BY <2>2, <2>3 DEF Heeded
<1>2. ASSUME NEW a \in Apps, OpenSession(a) \/ Edit(a) PROVE Heeded'
  BY <1>2, HeedOpenSession, HeedEdit
<1>3. ASSUME NEW c \in Conns,
             \/ OpenFails(c) \/ Ask(c) \/ Beat(c) \/ TimeOut(c) \/ Close(c)
             \/ Receive(c) \/ Accept(c) \/ Serve(c) \/ CloseEnds(c)
             \/ ServerNotices(c) \/ Cut(c)
      PROVE  Heeded'
  <2>1. CASE OpenFails(c) \/ Ask(c) \/ Beat(c) \/ TimeOut(c) \/ Close(c) \/ Accept(c) \/ Serve(c) \/ Cut(c)
    BY <2>1, HeedEnds, HeedAsk, HeedBeat, HeedAccept, HeedServe, HeedGone
  <2>2. CASE Receive(c)
    BY <2>2, HeedOpened, HeedReceiveAnswer, HeedReceiveFailure, HeedReceivePush, HeedReceiveError,
       HeedReceiveClose DEF Receive
  <2>3. CASE CloseEnds(c) \/ ServerNotices(c)
    BY <2>3, HeedGone DEF CloseEnds, ServerNotices
  <2> QED BY <1>3, <2>1, <2>2, <2>3
<1>4. ASSUME NEW w \in awaiting, CommitReturns(w) \/ CommitFails(w) PROVE Heeded'
  BY <1>4, HeedCommitReturns, HeedCommitFails
<1>5. CASE PolicyChanges \/ UsageChanges \/ Restart
  BY <1>5, HeedChanges, HeedRestart
<1> QED BY <1>1, <1>2, <1>3, <1>4, <1>5 DEF Next

\* A session in use with nothing on its way has been told of the cursor of the vault, unless it is
\* its own edit that it will ask of again, of the policy, and of the storage used if it watches
\* that (Session.NothingIsMissed).
THEOREM NothingIsEverMissed == Spec => []NothingIsMissed
<1>1. Init => Typed /\ Fated /\ Sound /\ Heeded
  BY TypedInit, FatedInit, SoundInit, HeedInit
<1>2. Typed /\ Fated /\ Sound /\ Heeded /\ [Next]_vars => (Typed /\ Fated /\ Sound /\ Heeded)'
  BY TypedStep, FatedStep, SoundStep, HeedStep
<1>3. Heeded => NothingIsMissed
  <2> SUFFICES ASSUME Heeded, NEW c \in Conns, Settled(c)
               PROVE  LET d == device[client[c].app] IN
                      /\ d.heard >= vault.cursor \/ (vault.log # <<>> /\ Last(vault.log) = d.todo.id)
                      /\ d.policy = vault.policy /\ (server[c].watch => d.used = vault.used)
    BY DEF NothingIsMissed, NoMissedAdvance, StatusIsKnown
  <2>1. Reaches(c) /\ client[c].phase = "live" /\ Elements(down[c]) = {}
    BY DEF Settled, Reaches, Closed, Elements
  <2>2. device[client[c].app].heard >= vault.cursor \/ Own(c)
    BY <2>1 DEF Heeded, Listens, Attentive, Hears
  <2>3. \A k : Silent(down[c], k)
    BY <2>1 DEF Silent
  <2>4. /\ Content(device[client[c].app], "policy") = Content(vault, "policy")
        /\ server[c].watch => Content(device[client[c].app], "used") = Content(vault, "used")
    BY <2>1, <2>3 DEF Heeded, Listens, Current, Wanted
  <2> QED BY <2>2, <2>4 DEF Own, Content
<1> QED BY <1>1, <1>2, <1>3, PTL DEF Spec

-----------------------------------------------------------------------------
(* What the run checks of Selection. *)

\* What is proved of Selection for any paths and settings holds of the run, in which a
\* behaviour is about the sessions or a file: only a scan whose listing was overtaken deletes
\* for others what nobody has deleted, and the device is left with the files that are selected.
THEOREM RunKeepsSelection == MCSpec => []SelectionIsKept
<1>1. MCInit => F!Init
  BY DEF MCInit
<1>2. [MCNext]_mcvars => [F!Next]_(F!vars)
  BY DEF MCNext, mcvars, fileVars, F!vars
<1>3. F!PlainPaths /\ F!Spec => []F!SelectionIsKept
  BY F!SelectionStaysKept
<1>4. F!SelectionIsKept => SelectionIsKept
  BY DEF SelectionIsKept
<1> QED BY <1>1, <1>2, <1>3, <1>4, PathsArePlain, PTL DEF MCSpec, F!Spec
=============================================================================
