---------------------------- MODULE PluginProofs ----------------------------
(***************************************************************************)
(* What is proved of Plugin for every value of its constants: that its     *)
(* connection is the one of its account, vault and store, that a pipeline  *)
(* which nothing came between leaves it as it should be, and that a store  *)
(* is deleted only with its vault.  And of History, which the run checks   *)
(* beside it: that what was deleted can be restored as it was.             *)
(***************************************************************************)
EXTENDS MCPlugin, Sequences, WellFoundedInduction, TLAPS

-----------------------------------------------------------------------------
(* Types: the shape of the plugin and of a task, and which function a task  *)
(* can be that waits for what it waits for.                                 *)

\* What a connection is for, and a vault with its key.
Owners == [vault : {0} \union Vaults, local : Nat, account : {0} \union Accounts]
Keys == [id : {0} \union Vaults, key : {0} \union Vaults]
Auths == {"unknown", "verified", "pending", "rejected"}
States == {"not_ready", "paused", "syncing", "attention_needed", "offline", "up_to_date",
           "reconnecting"}
Plugins == [required : BOOLEAN, enabled : BOOLEAN, token : {0} \union Accounts, auth : Auths,
            session : Keys, stored : {0} \union Vaults, key : {0} \union Vaults, local : Nat,
            open : BOOLEAN, live : BOOLEAN, opening : Owners, conn : Owners, timer : BOOLEAN,
            cached : Owners, status : States]

Kinds == {"none", "ensure", "resume", "refused", "connect", "disconnect", "sign_out", "login",
          "rules", "history"}
Records == [kind : Kinds, pc : Pcs, token : {0} \union Accounts, vault : Keys, clean : BOOLEAN]

KindsAt(pc) ==
  CASE pc \in {"identity", "restore", "reconcile"} -> Pipelines
    [] pc \in {"opening", "opened"} -> Pipelines \union {"history", "disconnect", "sign_out"}
    [] pc \in {"detach", "detached"} -> {"disconnect", "sign_out"}
    [] pc = "revoke" -> {"sign_out"}
    [] pc = "poll" -> {"login"}
    [] pc = "bootstrap" -> {"connect"}
    [] pc = "rules" -> {"rules"}
    [] OTHER -> Kinds

\* A connection is that of a live loop which is not making another; where a vault is
\* connected, the store has been opened.
Connects(p) == p.conn # NoToken => p.live /\ p.opening = NoToken
Whole(p) == Connects(p) /\ (p.session.id # 0 => p.open)

\* A task waits for what its function waits for; no two connect a vault.
Placed(r, p) ==
  /\ r.kind \in KindsAt(r.pc)
  /\ r.pc = "restore" => r.vault.id # 0
  /\ r.pc = "detach" => p.conn # NoToken

Worlds == [online : BOOLEAN, gone : SUBSET Vaults, valid : SUBSET Accounts]
Types ==
  /\ plugin \in Plugins /\ Whole(plugin)
  /\ tasks \in [Tasks -> Records]
  /\ \A t \in Tasks : Placed(tasks[t], plugin)
  /\ \A t, u \in Tasks : At(t, "bootstrap") /\ At(u, "bootstrap") => t = u
  /\ world \in Worlds
  /\ settled \in BOOLEAN /\ torn \in BOOLEAN

-----------------------------------------------------------------------------
(* What belongs together, as long as nothing was torn.                      *)

\* The connection there should be; what else may be on its way.
Us(p) == [vault |-> p.session.id, local |-> p.local, account |-> p.token]
Ours(p, c) == c = NoToken \/ (c = Us(p) /\ p.session.id # 0)
Free(p, gone) == p.opening = NoToken \/ p.opening.vault \in gone

\* Connection, token and attempt are for the vault whose store is open.
Sound(p, gone) ==
  /\ Ours(p, p.conn) /\ Ours(p, p.cached)
  /\ Ours(p, p.opening) \/ Free(p, gone)
  /\ p.session.id # 0 => p.stored = p.session.id
  /\ p.stored # 0 => p.key # 0

\* Nothing opens a connection while a vault is detached; none is connected, and none is
\* stored, while one is being connected.
Together ==
  ~torn => /\ Sound(plugin, world.gone)
           /\ ~Quiet => Free(plugin, world.gone)
           /\ Modal => plugin.session.id = 0 /\ plugin.stored = 0

-----------------------------------------------------------------------------
(* What a pipeline that nothing came between relies on, and what it leaves. *)

Ready(p) == p.enabled /\ Verified(p) /\ p.session.id # 0
Promised(p, r, online) ==
  /\ r.pc = "identity" => online /\ r.token = p.token /\ p.token # 0
  /\ r.pc = "restore" => /\ p.session.id = 0 /\ r.vault = [id |-> p.stored, key |-> p.key]
                         /\ p.stored # 0 /\ p.key # 0 /\ Readiness(p) = "verified"
  /\ r.pc = "reconcile" => Ready(p)
  /\ r.pc \in {"opening", "opened"} /\ r.kind \in Pipelines => Ready(p) /\ p.live
  /\ r.pc \in {"poll", "bootstrap"} /\ p.session.id = 0 => p.opening = NoToken

Right(p, whole) ==
  Readiness(p) # "pending" =>
    /\ p.live => p.enabled /\ Verified(p) /\ p.session.id # 0 /\ p.timer
    /\ Verified(p) /\ HasVault(p) /\ ~p.required /\ whole =>
         p.live = p.enabled /\ (~p.enabled => p.status = "paused")

\* A clean task is alone; with nothing in flight and no network, no attempt is under way
\* that could overwrite what the user is told of a paused sync.
CleanIsRight ==
  /\ \A t \in InFlight :
       tasks[t].clean => Others(t) = {} /\ Promised(plugin, tasks[t], world.online)
  /\ settled => /\ InFlight = {} /\ Right(plugin, ~torn)
                /\ ~torn /\ ~world.online /\ ~plugin.live => plugin.opening = NoToken

-----------------------------------------------------------------------------
(* The functions of the plugin.                                             *)

LEMMA TokensAre ==
  /\ NoToken \in Owners /\ NoToken.vault = 0 /\ 0 \notin Vaults /\ 0 \notin Accounts
  /\ \A p \in Plugins : Us(p) \in Owners /\ Us(p).vault = p.session.id
  /\ NoVault \in Keys /\ NoVault.id = 0
BY PluginConstants DEF NoToken, Owners, Us, NoVault, Keys, Plugins

\* A loop that stops.
LEMMA HaltedIs ==
  ASSUME NEW p \in Plugins, NEW q \in {NotReady(p), Paused(p)}
  PROVE  /\ q \in Plugins /\ (Connects(p) => Connects(q))
         /\ ~q.live /\ q.conn = NoToken /\ ~q.timer
         /\ q.required = p.required /\ q.enabled = p.enabled /\ q.token = p.token
         /\ q.auth = p.auth /\ q.session = p.session /\ q.stored = p.stored /\ q.key = p.key
         /\ q.local = p.local /\ q.open = p.open /\ q.opening = p.opening /\ q.cached = p.cached
<1>1. NoToken \in Owners
  BY TokensAre
<1>2. PICK status \in States : q = [Stopped(p) EXCEPT !.status = status]
  BY DEF NotReady, Paused, States
<1>3. /\ Stopped(p) \in Plugins /\ ~Stopped(p).live /\ Stopped(p).conn = NoToken
      /\ ~Stopped(p).timer /\ Stopped(p).required = p.required
      /\ Stopped(p).enabled = p.enabled /\ Stopped(p).token = p.token
      /\ Stopped(p).auth = p.auth /\ Stopped(p).session = p.session
      /\ Stopped(p).stored = p.stored /\ Stopped(p).key = p.key
      /\ Stopped(p).local = p.local /\ Stopped(p).open = p.open
      /\ Stopped(p).opening = p.opening /\ Stopped(p).cached = p.cached
  BY <1>1 DEF Stopped, Plugins
<1> DEFINE s == Stopped(p)
<1>4. q = [s EXCEPT !.status = status] /\ s \in Plugins
  BY <1>2, <1>3
<1> HIDE DEF s
<1>5. /\ q \in Plugins /\ q.live = s.live /\ q.conn = s.conn /\ q.timer = s.timer
      /\ q.required = s.required /\ q.enabled = s.enabled /\ q.token = s.token
      /\ q.auth = s.auth /\ q.session = s.session /\ q.stored = s.stored /\ q.key = s.key
      /\ q.local = s.local /\ q.open = s.open /\ q.opening = s.opening
      /\ q.cached = s.cached
  BY <1>4 DEF Plugins
<1> QED BY <1>3, <1>5 DEF Connects, s

LEMMA PausedIs == ASSUME NEW p \in Plugins PROVE Paused(p).status = "paused"
BY DEF Paused, Stopped, Plugins

\* An attempt to connect is for what the plugin has.
LEMMA EnsureSessionIs ==
  ASSUME NEW p \in Plugins, NEW q, q = EnsureSession(p)
  PROVE  /\ q \in Plugins /\ q.live = p.live /\ q.conn = p.conn /\ q.timer = p.timer
         /\ q.required = p.required /\ q.enabled = p.enabled /\ q.token = p.token
         /\ q.auth = p.auth /\ q.session = p.session /\ q.stored = p.stored /\ q.key = p.key
         /\ q.local = p.local /\ q.open = p.open /\ q.cached = p.cached
         /\ \/ q.opening = p.opening
            \/ /\ p.opening = NoToken /\ p.conn = NoToken /\ p.session.id # 0 /\ p.live
               /\ q.opening = TokenFor(p)
<1>1. TokenFor(p) \in Owners
  BY DEF TokenFor, Plugins, Owners, Keys
<1>2. [p EXCEPT !.status = "attention_needed"] \in Plugins
  BY DEF Plugins, States
<1>3. [p EXCEPT !.opening = TokenFor(p), !.status = "syncing"] \in Plugins
  BY <1>1 DEF Plugins, States
<1>4. CASE ~p.live \/ p.conn # NoToken \/ p.opening # NoToken
  BY <1>4 DEF EnsureSession
<1>5. CASE /\ ~(~p.live \/ p.conn # NoToken \/ p.opening # NoToken)
           /\ ~p.open \/ p.token = 0 \/ p.session.id = 0
  BY <1>2, <1>5 DEF EnsureSession, Plugins
<1>6. CASE /\ ~(~p.live \/ p.conn # NoToken \/ p.opening # NoToken)
           /\ ~(~p.open \/ p.token = 0 \/ p.session.id = 0)
  <2>1. q = [p EXCEPT !.opening = TokenFor(p), !.status = "syncing"]
    BY <1>6 DEF EnsureSession
  <2> QED BY <1>3, <1>6, <2>1 DEF Plugins
<1> QED BY <1>4, <1>5, <1>6

LEMMA TokenIsOurs ==
  ASSUME NEW p \in Plugins, NEW gone, Sound(p, gone), p.session.id # 0
  PROVE  TokenFor(p) = Us(p)
<1>1. CASE CanReuse(p)
  <2>1. p.cached # NoToken
    BY <1>1, TokensAre DEF CanReuse
  <2> QED BY <1>1, <2>1 DEF TokenFor, Sound, Ours
<1>2. CASE ~CanReuse(p)
  BY <1>2 DEF TokenFor, Us
<1> QED BY <1>1, <1>2

\* What a pipeline leaves of the plugin it began with.
Kept(p, q) ==
  /\ q \in Plugins /\ (Connects(p) => Connects(q)) /\ (p.open => q.open)
  /\ q.required = p.required /\ q.enabled = p.enabled /\ q.token = p.token
  /\ q.session = p.session /\ q.key = p.key /\ q.local = p.local /\ q.cached = p.cached
  /\ q.stored \in {p.stored, p.session.id} /\ (p.session.id = 0 => q.stored = p.stored)
  /\ q.conn \in {p.conn, NoToken}
  /\ \/ q.opening = p.opening
     \/ /\ p.opening = NoToken /\ p.conn = NoToken /\ p.session.id # 0
        /\ q.opening = TokenFor(p)

LEMMA KeptIsSound ==
  ASSUME NEW p \in Plugins, NEW q, Kept(p, q), NEW gone, Sound(p, gone)
  PROVE  Sound(q, gone)
<1>1. Us(q) = Us(p) /\ q.session = p.session /\ q.key = p.key
  BY DEF Kept, Us
<1>2. Ours(q, q.conn) /\ Ours(q, q.cached)
  BY <1>1 DEF Kept, Sound, Ours
<1>3. Ours(q, q.opening) \/ Free(q, gone)
  <2>1. CASE q.opening = p.opening
    BY <1>1, <2>1 DEF Sound, Ours, Free
  <2>2. CASE q.opening # p.opening
    <3>1. p.session.id # 0 /\ q.opening = TokenFor(p)
      BY <2>2 DEF Kept
    <3> QED BY <1>1, <3>1, TokenIsOurs DEF Ours
  <2> QED BY <2>1, <2>2
<1>4. q.session.id # 0 => q.stored = q.session.id
  BY <1>1 DEF Kept, Sound
<1>5. q.stored # 0 => q.key # 0
  BY <1>1 DEF Kept, Sound
<1> QED BY <1>2, <1>3, <1>4, <1>5 DEF Sound

LEMMA HaltedIsKept ==
  ASSUME NEW p \in Plugins, NEW q \in {NotReady(p), Paused(p)}
  PROVE  Kept(p, q)
BY HaltedIs DEF Kept, Connects

LEMMA TimedIs ==
  ASSUME NEW p \in Plugins, NEW q, q = [p EXCEPT !.timer = TRUE]
  PROVE  Kept(p, q) /\ q.timer /\ q.live = p.live /\ q.auth = p.auth /\ q.opening = p.opening
BY DEF Kept, Plugins, Connects

LEMMA EnsureSessionIsKept ==
  ASSUME NEW p \in Plugins, NEW q, q = EnsureSession(p)
  PROVE  Kept(p, q)
<1>1. /\ q \in Plugins /\ q.live = p.live /\ q.conn = p.conn
      /\ q.required = p.required /\ q.enabled = p.enabled /\ q.token = p.token
      /\ q.session = p.session /\ q.stored = p.stored /\ q.key = p.key
      /\ q.local = p.local /\ q.open = p.open /\ q.cached = p.cached
      /\ \/ q.opening = p.opening
         \/ /\ p.opening = NoToken /\ p.conn = NoToken /\ p.session.id # 0 /\ p.live
            /\ q.opening = TokenFor(p)
  BY EnsureSessionIs
<1> QED BY <1>1 DEF Kept, Connects

\* The loop is made live.
LEMMA LiveIs ==
  ASSUME NEW p \in Plugins, NEW q, q = [p EXCEPT !.live = TRUE]
  PROVE  /\ q \in Plugins /\ q.live /\ q.conn = p.conn /\ q.timer = p.timer
         /\ q.required = p.required /\ q.enabled = p.enabled /\ q.token = p.token
         /\ q.auth = p.auth /\ q.session = p.session /\ q.stored = p.stored /\ q.key = p.key
         /\ q.local = p.local /\ q.open = p.open /\ q.opening = p.opening
         /\ q.cached = p.cached /\ TokenFor(q) = TokenFor(p)
BY DEF Plugins, TokenFor, CanReuse

LEMMA WithSessionIs ==
  ASSUME NEW p \in Plugins, NEW q, q = WithSession(p)
  PROVE  Kept(p, q) /\ q.live /\ q.auth = p.auth /\ q.timer = p.timer /\ q.conn = p.conn
<1> DEFINE l == [p EXCEPT !.live = TRUE]
<1>1. /\ l \in Plugins /\ l.live /\ l.conn = p.conn /\ l.timer = p.timer
      /\ l.required = p.required /\ l.enabled = p.enabled /\ l.token = p.token
      /\ l.auth = p.auth /\ l.session = p.session /\ l.stored = p.stored /\ l.key = p.key
      /\ l.local = p.local /\ l.open = p.open /\ l.opening = p.opening
      /\ l.cached = p.cached /\ TokenFor(l) = TokenFor(p)
  BY LiveIs
<1>2. q = EnsureSession(l)
  BY DEF WithSession
<1> HIDE DEF l
<1>3. /\ q.live = l.live /\ q.auth = l.auth /\ q.timer = l.timer /\ q.conn = l.conn
  BY <1>1, <1>2, EnsureSessionIs
<1>4. Kept(l, q)
  BY <1>1, <1>2, EnsureSessionIsKept
<1>5. Kept(p, q)
  BY <1>1, <1>3, <1>4 DEF Kept, Connects
<1> QED BY <1>1, <1>3, <1>5

\* startAutoSync: the loop runs, and its timer, once an attempt has ended.
LEMMA AwaitsSessionIs ==
  ASSUME NEW p \in Plugins, NEW r, r = AwaitsSession(p)
  PROVE  /\ Kept(p, r.p) /\ r.pc \in {"idle", "opening"} /\ (r.pc = "idle" => r.p.timer)
         /\ r.p.live = p.live /\ r.p.auth = p.auth
<1>1. CASE p.opening # NoToken
  <2>1. r = Waits(p, "opening")
    BY <1>1 DEF AwaitsSession
  <2>2. r.p = p /\ r.pc = "opening"
    BY <2>1 DEF Waits
  <2> QED BY <2>2 DEF Kept
<1>2. CASE p.opening = NoToken
  <2>1. r.p = [p EXCEPT !.timer = TRUE] /\ r.pc = "idle"
    BY <1>2 DEF AwaitsSession, Started, Done, Waits
  <2> QED BY <2>1, TimedIs
<1> QED BY <1>1, <1>2

LEMMA StartLoopIs ==
  ASSUME NEW p \in Plugins, NEW kind, NEW r, r = StartLoop(p, kind)
  PROVE  /\ Kept(p, r.p) /\ r.pc \in {"idle", "opening"} /\ (r.pc = "idle" => r.p.timer)
         /\ r.p.live /\ r.p.auth = p.auth
<1>1. CASE ~p.live
  <2> DEFINE q == WithSession(p)
  <2>1. r = AwaitsSession(q)
    BY <1>1 DEF StartLoop, WithSession
  <2>2. Kept(p, q) /\ q.live /\ q.auth = p.auth /\ q.conn = p.conn
    BY WithSessionIs
  <2> HIDE DEF q
  <2>3. q \in Plugins
    BY <2>2 DEF Kept
  <2>4. /\ Kept(q, r.p) /\ r.pc \in {"idle", "opening"} /\ (r.pc = "idle" => r.p.timer)
        /\ r.p.live = q.live /\ r.p.auth = q.auth
    BY <2>1, <2>3, AwaitsSessionIs
  <2>5. r.p.opening = q.opening
    <3>1. r.p = q \/ r.p = [q EXCEPT !.timer = TRUE]
      BY <2>1 DEF AwaitsSession, Waits, Started, Done
    <3> QED BY <2>3, <3>1 DEF Plugins
  <2>6. Kept(p, r.p)
    BY <2>2, <2>4, <2>5 DEF Kept
  <2> QED BY <2>2, <2>4, <2>6
<1>2. CASE p.live /\ kind = "resume"
  <2> DEFINE q == EnsureSession(p)
  <2>1. r = AwaitsSession(q)
    BY <1>2 DEF StartLoop
  <2>2. Kept(p, q) /\ q.live = p.live /\ q.auth = p.auth /\ q \in Plugins
    BY EnsureSessionIs, EnsureSessionIsKept
  <2> HIDE DEF q
  <2>4. /\ Kept(q, r.p) /\ r.pc \in {"idle", "opening"} /\ (r.pc = "idle" => r.p.timer)
        /\ r.p.live = q.live /\ r.p.auth = q.auth
    BY <2>1, <2>2, AwaitsSessionIs
  <2>5. r.p.opening = q.opening
    <3>1. r.p = q \/ r.p = [q EXCEPT !.timer = TRUE]
      BY <2>1 DEF AwaitsSession, Waits, Started, Done
    <3> QED BY <2>2, <3>1 DEF Plugins
  <2>6. Kept(p, r.p)
    BY <2>2, <2>4, <2>5 DEF Kept
  <2> QED BY <1>2, <2>2, <2>4, <2>6
<1>3. CASE p.live /\ kind # "resume"
  <2>1. r.p = [p EXCEPT !.timer = TRUE] /\ r.pc = "idle"
    BY <1>3 DEF StartLoop, Started, Done, Waits
  <2> QED BY <1>3, <2>1, TimedIs
<1> QED BY <1>1, <1>2, <1>3

LEMMA KeptTwice ==
  ASSUME NEW p \in Plugins, NEW q, NEW r, Kept(p, q), Kept(q, r),
         (q.opening = p.opening /\ q.conn = p.conn) \/ r.opening = q.opening
  PROVE  Kept(p, r)
<1>1. TokenFor(q) = TokenFor(p)
  BY DEF Kept, TokenFor, CanReuse
<1> QED BY <1>1 DEF Kept

\* Where a pipeline may wait, whatever came between.
Steps == {"idle", "identity", "restore", "reconcile", "opening"}
Reaches(p, r) ==
  Kept(p, r.p) /\ r.pc \in Steps /\ (r.pc = "restore" => r.p.stored # 0)

\* What it promises where it waits, and what is so where it ends.
Record(r, kind) ==
  [kind |-> kind, pc |-> r.pc, token |-> r.p.token, vault |-> [id |-> r.p.stored, key |-> r.p.key]]
Leads(p, r, kind, online) ==
  /\ Promised(r.p, Record(r, kind), online)
  /\ r.pc = "idle" => Right(r.p, TRUE) /\ (~r.p.live => r.p.opening = p.opening)

LEMMA LoopReaches ==
  ASSUME NEW p \in Plugins, NEW kind
  PROVE  Reaches(p, StartLoop(p, kind))
<1> DEFINE r == StartLoop(p, kind)
<1>1. Kept(p, r.p) /\ r.pc \in {"idle", "opening"}
  BY StartLoopIs
<1> QED BY <1>1 DEF Reaches, Steps

LEMMA LoopLeads ==
  ASSUME NEW p \in Plugins, NEW kind, Ready(p), NEW online
  PROVE  Leads(p, StartLoop(p, kind), kind, online)
<1> DEFINE r == StartLoop(p, kind)
<1>1. /\ Kept(p, r.p) /\ r.pc \in {"idle", "opening"} /\ (r.pc = "idle" => r.p.timer)
      /\ r.p.live /\ r.p.auth = p.auth
  BY StartLoopIs
<1> HIDE DEF r
<1>2. Ready(r.p)
  BY <1>1 DEF Kept, Ready, Verified
<1>3. Promised(r.p, Record(r, kind), online)
  BY <1>1, <1>2 DEF Promised, Record
<1>4. Right(r.p, TRUE) \/ r.pc # "idle"
  BY <1>1, <1>2 DEF Right, Ready
<1> QED BY <1>1, <1>3, <1>4 DEF Leads, r

LEMMA EndIs == \A p : Done(p).p = p /\ Done(p).pc = "idle"
BY DEF Done, Waits
LEMMA WaitIs == \A p, pc : Waits(p, pc).p = p /\ Waits(p, pc).pc = pc
BY DEF Waits
LEMMA KeptSelf == \A p \in Plugins : Kept(p, p)
BY DEF Kept

\* A loop that stops is right where none is wanted.
LEMMA HaltLeads ==
  ASSUME NEW p \in Plugins, NEW q \in {NotReady(p), Paused(p)}, NEW kind, NEW online
  PROVE  /\ Reaches(p, Done(q))
         /\ (Verified(p) /\ HasVault(p) /\ ~p.required => q = Paused(p) /\ ~p.enabled)
              => Leads(p, Done(q), kind, online)
<1>1. Done(q).p = q /\ Done(q).pc = "idle"
  BY EndIs
<1>2. Reaches(p, Done(q))
  BY <1>1, HaltedIsKept DEF Reaches, Steps
<1>3. /\ ~q.live /\ q.required = p.required /\ q.enabled = p.enabled /\ q.auth = p.auth
      /\ q.session = p.session /\ q.stored = p.stored /\ q.key = p.key
      /\ q.opening = p.opening /\ q.enabled \in BOOLEAN /\ q.live \in BOOLEAN
  <2>1. q \in Plugins
    BY HaltedIs
  <2> QED BY <2>1, HaltedIs DEF Plugins
<1>4. ASSUME Verified(p) /\ HasVault(p) /\ ~p.required => q = Paused(p) /\ ~p.enabled
      PROVE  Leads(p, Done(q), kind, online)
  <2>1. Promised(q, Record(Done(q), kind), online)
    BY <1>1 DEF Promised, Record
  <2>2. Right(q, TRUE)
    BY <1>3, <1>4, PausedIs DEF Right, Verified, HasVault
  <2> QED BY <1>1, <1>3, <2>1, <2>2 DEF Leads
<1> QED BY <1>2, <1>4

LEMMA EnabledReaches ==
  ASSUME NEW p \in Plugins, NEW kind
  PROVE  Reaches(p, StartIfEnabled(p, kind))
<1>1. CASE p.enabled /\ kind = "resume"
  BY <1>1, LoopReaches DEF StartIfEnabled, StartSync
<1>2. CASE p.enabled /\ kind # "resume"
  BY <1>2, WaitIs, KeptSelf DEF StartIfEnabled, StartSync, Reaches, Steps
<1>3. CASE ~p.enabled
  BY <1>3, HaltLeads DEF StartIfEnabled
<1> QED BY <1>1, <1>2, <1>3

LEMMA EnabledLeads ==
  ASSUME NEW p \in Plugins, NEW kind, NEW online, Verified(p), p.session.id # 0
  PROVE  Leads(p, StartIfEnabled(p, kind), kind, online)
<1>1. CASE p.enabled /\ kind = "resume"
  BY <1>1, LoopLeads DEF StartIfEnabled, StartSync, Ready
<1>2. CASE p.enabled /\ kind # "resume"
  <2> DEFINE r == StartIfEnabled(p, kind)
  <2>1. r.p = p /\ r.pc = "reconcile"
    BY <1>2, WaitIs DEF StartIfEnabled, StartSync
  <2> HIDE DEF r
  <2>2. Leads(p, r, kind, online)
    BY <1>2, <2>1 DEF Leads, Promised, Record, Ready
  <2> QED BY <2>2 DEF r
<1>3. CASE ~p.enabled
  BY <1>3, HaltLeads DEF StartIfEnabled
<1> QED BY <1>1, <1>2, <1>3

LEMMA StoreIs ==
  ASSUME NEW p \in Plugins, NEW q, q = InitializeStore(p)
  PROVE  /\ Kept(p, q) /\ q.open /\ q.auth = p.auth /\ q.opening = p.opening /\ q.conn = p.conn
         /\ q.live = p.live /\ q.timer = p.timer
         /\ q.stored = IF StoreIsOurs(p) THEN p.session.id ELSE p.stored
<1>1. p.session.id \in {0} \union Vaults /\ p.stored \in {0} \union Vaults
  BY DEF Plugins, Keys
<1>2. CASE StoreIsOurs(p)
  <2>1. q = [p EXCEPT !.open = TRUE, !.stored = p.session.id]
    BY <1>2 DEF InitializeStore
  <2>2. p.session.id = 0 => p.stored = 0
    BY <1>2 DEF StoreIsOurs
  <2> QED BY <1>1, <1>2, <2>1, <2>2 DEF Plugins, Kept, Connects
<1>3. CASE ~StoreIsOurs(p)
  <2>1. q = [p EXCEPT !.open = TRUE, !.status = "attention_needed"]
    BY <1>3 DEF InitializeStore
  <2> QED BY <1>3, <2>1 DEF Plugins, Kept, Connects, States
<1> QED BY <1>2, <1>3

LEMMA RestoreReaches ==
  ASSUME NEW p \in Plugins, NEW kind
  PROVE  /\ Reaches(p, AfterRestore(p, kind))
         /\ p.session.id # 0 => AfterRestore(p, kind).p.open
<1> DEFINE r == AfterRestore(p, kind)
<1>1. CASE p.session.id = 0
  BY <1>1, HaltLeads DEF AfterRestore
<1>2. CASE p.session.id # 0 /\ p.open
  <2>1. r = StartIfEnabled(p, kind)
    BY <1>2 DEF AfterRestore
  <2> QED BY <1>2, <2>1, EnabledReaches DEF Reaches, Kept
<1>3. CASE p.session.id # 0 /\ ~p.open
  <2> DEFINE q == InitializeStore(p)
  <2>1. /\ Kept(p, q) /\ q.open /\ q.opening = p.opening /\ q.conn = p.conn
    BY StoreIs
  <2>2. r = IF StoreIsOurs(p) THEN StartIfEnabled(q, kind) ELSE Done(q)
    BY <1>3 DEF AfterRestore
  <2> HIDE DEF q, r
  <2>3. q \in Plugins
    BY <2>1 DEF Kept
  <2>4. Reaches(q, r)
    BY <2>2, <2>3, EnabledReaches, EndIs, KeptSelf DEF Reaches, Steps
  <2>5. Kept(p, r.p)
    BY <2>1, <2>4, KeptTwice DEF Reaches
  <2>6. r.p.open
    BY <2>1, <2>4 DEF Reaches, Kept
  <2> QED BY <2>4, <2>5, <2>6 DEF Reaches, r
<1> QED BY <1>1, <1>2, <1>3

LEMMA RestoreLeads ==
  ASSUME NEW p \in Plugins, NEW kind, NEW online, Verified(p),
         p.session.id # 0 => p.open \/ StoreIsOurs(p),
         p.session.id = 0 => ~HasVault(p)
  PROVE  Leads(p, AfterRestore(p, kind), kind, online)
<1> DEFINE r == AfterRestore(p, kind)
<1>1. CASE p.session.id = 0
  BY <1>1, HaltLeads DEF AfterRestore
<1>2. CASE p.session.id # 0 /\ p.open
  <2>1. r = StartIfEnabled(p, kind)
    BY <1>2 DEF AfterRestore
  <2> QED BY <1>2, <2>1, EnabledLeads
<1>3. CASE p.session.id # 0 /\ ~p.open
  <2> DEFINE q == InitializeStore(p)
  <2>1. Kept(p, q) /\ q.auth = p.auth /\ q.opening = p.opening
    BY StoreIs
  <2>2. r = StartIfEnabled(q, kind)
    BY <1>3 DEF AfterRestore
  <2> HIDE DEF q, r
  <2>3. q \in Plugins /\ Verified(q) /\ q.session.id # 0
    BY <1>3, <2>1 DEF Kept, Verified
  <2>4. Leads(q, r, kind, online)
    BY <2>2, <2>3, EnabledLeads
  <2>5. Leads(p, r, kind, online)
    BY <2>1, <2>4 DEF Leads
  <2> QED BY <2>5 DEF r
<1> QED BY <1>1, <1>2, <1>3

LEMMA EnsureReaches ==
  ASSUME NEW p \in Plugins, NEW kind
  PROVE  Reaches(p, EnsureStore(p, kind))
<1>1. CASE p.session.id = 0 /\ p.stored # 0 /\ p.key # 0
  BY <1>1, WaitIs, KeptSelf DEF EnsureStore, Reaches, Steps
<1>2. CASE ~(p.session.id = 0 /\ p.stored # 0 /\ p.key # 0)
  BY <1>2, RestoreReaches DEF EnsureStore
<1> QED BY <1>1, <1>2

LEMMA EnsureLeads ==
  ASSUME NEW p \in Plugins, NEW kind, NEW online, Readiness(p) = "verified", Verified(p),
         p.session.id # 0 => p.open
  PROVE  Leads(p, EnsureStore(p, kind), kind, online)
<1>1. CASE p.session.id = 0 /\ p.stored # 0 /\ p.key # 0
  <2> DEFINE r == EnsureStore(p, kind)
  <2>1. r.p = p /\ r.pc = "restore"
    BY <1>1, WaitIs DEF EnsureStore
  <2> HIDE DEF r
  <2>2. Leads(p, r, kind, online)
    BY <1>1, <2>1 DEF Leads, Promised, Record
  <2> QED BY <2>2 DEF r
<1>2. CASE ~(p.session.id = 0 /\ p.stored # 0 /\ p.key # 0)
  BY <1>2, RestoreLeads DEF EnsureStore, HasVault
<1> QED BY <1>1, <1>2

LEMMA OfflineIs ==
  ASSUME NEW p \in Plugins, NEW q, q = [p EXCEPT !.status = "offline"]
  PROVE  Kept(p, q) /\ q.auth = p.auth /\ q.opening = p.opening
BY DEF Plugins, Kept, Connects, States

LEMMA ReadinessIs ==
  ASSUME NEW p \in Plugins
  PROVE  /\ Readiness(p) \in {"anonymous", "verified", "rejected", "pending"}
         /\ Readiness(p) = "verified" <=> p.token # 0 /\ Verified(p)
<1>1. CASE p.token = 0
  BY <1>1 DEF Readiness, Verified
<1>2. CASE p.token # 0 /\ p.auth \in {"verified", "rejected"}
  BY <1>2 DEF Readiness, Verified
<1>3. CASE p.token # 0 /\ p.auth \notin {"verified", "rejected"}
  <2>1. Readiness(p) = "pending"
    BY <1>3 DEF Readiness
  <2> QED BY <1>3, <2>1 DEF Verified
<1> QED BY <1>1, <1>2, <1>3

LEMMA AuthReaches ==
  ASSUME NEW p \in Plugins, NEW kind
  PROVE  Reaches(p, AfterAuth(p, kind))
<1>1. CASE Readiness(p) = "pending"
  <2>1. AfterAuth(p, kind) = Done([p EXCEPT !.status = "offline"])
    BY <1>1 DEF AfterAuth
  <2> QED BY <2>1, OfflineIs, EndIs DEF Reaches, Steps
<1>2. CASE Readiness(p) = "verified"
  <2>1. AfterAuth(p, kind) = EnsureStore(p, kind)
    BY <1>2 DEF AfterAuth
  <2> QED BY <2>1, EnsureReaches
<1>3. CASE Readiness(p) \notin {"pending", "verified"}
  <2>1. AfterAuth(p, kind) = Done(IF p.enabled THEN NotReady(p) ELSE Paused(p))
    BY <1>3 DEF AfterAuth
  <2> QED BY <2>1, HaltLeads
<1> QED BY <1>1, <1>2, <1>3

LEMMA AuthLeads ==
  ASSUME NEW p \in Plugins, NEW kind, NEW online, p.session.id # 0 => p.open,
         Verified(p) => p.token # 0
  PROVE  Leads(p, AfterAuth(p, kind), kind, online)
<1>1. CASE Readiness(p) = "pending"
  <2> DEFINE q == [p EXCEPT !.status = "offline"]
  <2>1. AfterAuth(p, kind) = Done(q)
    BY <1>1 DEF AfterAuth
  <2>2. Kept(p, q) /\ q.auth = p.auth /\ q.opening = p.opening
    BY OfflineIs
  <2> HIDE DEF q
  <2>3. Readiness(q) = "pending"
    BY <1>1, <2>2 DEF Readiness, Kept
  <2> QED BY <2>1, <2>2, <2>3, EndIs DEF Leads, Right, Promised, Record
<1>2. CASE Readiness(p) = "verified"
  <2>1. AfterAuth(p, kind) = EnsureStore(p, kind)
    BY <1>2 DEF AfterAuth
  <2> QED BY <1>2, <2>1, EnsureLeads, ReadinessIs
<1>3. CASE Readiness(p) \notin {"pending", "verified"}
  <2>1. AfterAuth(p, kind) = Done(IF p.enabled THEN NotReady(p) ELSE Paused(p))
    BY <1>3 DEF AfterAuth
  <2>2. ~Verified(p)
    BY <1>3, ReadinessIs
  <2> QED BY <2>1, <2>2, HaltLeads
<1> QED BY <1>1, <1>2, <1>3

\* getReadiness begins with what the plugin knows of its account.
LEMMA KnownIs ==
  ASSUME NEW p \in Plugins, NEW a \in Auths, NEW q, q = [p EXCEPT !.auth = a]
  PROVE  /\ Kept(p, q) /\ q.auth = a /\ q.opening = p.opening /\ q.conn = p.conn
         /\ q.open = p.open
BY DEF Plugins, Kept, Connects

\* A pipeline, whatever it comes upon.
LEMMA ReadyReaches ==
  ASSUME NEW p \in Plugins, NEW kind
  PROVE  Reaches(p, RunReady(p, kind))
<1> DEFINE r == RunReady(p, kind)
<1>1. ASSUME NEW a \in Auths, r = AfterAuth([p EXCEPT !.auth = a], kind)
      PROVE  Reaches(p, r)
  <2> DEFINE q == [p EXCEPT !.auth = a]
  <2>1. Kept(p, q) /\ q.opening = p.opening /\ q.conn = p.conn /\ q \in Plugins
    BY KnownIs DEF Kept
  <2> HIDE DEF q
  <2>2. Reaches(q, r)
    BY <1>1, <2>1, AuthReaches DEF q
  <2> HIDE DEF r
  <2> QED BY <2>1, <2>2, KeptTwice DEF Reaches
<1>2. CASE p.required
  BY <1>2, HaltLeads DEF RunReady
<1>3. CASE ~p.required /\ p.token = 0
  BY <1>1, <1>3 DEF RunReady, Auths
<1>4. CASE ~p.required /\ p.token # 0 /\ p.auth # "verified" /\ ~world.online
  BY <1>1, <1>4 DEF RunReady, Auths
<1>5. CASE /\ ~p.required /\ p.token # 0 /\ ~(p.auth # "verified" /\ ~world.online)
           /\ NeedsIdentity(p)
  <2>1. r = Waits(p, "identity")
    BY <1>5 DEF RunReady
  <2> QED BY <2>1, WaitIs, KeptSelf DEF Reaches, Steps
<1>6. CASE /\ ~p.required /\ p.token # 0 /\ ~(p.auth # "verified" /\ ~world.online)
           /\ ~NeedsIdentity(p)
  <2>1. r = AfterAuth(p, kind)
    BY <1>6 DEF RunReady
  <2> QED BY <2>1, AuthReaches
<1> QED BY <1>2, <1>3, <1>4, <1>5, <1>6

LEMMA ReadyLeads ==
  ASSUME NEW p \in Plugins, NEW kind, p.session.id # 0 => p.open
  PROVE  Leads(p, RunReady(p, kind), kind, world.online)
<1> DEFINE r == RunReady(p, kind)
<1>1. ASSUME NEW a \in Auths, r = AfterAuth([p EXCEPT !.auth = a], kind), a # "verified"
      PROVE  Leads(p, r, kind, world.online)
  <2> DEFINE q == [p EXCEPT !.auth = a]
  <2>1. /\ q.opening = p.opening /\ q \in Plugins /\ q.auth = a
        /\ q.open = p.open /\ q.session = p.session
    BY KnownIs DEF Kept
  <2> HIDE DEF q
  <2>2. Leads(q, r, kind, world.online)
    BY <1>1, <2>1, AuthLeads DEF q, Verified
  <2> HIDE DEF r
  <2> QED BY <2>1, <2>2 DEF Leads
<1>2. CASE p.required
  BY <1>2, HaltLeads DEF RunReady
<1>3. CASE ~p.required /\ p.token = 0
  BY <1>1, <1>3 DEF RunReady, Auths
<1>4. CASE ~p.required /\ p.token # 0 /\ p.auth # "verified" /\ ~world.online
  BY <1>1, <1>4 DEF RunReady, Auths
<1>5. CASE /\ ~p.required /\ p.token # 0 /\ ~(p.auth # "verified" /\ ~world.online)
           /\ NeedsIdentity(p)
  <2>1. r = Waits(p, "identity")
    BY <1>5 DEF RunReady
  <2>2. r.p = p /\ r.pc = "identity"
    BY <2>1, WaitIs
  <2>3. world.online
    BY <1>5 DEF NeedsIdentity
  <2> HIDE DEF r
  <2>4. Leads(p, r, kind, world.online)
    BY <1>5, <2>2, <2>3 DEF Leads, Promised, Record
  <2> QED BY <2>4 DEF r
<1>6. CASE /\ ~p.required /\ p.token # 0 /\ ~(p.auth # "verified" /\ ~world.online)
           /\ ~NeedsIdentity(p)
  <2>1. r = AfterAuth(p, kind)
    BY <1>6 DEF RunReady
  <2> QED BY <1>6, <2>1, AuthLeads
<1> QED BY <1>2, <1>3, <1>4, <1>5, <1>6

-----------------------------------------------------------------------------
(* Tasks that move.                                                         *)

\* Task t goes on or begins; in the second case the others are no longer clean.
Moves(t, X, r, kind, clean) ==
  /\ plugin' = r.p
  /\ tasks' = Loosed([X EXCEPT ![t] = TaskAfter(r, kind, clean)], r.p)

\* Where it may come to.
Lands(r, kind) ==
  /\ r.p \in Plugins /\ Whole(r.p) /\ r.pc \in Pcs \ {"opened"} /\ kind \in Kinds
  /\ r.pc # "idle" => kind \in KindsAt(r.pc)
  /\ r.pc = "restore" => r.p.stored # 0
  /\ r.pc = "detach" => r.p.conn # NoToken

\* Another task stays where it is, unless its detach request fails.
Stays(u, p) ==
  /\ tasks'[u].kind = tasks[u].kind /\ tasks'[u].token = tasks[u].token
  /\ tasks'[u].vault = tasks[u].vault
  /\ \/ tasks'[u].pc = tasks[u].pc /\ ~(tasks[u].pc = "detach" /\ p.conn = NoToken)
     \/ tasks[u].pc = "detach" /\ tasks'[u].pc = "detached" /\ p.conn = NoToken
  /\ tasks'[u].clean \in BOOLEAN /\ (tasks'[u].clean => tasks[u].clean)

LEMMA PcsAre == "idle" \in Pcs /\ "opened" \in Pcs /\ "detached" \in Pcs /\ Steps \subseteq Pcs
BY DEF Pcs, Steps

LEMMA LoosedIs ==
  ASSUME NEW X \in [Tasks -> Records], NEW p, NEW u \in Tasks
  PROVE  /\ Loosed(X, p) \in [Tasks -> Records]
         /\ Loosed(X, p)[u] = IF X[u].pc = "detach" /\ p.conn = NoToken
                              THEN [X[u] EXCEPT !.pc = "detached"] ELSE X[u]
<1>1. \A v \in Tasks : [X[v] EXCEPT !.pc = "detached"] \in Records
  BY PcsAre DEF Records
<1> QED BY <1>1 DEF Loosed

LEMMA UncleanIs ==
  ASSUME NEW X \in [Tasks -> Records], NEW u \in Tasks
  PROVE  /\ Unclean(X) \in [Tasks -> Records]
         /\ Unclean(X)[u].kind = X[u].kind /\ Unclean(X)[u].pc = X[u].pc
         /\ Unclean(X)[u].token = X[u].token /\ Unclean(X)[u].vault = X[u].vault
         /\ Unclean(X)[u].clean = (X[u].clean /\ X[u].pc = "idle")
<1>1. \A v \in Tasks : [X[v] EXCEPT !.clean = @ /\ X[v].pc = "idle"] \in Records
  BY DEF Records
<1>2. Unclean(X)[u] = [X[u] EXCEPT !.clean = @ /\ X[u].pc = "idle"]
  BY DEF Unclean
<1> QED BY <1>1, <1>2 DEF Unclean, Records

LEMMA TaskAfterIs ==
  ASSUME NEW r, NEW kind, NEW clean \in BOOLEAN, Lands(r, kind)
  PROVE  /\ TaskAfter(r, kind, clean) \in Records
         /\ r.pc = "idle" => TaskAfter(r, kind, clean) = Idle
         /\ r.pc # "idle" =>
              TaskAfter(r, kind, clean) =
                [kind |-> kind, pc |-> r.pc, token |-> r.p.token,
                 vault |-> [id |-> r.p.stored, key |-> r.p.key], clean |-> clean]
<1>1. Idle \in Records
  BY TokensAre, PcsAre DEF Idle, Records, Kinds
<1>2. [kind |-> kind, pc |-> r.pc, token |-> r.p.token,
       vault |-> [id |-> r.p.stored, key |-> r.p.key], clean |-> clean] \in Records
  BY DEF Lands, Records, Plugins, Keys
<1> QED BY <1>1, <1>2 DEF TaskAfter

LEMMA MovesAre ==
  ASSUME Types, NEW t \in Tasks, NEW X \in {tasks, Unclean(tasks)}, NEW r, NEW kind,
         NEW clean \in BOOLEAN, Moves(t, X, r, kind, clean), Lands(r, kind)
  PROVE  /\ tasks' \in [Tasks -> Records]
         /\ \A u \in Tasks \ {t} :
              /\ Stays(u, r.p)
              /\ X = Unclean(tasks) => ~tasks'[u].clean \/ tasks'[u].pc = "idle"
         /\ tasks'[t] = TaskAfter(r, kind, clean)
<1> DEFINE Y == [X EXCEPT ![t] = TaskAfter(r, kind, clean)]
<1>1. tasks \in [Tasks -> Records]
  BY DEF Types
<1>2. X \in [Tasks -> Records]
  BY <1>1, UncleanIs
<1>3. Y \in [Tasks -> Records] /\ Y[t] = TaskAfter(r, kind, clean)
      /\ \A u \in Tasks \ {t} : Y[u] = X[u]
  BY <1>2, TaskAfterIs
<1>4. tasks' = Loosed(Y, r.p)
  BY DEF Moves
<1> HIDE DEF Y
<1>5. ASSUME NEW u \in Tasks \ {t}
      PROVE  /\ Stays(u, r.p)
             /\ X = Unclean(tasks) => ~tasks'[u].clean \/ tasks'[u].pc = "idle"
  <2>1. tasks'[u] = IF X[u].pc = "detach" /\ r.p.conn = NoToken
                    THEN [X[u] EXCEPT !.pc = "detached"] ELSE X[u]
    <3>1. Y[u] = X[u] /\ u \in Tasks
      BY <1>3, <1>5
    <3>2. Loosed(Y, r.p)[u] = IF Y[u].pc = "detach" /\ r.p.conn = NoToken
                              THEN [Y[u] EXCEPT !.pc = "detached"] ELSE Y[u]
      BY <3>1 DEF Loosed
    <3> QED BY <1>4, <3>1, <3>2
  <2>2. /\ X[u].kind = tasks[u].kind /\ X[u].pc = tasks[u].pc /\ X[u].token = tasks[u].token
        /\ X[u].vault = tasks[u].vault /\ (X[u].clean => tasks[u].clean)
        /\ (X = Unclean(tasks) => (X[u].clean => X[u].pc = "idle"))
    <3>1. CASE X = Unclean(tasks)
      BY <1>1, <1>5, <3>1, UncleanIs
    <3>2. CASE X = tasks /\ X # Unclean(tasks)
      BY <3>2
    <3> QED BY <3>1, <3>2
  <2>3. X[u] \in Records
    BY <1>2
  <2> QED BY <2>1, <2>2, <2>3 DEF Stays, Records
<1>6. tasks'[t] = TaskAfter(r, kind, clean)
  <2>1. tasks'[t] = IF Y[t].pc = "detach" /\ r.p.conn = NoToken
                    THEN [Y[t] EXCEPT !.pc = "detached"] ELSE Y[t]
    BY <1>3, <1>4, LoosedIs
  <2>2. ~(Y[t].pc = "detach" /\ r.p.conn = NoToken)
    BY <1>3, TaskAfterIs DEF Idle, Lands
  <2> QED BY <1>3, <2>1, <2>2
<1> QED BY <1>3, <1>4, <1>5, <1>6, LoosedIs

LEMMA KindsAre ==
  /\ KindsAt("idle") = Kinds /\ KindsAt("opened") = KindsAt("opening")
  /\ KindsAt("detached") = KindsAt("detach") /\ KindsAt("detach") = {"disconnect", "sign_out"}
  /\ KindsAt("revoke") = {"sign_out"} /\ KindsAt("poll") = {"login"}
  /\ KindsAt("bootstrap") = {"connect"} /\ KindsAt("rules") = {"rules"}
  /\ \A pc \in Steps : Pipelines \subseteq KindsAt(pc)
  /\ \A pc \in {"identity", "restore", "reconcile"} : KindsAt(pc) = Pipelines
  /\ {"history", "disconnect", "sign_out"} \subseteq KindsAt("opening")
  /\ Pipelines \subseteq Kinds /\ "none" \in Kinds
<1>1. /\ KindsAt("idle") = Kinds /\ KindsAt("opened") = KindsAt("opening")
      /\ KindsAt("detached") = KindsAt("detach") /\ KindsAt("detach") = {"disconnect", "sign_out"}
      /\ KindsAt("revoke") = {"sign_out"} /\ KindsAt("poll") = {"login"}
      /\ KindsAt("bootstrap") = {"connect"} /\ KindsAt("rules") = {"rules"}
      /\ KindsAt("opening") = Pipelines \union {"history", "disconnect", "sign_out"}
  BY DEF KindsAt
<1>2. \A pc \in {"identity", "restore", "reconcile"} : KindsAt(pc) = Pipelines
  BY DEF KindsAt
<1>3. Pipelines \subseteq Kinds /\ "none" \in Kinds
  BY DEF Pipelines, Kinds
<1> QED BY <1>1, <1>2, <1>3 DEF Steps

\* A task that stays is still placed.
LEMMA StaysPlaced ==
  ASSUME NEW p, NEW u \in Tasks, Stays(u, p), Placed(tasks[u], plugin)
  PROVE  Placed(tasks'[u], p)
<1>1. tasks'[u].kind \in KindsAt(tasks'[u].pc)
  BY KindsAre DEF Stays, Placed
<1> QED BY <1>1 DEF Stays, Placed

LEMMA MovesTypes ==
  ASSUME Types, NEW t \in Tasks, NEW X \in {tasks, Unclean(tasks)}, NEW r, NEW kind,
         NEW clean \in BOOLEAN, Moves(t, X, r, kind, clean), Lands(r, kind),
         r.pc = "bootstrap" => ~Modal,
         world' \in Worlds, settled' \in BOOLEAN, torn' \in BOOLEAN
  PROVE  Types'
<1>1. /\ tasks' \in [Tasks -> Records]
      /\ \A u \in Tasks \ {t} : Stays(u, r.p)
      /\ tasks'[t] = TaskAfter(r, kind, clean)
  BY MovesAre
<1>2. plugin' = r.p
  BY DEF Moves
<1>3. /\ r.pc = "idle" => tasks'[t] = Idle
      /\ r.pc # "idle" => /\ tasks'[t].kind = kind /\ tasks'[t].pc = r.pc
                          /\ tasks'[t].vault.id = r.p.stored
  BY <1>1, TaskAfterIs
<1>4. Placed(tasks'[t], plugin')
  BY <1>2, <1>3, KindsAre DEF Placed, Lands, Idle
<1>5. \A u \in Tasks : Placed(tasks'[u], plugin')
  BY <1>1, <1>2, <1>4, StaysPlaced DEF Types
<1>6. \A u \in Tasks \ {t} : tasks'[u].pc = "bootstrap" => tasks[u].pc = "bootstrap"
  BY <1>1 DEF Stays
<1>7. tasks'[t].pc = "bootstrap" => ~Modal
  BY <1>3 DEF Idle
<1>8. \A u, v \in Tasks : At(u, "bootstrap")' /\ At(v, "bootstrap")' => u = v
  BY <1>6, <1>7 DEF Types, Modal, At
<1> QED BY <1>1, <1>2, <1>5, <1>8 DEF Types, Lands

\* What belongs together still does.
Coheres(t, r) ==
  ~torn' =>
    /\ Sound(r.p, world'.gone)
    /\ ~Quiet \/ plugin.conn # NoToken \/ r.pc = "detached" => Free(r.p, world'.gone)
    /\ r.pc = "bootstrap" \/ (\E u \in Tasks \ {t} : At(u, "bootstrap"))
         => r.p.session.id = 0 /\ r.p.stored = 0

LEMMA MovesTogether ==
  ASSUME Types, NEW t \in Tasks, NEW X \in {tasks, Unclean(tasks)}, NEW r, NEW kind,
         NEW clean \in BOOLEAN, Moves(t, X, r, kind, clean), Lands(r, kind), Coheres(t, r)
  PROVE  Together'
<1>1. /\ \A u \in Tasks \ {t} : Stays(u, r.p)
      /\ tasks'[t] = TaskAfter(r, kind, clean)
  BY MovesAre
<1>2. plugin' = r.p
  BY DEF Moves
<1>3. tasks'[t].pc = r.pc
  BY <1>1, TaskAfterIs DEF Idle
<1>4. ~Quiet' => ~Quiet \/ plugin.conn # NoToken \/ r.pc = "detached"
  <2>1. r.pc # "opened"
    BY DEF Lands
  <2>2. \A u \in Tasks \ {t} :
          tasks'[u].pc \in {"opened", "detached"} =>
            tasks[u].pc \in {"opened", "detached"} \/ plugin.conn # NoToken
    BY <1>1 DEF Stays, Types, Placed
  <2> QED BY <1>3, <2>1, <2>2 DEF Quiet, At
<1>5. Modal' => r.pc = "bootstrap" \/ \E u \in Tasks \ {t} : At(u, "bootstrap")
  BY <1>1, <1>3 DEF Modal, At, Stays
<1> QED BY <1>2, <1>4, <1>5 DEF Together, Coheres

\* A clean task leads where it should; what it settles is right.
Deserves(t, r, kind, clean) ==
  /\ clean => Others(t) = {} /\ Promised(r.p, Record(r, kind), world'.online)
  /\ settled' => /\ r.pc = "idle" /\ clean /\ Right(r.p, ~torn')
                 /\ ~torn' /\ ~world'.online /\ ~r.p.live => r.p.opening = NoToken

LEMMA MovesClean ==
  ASSUME Types, CleanIsRight,
         NEW t \in Tasks, NEW X \in {tasks, Unclean(tasks)}, NEW r, NEW kind,
         NEW clean \in BOOLEAN, Moves(t, X, r, kind, clean), Lands(r, kind),
         X = Unclean(tasks) \/ ~At(t, "idle"), Deserves(t, r, kind, clean)
  PROVE  CleanIsRight'
<1>1. /\ \A u \in Tasks \ {t} :
           /\ Stays(u, r.p)
           /\ X = Unclean(tasks) => ~tasks'[u].clean \/ tasks'[u].pc = "idle"
      /\ tasks'[t] = TaskAfter(r, kind, clean)
  BY MovesAre
<1>2. plugin' = r.p
  BY DEF Moves
<1>3. /\ r.pc = "idle" => tasks'[t] = Idle
      /\ r.pc # "idle" => /\ tasks'[t].kind = kind /\ tasks'[t].pc = r.pc
                          /\ tasks'[t].token = r.p.token /\ tasks'[t].clean = clean
                          /\ tasks'[t].vault = [id |-> r.p.stored, key |-> r.p.key]
  BY <1>1, TaskAfterIs
<1>4. \A u \in Tasks \ {t} : tasks'[u].pc = "idle" <=> tasks[u].pc = "idle"
  BY <1>1 DEF Stays
<1>5. ASSUME NEW u \in Tasks \ {t}, tasks'[u].clean, tasks'[u].pc # "idle"
      PROVE  FALSE
  <2>1. X # Unclean(tasks) /\ tasks[t].pc # "idle"
    BY <1>1, <1>5 DEF At
  <2>2. u \in InFlight /\ tasks[u].clean /\ t \in Others(u)
    BY <1>1, <1>4, <1>5, <2>1 DEF InFlight, Others, Stays
  <2> QED BY <2>2 DEF CleanIsRight
<1>6. Others(t) = {} => \A u \in Tasks \ {t} : tasks'[u].pc = "idle"
  BY <1>4 DEF Others, InFlight
<1>7. ASSUME tasks'[t].pc # "idle", tasks'[t].clean
      PROVE  Others(t)' = {} /\ Promised(plugin', tasks'[t], world'.online)
  <2>1. r.pc # "idle" /\ clean
    <3>1. r.pc # "idle"
      BY <1>3, <1>7 DEF Idle
    <3>2. tasks'[t].clean = clean
      BY <1>3, <3>1
    <3> QED BY <1>7, <3>1, <3>2
  <2>2. Others(t)' = {}
    BY <1>6, <2>1 DEF Deserves, Others, InFlight
  <2>3. Promised(r.p, Record(r, kind), world'.online)
    BY <2>1 DEF Deserves
  <2>4. Promised(r.p, tasks'[t], world'.online)
    BY <1>3, <2>1, <2>3 DEF Promised, Record
  <2> QED BY <1>2, <2>2, <2>4
<1>8. \A u \in Tasks : tasks'[u].pc # "idle" /\ tasks'[u].clean =>
                       Others(u)' = {} /\ Promised(plugin', tasks'[u], world'.online)
  BY <1>5, <1>7
<1>9. ASSUME settled'
      PROVE  /\ InFlight' = {} /\ Right(plugin', ~torn')
             /\ ~torn' /\ ~world'.online /\ ~plugin'.live => plugin'.opening = NoToken
  <2>1. r.pc = "idle" /\ clean /\ Others(t) = {}
    BY <1>9 DEF Deserves
  <2>2. InFlight' = {}
    BY <1>3, <1>6, <2>1 DEF InFlight, Idle
  <2> QED BY <1>2, <1>9, <2>2 DEF Deserves
<1> QED BY <1>8, <1>9 DEF CleanIsRight, InFlight

PluginInv == Types /\ Together /\ CleanIsRight
LEMMA MovesKeep ==
  ASSUME PluginInv, NEW t \in Tasks, NEW X \in {tasks, Unclean(tasks)}, NEW r, NEW kind,
         NEW clean \in BOOLEAN, Moves(t, X, r, kind, clean), Lands(r, kind),
         r.pc = "bootstrap" => ~Modal,
         world' \in Worlds, settled' \in BOOLEAN, torn' \in BOOLEAN,
         Coheres(t, r), X = Unclean(tasks) \/ ~At(t, "idle"), Deserves(t, r, kind, clean)
  PROVE  PluginInv'
BY MovesTypes, MovesTogether, MovesClean DEF PluginInv

\* A step of a pipeline, which came upon the plugin p.
LEMMA PipelineKeeps ==
  ASSUME PluginInv, NEW t \in Tasks, NEW X \in {tasks, Unclean(tasks)}, NEW p \in Plugins,
         NEW r, NEW kind \in Pipelines, NEW clean \in BOOLEAN, Moves(t, X, r, kind, clean),
         Reaches(p, r), Connects(p), p.session.id # 0 => r.p.open,
         p.opening = plugin.opening, p.conn = plugin.conn, Quiet,
         world' = world, settled' \in BOOLEAN, torn' \in BOOLEAN,
         ~torn' => /\ Sound(p, world.gone)
                   /\ (\E u \in Tasks \ {t} : At(u, "bootstrap"))
                        => p.session.id = 0 /\ p.stored = 0,
         X = Unclean(tasks) \/ ~At(t, "idle"),
         clean => Others(t) = {} /\ Leads(p, r, kind, world.online),
         settled' => /\ r.pc = "idle" /\ clean
                     /\ world.online \/ torn' \/ r.p.live \/ p.opening = NoToken
  PROVE  PluginInv' /\ (p.stored # 0 => plugin'.stored # 0)
<1>1. Kept(p, r.p) /\ r.pc \in Steps /\ (r.pc = "restore" => r.p.stored # 0)
  BY DEF Reaches
<1>2. Lands(r, kind)
  <2>1. r.p \in Plugins /\ Whole(r.p)
    BY <1>1 DEF Kept, Whole
  <2>2. r.pc \in Pcs \ {"opened"} /\ r.pc # "detach"
    BY <1>1, PcsAre DEF Steps
  <2>3. kind \in Kinds /\ kind \in KindsAt(r.pc)
    BY <1>1, KindsAre
  <2> QED BY <1>1, <2>1, <2>2, <2>3 DEF Lands
<1>3. Coheres(t, r)
  <2>1. ASSUME ~torn' PROVE Sound(r.p, world'.gone)
    BY <1>1, <2>1, KeptIsSound
  <2>2. plugin.conn # NoToken => Free(r.p, world'.gone)
    BY <1>1 DEF Kept, Connects, Free
  <2>3. ASSUME ~torn', \E u \in Tasks \ {t} : At(u, "bootstrap")
        PROVE  r.p.session.id = 0 /\ r.p.stored = 0
    BY <1>1, <2>3 DEF Kept
  <2>4. r.pc \notin {"detached", "bootstrap"}
    BY <1>1 DEF Steps
  <2> QED BY <2>1, <2>2, <2>3, <2>4 DEF Coheres
<1>4. Deserves(t, r, kind, clean)
  <2>1. clean => Others(t) = {} /\ Promised(r.p, Record(r, kind), world'.online)
    BY DEF Leads
  <2>2. ASSUME settled'
        PROVE  /\ r.pc = "idle" /\ clean /\ Right(r.p, ~torn')
               /\ ~torn' /\ ~world'.online /\ ~r.p.live => r.p.opening = NoToken
    <3>1. Right(r.p, TRUE) /\ (~r.p.live => r.p.opening = p.opening)
      BY <2>2 DEF Leads
    <3>2. Right(r.p, ~torn')
      BY <3>1 DEF Right
    <3> QED BY <2>2, <3>1, <3>2
  <2> QED BY <2>1, <2>2 DEF Deserves
<1>5. r.pc # "bootstrap" /\ world' \in Worlds
  BY <1>1 DEF Steps, PluginInv, Types
<1>6. PluginInv'
  BY <1>2, <1>3, <1>4, <1>5, MovesKeep DEF Pipelines
<1>7. p.stored # 0 => plugin'.stored # 0
  BY <1>1 DEF Moves, Kept
<1> QED BY <1>6, <1>7

\* Something else happens: a vault that is gone, or the user, or the network.
LEMMA ReleasedIs ==
  ASSUME tasks \in [Tasks -> Records]
  PROVE  /\ Released \in [Tasks -> Records]
         /\ \A u \in Tasks :
              /\ Released[u].kind = tasks[u].kind /\ Released[u].token = tasks[u].token
              /\ Released[u].vault = tasks[u].vault /\ Released[u].clean = tasks[u].clean
              /\ Released[u].pc = IF tasks[u].pc = "opening" THEN "opened" ELSE tasks[u].pc
<1>1. \A v \in Tasks : [tasks[v] EXCEPT !.pc = "opened"] \in Records
  BY PcsAre DEF Records
<1> QED BY <1>1 DEF Released, At, Records

LEMMA InterferesKeeps ==
  ASSUME PluginInv, Quiet, NEW X \in {tasks, Released}, tasks' = Loosed(Unclean(X), plugin'),
         settled' = FALSE, torn' = torn, world' \in Worlds, plugin' \in Plugins, Whole(plugin'),
         ~torn => /\ Sound(plugin', world'.gone)
                  /\ X # tasks \/ plugin.conn # NoToken => Free(plugin', world'.gone)
                  /\ Modal => plugin'.session.id = 0 /\ plugin'.stored = 0
  PROVE  PluginInv'
<1>1. tasks \in [Tasks -> Records]
  BY DEF PluginInv, Types
<1>2. X \in [Tasks -> Records]
  BY <1>1, ReleasedIs
<1>3. tasks' \in [Tasks -> Records]
  <2>1. Unclean(X) \in [Tasks -> Records]
    <3>1. ASSUME NEW v \in Tasks
          PROVE  [X[v] EXCEPT !.clean = @ /\ X[v].pc = "idle"] \in Records
      BY <1>2 DEF Records
    <3> QED BY <3>1 DEF Unclean
  <2> DEFINE Y == Unclean(X)
  <2> HIDE DEF Y
  <2>2. ASSUME NEW v \in Tasks PROVE [Y[v] EXCEPT !.pc = "detached"] \in Records
    BY <2>1, PcsAre DEF Records, Y
  <2> QED BY <2>1, <2>2 DEF Loosed, Y
<1>4. ASSUME NEW u \in Tasks
      PROVE  /\ tasks'[u].kind = tasks[u].kind /\ tasks'[u].vault = tasks[u].vault
             /\ tasks'[u].clean => tasks'[u].pc = "idle"
             /\ \/ tasks'[u].pc = tasks[u].pc
                   /\ ~(tasks[u].pc = "detach" /\ plugin'.conn = NoToken)
                \/ X # tasks /\ tasks[u].pc = "opening" /\ tasks'[u].pc = "opened"
                \/ /\ tasks[u].pc = "detach" /\ tasks'[u].pc = "detached"
                   /\ plugin'.conn = NoToken
  <2> DEFINE Y == Unclean(X)
  <2>1. /\ Y \in [Tasks -> Records]
        /\ Y[u].kind = X[u].kind /\ Y[u].pc = X[u].pc /\ Y[u].vault = X[u].vault
        /\ Y[u].clean => Y[u].pc = "idle"
    BY <1>2, UncleanIs
  <2> HIDE DEF Y
  <2>2. tasks'[u] = IF Y[u].pc = "detach" /\ plugin'.conn = NoToken
                    THEN [Y[u] EXCEPT !.pc = "detached"] ELSE Y[u]
    BY <2>1, LoosedIs DEF Y
  <2>3. /\ X[u].kind = tasks[u].kind /\ X[u].vault = tasks[u].vault
        /\ \/ X[u].pc = tasks[u].pc
           \/ X # tasks /\ tasks[u].pc = "opening" /\ X[u].pc = "opened"
    <3>1. CASE X = tasks
      BY <3>1
    <3>2. CASE X = Released /\ X # tasks
      BY <1>1, <3>2, ReleasedIs
    <3> QED BY <3>1, <3>2
  <2>4. Y[u] \in Records
    BY <2>1
  <2> QED BY <2>1, <2>2, <2>3, <2>4 DEF Records
<1>5. Types'
  <2>1. \A u \in Tasks : Placed(tasks[u], plugin)
    BY DEF PluginInv, Types
  <2>2. ASSUME NEW u \in Tasks PROVE Placed(tasks'[u], plugin')
    <3>1. tasks'[u].kind \in KindsAt(tasks'[u].pc)
      BY <1>4, <2>1, KindsAre DEF Placed
    <3> QED BY <1>4, <2>1, <3>1 DEF Placed
  <2>3. \A u \in Tasks : tasks'[u].pc = "bootstrap" => tasks[u].pc = "bootstrap"
    BY <1>4
  <2> QED BY <1>3, <2>2, <2>3 DEF Types, At, PluginInv
<1>6. Together'
  <2>1. ~Quiet' => X # tasks \/ plugin.conn # NoToken
    <3>1. \A u \in Tasks : Placed(tasks[u], plugin) /\ tasks[u].pc \notin {"opened", "detached"}
      BY DEF PluginInv, Types, Quiet, At
    <3> QED BY <1>4, <3>1 DEF Quiet, At, Placed
  <2>2. Modal' => Modal
    BY <1>4 DEF Modal, At
  <2> QED BY <2>1, <2>2 DEF Together
<1>7. CleanIsRight'
  BY <1>4 DEF CleanIsRight, InFlight
<1> QED BY <1>5, <1>6, <1>7 DEF PluginInv

-----------------------------------------------------------------------------
(* Every action keeps the invariant, and deletes no store but with its vault. *)

DropsTheirs ==
  plugin.stored # 0 /\ plugin'.stored = 0 /\ ~torn =>
    \/ plugin.stored \in world'.gone
    \/ \E t \in Tasks : tasks[t].kind \in {"disconnect", "sign_out"}

\* Alike: what belongs together is the same.
Alike(p, q) ==
  /\ q.session = p.session /\ q.stored = p.stored /\ q.key = p.key /\ q.local = p.local
  /\ q.token = p.token /\ q.conn = p.conn /\ q.opening = p.opening /\ q.cached = p.cached
LEMMA AlikeIsSound ==
  ASSUME NEW p, NEW q, NEW gone, Alike(p, q), Sound(p, gone)
  PROVE  Sound(q, gone)
BY DEF Alike, Sound, Ours, Us, Free

LEMMA CleanIsAlone ==
  ASSUME PluginInv, NEW t \in Tasks, ~At(t, "idle"), tasks[t].clean
  PROVE  Others(t) = {} /\ Promised(plugin, tasks[t], world.online)
BY DEF PluginInv, CleanIsRight, InFlight, At

\* What is not a pipeline begins.
LEMMA BeginsKeeps ==
  ASSUME PluginInv, Quiet, ~Modal, NEW r, NEW kind \in Kinds \ Pipelines, Begins(r, kind),
         Kept(plugin, r.p), r.pc \in Pcs \ {"opened", "restore"},
         r.pc # "idle" => kind \in KindsAt(r.pc), r.pc = "detach" => r.p.conn # NoToken,
         world' = world, torn' \in BOOLEAN, torn => torn',
         r.pc = "detached" /\ ~torn' => Free(r.p, world.gone),
         r.pc = "bootstrap" /\ ~torn' => plugin.session.id = 0 /\ plugin.stored = 0,
         r.pc \in {"poll", "bootstrap"} => r.p = plugin
  PROVE  PluginInv' /\ DropsTheirs
<1>1. PICK t \in Tasks :
        /\ At(t, "idle") /\ Moves(t, Unclean(tasks), r, kind, Alone) /\ settled' = FALSE
  BY DEF Begins, Moves
<1>2. plugin \in Plugins /\ Whole(plugin) /\ world \in Worlds
  BY DEF PluginInv, Types
<1>3. Lands(r, kind)
  BY <1>2 DEF Lands, Kept, Whole
<1>4. Coheres(t, r)
  <2>1. ASSUME ~torn' PROVE Sound(r.p, world'.gone)
    <3>1. Sound(plugin, world.gone)
      BY <2>1 DEF PluginInv, Together
    <3> QED BY <1>2, <3>1, KeptIsSound
  <2>2. plugin.conn # NoToken => Free(r.p, world'.gone)
    BY <1>2 DEF Kept, Whole, Connects, Free
  <2>3. ASSUME ~torn', r.pc = "bootstrap"
        PROVE  r.p.session.id = 0 /\ r.p.stored = 0
    BY <2>3 DEF Kept
  <2> QED BY <2>1, <2>2, <2>3 DEF Coheres, Modal
<1>5. Deserves(t, r, kind, Alone)
  <2>1. Alone => Others(t) = {}
    BY DEF Alone, Others
  <2>2. Alone => Promised(r.p, Record(r, kind), world'.online)
    <3>1. r.pc \notin {"identity", "restore", "reconcile"}
      BY KindsAre
    <3>2. Alone => plugin.opening = NoToken
      BY DEF Alone
    <3> QED BY <3>1, <3>2 DEF Promised, Record
  <2> QED BY <1>1, <2>1, <2>2 DEF Deserves
<1>6. PluginInv'
  <2>1. Alone \in BOOLEAN /\ settled' \in BOOLEAN
    BY <1>1 DEF Alone
  <2>2. world' \in Worlds
    BY <1>2
  <2> QED BY <1>1, <1>3, <1>4, <1>5, <2>1, <2>2, MovesKeep
<1>7. plugin.stored # 0 => plugin'.stored # 0
  BY <1>1 DEF Moves, Kept
<1> QED BY <1>6, <1>7 DEF DropsTheirs

\* A pipeline begins.
LEMMA BeginsReady ==
  ASSUME PluginInv, Quiet, ~Modal, NEW kind \in Pipelines, NEW p \in Plugins,
         Alike(plugin, p), p.open = plugin.open, p.live = plugin.live,
         Begins(RunReady(p, kind), kind), world' = world, torn' = torn
  PROVE  PluginInv' /\ DropsTheirs
<1> DEFINE r == RunReady(p, kind)
<1>1. PICK t \in Tasks :
        /\ At(t, "idle") /\ Moves(t, Unclean(tasks), r, kind, Alone)
        /\ settled' = (r.pc = "idle" /\ Alone)
  BY DEF Begins, Moves
<1>2. plugin \in Plugins /\ Whole(plugin) /\ torn \in BOOLEAN
  BY DEF PluginInv, Types
<1>3. Connects(p) /\ (p.session.id # 0 => p.open)
  BY <1>2 DEF Whole, Alike, Connects
<1>4. Reaches(p, r) /\ Leads(p, r, kind, world.online)
  BY <1>3, ReadyReaches, ReadyLeads
<1> HIDE DEF r
<1>5. p.session.id # 0 => r.p.open
  BY <1>3, <1>4 DEF Reaches, Kept
<1>6. ~torn' => Sound(p, world.gone)
  BY AlikeIsSound DEF PluginInv, Together
<1>7. Alone => Others(t) = {} /\ plugin.opening = NoToken
  BY DEF Alone, Others
<1>8. Alone \in BOOLEAN /\ settled' \in BOOLEAN
  BY <1>1 DEF Alone
<1>9. PluginInv' /\ (p.stored # 0 => plugin'.stored # 0)
  <2>1. p.opening = plugin.opening /\ p.conn = plugin.conn
    BY DEF Alike
  <2>2. ~(\E u \in Tasks \ {t} : At(u, "bootstrap"))
    BY DEF Modal
  <2>3. settled' => r.pc = "idle" /\ Alone /\ p.opening = NoToken
    BY <1>1, <1>7, <2>1
  <2> QED BY <1>1, <1>2, <1>3, <1>4, <1>5, <1>6, <1>7, <1>8, <2>1, <2>2, <2>3, PipelineKeeps
<1> QED BY <1>9 DEF DropsTheirs, Alike

LEMMA EnableKeeps == ASSUME PluginInv, Enable PROVE PluginInv' /\ DropsTheirs
<1>1. Quiet /\ ~Modal /\ world' = world /\ torn' = torn /\ torn \in BOOLEAN
      /\ plugin \in Plugins
  BY DEF Enable, Act, PluginInv, Types
<1>2. CASE plugin.required
  <2> DEFINE r == Done(NotReady(plugin))
  <2>1. Begins(r, "refused")
    BY <1>2 DEF Enable
  <2>2. Kept(plugin, r.p) /\ r.pc = "idle"
    BY <1>1, HaltedIsKept, EndIs
  <2>3. "refused" \in Kinds \ Pipelines
    BY DEF Kinds, Pipelines
  <2> HIDE DEF r
  <2> QED BY <1>1, <2>1, <2>2, <2>3, BeginsKeeps, PcsAre
<1>3. CASE ~plugin.required
  <2> DEFINE p == [plugin EXCEPT !.enabled = TRUE]
  <2>1. Begins(RunReady(p, "ensure"), "ensure")
    BY <1>3 DEF Enable
  <2>2. p \in Plugins /\ Alike(plugin, p) /\ p.open = plugin.open /\ p.live = plugin.live
    BY <1>1 DEF Plugins, Alike
  <2> HIDE DEF p
  <2> QED BY <1>1, <2>1, <2>2, BeginsReady DEF Pipelines
<1> QED BY <1>2, <1>3

\* Sync stops, and nothing else changes.
LEMMA PausedKeeps ==
  ASSUME PluginInv, Quiet, NEW p \in Plugins, Alike(plugin, p), p.open = plugin.open,
         p.live = plugin.live, plugin' = Paused(p), Interferes, world' = world, torn' = torn
  PROVE  PluginInv' /\ DropsTheirs
<1>1. plugin \in Plugins /\ Whole(plugin) /\ world \in Worlds /\ torn \in BOOLEAN
  BY DEF PluginInv, Types
<1>2. Kept(p, plugin')
  BY HaltedIsKept
<1>3. plugin' \in Plugins /\ Whole(plugin')
  BY <1>1, <1>2 DEF Kept, Whole, Connects, Alike
<1>4. ASSUME ~torn
      PROVE  /\ Sound(plugin', world'.gone)
             /\ plugin.conn # NoToken => Free(plugin', world'.gone)
             /\ Modal => plugin'.session.id = 0 /\ plugin'.stored = 0
  <2>1. Sound(plugin, world.gone) /\ (Modal => plugin.session.id = 0 /\ plugin.stored = 0)
    BY <1>4 DEF PluginInv, Together
  <2>2. Sound(p, world.gone)
    BY <2>1, AlikeIsSound
  <2>3. Sound(plugin', world'.gone)
    BY <1>2, <2>2, KeptIsSound
  <2>4. plugin.conn # NoToken => plugin'.opening = NoToken
    BY <1>1, <1>2 DEF Whole, Connects, Alike, Kept
  <2>5. Modal => plugin'.session.id = 0 /\ plugin'.stored = 0
    BY <1>2, <2>1 DEF Alike, Kept
  <2> QED BY <2>3, <2>4, <2>5 DEF Free
<1>5. PluginInv'
  <2>1. tasks' = Loosed(Unclean(tasks), plugin') /\ settled' = FALSE /\ world' \in Worlds
    BY <1>1 DEF Interferes
  <2> QED BY <1>3, <1>4, <2>1, InterferesKeeps
<1>6. plugin.stored # 0 => plugin'.stored # 0
  BY <1>2 DEF Alike, Kept
<1> QED BY <1>5, <1>6 DEF DropsTheirs

LEMMA DisableKeeps == ASSUME PluginInv, Disable PROVE PluginInv' /\ DropsTheirs
<1> DEFINE p == [plugin EXCEPT !.enabled = FALSE]
<1>1. Quiet /\ world' = world /\ torn' = torn /\ plugin' = Paused(p) /\ Interferes
  BY DEF Disable, Act
<1>2. p \in Plugins /\ Alike(plugin, p) /\ p.open = plugin.open /\ p.live = plugin.live
  BY DEF PluginInv, Types, Plugins, Alike
<1> HIDE DEF p
<1> QED BY <1>1, <1>2, PausedKeeps

LEMMA ConnectKeeps == ASSUME PluginInv, Connect PROVE PluginInv' /\ DropsTheirs
<1> DEFINE r == Waits(plugin, "bootstrap")
<1>1. /\ Quiet /\ ~Modal /\ world' = world /\ torn' = torn /\ Begins(r, "connect")
      /\ ~HasVault(plugin) /\ plugin \in Plugins /\ torn \in BOOLEAN
  BY DEF Connect, Act, PluginInv, Types
<1>2. r.p = plugin /\ r.pc = "bootstrap" /\ Kept(plugin, r.p)
  BY <1>1, WaitIs, KeptSelf
<1> HIDE DEF r
<1>3. ~torn' => plugin.session.id = 0 /\ plugin.stored = 0
  BY <1>1 DEF HasVault, PluginInv, Together, Sound
<1>4. "connect" \in Kinds \ Pipelines /\ "bootstrap" \in Pcs /\ "connect" \in KindsAt("bootstrap")
  BY KindsAre DEF Kinds, Pipelines, Pcs
<1> QED BY <1>1, <1>2, <1>3, <1>4, BeginsKeeps

\* With no vault connected nothing is being connected, unless for a vault that is gone.
LEMMA UnconnectedIsFree ==
  ASSUME NEW p, NEW gone, Sound(p, gone), p.session.id = 0
  PROVE  Free(p, gone) /\ p.conn = NoToken /\ p.cached = NoToken
BY DEF Sound, Ours, Free

LEMMA DetachingIs ==
  ASSUME NEW p \in Plugins, NEW r, r = Detaching(p)
  PROVE  /\ Kept(p, r.p) /\ r.pc \in {"opening", "detach", "detached"}
         /\ r.pc = "detach" => r.p.conn # NoToken
         /\ r.pc = "detached" => \/ r.p.opening = NoToken
                                 \/ r.p = p /\ (p.session.id = 0 \/ ~Verified(p))
<1>1. CASE p.session.id = 0 \/ ~Verified(p)
  <2>1. r = Waits(p, "detached")
    BY <1>1 DEF Detaching
  <2>2. r.p = p /\ r.pc = "detached"
    BY <2>1, WaitIs
  <2> QED BY <1>1, <2>2, KeptSelf
<1>2. CASE ~(p.session.id = 0 \/ ~Verified(p))
  <2> DEFINE q == WithSession(p)
  <2>1. r = IF q.opening # NoToken THEN Waits(q, "opening")
            ELSE IF q.conn # NoToken THEN Waits(q, "detach") ELSE Waits(q, "detached")
    BY <1>2 DEF Detaching
  <2>2. Kept(p, q)
    BY WithSessionIs
  <2> HIDE DEF q
  <2>3. /\ r.p = q /\ r.pc \in {"opening", "detach", "detached"}
        /\ r.pc = "detach" => q.conn # NoToken
        /\ r.pc = "detached" => q.opening = NoToken
    BY <2>1, WaitIs
  <2> QED BY <2>2, <2>3
<1> QED BY <1>1, <1>2

\* A vault is about to be left.
LEMMA DetachingKeeps ==
  ASSUME PluginInv, Quiet, ~Modal, NEW kind \in {"disconnect", "sign_out"},
         Begins(Detaching(plugin), kind), world' = world, torn' \in BOOLEAN, torn => torn',
         ~torn' => Verified(plugin) \/ plugin.opening = NoToken
  PROVE  PluginInv' /\ DropsTheirs
<1> DEFINE r == Detaching(plugin)
<1>1. plugin \in Plugins /\ Begins(r, kind)
  BY DEF PluginInv, Types
<1>2. /\ Kept(plugin, r.p) /\ r.pc \in {"opening", "detach", "detached"}
      /\ r.pc = "detach" => r.p.conn # NoToken
      /\ r.pc = "detached" => \/ r.p.opening = NoToken
                              \/ r.p = plugin /\ (plugin.session.id = 0 \/ ~Verified(plugin))
  BY <1>1, DetachingIs
<1> HIDE DEF r
<1>3. ASSUME r.pc = "detached", ~torn' PROVE Free(r.p, world.gone)
  <2>1. CASE r.p.opening = NoToken
    BY <2>1 DEF Free
  <2>2. CASE r.p = plugin /\ plugin.session.id = 0
    <3>1. Sound(plugin, world.gone)
      BY <1>3 DEF PluginInv, Together
    <3> QED BY <2>2, <3>1, UnconnectedIsFree
  <2>3. CASE r.p = plugin /\ ~Verified(plugin)
    BY <1>3, <2>3 DEF Free
  <2> QED BY <1>2, <1>3, <2>1, <2>2, <2>3
<1>4. /\ kind \in Kinds \ Pipelines /\ kind \in KindsAt(r.pc)
      /\ r.pc \in Pcs \ {"opened", "restore", "poll", "bootstrap"}
  BY <1>2, KindsAre DEF Kinds, Pipelines, Pcs
<1> QED BY <1>1, <1>2, <1>3, <1>4, BeginsKeeps

LEMMA DisconnectKeeps == ASSUME PluginInv, Disconnect PROVE PluginInv' /\ DropsTheirs
<1>1. Quiet /\ ~Modal /\ world' = world /\ Begins(Detaching(plugin), "disconnect")
      /\ torn' = (torn \/ (~Verified(plugin) /\ plugin.opening # NoToken))
  BY DEF Disconnect, Act
<1>2. torn' \in BOOLEAN /\ (torn => torn')
      /\ (~torn' => Verified(plugin) \/ plugin.opening = NoToken)
  BY <1>1 DEF PluginInv, Types
<1> QED BY <1>1, <1>2, DetachingKeeps

LEMMA SignOutKeeps == ASSUME PluginInv, SignOut PROVE PluginInv' /\ DropsTheirs
<1>1. Quiet /\ ~Modal /\ world' = world /\ Begins(Detaching(plugin), "sign_out")
      /\ Verified(plugin) /\ torn' = torn
  BY DEF SignOut, Act
<1>2. torn' \in BOOLEAN
  BY <1>1 DEF PluginInv, Types
<1> QED BY <1>1, <1>2, DetachingKeeps

LEMMA LoginKeeps == ASSUME PluginInv, Login PROVE PluginInv' /\ DropsTheirs
<1> DEFINE r == Waits(plugin, "poll")
<1>1. /\ Quiet /\ ~Modal /\ world' = world /\ torn' = torn /\ Begins(r, "login")
      /\ plugin \in Plugins /\ torn \in BOOLEAN
  BY DEF Login, Act, PluginInv, Types
<1>2. r.p = plugin /\ r.pc = "poll" /\ Kept(plugin, r.p)
  BY <1>1, WaitIs, KeptSelf
<1> HIDE DEF r
<1>3. "login" \in Kinds \ Pipelines /\ "poll" \in Pcs /\ "login" \in KindsAt("poll")
  BY KindsAre DEF Kinds, Pipelines, Pcs
<1> QED BY <1>1, <1>2, <1>3, BeginsKeeps

LEMMA ChangeRulesKeeps == ASSUME PluginInv, ChangeRules PROVE PluginInv' /\ DropsTheirs
<1>1. /\ Quiet /\ ~Modal /\ world' = world /\ torn' = torn
      /\ plugin \in Plugins /\ torn \in BOOLEAN
  BY DEF ChangeRules, Act, PluginInv, Types
<1>2. CASE ~plugin.enabled
  <2>1. plugin' = Paused(plugin) /\ Interferes
    BY <1>2 DEF ChangeRules
  <2>2. Alike(plugin, plugin)
    BY DEF Alike
  <2> QED BY <1>1, <2>1, <2>2, PausedKeeps
<1>3. CASE plugin.enabled
  <2> DEFINE p == [plugin EXCEPT !.status = "syncing"]
             r == Waits(p, "rules")
  <2>1. Begins(r, "rules")
    BY <1>3 DEF ChangeRules
  <2>2. Kept(plugin, p)
    BY <1>1 DEF Kept, Plugins, Connects, States
  <2>3. r.p = p /\ r.pc = "rules"
    BY WaitIs
  <2> HIDE DEF p, r
  <2>4. "rules" \in Kinds \ Pipelines /\ "rules" \in Pcs /\ "rules" \in KindsAt("rules")
    BY KindsAre DEF Kinds, Pipelines, Pcs
  <2> QED BY <1>1, <2>1, <2>2, <2>3, <2>4, BeginsKeeps
<1> QED BY <1>2, <1>3

LEMMA ViewHistoryKeeps == ASSUME PluginInv, ViewHistory PROVE PluginInv' /\ DropsTheirs
<1> DEFINE p == WithSession(plugin)
           r == IF p.opening # NoToken THEN Waits(p, "opening") ELSE Done(p)
<1>1. /\ Quiet /\ ~Modal /\ world' = world /\ torn' = torn
      /\ plugin \in Plugins /\ torn \in BOOLEAN /\ Begins(r, "history")
  BY DEF ViewHistory, Act, PluginInv, Types
<1>2. Kept(plugin, p)
  BY <1>1, WithSessionIs
<1>3. r.p = p /\ r.pc \in {"opening", "idle"}
  BY WaitIs, EndIs
<1> HIDE DEF p, r
<1>4. /\ "history" \in Kinds \ Pipelines /\ "history" \in KindsAt("opening")
      /\ {"opening", "idle"} \subseteq Pcs
  BY KindsAre DEF Kinds, Pipelines, Pcs
<1> QED BY <1>1, <1>2, <1>3, <1>4, BeginsKeeps

LEMMA ResumeKeeps == ASSUME PluginInv, Resume PROVE PluginInv' /\ DropsTheirs
<1>1. /\ Quiet /\ ~Modal /\ world' = world /\ torn' = torn /\ plugin \in Plugins
      /\ Begins(RunReady(plugin, "resume"), "resume")
  BY DEF Resume, Act, PluginInv, Types
<1>2. Alike(plugin, plugin)
  BY DEF Alike
<1> QED BY <1>1, <1>2, BeginsReady DEF Pipelines

\* A task goes on.
LEMMA ContinuesKeeps ==
  ASSUME PluginInv, NEW t \in Tasks, ~At(t, "idle"), NEW r, Continues(t, r),
         Lands(r, tasks[t].kind), r.pc # "bootstrap", world' = world, torn' \in BOOLEAN,
         Coheres(t, r),
         tasks[t].clean => Promised(r.p, Record(r, tasks[t].kind), world.online),
         tasks[t].kind \in Pipelines /\ tasks[t].clean /\ r.pc = "idle" =>
           /\ Right(r.p, ~torn')
           /\ ~torn' /\ ~world.online /\ ~r.p.live => r.p.opening = NoToken
  PROVE  PluginInv'
<1> DEFINE kind == tasks[t].kind
           clean == tasks[t].clean
<1>1. /\ Moves(t, tasks, r, kind, clean)
      /\ settled' = (r.pc = "idle" /\ kind \in Pipelines /\ clean /\ Others(t) = {})
  BY DEF Continues, Goes, Moves
<1>2. clean \in BOOLEAN /\ settled' \in BOOLEAN /\ world' \in Worlds
  BY <1>1 DEF PluginInv, Types, Records
<1>3. clean => Others(t) = {}
  BY CleanIsAlone
<1>4. Deserves(t, r, kind, clean)
  BY <1>1, <1>3 DEF Deserves
<1> HIDE DEF kind, clean
<1>5. Lands(r, kind)
  BY DEF kind
<1> QED BY <1>1, <1>2, <1>4, <1>5, MovesKeep

LEMMA FailsKeeps ==
  ASSUME PluginInv, Quiet, NEW t \in Tasks, NEW p \in Plugins, Whole(p), Fails(t, p),
         world' = world, torn' \in BOOLEAN, torn => torn',
         ~torn' => /\ Sound(p, world.gone) /\ (plugin.conn # NoToken => Free(p, world.gone))
                   /\ Modal => p.session.id = 0 /\ p.stored = 0
  PROVE  PluginInv'
<1> DEFINE r == Done(p)
<1>1. r.p = p /\ r.pc = "idle"
  BY EndIs
<1>2. TaskAfter(r, "none", FALSE) = Idle
  BY <1>1 DEF TaskAfter
<1> HIDE DEF r
<1>3. Moves(t, Unclean(tasks), r, "none", FALSE) /\ settled' = FALSE
  BY <1>1, <1>2 DEF Fails, Moves
<1>4. Lands(r, "none")
  BY <1>1, PcsAre, KindsAre DEF Lands
<1>5. Coheres(t, r)
  BY <1>1 DEF Coheres, Modal
<1>6. Deserves(t, r, "none", FALSE)
  BY <1>3 DEF Deserves
<1>7. world' \in Worlds
  BY DEF PluginInv, Types
<1> QED BY <1>1, <1>3, <1>4, <1>5, <1>6, <1>7, MovesKeep

\* The rest of a function brings sync up.
LEMMA ContinuesReadyKeeps ==
  ASSUME PluginInv, Quiet, NEW t \in Tasks, ~At(t, "idle"), NEW p \in Plugins,
         ContinuesReady(t, p), Connects(p), p.session.id # 0 => p.open,
         p.opening = plugin.opening, p.conn = plugin.conn,
         world' = world, torn' \in BOOLEAN,
         ~torn' => /\ Sound(p, world.gone)
                   /\ (\E u \in Tasks \ {t} : At(u, "bootstrap"))
                        => p.session.id = 0 /\ p.stored = 0,
         tasks[t].clean /\ ~torn' => p.opening = NoToken
  PROVE  PluginInv' /\ (p.stored # 0 => plugin'.stored # 0)
<1> DEFINE r == RunReady(p, "ensure")
           clean == tasks[t].clean
<1>1. /\ Moves(t, tasks, r, "ensure", clean) /\ "ensure" \in Pipelines
      /\ settled' = (r.pc = "idle" /\ clean /\ Others(t) = {})
  BY DEF ContinuesReady, Goes, Moves, Pipelines
<1>2. Reaches(p, r) /\ Leads(p, r, "ensure", world.online)
  BY ReadyReaches, ReadyLeads
<1>3. clean \in BOOLEAN /\ settled' \in BOOLEAN
  BY <1>1 DEF PluginInv, Types, Records
<1>4. clean => Others(t) = {}
  BY CleanIsAlone
<1>5. clean /\ ~torn' => p.opening = NoToken
  OBVIOUS
<1> HIDE DEF r, clean
<1>6. p.session.id # 0 => r.p.open
  BY <1>2 DEF Reaches, Kept
<1>7. settled' => /\ r.pc = "idle" /\ clean
                  /\ world.online \/ torn' \/ r.p.live \/ p.opening = NoToken
  BY <1>1, <1>3, <1>5
<1> QED BY <1>1, <1>2, <1>3, <1>4, <1>6, <1>7, PipelineKeeps

LEMMA ConnectedKeeps ==
  ASSUME PluginInv, NEW t \in Tasks, Connected(t) PROVE PluginInv' /\ DropsTheirs
<1>1. /\ Quiet /\ At(t, "bootstrap") /\ Modal /\ world' = world /\ torn' = torn
      /\ plugin \in Plugins /\ Whole(plugin) /\ torn \in BOOLEAN
      /\ \A u \in Tasks \ {t} : ~At(u, "bootstrap")
  BY DEF Connected, Answer, PluginInv, Types, Modal
<1>2. PICK v \in Vaults \ world.gone :
        LET s == [plugin EXCEPT !.session = [id |-> v, key |-> v], !.key = v, !.open = FALSE] IN
        IF StoreIsOurs(s) THEN ContinuesReady(t, InitializeStore(s))
        ELSE Fails(t, InitializeStore(s))
  BY DEF Connected
<1> DEFINE s == [plugin EXCEPT !.session = [id |-> v, key |-> v], !.key = v, !.open = FALSE]
           p == InitializeStore(s)
<1>3. IF StoreIsOurs(s) THEN ContinuesReady(t, p) ELSE Fails(t, p)
  BY <1>2
<1>4. v # 0
  BY PluginConstants
<1>5. /\ s \in Plugins /\ s.session.id = v /\ s.key = v /\ s.stored = plugin.stored
      /\ s.local = plugin.local /\ s.live = plugin.live /\ s.conn = plugin.conn
      /\ s.opening = plugin.opening /\ s.cached = plugin.cached
  BY <1>1 DEF Plugins, Keys
<1> HIDE DEF s
<1>6. /\ Kept(s, p) /\ p.open /\ p.opening = s.opening /\ p.conn = s.conn /\ p.live = s.live
      /\ p.stored = IF StoreIsOurs(s) THEN s.session.id ELSE s.stored
  BY <1>5, StoreIs
<1> HIDE DEF p
<1>7. p \in Plugins /\ Whole(p)
  BY <1>1, <1>5, <1>6 DEF Kept, Whole, Connects
<1>8. ~torn => /\ Sound(plugin, world.gone) /\ plugin.session.id = 0 /\ plugin.stored = 0
               /\ Free(plugin, world.gone) /\ plugin.conn = NoToken /\ plugin.cached = NoToken
  BY <1>1, UnconnectedIsFree DEF PluginInv, Together
<1>9. CASE StoreIsOurs(s)
  <2>1. ContinuesReady(t, p) /\ p.stored = v /\ p.session.id = v /\ p.key = v
    BY <1>3, <1>5, <1>6, <1>9 DEF Kept
  <2>2. ASSUME ~torn PROVE Sound(p, world.gone)
    <3>1. p.conn = NoToken /\ p.cached = NoToken /\ Free(p, world.gone)
      BY <1>5, <1>6, <1>8, <2>2 DEF Kept, Free
    <3> QED BY <1>4, <2>1, <3>1 DEF Sound, Ours
  <2>3. tasks[t].clean /\ ~torn => p.opening = NoToken
    <3>1. ~At(t, "idle")
      BY <1>1 DEF At
    <3>2. tasks[t].clean => Promised(plugin, tasks[t], world.online)
      BY <3>1, CleanIsAlone
    <3> QED BY <1>1, <1>5, <1>6, <1>8, <3>2 DEF Promised, At
  <2>4. PluginInv' /\ (p.stored # 0 => plugin'.stored # 0)
    BY <1>1, <1>5, <1>6, <1>7, <2>1, <2>2, <2>3, ContinuesReadyKeeps DEF At, Whole
  <2> QED BY <1>4, <2>1, <2>4 DEF DropsTheirs
<1>10. CASE ~StoreIsOurs(s)
  <2>1. torn
    BY <1>5, <1>8, <1>10 DEF StoreIsOurs
  <2>2. Fails(t, p)
    BY <1>3, <1>10
  <2> QED BY <1>1, <1>7, <2>1, <2>2, FailsKeeps DEF DropsTheirs
<1> QED BY <1>9, <1>10

LEMMA PolledKeeps ==
  ASSUME PluginInv, NEW t \in Tasks, Polled(t) PROVE PluginInv' /\ DropsTheirs
<1>1. /\ Quiet /\ At(t, "poll") /\ ~At(t, "idle") /\ world' = world
      /\ torn' = (torn \/ plugin.session.id # 0)
      /\ plugin \in Plugins /\ Whole(plugin) /\ torn \in BOOLEAN /\ world.valid \subseteq Accounts
  BY DEF Polled, Answer, PluginInv, Types, Worlds, At
<1>2. ~torn' => /\ Sound(plugin, world.gone) /\ plugin.session.id = 0
                /\ (Modal => plugin.stored = 0)
                /\ Free(plugin, world.gone) /\ plugin.conn = NoToken
  BY <1>1, UnconnectedIsFree DEF PluginInv, Together
<1>3. ASSUME NEW p \in Plugins, ContinuesReady(t, p), p.session = plugin.session,
             p.stored = plugin.stored, p.key = plugin.key, p.open = plugin.open,
             p.live = plugin.live, p.opening = plugin.opening, p.conn = plugin.conn,
             p.cached = NoToken
      PROVE  PluginInv' /\ DropsTheirs
  <2>1. Connects(p) /\ (p.session.id # 0 => p.open)
    BY <1>1, <1>3 DEF Whole, Connects
  <2>2. ~torn' => /\ Sound(p, world.gone)
                  /\ (\E u \in Tasks \ {t} : At(u, "bootstrap"))
                       => p.session.id = 0 /\ p.stored = 0
    BY <1>2, <1>3 DEF Sound, Ours, Free, Modal
  <2>3. tasks[t].clean /\ ~torn' => p.opening = NoToken
    BY <1>1, <1>2, <1>3, CleanIsAlone DEF Promised, At
  <2>4. PluginInv' /\ (p.stored # 0 => plugin'.stored # 0)
    <3>1. torn' \in BOOLEAN
      BY <1>1
    <3> QED BY <1>1, <1>3, <2>1, <2>2, <2>3, <3>1, ContinuesReadyKeeps
  <2> QED BY <1>3, <2>4 DEF DropsTheirs
<1>4. ASSUME NEW a \in Approvals,
             ContinuesReady(t, [plugin EXCEPT !.token = a, !.auth = "verified", !.cached = NoToken])
      PROVE  PluginInv' /\ DropsTheirs
  <2> DEFINE p == [plugin EXCEPT !.token = a, !.auth = "verified", !.cached = NoToken]
  <2>1. /\ p \in Plugins /\ p.session = plugin.session /\ p.stored = plugin.stored
        /\ p.key = plugin.key /\ p.open = plugin.open /\ p.live = plugin.live
        /\ p.opening = plugin.opening /\ p.conn = plugin.conn /\ p.cached = NoToken
    BY <1>1, TokensAre DEF Plugins, Approvals, Auths
  <2>2. ContinuesReady(t, p)
    BY <1>4
  <2> HIDE DEF p
  <2> QED BY <1>3, <2>1, <2>2
<1>5. CASE ContinuesReady(t, [plugin EXCEPT !.cached = NoToken])
  <2> DEFINE p == [plugin EXCEPT !.cached = NoToken]
  <2>1. /\ p \in Plugins /\ p.session = plugin.session /\ p.stored = plugin.stored
        /\ p.key = plugin.key /\ p.open = plugin.open /\ p.live = plugin.live
        /\ p.opening = plugin.opening /\ p.conn = plugin.conn /\ p.cached = NoToken
    BY <1>1, TokensAre DEF Plugins
  <2>2. ContinuesReady(t, p)
    BY <1>5
  <2> HIDE DEF p
  <2> QED BY <1>3, <2>1, <2>2
<1> QED BY <1>4, <1>5 DEF Polled

LEMMA DetachEndsKeeps ==
  ASSUME PluginInv, NEW t \in Tasks, DetachEnds(t) PROVE PluginInv' /\ DropsTheirs
<1> DEFINE r == Waits(plugin, "detached")
<1>1. /\ Quiet /\ At(t, "detach") /\ ~At(t, "idle") /\ world' = world /\ torn' = torn
      /\ Continues(t, r) /\ plugin \in Plugins /\ Whole(plugin) /\ torn \in BOOLEAN
      /\ Placed(tasks[t], plugin)
  BY DEF DetachEnds, Answer, PluginInv, Types, At
<1>2. r.p = plugin /\ r.pc = "detached"
  BY WaitIs
<1> HIDE DEF r
<1>3. plugin.opening = NoToken /\ tasks[t].kind \in {"disconnect", "sign_out"}
  BY <1>1, KindsAre DEF Placed, At, Whole, Connects
<1>4. Lands(r, tasks[t].kind)
  BY <1>1, <1>2, <1>3, KindsAre, PcsAre DEF Lands, Kinds
<1>5. Coheres(t, r)
  BY <1>1, <1>2, <1>3 DEF Coheres, Free, PluginInv, Together, Modal
<1>6. Promised(r.p, Record(r, tasks[t].kind), world.online)
  BY <1>2 DEF Promised, Record
<1>7. PluginInv'
  BY <1>1, <1>2, <1>4, <1>5, <1>6, ContinuesKeeps
<1> QED BY <1>1, <1>2, <1>7 DEF DropsTheirs, Continues, Goes

\* A vault is left, and its store deleted, unless that fails.
LEMMA ForgottenIs ==
  ASSUME NEW p \in Plugins, NEW q, q = Forgotten(p)
  PROVE  /\ q \in Plugins /\ q.session = NoVault /\ q.cached = NoToken
         /\ q.opening = p.opening /\ q.stored = p.stored /\ q.conn = p.conn /\ q.live = p.live
BY TokensAre DEF Forgotten, Plugins

LEMMA ResetIs ==
  ASSUME NEW p \in Plugins, NEW q \in {Reset(p), ResetFailed(p)}
  PROVE  /\ q \in Plugins /\ q.conn = NoToken /\ ~q.live /\ q.session = p.session
         /\ q.cached = p.cached /\ q.opening = p.opening
         /\ q.stored = IF q = Reset(p) THEN 0 ELSE p.stored
<1> DEFINE h == NotReady(p)
<1>1. /\ h \in Plugins /\ h.conn = NoToken /\ ~h.live /\ h.session = p.session
      /\ h.cached = p.cached /\ h.opening = p.opening /\ h.stored = p.stored
  BY HaltedIs
<1>2. /\ Reset(p) = [h EXCEPT !.open = FALSE, !.stored = 0, !.local = @ + 1]
      /\ ResetFailed(p) = [h EXCEPT !.open = FALSE]
  BY DEF Reset, ResetFailed
<1> HIDE DEF h
<1>3. CASE q = Reset(p)
  <2>1. q = [h EXCEPT !.open = FALSE, !.stored = 0, !.local = h.local + 1]
    BY <1>2, <1>3
  <2>2. h.local + 1 \in Nat
    BY <1>1 DEF Plugins
  <2>3. /\ q \in Plugins /\ q.conn = h.conn /\ q.live = h.live /\ q.session = h.session
        /\ q.cached = h.cached /\ q.opening = h.opening /\ q.stored = 0
    BY <1>1, <2>1, <2>2 DEF Plugins
  <2> QED BY <1>1, <1>3, <2>3
<1>4. CASE q = ResetFailed(p) /\ q # Reset(p)
  BY <1>1, <1>2, <1>4 DEF Plugins
<1> QED BY <1>3, <1>4

\* What is left of the plugin then.
Empty(q, p) ==
  /\ q \in Plugins /\ q.conn = NoToken /\ q.cached = NoToken /\ q.session.id = 0 /\ ~q.live
  /\ q.opening = p.opening
LEMMA ResetOutcomesAre ==
  ASSUME NEW p \in Plugins, NEW q \in ResetOutcomes(p), p.session = NoVault, p.cached = NoToken
  PROVE  Empty(q, p)
<1>1. q \in {Reset(p), ResetFailed(p)}
  BY DEF ResetOutcomes
<1> QED BY <1>1, ResetIs, TokensAre DEF Empty

LEMMA EmptyIsSound ==
  ASSUME NEW q, NEW p, NEW gone, Empty(q, p), q.stored = 0, Free(p, gone)
  PROVE  Sound(q, gone) /\ Free(q, gone)
BY DEF Empty, Sound, Ours, Free

\* A task that has forgotten the vault goes on.
LEMMA EmptyKeeps ==
  ASSUME PluginInv, NEW t \in Tasks, ~At(t, "idle"), NEW r, Continues(t, r), Empty(r.p, plugin),
         tasks[t].kind \in {"disconnect", "sign_out"}, r.pc \in {"idle", "revoke"},
         r.pc = "revoke" => tasks[t].kind = "sign_out",
         world' = world, torn' \in BOOLEAN,
         ~torn' => r.p.stored = 0 /\ Free(plugin, world.gone)
  PROVE  PluginInv' /\ DropsTheirs
<1>1. Lands(r, tasks[t].kind)
  BY KindsAre DEF Lands, Empty, Whole, Connects, Kinds, Pcs
<1>2. Coheres(t, r)
  BY EmptyIsSound DEF Coheres, Empty
<1>3. Promised(r.p, Record(r, tasks[t].kind), world.online)
  BY DEF Promised, Record
<1>4. tasks[t].kind \notin Pipelines
  BY DEF Pipelines
<1>5. PluginInv'
  BY <1>1, <1>2, <1>3, <1>4, ContinuesKeeps
<1> QED BY <1>5 DEF DropsTheirs

LEMMA ForgetsKeeps ==
  ASSUME PluginInv, NEW t \in Tasks, Forgets(t) PROVE PluginInv' /\ DropsTheirs
<1>1. /\ At(t, "detached") /\ ~At(t, "idle") /\ world' = world /\ ~Quiet
      /\ plugin \in Plugins /\ torn \in BOOLEAN /\ Placed(tasks[t], plugin)
  BY DEF Forgets, PluginInv, Types, At, Quiet
<1>2. PICK q \in ResetOutcomes(Disconnected(plugin)) :
        /\ torn' = (torn \/ q.stored # 0)
        /\ Continues(t, IF tasks[t].kind = "sign_out" THEN Waits(q, "revoke") ELSE Done(q))
  BY DEF Forgets
<1> DEFINE r == IF tasks[t].kind = "sign_out" THEN Waits(q, "revoke") ELSE Done(q)
<1>3. Continues(t, r)
  BY <1>2
<1>4. /\ r.p = q /\ r.pc \in {"idle", "revoke"}
      /\ r.pc = "revoke" => tasks[t].kind = "sign_out"
  BY WaitIs, EndIs
<1> HIDE DEF r
<1>5. Empty(q, plugin)
  <2> DEFINE p == Disconnected(plugin)
  <2>1. /\ p \in Plugins /\ p.session = NoVault /\ p.cached = NoToken
        /\ p.opening = plugin.opening
    BY <1>1, ForgottenIs DEF Disconnected
  <2>2. q \in ResetOutcomes(p)
    OBVIOUS
  <2> HIDE DEF p
  <2> QED BY <2>1, <2>2, ResetOutcomesAre DEF Empty
<1>6. tasks[t].kind \in {"disconnect", "sign_out"}
  BY <1>1, KindsAre DEF Placed, At
<1>7. ~torn' => q.stored = 0 /\ Free(plugin, world.gone)
  BY <1>1, <1>2 DEF PluginInv, Together
<1>8. torn' \in BOOLEAN
  BY <1>1, <1>2
<1> QED BY <1>1, <1>3, <1>4, <1>5, <1>6, <1>7, <1>8, EmptyKeeps

LEMMA RevokedKeeps ==
  ASSUME PluginInv, NEW t \in Tasks, Revoked(t) PROVE PluginInv' /\ DropsTheirs
<1> DEFINE s == [plugin EXCEPT !.token = 0, !.auth = "unknown"]
           p == Forgotten(s)
<1>1. /\ At(t, "revoke") /\ ~At(t, "idle") /\ world' = world
      /\ plugin \in Plugins /\ torn \in BOOLEAN /\ Placed(tasks[t], plugin)
  BY DEF Revoked, Answer, PluginInv, Types, At
<1>2. PICK q \in ResetOutcomes(p) :
        /\ torn' = (torn \/ q.stored # 0 \/ plugin.session.id # 0)
        /\ Continues(t, Done(q))
  BY DEF Revoked
<1> DEFINE r == Done(q)
<1>3. Continues(t, r) /\ r.p = q /\ r.pc = "idle"
  BY <1>2, EndIs
<1> HIDE DEF r
<1>4. s \in Plugins /\ s.opening = plugin.opening
  BY <1>1 DEF Plugins, Auths
<1> HIDE DEF s
<1>5. p \in Plugins /\ p.session = NoVault /\ p.cached = NoToken /\ p.opening = plugin.opening
  BY <1>4, ForgottenIs
<1> HIDE DEF p
<1>6. Empty(q, plugin)
  BY <1>5, ResetOutcomesAre DEF Empty
<1>7. tasks[t].kind = "sign_out"
  BY <1>1, KindsAre DEF Placed, At
<1>8. ~torn' => q.stored = 0 /\ Free(plugin, world.gone)
  BY <1>2, UnconnectedIsFree DEF PluginInv, Together
<1>9. torn' \in BOOLEAN
  BY <1>1, <1>2
<1> QED BY <1>1, <1>3, <1>6, <1>7, <1>8, <1>9, EmptyKeeps

\* A vault that is gone is forgotten, if it is the one that is connected or stored.
LEMMA UnavailableIs ==
  ASSUME NEW p \in Plugins, Whole(p), NEW v, NEW q, q = Unavailable(p, v)
  PROVE  /\ q \in Plugins /\ Whole(q) /\ q.conn = NoToken /\ ~q.live
         /\ q.opening = p.opening
         /\ \/ Kept(p, q) /\ q.stored = p.stored /\ ~ConcernsUs(p, v)
            \/ ConcernsUs(p, v) /\ Empty(q, p) /\ q.stored = 0
<1> DEFINE h == NotReady(p)
<1>1. Kept(p, h) /\ h.conn = NoToken /\ ~h.live /\ h.opening = p.opening
      /\ h.stored = p.stored /\ h \in Plugins
  BY HaltedIs, HaltedIsKept
<1>2. CASE ~ConcernsUs(p, v)
  <2>1. q = h
    BY <1>2 DEF Unavailable
  <2> QED BY <1>1, <1>2, <2>1 DEF Whole, Kept
<1>3. CASE ConcernsUs(p, v)
  <2> DEFINE f == Disconnected(h)
  <2>1. q = Reset(f)
    BY <1>3 DEF Unavailable
  <2> HIDE DEF h
  <2>2. f \in Plugins /\ f.session = NoVault /\ f.cached = NoToken /\ f.opening = h.opening
    BY <1>1, ForgottenIs DEF Disconnected
  <2> HIDE DEF f
  <2>3. /\ q \in Plugins /\ q.conn = NoToken /\ ~q.live /\ q.session = NoVault
        /\ q.cached = NoToken /\ q.opening = p.opening /\ q.stored = 0
    BY <1>1, <2>1, <2>2, ResetIs
  <2> QED BY <1>3, <2>3, TokensAre DEF Empty, Whole, Connects
<1> QED BY <1>2, <1>3

LEMMA UnavailableIsSound ==
  ASSUME NEW p \in Plugins, Whole(p), NEW gone, NEW v \in gone, Sound(p, gone), NEW q,
         q = Unavailable(p, v)
  PROVE  Sound(q, gone)
<1>1. \/ Kept(p, q)
      \/ ConcernsUs(p, v) /\ Empty(q, p) /\ q.stored = 0
  BY UnavailableIs
<1>2. ASSUME ConcernsUs(p, v) PROVE Free(p, gone)
  <2>1. CASE p.session.id = 0
    BY <2>1, UnconnectedIsFree
  <2>2. CASE p.session.id # 0
    BY <1>2, <2>2 DEF ConcernsUs, Sound, Ours, Us, Free
  <2> QED BY <2>1, <2>2
<1> QED BY <1>1, <1>2, KeptIsSound, EmptyIsSound

\* What it deletes is the store of a vault that is gone.
LEMMA UnavailableDrops ==
  ASSUME NEW p \in Plugins, Whole(p), NEW gone \in SUBSET Vaults, NEW v \in gone, NEW q,
         Sound(p, gone), q = Unavailable(p, v), p.stored # 0, q.stored = 0
  PROVE  p.stored \in gone
<1>1. ConcernsUs(p, v)
  BY UnavailableIs
<1>2. v # 0
  BY TokensAre
<1> QED BY <1>1, <1>2 DEF ConcernsUs, Sound

LEMMA RulesAppliedKeeps ==
  ASSUME PluginInv, NEW t \in Tasks, RulesApplied(t) PROVE PluginInv' /\ DropsTheirs
<1> DEFINE v == tasks[t].vault.id
           r == IF v \in world.gone /\ world.online THEN Done(Unavailable(plugin, v))
                ELSE Started(plugin)
<1>1. /\ Quiet /\ At(t, "rules") /\ ~At(t, "idle") /\ world' = world /\ torn' = torn
      /\ Continues(t, r) /\ plugin \in Plugins /\ Whole(plugin) /\ torn \in BOOLEAN
      /\ Placed(tasks[t], plugin) /\ world.gone \in SUBSET Vaults
  BY DEF RulesApplied, Answer, PluginInv, Types, Worlds, At
<1>2. \/ v \in world.gone /\ r = Done(Unavailable(plugin, v))
      \/ r = Done([plugin EXCEPT !.timer = TRUE])
  BY DEF Started
<1> HIDE DEF r, v
<1>3. /\ r.pc = "idle" /\ r.p \in Plugins /\ Whole(r.p) /\ r.p.opening = plugin.opening
      /\ \/ r.p.session.id = plugin.session.id /\ r.p.stored = plugin.stored
         \/ r.p.session.id = 0 /\ r.p.stored = 0
      /\ ~torn => Sound(r.p, world.gone)
      /\ ~torn /\ plugin.stored # 0 /\ r.p.stored = 0 => plugin.stored \in world.gone
  <2>1. CASE v \in world.gone /\ r = Done(Unavailable(plugin, v))
    <3> DEFINE q == Unavailable(plugin, v)
    <3>1. r.p = q /\ r.pc = "idle"
      BY <2>1, EndIs
    <3>2. /\ q \in Plugins /\ Whole(q) /\ q.opening = plugin.opening
          /\ \/ Kept(plugin, q) /\ q.stored = plugin.stored
             \/ Empty(q, plugin) /\ q.stored = 0
      BY <1>1, UnavailableIs
    <3>3. ~torn => Sound(plugin, world.gone)
      BY DEF PluginInv, Together
    <3>4. ~torn => Sound(q, world.gone)
      BY <1>1, <2>1, <3>3, UnavailableIsSound
    <3>5. ~torn /\ plugin.stored # 0 /\ q.stored = 0 => plugin.stored \in world.gone
      BY <1>1, <2>1, <3>3, UnavailableDrops
    <3> HIDE DEF q
    <3> QED BY <3>1, <3>2, <3>4, <3>5 DEF Kept, Empty
  <2>2. CASE r = Done([plugin EXCEPT !.timer = TRUE])
    <3> DEFINE q == [plugin EXCEPT !.timer = TRUE]
    <3>1. r.p = q /\ r.pc = "idle"
      BY <2>2, EndIs
    <3>2. Kept(plugin, q) /\ q.opening = plugin.opening /\ q.stored = plugin.stored
      BY <1>1, TimedIs DEF Plugins
    <3> HIDE DEF q
    <3>3. ~torn => Sound(q, world.gone)
      BY <1>1, <3>2, KeptIsSound DEF PluginInv, Together
    <3> QED BY <1>1, <3>1, <3>2, <3>3 DEF Kept, Whole
  <2> QED BY <1>2, <2>1, <2>2
<1>4. tasks[t].kind = "rules"
  BY <1>1, KindsAre DEF Placed, At
<1>5. Lands(r, tasks[t].kind)
  BY <1>3, <1>4, PcsAre DEF Lands, Kinds
<1>6. Coheres(t, r)
  BY <1>1, <1>3 DEF Coheres, Whole, Connects, Free, PluginInv, Together, Modal
<1>7. Promised(r.p, Record(r, tasks[t].kind), world.online) /\ tasks[t].kind \notin Pipelines
  BY <1>3, <1>4 DEF Promised, Record, Pipelines
<1>8. PluginInv'
  BY <1>1, <1>3, <1>5, <1>6, <1>7, ContinuesKeeps
<1>9. plugin' = r.p
  BY <1>1 DEF Continues, Goes
<1> QED BY <1>1, <1>3, <1>8, <1>9 DEF DropsTheirs

\* A pipeline goes on.
LEMMA PipelineContinues ==
  ASSUME PluginInv, Quiet, NEW t \in Tasks, ~At(t, "idle"), tasks[t].kind \in Pipelines,
         NEW p \in Plugins, NEW r, Continues(t, r), Reaches(p, r), Connects(p),
         p.session.id # 0 => r.p.open,
         p.opening = plugin.opening, p.conn = plugin.conn, p.stored = plugin.stored,
         world' = world, torn' \in BOOLEAN, torn => torn',
         ~torn' => Sound(p, world.gone) /\ (Modal => p.session.id = 0 /\ p.stored = 0),
         tasks[t].clean => /\ Leads(p, r, tasks[t].kind, world.online)
                           /\ world.online \/ r.p.live
  PROVE  PluginInv' /\ DropsTheirs
<1> DEFINE kind == tasks[t].kind
           clean == tasks[t].clean
<1>1. /\ Moves(t, tasks, r, kind, clean)
      /\ settled' = (r.pc = "idle" /\ clean /\ Others(t) = {})
  BY DEF Continues, Goes, Moves
<1>2. clean \in BOOLEAN /\ settled' \in BOOLEAN /\ kind \in Pipelines
  BY <1>1 DEF PluginInv, Types, Records
<1>3. clean => Others(t) = {} /\ Leads(p, r, kind, world.online) /\ (world.online \/ r.p.live)
  BY CleanIsAlone
<1> HIDE DEF kind, clean
<1>4. ~torn' => /\ Sound(p, world.gone)
                /\ (\E u \in Tasks \ {t} : At(u, "bootstrap"))
                     => p.session.id = 0 /\ p.stored = 0
  BY DEF Modal
<1>5. settled' => /\ r.pc = "idle" /\ clean
                  /\ world.online \/ torn' \/ r.p.live \/ p.opening = NoToken
  BY <1>1, <1>2, <1>3
<1>6. PluginInv' /\ (p.stored # 0 => plugin'.stored # 0)
  BY <1>1, <1>2, <1>3, <1>4, <1>5, PipelineKeeps
<1> QED BY <1>6 DEF DropsTheirs

LEMMA IdentifiedKeeps ==
  ASSUME PluginInv, NEW t \in Tasks, Identified(t) PROVE PluginInv' /\ DropsTheirs
<1>1. /\ Quiet /\ At(t, "identity") /\ ~At(t, "idle") /\ world' = world /\ torn' = torn
      /\ plugin \in Plugins /\ Whole(plugin) /\ torn \in BOOLEAN
      /\ Placed(tasks[t], plugin)
  BY DEF Identified, Answer, PluginInv, Types, At
<1>2. PICK a \in Auths : Continues(t, AfterAuth([plugin EXCEPT !.auth = a], tasks[t].kind))
  <2>1. AuthAfter(tasks[t].token) \in Auths /\ "rejected" \in Auths
    BY DEF AuthAfter, Auths
  <2> QED BY <2>1 DEF Identified
<1> DEFINE p == [plugin EXCEPT !.auth = a]
           r == AfterAuth(p, tasks[t].kind)
<1>3. Continues(t, r)
  BY <1>2
<1>4. /\ Kept(plugin, p) /\ p \in Plugins /\ p.opening = plugin.opening
      /\ p.conn = plugin.conn /\ p.open = plugin.open
  BY <1>1, KnownIs DEF Kept
<1>5. p.stored = plugin.stored /\ Alike(plugin, p)
  BY <1>1 DEF Plugins, Alike
<1> HIDE DEF p
<1>6. Reaches(p, r)
  BY <1>4, AuthReaches
<1>7. tasks[t].clean => Leads(p, r, tasks[t].kind, world.online) /\ world.online
  <2>1. tasks[t].clean => world.online /\ plugin.token # 0
    BY <1>1, CleanIsAlone DEF Promised, At
  <2>2. p.token = plugin.token /\ (p.session.id # 0 => p.open)
    BY <1>1, <1>4 DEF Kept, Whole
  <2> QED BY <1>4, <2>1, <2>2, AuthLeads
<1> HIDE DEF r
<1>8. p.session.id # 0 => r.p.open
  BY <1>1, <1>4, <1>6 DEF Reaches, Kept, Whole
<1>9. Connects(p)
  BY <1>1, <1>4 DEF Kept, Whole
<1>10. ~torn' => Sound(p, world.gone) /\ (Modal => p.session.id = 0 /\ p.stored = 0)
  BY <1>1, <1>5, AlikeIsSound DEF PluginInv, Together, Alike
<1>11. tasks[t].kind \in Pipelines
  BY <1>1, KindsAre DEF Placed, At
<1> QED BY <1>1, <1>3, <1>4, <1>5, <1>6, <1>7, <1>8, <1>9, <1>10, <1>11, PipelineContinues

LEMMA ReconciledKeeps ==
  ASSUME PluginInv, NEW t \in Tasks, Reconciled(t) PROVE PluginInv' /\ DropsTheirs
<1> DEFINE r == StartLoop(plugin, tasks[t].kind)
<1>1. /\ Quiet /\ At(t, "reconcile") /\ ~At(t, "idle") /\ world' = world /\ Continues(t, r)
      /\ torn' = (torn \/ plugin.stored # tasks[t].vault.id)
      /\ plugin \in Plugins /\ Whole(plugin) /\ torn \in BOOLEAN /\ Placed(tasks[t], plugin)
  BY DEF Reconciled, Answer, PluginInv, Types, At
<1>2. Reaches(plugin, r) /\ r.p.live
  BY <1>1, LoopReaches, StartLoopIs
<1>3. tasks[t].clean => Leads(plugin, r, tasks[t].kind, world.online)
  <2>1. tasks[t].clean => Ready(plugin)
    BY <1>1, CleanIsAlone DEF Promised, At
  <2> QED BY <1>1, <2>1, LoopLeads
<1> HIDE DEF r
<1>4. plugin.session.id # 0 => r.p.open
  BY <1>1, <1>2 DEF Reaches, Kept, Whole
<1>5. ~torn' => Sound(plugin, world.gone)
                /\ (Modal => plugin.session.id = 0 /\ plugin.stored = 0)
  BY <1>1 DEF PluginInv, Together
<1>6. tasks[t].kind \in Pipelines /\ Connects(plugin) /\ torn' \in BOOLEAN
  BY <1>1, KindsAre DEF Placed, At, Whole
<1> QED BY <1>1, <1>2, <1>3, <1>4, <1>5, <1>6, PipelineContinues

\* Only what the user is told changes.
LEMMA ToldIs ==
  ASSUME NEW p \in Plugins, NEW s \in States, NEW q, q = [p EXCEPT !.status = s]
  PROVE  /\ q \in Plugins /\ Alike(p, q) /\ (Whole(p) => Whole(q))
BY DEF Plugins, Alike, Whole, Connects

LEMMA ToldKeeps ==
  ASSUME PluginInv, Quiet, NEW t \in Tasks, NEW s \in States,
         Fails(t, [plugin EXCEPT !.status = s]), world' = world,
         torn' \in BOOLEAN, torn => torn'
  PROVE  PluginInv' /\ DropsTheirs
<1> DEFINE p == [plugin EXCEPT !.status = s]
<1>1. plugin \in Plugins /\ Whole(plugin)
  BY DEF PluginInv, Types
<1>2. p \in Plugins /\ Alike(plugin, p) /\ Whole(p)
  BY <1>1, ToldIs
<1>3. Fails(t, p)
  OBVIOUS
<1> HIDE DEF p
<1>4. ~torn => /\ Sound(p, world.gone) /\ (plugin.conn # NoToken => Free(p, world.gone))
               /\ Modal => p.session.id = 0 /\ p.stored = 0
  BY <1>1, <1>2, AlikeIsSound DEF PluginInv, Together, Alike, Whole, Connects, Free
<1>5. PluginInv'
  BY <1>2, <1>3, <1>4, FailsKeeps
<1>6. plugin'.stored = plugin.stored
  BY <1>2, <1>3 DEF Fails, Alike
<1> QED BY <1>5, <1>6 DEF DropsTheirs

LEMMA ReconcileFailsKeeps ==
  ASSUME PluginInv, NEW t \in Tasks, ReconcileFails(t) PROVE PluginInv' /\ DropsTheirs
<1>1. /\ Quiet /\ world' = world /\ torn' = torn /\ torn \in BOOLEAN
      /\ Fails(t, [plugin EXCEPT !.status = "attention_needed"])
  BY DEF ReconcileFails, Answer, PluginInv, Types
<1>2. "attention_needed" \in States
  BY DEF States
<1> QED BY <1>1, <1>2, ToldKeeps

LEMMA RestoredKeeps ==
  ASSUME PluginInv, NEW t \in Tasks, Restored(t) PROVE PluginInv' /\ DropsTheirs
<1> DEFINE v == tasks[t].vault.id
           kind == tasks[t].kind
           p == [plugin EXCEPT !.session = [id |-> v, key |-> tasks[t].vault.key]]
<1>1. /\ Quiet /\ At(t, "restore") /\ ~At(t, "idle") /\ world' = world
      /\ torn' = (torn \/ plugin.stored # v)
      /\ plugin \in Plugins /\ Whole(plugin) /\ torn \in BOOLEAN /\ Placed(tasks[t], plugin)
      /\ tasks[t] \in Records /\ world.gone \in SUBSET Vaults
  BY DEF Restored, Answer, PluginInv, Types, Worlds, At
<1>2. kind \in Pipelines /\ v # 0 /\ torn' \in BOOLEAN /\ (torn => torn')
  BY <1>1, KindsAre DEF Placed, At
<1>3. tasks[t].clean => /\ plugin.session.id = 0 /\ v = plugin.stored
                        /\ Readiness(plugin) = "verified"
  BY <1>1, CleanIsAlone DEF Promised, At
<1>4. ~torn' => /\ Sound(plugin, world.gone) /\ plugin.stored = v /\ ~Modal
  BY <1>1, <1>2 DEF PluginInv, Together
<1>5. CASE ~world.online
  <2>1. Fails(t, [plugin EXCEPT !.status = "offline"]) /\ "offline" \in States
    BY <1>5 DEF Restored, States
  <2> QED BY <1>1, <1>2, <2>1, ToldKeeps
<1>6. CASE world.online /\ v \in world.gone
  <2> DEFINE q == Unavailable(plugin, v)
             n == NotReady(q)
             r == Done(n)
  <2>1. Continues(t, r)
    BY <1>6 DEF Restored
  <2>2. r.p = n /\ r.pc = "idle"
    BY EndIs
  <2> HIDE DEF r
  <2>3. /\ q \in Plugins /\ Whole(q) /\ q.opening = plugin.opening
        /\ \/ Kept(plugin, q) /\ q.stored = plugin.stored /\ ~ConcernsUs(plugin, v)
           \/ ConcernsUs(plugin, v) /\ Empty(q, plugin) /\ q.stored = 0
    BY <1>1, UnavailableIs
  <2>4. ~torn' => Sound(q, world.gone)
    BY <1>1, <1>4, <1>6, UnavailableIsSound
  <2>5. ~torn /\ plugin.stored # 0 /\ q.stored = 0 => plugin.stored \in world.gone
    BY <1>1, <1>6, UnavailableDrops DEF PluginInv, Together
  <2> HIDE DEF q
  <2>6. /\ Kept(q, n) /\ n \in Plugins /\ ~n.live /\ n.opening = q.opening
        /\ n.stored = q.stored /\ n.session = q.session
    BY <2>3, HaltedIs, HaltedIsKept
  <2> HIDE DEF n
  <2>7. Whole(n) /\ (~torn' => Sound(n, world.gone))
    BY <2>3, <2>4, <2>6, KeptIsSound DEF Kept, Whole
  <2>8. Lands(r, kind)
    BY <1>2, <2>2, <2>6, <2>7, KindsAre, PcsAre DEF Lands
  <2>9. Coheres(t, r)
    BY <1>1, <1>4, <2>2, <2>3, <2>6, <2>7 DEF Coheres, Modal, Free, Whole, Connects
  <2>10. Promised(r.p, Record(r, kind), world.online)
    BY <2>2 DEF Promised, Record
  <2>11. tasks[t].clean => Right(n, ~torn')
    <3>1. tasks[t].clean => q.session.id = 0 /\ q.stored = 0
      BY <1>3, <2>3 DEF ConcernsUs, Empty
    <3> QED BY <2>6, <3>1 DEF Right, HasVault
  <2>12. PluginInv'
    BY <1>1, <1>2, <1>6, <2>1, <2>2, <2>8, <2>9, <2>10, <2>11, ContinuesKeeps
  <2>13. plugin' = n
    BY <2>1, <2>2 DEF Continues, Goes
  <2> QED BY <1>1, <2>5, <2>6, <2>12, <2>13 DEF DropsTheirs
<1>7. CASE world.online /\ v \notin world.gone
  <2> DEFINE r == AfterRestore(p, kind)
  <2>1. Continues(t, r)
    BY <1>7 DEF Restored
  <2>2. /\ p \in Plugins /\ p.session.id = v /\ p.stored = plugin.stored /\ p.key = plugin.key
        /\ p.local = plugin.local /\ p.token = plugin.token /\ p.conn = plugin.conn
        /\ p.opening = plugin.opening /\ p.cached = plugin.cached /\ p.live = plugin.live
        /\ p.auth = plugin.auth
    BY <1>1 DEF Plugins, Keys, Records
  <2> HIDE DEF p
  <2>3. Reaches(p, r) /\ (p.session.id # 0 => r.p.open)
    BY <2>2, RestoreReaches
  <2>4. tasks[t].clean => Leads(p, r, kind, world.online)
    <3>1. tasks[t].clean => Verified(p) /\ StoreIsOurs(p) /\ p.session.id # 0
      BY <1>1, <1>2, <1>3, <2>2, ReadinessIs DEF Verified, StoreIsOurs
    <3> QED BY <2>2, <3>1, RestoreLeads
  <2> HIDE DEF r
  <2>5. ~torn' => Sound(p, world.gone)
    <3>1. CASE plugin.session.id = 0
      BY <1>4, <2>2, <3>1, UnconnectedIsFree DEF Sound, Ours, Free
    <3>2. CASE plugin.session.id # 0
      BY <1>4, <2>2, <3>2 DEF Sound, Ours, Us, Free
    <3> QED BY <3>1, <3>2
  <2>6. Connects(p)
    BY <1>1, <2>2 DEF Whole, Connects
  <2> QED BY <1>1, <1>2, <1>4, <1>7, <2>1, <2>2, <2>3, <2>4, <2>5, <2>6, PipelineContinues
<1> QED BY <1>5, <1>6, <1>7

LEMMA AfterOpeningKeeps ==
  ASSUME PluginInv, NEW t \in Tasks, AfterOpening(t) PROVE PluginInv' /\ DropsTheirs
<1> DEFINE kind == tasks[t].kind
           r == CASE kind \in Pipelines -> Started(plugin)
                  [] kind = "history" -> Done(plugin)
                  [] OTHER -> Waits(plugin, IF plugin.conn # NoToken THEN "detach" ELSE "detached")
<1>1. /\ At(t, "opened") /\ ~At(t, "idle") /\ ~Quiet /\ world' = world /\ torn' = torn
      /\ Continues(t, r) /\ plugin \in Plugins /\ Whole(plugin) /\ torn \in BOOLEAN
      /\ Placed(tasks[t], plugin)
  BY DEF AfterOpening, PluginInv, Types, At, Quiet
<1>2. kind \in Pipelines \union {"history", "disconnect", "sign_out"}
  BY <1>1, KindsAre DEF Placed, At, KindsAt
<1>3. /\ kind \in Pipelines => r = Done([plugin EXCEPT !.timer = TRUE])
      /\ kind = "history" => r = Done(plugin)
      /\ kind \in {"disconnect", "sign_out"} =>
           r = Waits(plugin, IF plugin.conn # NoToken THEN "detach" ELSE "detached")
  <2>1. "history" \notin Pipelines /\ {"disconnect", "sign_out"} \cap Pipelines = {}
    BY DEF Pipelines
  <2>2. CASE kind \in Pipelines
    BY <2>1, <2>2 DEF Started
  <2>3. CASE kind = "history"
    BY <2>1, <2>3
  <2>4. CASE kind \in {"disconnect", "sign_out"}
    BY <2>1, <2>4
  <2> QED BY <1>2, <2>2, <2>3, <2>4, <2>1
<1> HIDE DEF r
<1>4. /\ Kept(plugin, r.p) /\ r.p.opening = plugin.opening /\ r.p.conn = plugin.conn
      /\ r.p.stored = plugin.stored /\ r.p.session = plugin.session
      /\ r.pc \in {"idle", "detach", "detached"}
      /\ r.pc = "detach" => plugin.conn # NoToken
      /\ r.pc # "idle" => kind \in {"disconnect", "sign_out"}
      /\ kind \in Pipelines => r.p = [plugin EXCEPT !.timer = TRUE]
  <2>1. CASE kind \in Pipelines
    <3>1. r.p = [plugin EXCEPT !.timer = TRUE] /\ r.pc = "idle"
      BY <1>3, <2>1, EndIs
    <3>2. /\ r.p.opening = plugin.opening /\ r.p.conn = plugin.conn
          /\ r.p.stored = plugin.stored /\ r.p.session = plugin.session
      BY <1>1, <3>1 DEF Plugins
    <3> QED BY <1>1, <3>1, <3>2, TimedIs
  <2>2. CASE kind = "history"
    <3>1. r.p = plugin /\ r.pc = "idle" /\ kind \notin Pipelines
      BY <1>3, <2>2, EndIs DEF Pipelines
    <3> QED BY <1>1, <3>1, KeptSelf
  <2>3. CASE kind \in {"disconnect", "sign_out"}
    <3>1. /\ r.p = plugin /\ kind \notin Pipelines
          /\ r.pc = IF plugin.conn # NoToken THEN "detach" ELSE "detached"
      BY <1>3, <2>3, WaitIs DEF Pipelines
    <3> QED BY <1>1, <2>3, <3>1, KeptSelf
  <2> QED BY <1>2, <2>1, <2>2, <2>3
<1>5. Lands(r, kind)
  <2>1. r.p \in Plugins /\ Whole(r.p)
    BY <1>1, <1>4 DEF Kept, Whole
  <2>2. kind \in Kinds /\ (r.pc # "idle" => kind \in KindsAt(r.pc)) /\ r.pc \in Pcs \ {"opened"}
    BY <1>2, <1>4, KindsAre DEF Kinds, Pipelines, Pcs
  <2> QED BY <1>4, <2>1, <2>2 DEF Lands
<1>6. Coheres(t, r)
  <2>1. ~torn => Sound(r.p, world.gone)
    BY <1>1, <1>4, KeptIsSound DEF PluginInv, Together
  <2>2. ~torn => Free(r.p, world.gone)
    BY <1>1, <1>4 DEF PluginInv, Together, Free
  <2>3. ~torn /\ Modal => r.p.session.id = 0 /\ r.p.stored = 0
    BY <1>4 DEF PluginInv, Together
  <2>4. r.pc # "bootstrap"
    BY <1>4
  <2> QED BY <1>1, <2>1, <2>2, <2>3, <2>4 DEF Coheres, Modal
<1>7. Promised(r.p, Record(r, kind), world.online)
  BY <1>4 DEF Promised, Record
<1>8. ASSUME kind \in Pipelines, tasks[t].clean PROVE Right(r.p, ~torn') /\ r.p.live
  <2>1. Ready(plugin) /\ plugin.live
    BY <1>1, <1>8, CleanIsAlone DEF Promised, At
  <2>2. r.p.live /\ r.p.timer /\ r.p.enabled /\ Verified(r.p) /\ r.p.session.id # 0
    BY <1>1, <1>4, <1>8, <2>1 DEF Plugins, Ready, Verified
  <2> QED BY <2>2 DEF Right
<1> HIDE DEF kind
<1>9. PluginInv'
  BY <1>1, <1>4, <1>5, <1>6, <1>7, <1>8, ContinuesKeeps DEF kind
<1>10. plugin' = r.p
  BY <1>1 DEF Continues, Goes
<1> QED BY <1>4, <1>9, <1>10 DEF DropsTheirs

\* An attempt to connect ends, and what waited for it goes on.
LEMMA OpenEndsKeeps ==
  ASSUME PluginInv, Quiet, plugin.opening # NoToken, tasks' = Released, settled' = settled,
         world' = world, torn' = torn, plugin' \in Plugins, plugin'.opening = NoToken,
         plugin'.session = plugin.session, plugin'.stored = plugin.stored,
         plugin'.key = plugin.key, plugin'.local = plugin.local, plugin'.token = plugin.token,
         plugin'.auth = plugin.auth, plugin'.open = plugin.open, plugin'.live = plugin.live,
         plugin'.timer = plugin.timer, plugin'.enabled = plugin.enabled,
         plugin'.required = plugin.required,
         \/ plugin'.conn = plugin.conn
         \/ plugin.live /\ plugin'.conn = plugin.opening /\ plugin.opening.vault \notin world.gone,
         \/ plugin'.cached = plugin.cached
         \/ plugin'.cached = plugin.opening /\ plugin.opening.vault \notin world.gone,
         plugin'.status = plugin.status \/ plugin.live \/ ~world.online
  PROVE  PluginInv' /\ DropsTheirs
<1>1. /\ plugin \in Plugins /\ Whole(plugin) /\ plugin.conn = NoToken
      /\ tasks \in [Tasks -> Records]
  BY DEF PluginInv, Types, Whole, Connects
<1>2. \A u \in Tasks :
        /\ tasks'[u].kind = tasks[u].kind /\ tasks'[u].token = tasks[u].token
        /\ tasks'[u].vault = tasks[u].vault /\ tasks'[u].clean = tasks[u].clean
        /\ tasks'[u].pc = IF tasks[u].pc = "opening" THEN "opened" ELSE tasks[u].pc
  BY <1>1, ReleasedIs
<1>3. Types'
  <2>1. \A u \in Tasks : Placed(tasks[u], plugin)
    BY DEF PluginInv, Types
  <2>2. ASSUME NEW u \in Tasks PROVE Placed(tasks'[u], plugin')
    <3>1. tasks'[u].kind \in KindsAt(tasks'[u].pc)
      BY <1>2, <2>1, KindsAre DEF Placed
    <3>2. tasks[u].pc # "detach"
      BY <1>1, <2>1 DEF Placed
    <3> QED BY <1>2, <2>1, <3>1, <3>2 DEF Placed
  <2>3. Whole(plugin')
    BY <1>1 DEF Whole, Connects
  <2>4. \A u \in Tasks : tasks'[u].pc = "bootstrap" => tasks[u].pc = "bootstrap"
    BY <1>2
  <2>5. tasks' \in [Tasks -> Records]
    BY <1>1, ReleasedIs
  <2> QED BY <2>2, <2>3, <2>4, <2>5 DEF Types, At, PluginInv
<1>4. Together'
  <2>1. Modal' => Modal
    BY <1>2 DEF Modal, At
  <2>2. ASSUME ~torn PROVE Sound(plugin', world.gone)
    <3>1. Sound(plugin, world.gone)
      BY <2>2 DEF PluginInv, Together
    <3>2. Us(plugin') = Us(plugin)
      BY DEF Us
    <3>3. plugin.opening.vault \notin world.gone => Ours(plugin, plugin.opening)
      BY <3>1 DEF Sound, Free
    <3>4. Ours(plugin', plugin'.conn) /\ Ours(plugin', plugin'.cached)
      BY <3>1, <3>2, <3>3 DEF Sound, Ours
    <3> QED BY <3>1, <3>4 DEF Sound, Free
  <2> QED BY <2>1, <2>2 DEF PluginInv, Together, Free
<1>5. ASSUME NEW u \in Tasks, tasks'[u].pc # "idle", tasks'[u].clean
      PROVE  Others(u)' = {} /\ Promised(plugin', tasks'[u], world'.online)
  <2>1. Others(u) = {} /\ Promised(plugin, tasks[u], world.online)
    BY <1>2, <1>5, CleanIsAlone DEF At
  <2>2. \A w \in Tasks : tasks'[w].pc = "idle" <=> tasks[w].pc = "idle"
    BY <1>2
  <2>3. Others(u)' = {}
    BY <2>1, <2>2 DEF Others, InFlight
  <2>4. Readiness(plugin') = Readiness(plugin)
    BY DEF Readiness
  <2>5. Promised(plugin', tasks'[u], world'.online)
    BY <1>2, <2>1, <2>4 DEF Promised, Ready, Verified
  <2> QED BY <2>3, <2>5
<1>6. ASSUME settled'
      PROVE  /\ InFlight' = {} /\ Right(plugin', ~torn')
             /\ ~torn' /\ ~world'.online /\ ~plugin'.live => plugin'.opening = NoToken
  <2>1. /\ InFlight = {} /\ Right(plugin, ~torn)
        /\ ~torn /\ ~world.online /\ ~plugin.live => plugin.opening = NoToken
    BY <1>6 DEF PluginInv, CleanIsRight
  <2>2. InFlight' = {}
    BY <1>2, <2>1 DEF InFlight
  <2>3. Readiness(plugin') = Readiness(plugin)
    BY DEF Readiness
  <2>4. Right(plugin', ~torn')
    <3>1. ~torn => plugin'.status = plugin.status \/ plugin.live
      BY <2>1
    <3> QED BY <1>1, <2>1, <2>3, <3>1 DEF Right, Verified, HasVault, Plugins
  <2> QED BY <2>2, <2>4
<1>7. CleanIsRight'
  BY <1>5, <1>6 DEF CleanIsRight, InFlight
<1> QED BY <1>3, <1>4, <1>7 DEF PluginInv, DropsTheirs

LEMMA OpenedKeeps == ASSUME PluginInv, Opened PROVE PluginInv' /\ DropsTheirs
<1> DEFINE s == [plugin EXCEPT !.cached = plugin.opening]
           p == IF s.live THEN [s EXCEPT !.conn = plugin.opening, !.status = "up_to_date"] ELSE s
<1>1. /\ Quiet /\ plugin.opening # NoToken /\ tasks' = Released /\ settled' = settled
      /\ world' = world /\ torn' = torn /\ plugin \in Plugins
      /\ plugin.opening.vault \notin world.gone /\ plugin' = [p EXCEPT !.opening = NoToken]
  BY DEF Opened, OpenEnds, PluginInv, Types
<1>2. /\ s \in Plugins /\ s.session = plugin.session /\ s.stored = plugin.stored
      /\ s.key = plugin.key /\ s.local = plugin.local /\ s.token = plugin.token
      /\ s.auth = plugin.auth /\ s.open = plugin.open /\ s.live = plugin.live
      /\ s.timer = plugin.timer /\ s.enabled = plugin.enabled
      /\ s.required = plugin.required /\ s.conn = plugin.conn /\ s.status = plugin.status
      /\ s.cached = plugin.opening
  BY <1>1 DEF Plugins
<1> HIDE DEF s
<1>3. /\ p \in Plugins /\ p.session = s.session /\ p.stored = s.stored
      /\ p.key = s.key /\ p.local = s.local /\ p.token = s.token
      /\ p.auth = s.auth /\ p.open = s.open /\ p.live = s.live
      /\ p.timer = s.timer /\ p.enabled = s.enabled
      /\ p.required = s.required /\ p.cached = s.cached
      /\ p.conn = s.conn \/ (s.live /\ p.conn = plugin.opening)
      /\ p.status = s.status \/ s.live
  <2>1. CASE s.live
    <3>1. p = [s EXCEPT !.conn = plugin.opening, !.status = "up_to_date"]
      BY <2>1
    <3>2. plugin.opening \in Owners
      BY <1>1 DEF Plugins
    <3> HIDE DEF p
    <3> QED BY <1>2, <2>1, <3>1, <3>2 DEF Plugins, States
  <2>2. CASE ~s.live
    BY <1>2, <2>2
  <2> QED BY <2>1, <2>2
<1> HIDE DEF p
<1>4. /\ plugin' \in Plugins /\ plugin'.session = p.session /\ plugin'.stored = p.stored
      /\ plugin'.key = p.key /\ plugin'.local = p.local /\ plugin'.token = p.token
      /\ plugin'.auth = p.auth /\ plugin'.open = p.open /\ plugin'.live = p.live
      /\ plugin'.timer = p.timer /\ plugin'.enabled = p.enabled
      /\ plugin'.required = p.required /\ plugin'.cached = p.cached
      /\ plugin'.conn = p.conn /\ plugin'.status = p.status /\ plugin'.opening = NoToken
  BY <1>1, <1>3, TokensAre DEF Plugins
<1> QED BY <1>1, <1>2, <1>3, <1>4, OpenEndsKeeps

LEMMA OpenFailsKeeps == ASSUME PluginInv, OpenFails PROVE PluginInv' /\ DropsTheirs
<1>1. /\ Quiet /\ plugin.opening # NoToken /\ tasks' = Released /\ settled' = settled
      /\ world' = world /\ torn' = torn /\ plugin \in Plugins
  BY DEF OpenFails, OpenEnds, PluginInv, Types
<1>2. PICK s \in States :
        /\ plugin' = [[plugin EXCEPT !.status = s] EXCEPT !.opening = NoToken]
        /\ s = plugin.status \/ plugin.live \/ ~world.online
  <2> DEFINE s == IF ~world.online THEN "offline"
                  ELSE IF plugin.live THEN "reconnecting" ELSE plugin.status
  <2>1. s \in States
    BY <1>1 DEF States, Plugins
  <2>2. plugin' = [[plugin EXCEPT !.status = s] EXCEPT !.opening = NoToken]
    BY DEF OpenFails, OpenEnds
  <2> QED BY <2>1, <2>2
<1>3. /\ plugin' \in Plugins /\ plugin'.session = plugin.session
      /\ plugin'.stored = plugin.stored
      /\ plugin'.key = plugin.key /\ plugin'.local = plugin.local /\ plugin'.token = plugin.token
      /\ plugin'.auth = plugin.auth /\ plugin'.open = plugin.open /\ plugin'.live = plugin.live
      /\ plugin'.timer = plugin.timer /\ plugin'.enabled = plugin.enabled
      /\ plugin'.required = plugin.required /\ plugin'.cached = plugin.cached
      /\ plugin'.conn = plugin.conn /\ plugin'.status = s /\ plugin'.opening = NoToken
  BY <1>1, <1>2, TokensAre DEF Plugins
<1> QED BY <1>1, <1>2, <1>3, OpenEndsKeeps

LEMMA SoundGrows ==
  ASSUME NEW p, NEW gone, NEW more, Sound(p, gone), gone \subseteq more
  PROVE  Sound(p, more)
BY DEF Sound, Free

\* An attempt that is given up takes nothing with it.
LEMMA GivenUpIs ==
  ASSUME NEW p \in Plugins, NEW q, q = [p EXCEPT !.opening = NoToken]
  PROVE  /\ q \in Plugins /\ q.opening = NoToken /\ q.stored = p.stored
         /\ q.session = p.session /\ q.conn = p.conn
         /\ Whole(p) => Whole(q)
         /\ \A gone : Sound(p, gone) => Sound(q, gone)
<1>1. /\ q \in Plugins /\ q.opening = NoToken /\ q.stored = p.stored
      /\ q.session = p.session /\ q.conn = p.conn /\ q.live = p.live /\ q.open = p.open
      /\ q.cached = p.cached /\ q.key = p.key /\ q.local = p.local /\ q.token = p.token
  BY TokensAre DEF Plugins
<1> QED BY <1>1 DEF Whole, Connects, Sound, Ours, Us, Free

\* A vault is gone, whatever the plugin was doing.
LEMMA GoneKeeps ==
  ASSUME PluginInv, Quiet, NEW X \in {tasks, Released}, tasks' = Loosed(Unclean(X), plugin'),
         settled' = FALSE, torn' = torn, world' \in Worlds, world.gone \subseteq world'.gone,
         NEW v \in world'.gone, NEW q, q = Unavailable(plugin, v),
         plugin' = q \/ plugin' = [q EXCEPT !.opening = NoToken],
         X # tasks => plugin' = [q EXCEPT !.opening = NoToken]
  PROVE  PluginInv' /\ DropsTheirs
<1>1. plugin \in Plugins /\ Whole(plugin) /\ world'.gone \in SUBSET Vaults
  BY DEF PluginInv, Types, Worlds
<1>2. /\ q \in Plugins /\ Whole(q) /\ q.opening = plugin.opening
      /\ \/ Kept(plugin, q) /\ q.stored = plugin.stored
         \/ Empty(q, plugin) /\ q.stored = 0
  BY <1>1, UnavailableIs
<1>3. /\ plugin' \in Plugins /\ Whole(plugin') /\ plugin'.stored = q.stored
      /\ plugin'.session = q.session /\ plugin'.opening \in {plugin.opening, NoToken}
      /\ X # tasks => plugin'.opening = NoToken
  BY <1>2, GivenUpIs
<1>4. ~torn => Sound(plugin, world'.gone)
  BY SoundGrows DEF PluginInv, Together
<1>5. ~torn => Sound(plugin', world'.gone)
  <2>1. ~torn => Sound(q, world'.gone)
    BY <1>1, <1>4, UnavailableIsSound
  <2> QED BY <1>2, <2>1, GivenUpIs
<1>6. ~torn /\ plugin.stored # 0 /\ q.stored = 0 => plugin.stored \in world'.gone
  BY <1>1, <1>4, UnavailableDrops
<1>7. ~torn /\ Modal => plugin'.session.id = 0 /\ plugin'.stored = 0
  BY <1>2, <1>3 DEF PluginInv, Together, Kept, Empty
<1>8. X # tasks \/ plugin.conn # NoToken => Free(plugin', world'.gone)
  BY <1>1, <1>3 DEF Free, Whole, Connects
<1>9. PluginInv'
  BY <1>3, <1>5, <1>7, <1>8, InterferesKeeps
<1> QED BY <1>3, <1>6, <1>9 DEF DropsTheirs

LEMMA VaultIsGoneKeeps == ASSUME PluginInv, VaultIsGone PROVE PluginInv' /\ DropsTheirs
<1> DEFINE v == plugin.opening.vault
           q == Unavailable(plugin, v)
<1>1. /\ Quiet /\ world' = world /\ torn' = torn /\ settled' = FALSE /\ v \in world.gone
      /\ plugin' = [q EXCEPT !.opening = NoToken]
      /\ tasks' = Loosed(Unclean(Released), plugin')
  BY DEF VaultIsGone, OpenEnds
<1>2. world' \in Worlds
  BY <1>1 DEF PluginInv, Types
<1> HIDE DEF v, q
<1> QED BY <1>1, <1>2, GoneKeeps DEF q

LEMMA RemoveKeeps ==
  ASSUME PluginInv, NEW v \in Vaults, Remove(v) PROVE PluginInv' /\ DropsTheirs
<1>1. /\ Quiet /\ torn' = torn /\ settled' = FALSE /\ tasks' = Loosed(Unclean(tasks), plugin')
      /\ world' = [world EXCEPT !.gone = @ \cup {v}] /\ world \in Worlds
      /\ plugin' = IF plugin.conn.vault = v THEN Unavailable(plugin, v) ELSE plugin
  BY DEF Remove, Interferes, PluginInv, Types
<1>2. world' \in Worlds /\ world.gone \subseteq world'.gone /\ v \in world'.gone
  BY <1>1 DEF Worlds
<1>3. CASE plugin.conn.vault = v
  <2>1. plugin' = Unavailable(plugin, v)
    BY <1>1, <1>3
  <2> QED BY <1>1, <1>2, <2>1, GoneKeeps
<1>4. CASE plugin.conn.vault # v
  <2>1. plugin' = plugin
    BY <1>1, <1>4
  <2>2. plugin \in Plugins /\ Whole(plugin)
    BY DEF PluginInv, Types
  <2>3. ~torn => Sound(plugin, world'.gone)
    BY <1>2, SoundGrows DEF PluginInv, Together
  <2>4. plugin.conn # NoToken => Free(plugin, world'.gone)
    BY <2>2 DEF Whole, Connects, Free
  <2>5. ~torn /\ Modal => plugin.session.id = 0 /\ plugin.stored = 0
    BY DEF PluginInv, Together
  <2>6. PluginInv'
    BY <1>1, <1>2, <2>1, <2>2, <2>3, <2>4, <2>5, InterferesKeeps
  <2> QED BY <2>1, <2>6 DEF DropsTheirs
<1> QED BY <1>3, <1>4

LEMMA NetworkKeeps == ASSUME PluginInv, Network PROVE PluginInv' /\ DropsTheirs
<1>1. /\ Quiet /\ torn' = torn /\ settled' = FALSE /\ tasks' = Loosed(Unclean(tasks), plugin')
      /\ world' = [world EXCEPT !.online = ~@] /\ world \in Worlds
      /\ plugin' = IF plugin.conn # NoToken THEN Lose(plugin) ELSE plugin
      /\ plugin \in Plugins /\ Whole(plugin)
  BY DEF Network, Interferes, PluginInv, Types
<1>2. world' \in Worlds /\ world'.gone = world.gone
  BY <1>1 DEF Worlds
<1>3. /\ plugin' \in Plugins /\ plugin'.session = plugin.session
      /\ plugin'.stored = plugin.stored /\ plugin'.key = plugin.key
      /\ plugin'.local = plugin.local /\ plugin'.token = plugin.token
      /\ plugin'.open = plugin.open /\ plugin'.cached = plugin.cached
      /\ plugin'.opening = plugin.opening /\ plugin'.live = plugin.live
      /\ plugin'.conn \in {plugin.conn, NoToken}
  <2>1. CASE plugin.conn # NoToken
    BY <1>1, <2>1, TokensAre DEF Lose, Plugins, States
  <2>2. CASE plugin.conn = NoToken
    BY <1>1, <2>2
  <2> QED BY <2>1, <2>2
<1>4. Whole(plugin')
  BY <1>1, <1>3 DEF Whole, Connects
<1>5. ~torn => Sound(plugin', world'.gone)
  BY <1>2, <1>3 DEF PluginInv, Together, Sound, Ours, Us, Free
<1>6. plugin.conn # NoToken => Free(plugin', world'.gone)
  BY <1>1, <1>3 DEF Whole, Connects, Free
<1>7. ~torn /\ Modal => plugin'.session.id = 0 /\ plugin'.stored = 0
  BY <1>3 DEF PluginInv, Together
<1>8. PluginInv'
  BY <1>1, <1>2, <1>3, <1>4, <1>5, <1>6, <1>7, InterferesKeeps
<1> QED BY <1>3, <1>8 DEF DropsTheirs

LEMMA ReconnectKeeps == ASSUME PluginInv, Reconnect PROVE PluginInv' /\ DropsTheirs
<1>1. /\ Quiet /\ plugin.live /\ plugin.conn = NoToken /\ plugin.opening = NoToken
      /\ plugin.session.id # 0 /\ plugin' = EnsureSession(plugin)
      /\ UNCHANGED <<tasks, world, settled, torn>>
      /\ plugin \in Plugins /\ Whole(plugin)
  BY DEF Reconnect, PluginInv, Types
<1>2. /\ plugin' \in Plugins /\ plugin'.live = plugin.live /\ plugin'.conn = plugin.conn
      /\ plugin'.timer = plugin.timer
      /\ plugin'.required = plugin.required /\ plugin'.enabled = plugin.enabled
      /\ plugin'.token = plugin.token /\ plugin'.auth = plugin.auth
      /\ plugin'.session = plugin.session /\ plugin'.stored = plugin.stored
      /\ plugin'.key = plugin.key /\ plugin'.open = plugin.open
  BY <1>1, EnsureSessionIs
<1>3. Types'
  <2>1. Whole(plugin')
    BY <1>1, <1>2 DEF Whole, Connects
  <2>2. \A u \in Tasks : Placed(tasks'[u], plugin')
    BY <1>1, <1>2 DEF PluginInv, Types, Placed
  <2> QED BY <1>1, <1>2, <2>1, <2>2 DEF PluginInv, Types, At
<1>4. Together'
  <2>1. Kept(plugin, plugin')
    BY <1>1, EnsureSessionIsKept
  <2>2. ~torn => Sound(plugin', world.gone)
    BY <1>1, <2>1, KeptIsSound DEF PluginInv, Together
  <2>3. Quiet' /\ (~torn => ~Modal')
    BY <1>1 DEF PluginInv, Together, Quiet, Modal, At
  <2> QED BY <1>1, <2>2, <2>3 DEF Together
<1>5. CleanIsRight'
  <2>1. Readiness(plugin') = Readiness(plugin)
    BY <1>2 DEF Readiness
  <2>2. ASSUME NEW u \in InFlight, tasks[u].clean
        PROVE  Promised(plugin', tasks[u], world.online)
    <3>1. Promised(plugin, tasks[u], world.online)
      BY <2>2 DEF PluginInv, CleanIsRight
    <3> QED BY <1>1, <1>2, <2>1, <3>1 DEF Promised, Ready, Verified
  <2>3. settled => Right(plugin', ~torn)
    <3>1. settled => Right(plugin, ~torn)
      BY DEF PluginInv, CleanIsRight
    <3> QED BY <1>1, <1>2, <2>1, <3>1 DEF Right, Verified, HasVault, Plugins
  <2> QED BY <1>1, <1>2, <2>2, <2>3 DEF PluginInv, CleanIsRight, InFlight, Others
<1> QED BY <1>2, <1>3, <1>4, <1>5 DEF PluginInv, DropsTheirs

\* The plugin starts, with what is on its disk.
Starts(s, r, ts) ==
  /\ r.p \in Plugins /\ Whole(r.p) /\ Kept(s, r.p) /\ ts \in [Tasks -> Records]
  /\ \A t \in Tasks :
       /\ Placed(ts[t], r.p) /\ ts[t].pc \notin {"bootstrap", "opened", "detached"}
       /\ ts[t].pc # "idle" => t = 1 /\ Promised(r.p, ts[t], world.online)
  /\ r.pc = "idle" => /\ \A t \in Tasks : ts[t].pc = "idle"
                      /\ Right(r.p, TRUE) /\ (~r.p.live => r.p.opening = NoToken)
LEMMA StartIs ==
  ASSUME NEW s \in Plugins, s.session.id = 0, s.opening = NoToken, s.conn = NoToken,
         NEW r, r = RunReady(s, "ensure"), NEW ts,
         ts = [t \in Tasks |-> IF t = 1 THEN TaskAfter(r, "ensure", TRUE) ELSE Idle]
  PROVE  Starts(s, r, ts)
<1>1. Reaches(s, r) /\ Leads(s, r, "ensure", world.online)
  BY ReadyReaches, ReadyLeads
<1>2. /\ Kept(s, r.p) /\ r.pc \in Steps /\ r.pc \in Pcs /\ (r.pc = "restore" => r.p.stored # 0)
      /\ r.p \in Plugins
  BY <1>1, PcsAre DEF Reaches, Kept
<1>3. Whole(r.p)
  BY <1>2 DEF Kept, Whole, Connects
<1>4. "ensure" \in Kinds /\ "ensure" \in KindsAt(r.pc)
  BY <1>2, KindsAre DEF Pipelines
<1>5. Lands(r, "ensure")
  BY <1>2, <1>3, <1>4 DEF Lands, Steps
<1> DEFINE k == TaskAfter(r, "ensure", TRUE)
<1>6. /\ k \in Records
      /\ r.pc = "idle" => k = Idle
      /\ r.pc # "idle" => k = [kind |-> "ensure", pc |-> r.pc, token |-> r.p.token,
                               vault |-> [id |-> r.p.stored, key |-> r.p.key], clean |-> TRUE]
  BY <1>5, TaskAfterIs
<1> HIDE DEF k
<1>7. Idle \in Records /\ Idle.pc = "idle" /\ Idle.kind = "none"
  BY TokensAre, PcsAre DEF Idle, Records, Kinds
<1>8. /\ Placed(k, r.p) /\ k.pc \notin {"bootstrap", "opened", "detached"}
      /\ k.pc = r.pc
  <2>1. CASE r.pc = "idle"
    BY <1>6, <1>7, <2>1, KindsAre DEF Placed
  <2>2. CASE r.pc # "idle"
    <3>1. k.pc = r.pc /\ k.kind = "ensure" /\ k.vault.id = r.p.stored
      BY <1>6, <2>2
    <3> QED BY <1>2, <1>4, <3>1 DEF Placed, Steps
  <2> QED BY <2>1, <2>2
<1>9. k.pc # "idle" => Promised(r.p, k, world.online)
  <2>1. Promised(r.p, Record(r, "ensure"), world.online)
    BY <1>1 DEF Leads
  <2>2. r.pc # "idle" => /\ k.kind = "ensure" /\ k.pc = r.pc /\ k.token = r.p.token
                         /\ k.vault = [id |-> r.p.stored, key |-> r.p.key]
    BY <1>6
  <2> QED BY <1>8, <2>1, <2>2 DEF Promised, Record
<1>10. Placed(Idle, r.p)
  BY <1>7, KindsAre DEF Placed
<1>11. ASSUME NEW t \in Tasks
       PROVE  /\ Placed(ts[t], r.p) /\ ts[t].pc \notin {"bootstrap", "opened", "detached"}
              /\ ts[t].pc # "idle" => t = 1 /\ Promised(r.p, ts[t], world.online)
              /\ r.pc = "idle" => ts[t].pc = "idle"
  <2>1. ts[t] = IF t = 1 THEN k ELSE Idle
    BY DEF k
  <2> QED BY <1>7, <1>8, <1>9, <1>10, <2>1
<1>12. ts \in [Tasks -> Records]
  BY <1>6, <1>7 DEF k
<1>13. r.pc = "idle" => Right(r.p, TRUE) /\ (~r.p.live => r.p.opening = NoToken)
  BY <1>1 DEF Leads
<1> QED BY <1>2, <1>3, <1>11, <1>12, <1>13 DEF Starts

LEMMA InitHolds == ASSUME Init PROVE PluginInv
<1>1. /\ world \in Worlds /\ world.gone = {} /\ world.online /\ torn = FALSE
  BY DEF Init, Worlds
<1>2. PICK required \in Refusals, token \in {0} \cup Accounts, v \in {0} \cup Vaults :
        LET r == RunReady([required |-> required, enabled |-> TRUE,
                   token |-> token, auth |-> "unknown",
                   session |-> NoVault, stored |-> v, key |-> v, local |-> 0, open |-> FALSE,
                   live |-> FALSE, opening |-> NoToken, conn |-> NoToken, timer |-> FALSE,
                   cached |-> NoToken, status |-> "not_ready"], "ensure") IN
        /\ plugin = r.p
        /\ tasks = [t \in Tasks |-> IF t = 1 THEN TaskAfter(r, "ensure", TRUE) ELSE Idle]
        /\ settled = (r.pc = "idle")
  BY DEF Init
<1> DEFINE s == [required |-> required, enabled |-> TRUE, token |-> token, auth |-> "unknown",
                 session |-> NoVault, stored |-> v, key |-> v, local |-> 0, open |-> FALSE,
                 live |-> FALSE, opening |-> NoToken, conn |-> NoToken, timer |-> FALSE,
                 cached |-> NoToken, status |-> "not_ready"]
           r == RunReady(s, "ensure")
<1>3. /\ plugin = r.p /\ settled = (r.pc = "idle")
      /\ tasks = [t \in Tasks |-> IF t = 1 THEN TaskAfter(r, "ensure", TRUE) ELSE Idle]
  BY <1>2
<1>4. /\ s \in Plugins /\ s.session.id = 0 /\ s.opening = NoToken /\ s.conn = NoToken
      /\ s.cached = NoToken /\ s.stored = s.key
  BY TokensAre DEF Plugins, Auths, States, Refusals
<1> HIDE DEF s
<1>5. r = RunReady(s, "ensure")
  OBVIOUS
<1> HIDE DEF r
<1>6. /\ r.p \in Plugins /\ Whole(r.p) /\ Kept(s, r.p) /\ tasks \in [Tasks -> Records]
      /\ \A t \in Tasks :
           /\ Placed(tasks[t], r.p) /\ tasks[t].pc \notin {"bootstrap", "opened", "detached"}
           /\ tasks[t].pc # "idle" => t = 1 /\ Promised(r.p, tasks[t], world.online)
      /\ r.pc = "idle" => /\ \A t \in Tasks : tasks[t].pc = "idle"
                          /\ Right(r.p, TRUE) /\ (~r.p.live => r.p.opening = NoToken)
  <2>1. Starts(s, r, tasks)
    BY <1>3, <1>4, <1>5, StartIs
  <2> QED BY <2>1 DEF Starts
<1>7. Sound(r.p, world.gone)
  <2>1. Sound(s, world.gone)
    BY <1>4 DEF Sound, Ours, Free
  <2> QED BY <1>4, <1>6, <2>1, KeptIsSound
<1>8. Quiet /\ ~Modal
  BY <1>6 DEF Quiet, Modal, At
<1>9. CleanIsRight
  BY <1>1, <1>3, <1>6 DEF CleanIsRight, InFlight, Others
<1> QED BY <1>1, <1>3, <1>6, <1>7, <1>8, <1>9 DEF PluginInv, Types, Together, At

LEMMA RestartKeeps == ASSUME PluginInv, Restart PROVE PluginInv' /\ DropsTheirs
<1> DEFINE n == NotReady(plugin)
           s == [n EXCEPT !.auth = "unknown", !.session = NoVault, !.open = FALSE,
                          !.opening = NoToken, !.cached = NoToken]
           r == RunReady(s, "ensure")
<1>1. /\ world' = world /\ torn' = torn /\ plugin' = r.p /\ settled' = (r.pc = "idle")
      /\ tasks' = [t \in Tasks |-> IF t = 1 THEN TaskAfter(r, "ensure", TRUE) ELSE Idle]
      /\ plugin \in Plugins /\ world \in Worlds /\ torn \in BOOLEAN
  BY DEF Restart, Boots, PluginInv, Types
<1>2. n \in Plugins /\ n.conn = NoToken /\ n.stored = plugin.stored /\ n.key = plugin.key
  BY <1>1, HaltedIs
<1> HIDE DEF n
<1>3. /\ s \in Plugins /\ s.session.id = 0 /\ s.opening = NoToken /\ s.conn = NoToken
      /\ s.cached = NoToken /\ s.stored = plugin.stored /\ s.key = plugin.key
  BY <1>2, TokensAre DEF Plugins, Auths
<1> HIDE DEF s
<1>4. r = RunReady(s, "ensure")
  OBVIOUS
<1> HIDE DEF r
<1>5. /\ r.p \in Plugins /\ Whole(r.p) /\ Kept(s, r.p) /\ tasks' \in [Tasks -> Records]
      /\ \A t \in Tasks :
           /\ Placed(tasks'[t], r.p) /\ tasks'[t].pc \notin {"bootstrap", "opened", "detached"}
           /\ tasks'[t].pc # "idle" => t = 1 /\ Promised(r.p, tasks'[t], world.online)
      /\ r.pc = "idle" => /\ \A t \in Tasks : tasks'[t].pc = "idle"
                          /\ Right(r.p, TRUE) /\ (~r.p.live => r.p.opening = NoToken)
  <2>1. Starts(s, r, tasks')
    BY <1>1, <1>3, <1>4, StartIs
  <2> QED BY <2>1 DEF Starts
<1>6. ~torn => Sound(r.p, world.gone)
  <2>1. ~torn => Sound(s, world.gone)
    BY <1>3 DEF PluginInv, Together, Sound, Ours, Free
  <2> QED BY <1>3, <1>5, <2>1, KeptIsSound
<1>7. Quiet' /\ ~Modal'
  BY <1>5 DEF Quiet, Modal, At
<1>8. CleanIsRight'
  <2>1. r.pc = "idle" => Right(r.p, ~torn)
    BY <1>5 DEF Right
  <2> QED BY <1>1, <1>5, <2>1 DEF CleanIsRight, InFlight, Others
<1>9. Types'
  <2>1. settled' \in BOOLEAN
    BY <1>1
  <2> QED BY <1>1, <1>5, <2>1 DEF Types, At
<1>10. PluginInv'
  BY <1>1, <1>6, <1>7, <1>8, <1>9 DEF PluginInv, Together
<1> QED BY <1>1, <1>3, <1>5, <1>10 DEF DropsTheirs, Kept

-----------------------------------------------------------------------------
(* The theorems.                                                            *)

LEMMA StutterKeeps == ASSUME PluginInv, UNCHANGED vars PROVE PluginInv' /\ DropsTheirs
<1>1. /\ plugin' = plugin /\ tasks' = tasks /\ world' = world /\ settled' = settled
      /\ torn' = torn
  BY DEF vars
<1>2. Types'
  BY <1>1 DEF PluginInv, Types, At
<1>3. Together'
  BY <1>1 DEF PluginInv, Together, Quiet, Modal, At
<1>4. CleanIsRight'
  BY <1>1 DEF PluginInv, CleanIsRight, InFlight, Others
<1> QED BY <1>1, <1>2, <1>3, <1>4 DEF PluginInv, DropsTheirs

LEMMA NextKeeps == ASSUME PluginInv, [Next]_vars PROVE PluginInv' /\ DropsTheirs
<1>1. CASE Enable \/ Disable \/ Connect \/ Disconnect \/ SignOut \/ Login \/ ChangeRules
           \/ ViewHistory \/ Resume
  BY <1>1, EnableKeeps, DisableKeeps, ConnectKeeps, DisconnectKeeps, SignOutKeeps, LoginKeeps,
     ChangeRulesKeeps, ViewHistoryKeeps, ResumeKeeps
<1>2. CASE Opened \/ OpenFails \/ VaultIsGone \/ Reconnect \/ Network \/ Restart
  BY <1>2, OpenedKeeps, OpenFailsKeeps, VaultIsGoneKeeps, ReconnectKeeps, NetworkKeeps,
     RestartKeeps
<1>3. ASSUME NEW t \in Tasks,
             \/ Connected(t) \/ DetachEnds(t) \/ Forgets(t) \/ Revoked(t) \/ Polled(t)
             \/ RulesApplied(t) \/ Identified(t) \/ Restored(t) \/ Reconciled(t)
             \/ ReconcileFails(t) \/ AfterOpening(t)
      PROVE  PluginInv' /\ DropsTheirs
  BY <1>3, ConnectedKeeps, DetachEndsKeeps, ForgetsKeeps, RevokedKeeps, PolledKeeps,
     RulesAppliedKeeps, IdentifiedKeeps, RestoredKeeps, ReconciledKeeps, ReconcileFailsKeeps,
     AfterOpeningKeeps
<1>4. ASSUME NEW v \in Vaults, Remove(v) PROVE PluginInv' /\ DropsTheirs
  BY <1>4, RemoveKeeps
<1>5. CASE UNCHANGED vars
  BY <1>5, StutterKeeps
<1> QED BY <1>1, <1>2, <1>3, <1>4, <1>5 DEF Next

LEMMA SpecHolds == Spec => []PluginInv
<1>1. Init => PluginInv
  BY InitHolds
<1>2. PluginInv /\ [Next]_vars => PluginInv'
  BY NextKeeps
<1> QED BY <1>1, <1>2, PTL DEF Spec

\* The plugin and its tasks have the values the model gives them, and a connection is
\* held by a live loop only.
THEOREM PluginTypes == Spec => []TypeOK
<1>1. PluginInv => TypeOK
  BY DEF PluginInv, Types, TypeOK, Plugins, Keys, Auths, Records, Whole, Connects
<1> QED BY <1>1, SpecHolds, PTL

\* Whatever was connected, disconnected, signed out or restarted while a connection was
\* being made, and for any number of tasks in flight: the loop's connection is to the
\* connected vault, as this local vault and this account.
THEOREM ConnectionStaysOurs == Spec => []ConnectionIsOurs
<1>1. PluginInv => ConnectionIsOurs
  BY DEF PluginInv, Together, Sound, Ours, Us, ConnectionIsOurs
<1> QED BY <1>1, SpecHolds, PTL

\* A pipeline that nothing came between leaves the loop running just when sync is wanted.
THEOREM SettlesRight == Spec => []SettledIsRight
<1>1. PluginInv => SettledIsRight
  BY DEF PluginInv, CleanIsRight, Types, Whole, Right, SettledIsRight
<1> QED BY <1>1, SpecHolds, PTL

\* No step deletes the store of a vault that is neither left by its user nor gone.
THEOREM TheirVaultIsDropped == Spec => OnlyTheirVaultIsDropped
<1>1. PluginInv /\ [Next]_vars => DropsTheirs
  BY NextKeeps
<1>2. DropsTheirs <=> (plugin.stored # 0 /\ plugin'.stored = 0 /\ ~torn =>
                         \/ plugin.stored \in world'.gone
                         \/ \E t \in Tasks : tasks[t].kind \in {"disconnect", "sign_out"})
  BY DEF DropsTheirs
<1> QED BY <1>1, <1>2, SpecHolds, PTL DEF Spec, OnlyTheirVaultIsDropped

-----------------------------------------------------------------------------
(* The run, where the plugin is one of two parts.                           *)

\* A behaviour of the run is one of the plugin: what is proved of it holds of the run.
LEMMA RunIsPlugin == MCSpec => Spec
<1>1. MCInit => Init
  BY DEF MCInit
<1>2. [MCNext]_mcvars => [Next]_vars
  <2>1. ASSUME part = "plugin" /\ Next PROVE [Next]_vars
    BY <2>1
  <2>2. ASSUME part = "history" /\ UNCHANGED vars PROVE [Next]_vars
    BY <2>2
  <2>3. ASSUME UNCHANGED mcvars PROVE UNCHANGED vars
    BY <2>3 DEF mcvars
  <2> QED BY <2>1, <2>2, <2>3 DEF MCNext
<1> QED BY <1>1, <1>2, PTL DEF MCSpec, Spec

\* The three invariants hold of the run that checks the plugin and its version history
\* together: whichever of the two moves, nothing else touches what they speak of.
THEOREM RunKeepsPlugin == MCSpec => [](TypeOK /\ ConnectionIsOurs /\ SettledIsRight)
BY RunIsPlugin, PluginTypes, ConnectionStaysOurs, SettlesRight, PTL

-----------------------------------------------------------------------------
(* Sets of numbers, and sequences.                                          *)

\* Every set of natural numbers but the empty one has a least element.
LEMMA NatHasLeast ==
  ASSUME NEW T, T \subseteq Nat, T # {}
  PROVE  \E x \in T : \A y \in T : x <= y
<1> DEFINE R == {ss \in Nat \X Nat : ss[1] < ss[2]}
<1>1. IsWellFoundedOn(R, Nat)
  BY NatLessThanWellFounded DEF OpToRel
<1>2. PICK x \in T : \A y \in T : ~(<<y, x>> \in R)
  <2> HIDE DEF R
  <2> QED BY <1>1, WFMin
<1>3. ASSUME NEW y \in T PROVE x <= y
  <2>1. x \in Nat /\ y \in Nat
    OBVIOUS
  <2>2. ~(y < x)
    BY <1>2, <2>1
  <2> QED BY <2>1, <2>2
<1> QED BY <1>3

Elements(s) == {s[i] : i \in DOMAIN s}

\* What is in a sequence that grows, is read, or is joined to another.
LEMMA ElementsAre ==
  ASSUME NEW S, NEW s \in Seq(S)
  PROVE  /\ Elements(s) \subseteq S /\ Elements(<<>>) = {} /\ <<>> \in Seq(S)
         /\ \A x \in S : Append(s, x) \in Seq(S) /\ Elements(Append(s, x)) = Elements(s) \union {x}
         /\ s # <<>> => /\ Head(s) \in Elements(s) /\ Tail(s) \in Seq(S)
                        /\ Elements(Tail(s)) \subseteq Elements(s)
         /\ \A t \in Seq(S) : s \o t \in Seq(S) /\ Elements(s \o t) = Elements(s) \union Elements(t)
<1>1. Elements(s) \subseteq S /\ Elements(<<>>) = {} /\ <<>> \in Seq(S)
  BY DEF Elements
<1>2. ASSUME NEW x \in S
      PROVE  Append(s, x) \in Seq(S) /\ Elements(Append(s, x)) = Elements(s) \union {x}
  <2>1. Len(s) + 1 \in DOMAIN Append(s, x) /\ Append(s, x)[Len(s) + 1] = x
    OBVIOUS
  <2>2. \A i \in DOMAIN s : i \in DOMAIN Append(s, x) /\ Append(s, x)[i] = s[i]
    OBVIOUS
  <2>3. \A i \in DOMAIN Append(s, x) : i \in DOMAIN s \/ i = Len(s) + 1
    OBVIOUS
  <2>4. Elements(Append(s, x)) \subseteq Elements(s) \union {x}
    BY <2>1, <2>2, <2>3 DEF Elements
  <2>5. Elements(s) \union {x} \subseteq Elements(Append(s, x))
    BY <2>1, <2>2 DEF Elements
  <2> QED BY <2>4, <2>5
<1>3. ASSUME s # <<>>
      PROVE  Head(s) \in Elements(s) /\ Tail(s) \in Seq(S) /\ Elements(Tail(s)) \subseteq Elements(s)
  <2>1. 1 \in DOMAIN s /\ Head(s) = s[1] /\ Tail(s) \in Seq(S)
    BY <1>3
  <2>2. \A i \in DOMAIN Tail(s) : i + 1 \in DOMAIN s /\ Tail(s)[i] = s[i + 1]
    BY <1>3
  <2> QED BY <2>1, <2>2 DEF Elements
<1>4. ASSUME NEW t \in Seq(S)
      PROVE  s \o t \in Seq(S) /\ Elements(s \o t) = Elements(s) \union Elements(t)
  <2>1. \A i \in DOMAIN s : i \in DOMAIN (s \o t) /\ (s \o t)[i] = s[i]
    OBVIOUS
  <2>2. \A i \in DOMAIN t : Len(s) + i \in DOMAIN (s \o t) /\ (s \o t)[Len(s) + i] = t[i]
    OBVIOUS
  <2>3. \A i \in DOMAIN (s \o t) : i \in DOMAIN s \/ \E j \in DOMAIN t : i = Len(s) + j
    <3> TAKE i \in DOMAIN (s \o t)
    <3>1. i \in 1 .. Len(s) + Len(t)
      OBVIOUS
    <3>2. CASE i > Len(s)
      <4>1. i - Len(s) \in DOMAIN t /\ i = Len(s) + (i - Len(s))
        BY <3>1, <3>2
      <4> QED BY <4>1
    <3> QED BY <3>1, <3>2
  <2>4. \A i \in DOMAIN (s \o t) : (s \o t)[i] \in Elements(s) \union Elements(t)
    BY <2>1, <2>2, <2>3 DEF Elements
  <2>5. Elements(s \o t) \subseteq Elements(s) \union Elements(t)
    BY <2>4 DEF Elements
  <2>6. Elements(s) \subseteq Elements(s \o t) /\ Elements(t) \subseteq Elements(s \o t)
    BY <2>1, <2>2 DEF Elements
  <2>7. s \o t \in Seq(S)
    OBVIOUS
  <2> QED BY <2>5, <2>6, <2>7
<1> QED BY <1>1, <1>2, <1>3, <1>4

-----------------------------------------------------------------------------
(* The version history: what its tables and the restores under way promise. *)

\* Entries count their revisions; none is dated later than the clock.
Tables ==
  /\ now \in Nat
  /\ \A f \in Files : /\ entry[f].rev \in Nat /\ entry[f].deleted \in BOOLEAN
                      /\ entry[f].at \in Nat /\ entry[f].at <= now
  /\ hist = [lost |-> hist.lost, purged |-> hist.purged, true |-> hist.true]

\* No version is dated later than its entry, and those of one date hold the same.
Holds(v, w) == v.rev = w.rev /\ v.op = w.op /\ v.content = w.content
Captures ==
  \A v \in versions : v.file \in Files =>
    /\ v.at \in Nat /\ v.rev \in Nat /\ v.at <= entry[v.file].at
    /\ \A w \in versions : w.file = v.file /\ w.at = v.at => Holds(w, v)

\* A version as old as a deletion holds what it took away.
TakenAway(v, f) == /\ v.file = f /\ v.at = entry[f].at
                   /\ v.op = "upsert" /\ v.content = hist.lost[f]
Recorded ==
  \A f \in Files : entry[f].deleted /\ <<f, entry[f].rev>> \notin hist.purged =>
    \E v \in versions : TakenAway(v, f)

\* This device is behind, or knows whether a file is deleted.
Locals ==
  /\ local \in [Files -> [rev : Nat, deleted : BOOLEAN, dirty : BOOLEAN]]
  /\ \A f \in Files : /\ local[f].rev <= entry[f].rev
                      /\ local[f].rev = entry[f].rev => local[f].deleted = entry[f].deleted

\* A request to restore a version of the file on the screen is refused unless the file is
\* there; one to restore a deleted file brings a version with a content. Of a job, e are
\* the entries.
Asked(kind, a, e) ==
  IF kind = "version" THEN /\ a.base \in Nat /\ a.base <= e[a.file].rev
                           /\ a.base = e[a.file].rev => ~e[a.file].deleted
  ELSE a.version.op = "upsert"
Shaped(j) ==
  DOMAIN j = {"kind", "stage", "file", "version", "files", "scanned", "failed", "asked",
              "results", "indexes", "done"}
JobIsSound(j, e) ==
  /\ Shaped(j)
  /\ j.kind = "version" => j.file \in Files
  /\ j.asked \in Seq(Elements(j.asked))
  /\ \A a \in Elements(j.asked) : a.file \in Files => Asked(j.kind, a, e)
  /\ j.stage = "checked" => \A k \in DOMAIN j.indexes : j.indexes[k] \in DOMAIN j.asked
Works ==
  /\ work \in Seq(Elements(work))
  /\ \A j \in Elements(work) : JobIsSound(j, entry)

HistoryInv == Tables /\ Captures /\ Recorded /\ Locals /\ Works

-----------------------------------------------------------------------------
(* Sequences, as the work is one.                                           *)

\* What is in a queue that grows, loses its head, or has another in its place.
LEMMA QueueIs ==
  ASSUME NEW s, s \in Seq(Elements(s)), NEW x
  PROVE  /\ Append(s, x) \in Seq(Elements(Append(s, x)))
         /\ Elements(Append(s, x)) = Elements(s) \union {x}
         /\ s # <<>> => /\ Head(s) \in Elements(s)
                        /\ Tail(s) \in Seq(Elements(Tail(s)))
                        /\ Elements(Tail(s)) \subseteq Elements(s)
                        /\ <<x>> \o Tail(s) \in Seq(Elements(<<x>> \o Tail(s)))
                        /\ Elements(<<x>> \o Tail(s)) \subseteq Elements(s) \union {x}
<1> DEFINE S == Elements(s) \union {x}
<1>1. s \in Seq(S) /\ x \in S
  BY DEF Elements
<1>2. /\ Append(s, x) \in Seq(S) /\ Elements(Append(s, x)) = Elements(s) \union {x}
      /\ s # <<>> => /\ Head(s) \in Elements(s) /\ Tail(s) \in Seq(S)
                     /\ Elements(Tail(s)) \subseteq Elements(s)
  BY <1>1, ElementsAre
<1>3. <<x>> \in Seq(S) /\ Elements(<<x>>) \subseteq {x}
  BY <1>1 DEF Elements
<1>4. s # <<>> => /\ <<x>> \o Tail(s) \in Seq(S)
                  /\ Elements(<<x>> \o Tail(s)) \subseteq Elements(s) \union {x}
  <2> HIDE DEF S
  <2>1. ASSUME s # <<>>
        PROVE  /\ <<x>> \o Tail(s) \in Seq(S)
               /\ Elements(<<x>> \o Tail(s)) = Elements(<<x>>) \union Elements(Tail(s))
    <3>1. \A t \in Seq(S) : /\ <<x>> \o t \in Seq(S)
                            /\ Elements(<<x>> \o t) = Elements(<<x>>) \union Elements(t)
      BY <1>3, ElementsAre
    <3> QED BY <1>2, <2>1, <3>1
  <2> QED BY <1>2, <1>3, <2>1
<1>5. \A t \in Seq(S) : t \in Seq(Elements(t))
  BY DEF Elements
<1> QED BY <1>2, <1>4, <1>5

\* Each place of an ascending sequence has a member of its set.
LEMMA AscendingIs ==
  ASSUME NEW S
  PROVE  \A k \in DOMAIN H!Ascending(S) : H!Ascending(S)[k] \in S
BY DEF H!Ascending

-----------------------------------------------------------------------------
(* The tables.                                                              *)

\* An entry stays, or has a new revision.
Grows == \A f \in Files : entry'[f] = entry[f] \/ entry'[f].rev = entry[f].rev + 1

\* What a commit of changes captures for a file at the moment t.
LEMMA CapturedIs ==
  ASSUME Tables, NEW m, NEW forced \in {"auto", "before_restore"}, NEW t, NEW v,
         v \in H!Captured(m, forced, t)
  PROVE  /\ v.file = m.file /\ v.at = t
         /\ m.file \in Files => v.rev \in Nat
         /\ forced = "before_restore" \/ m.op = "delete" =>
              /\ v.rev = entry[m.file].rev /\ v.content = entry[m.file].content
              /\ v.op = IF entry[m.file].deleted THEN "delete" ELSE "upsert"
         /\ forced = "auto" /\ m.op # "delete" =>
              /\ v.rev = entry[m.file].rev + 1 /\ v.op = m.op /\ v.content = m.content
BY DEF Tables, H!Captured

LEMMA DeletionIsCaptured ==
  ASSUME NEW m, m.op = "delete", NEW forced, NEW t
  PROVE  [file |-> m.file, rev |-> entry[m.file].rev,
          op |-> IF entry[m.file].deleted THEN "delete" ELSE "upsert",
          content |-> entry[m.file].content, reason |-> "before_delete", at |-> t]
            \in H!Captured(m, forced, t)
BY DEF H!Captured

\* A commit that deletes only what is there, and captures of its own accord no file twice,
\* keeps what the tables promise.
LEMMA CommitKeeps ==
  ASSUME Tables, Captures, Recorded, NEW ms, NEW forced \in {"auto", "before_restore"},
         H!Commit(ms, forced),
         \A m \in ms : m.file \in Files /\ m.op = "delete" => ~entry[m.file].deleted,
         forced = "auto" => \A m, n \in ms : m.file = n.file => m = n
  PROVE  Tables' /\ Captures' /\ Recorded' /\ Grows
<1> DEFINE changed == {m.file : m \in ms}
           change == [f \in changed |-> CHOOSE m \in ms : m.file = f]
           new == UNION {H!Captured(m, forced, now + 1) : m \in ms}
<1>1. /\ now' = now + 1
      /\ entry' = [f \in Files |->
                     IF f \notin changed THEN entry[f]
                     ELSE [rev |-> entry[f].rev + 1, deleted |-> change[f].op = "delete",
                           at |-> now + 1, content |-> change[f].content]]
      /\ versions' = versions \union new
      /\ hist' = [hist EXCEPT !.lost = [f \in Files |->
                    IF f \in changed /\ change[f].op = "delete" THEN entry[f].content ELSE @[f]]]
  BY DEF H!Commit
<1>2. ASSUME NEW f \in Files, f \notin changed
      PROVE  entry'[f] = entry[f]
  BY <1>1, <1>2
<1>3. ASSUME NEW f \in Files, f \in changed
      PROVE  /\ change[f] \in ms /\ change[f].file = f
             /\ entry'[f].rev = entry[f].rev + 1 /\ entry'[f].at = now + 1
             /\ entry'[f].deleted \in BOOLEAN
             /\ entry'[f].deleted => change[f].op = "delete"
  <2>1. \E m \in ms : m.file = f
    BY <1>3
  <2>2. change[f] = CHOOSE m \in ms : m.file = f
    BY <1>3
  <2>3. change[f] \in ms /\ change[f].file = f
    BY <2>1, <2>2
  <2> DEFINE gone == change[f].op = "delete"
  <2>4. entry'[f] = [rev |-> entry[f].rev + 1, deleted |-> gone,
                     at |-> now + 1, content |-> change[f].content]
    BY <1>1, <1>3
  <2>5. gone \in BOOLEAN /\ (gone => change[f].op = "delete")
    OBVIOUS
  <2> HIDE DEF changed, change, gone
  <2> QED BY <2>3, <2>4, <2>5
<1>4. /\ hist'.purged = hist.purged
      /\ hist' = [lost |-> hist'.lost, purged |-> hist'.purged, true |-> hist'.true]
      /\ \A f \in Files : hist'.lost[f] = IF f \in changed /\ change[f].op = "delete"
                                          THEN entry[f].content ELSE hist.lost[f]
  <2> HIDE DEF changed, change
  <2> QED BY <1>1 DEF Tables
<1>5. ASSUME NEW v \in new
      PROVE  \E m \in ms : v \in H!Captured(m, forced, now + 1)
  OBVIOUS
<1>6. \A m \in ms : m.file \in changed /\ H!Captured(m, forced, now + 1) \subseteq new
  OBVIOUS
<1> HIDE DEF changed, change, new
<1>7. Grows
  BY <1>2, <1>3 DEF Grows
<1>8. Tables'
  <2>1. ASSUME NEW f \in Files
        PROVE  /\ entry'[f].rev \in Nat /\ entry'[f].deleted \in BOOLEAN
               /\ entry'[f].at \in Nat /\ entry'[f].at <= now'
    <3>1. CASE f \in changed
      BY <1>1, <1>3, <3>1 DEF Tables
    <3>2. CASE f \notin changed
      BY <1>1, <1>2, <3>2 DEF Tables
    <3> QED BY <3>1, <3>2
  <2>2. now' \in Nat
    BY <1>1 DEF Tables
  <2> QED BY <1>4, <2>1, <2>2 DEF Tables
<1>9. Captures'
  <2>1. ASSUME NEW v \in new, v.file \in Files
        PROVE  /\ v.at = now + 1 /\ v.rev \in Nat /\ entry'[v.file].at = now + 1
               /\ \A w \in new : w.file = v.file => Holds(w, v)
    <3>1. PICK m \in ms : v \in H!Captured(m, forced, now + 1)
      BY <1>5
    <3>2. v.file = m.file /\ v.at = now + 1 /\ v.rev \in Nat
      BY <2>1, <3>1, CapturedIs
    <3>3. entry'[v.file].at = now + 1
      BY <1>3, <1>6, <2>1, <3>2
    <3>4. ASSUME NEW w \in new, w.file = v.file
          PROVE  Holds(w, v)
      <4>1. PICK n \in ms : w \in H!Captured(n, forced, now + 1)
        BY <1>5
      <4>2. n.file = m.file
        BY <3>1, <3>2, <3>4, <4>1, CapturedIs
      <4>3. CASE forced = "auto"
        <5>1. m = n
          BY <4>2, <4>3
        <5> QED BY <3>1, <4>1, <4>3, <5>1, CapturedIs DEF Holds
      <4>4. CASE forced = "before_restore"
        BY <3>1, <4>1, <4>2, <4>4, CapturedIs DEF Holds
      <4> QED BY <4>3, <4>4
    <3> QED BY <3>2, <3>3, <3>4
  <2>2. ASSUME NEW v \in versions, v.file \in Files
        PROVE  /\ v.at \in Nat /\ v.rev \in Nat /\ v.at <= now /\ v.at <= entry'[v.file].at
    <3>1. v.at \in Nat /\ v.rev \in Nat /\ v.at <= entry[v.file].at
          /\ entry[v.file].at \in Nat /\ entry[v.file].at <= now /\ now \in Nat
      BY <2>2 DEF Captures, Tables
    <3>2. entry'[v.file].at = entry[v.file].at \/ entry'[v.file].at = now + 1
      BY <1>2, <1>3, <2>2
    <3> QED BY <3>1, <3>2
  <2>3. ASSUME NEW v \in versions', v.file \in Files
        PROVE  v.at \in Nat /\ v.rev \in Nat /\ v.at <= entry'[v.file].at
    BY <1>1, <2>1, <2>2, <2>3 DEF Tables
  <2>4. ASSUME NEW v \in versions', NEW w \in versions', v.file \in Files,
               w.file = v.file, w.at = v.at
        PROVE  Holds(w, v)
    <3>1. CASE v \in new /\ w \in new
      BY <2>1, <2>4, <3>1
    <3>2. CASE v \in versions /\ w \in versions
      BY <2>4, <3>2 DEF Captures
    <3>3. CASE v \in new /\ w \in versions
      <4>1. v.at = now + 1 /\ w.at <= now /\ w.at \in Nat /\ now \in Nat
        BY <2>1, <2>2, <2>4, <3>3 DEF Tables
      <4> QED BY <2>4, <4>1
    <3>4. CASE v \in versions /\ w \in new
      <4>1. w.at = now + 1 /\ v.at <= now /\ v.at \in Nat /\ now \in Nat
        BY <2>1, <2>2, <2>4, <3>4 DEF Tables
      <4> QED BY <2>4, <4>1
    <3> QED BY <1>1, <3>1, <3>2, <3>3, <3>4
  <2> QED BY <2>3, <2>4 DEF Captures, Holds
<1>10. Recorded'
  <2>1. SUFFICES ASSUME NEW f \in Files, entry'[f].deleted, <<f, entry'[f].rev>> \notin hist'.purged
                 PROVE  \E v \in versions' : TakenAway(v, f)'
    BY DEF Recorded
  <2>2. CASE f \notin changed
    <3>1. PICK v \in versions : TakenAway(v, f)
      BY <1>2, <1>4, <2>1, <2>2 DEF Recorded
    <3>2. TakenAway(v, f)'
      BY <1>2, <1>4, <2>2, <3>1 DEF TakenAway
    <3> QED BY <1>1, <3>1, <3>2
  <2>3. CASE f \in changed
    <3>1. change[f] \in ms /\ change[f].file = f /\ change[f].op = "delete"
      BY <1>3, <2>1, <2>3
    <3>2. ~entry[f].deleted
      BY <3>1
    <3> DEFINE v == [file |-> f, rev |-> entry[f].rev,
                     op |-> IF entry[f].deleted THEN "delete" ELSE "upsert",
                     content |-> entry[f].content, reason |-> "before_delete", at |-> now + 1]
    <3>3. v \in H!Captured(change[f], forced, now + 1)
      BY <3>1, DeletionIsCaptured
    <3>4. v \in versions'
      BY <1>1, <1>6, <3>1, <3>3
    <3>5. entry'[f].at = now + 1 /\ hist'.lost[f] = entry[f].content
      BY <1>3, <1>4, <2>3, <3>1
    <3>6. \E w \in versions' : /\ w.file = f /\ w.at = now + 1
                               /\ w.op = "upsert" /\ w.content = entry[f].content
      BY <3>2, <3>4
    <3> QED BY <3>5, <3>6 DEF TakenAway
  <2> QED BY <2>2, <2>3
<1> QED BY <1>7, <1>8, <1>9, <1>10

\* Where the tables are as they were, so is what they promise.
LEMMA TablesStay ==
  ASSUME Tables, Captures, Recorded, UNCHANGED <<now, entry, versions, hist>>
  PROVE  Tables' /\ Captures' /\ Recorded' /\ Grows
BY DEF Tables, Captures, Recorded, TakenAway, Grows

-----------------------------------------------------------------------------
(* The store of the device and the work.                                    *)

\* What the entries make of a store and of a job when they grow.
LEMMA LocalsStay ==
  ASSUME Tables, Locals, Grows, local' = local
  PROVE  Locals'
<1>1. ASSUME NEW f \in Files
      PROVE  /\ local[f].rev <= entry'[f].rev
             /\ local[f].rev = entry'[f].rev => local[f].deleted = entry'[f].deleted
  <2>1. /\ local[f].rev \in Nat /\ entry[f].rev \in Nat /\ local[f].rev <= entry[f].rev
        /\ local[f].rev = entry[f].rev => local[f].deleted = entry[f].deleted
    BY DEF Tables, Locals
  <2> QED BY <2>1 DEF Grows
<1> QED BY <1>1 DEF Locals

LEMMA JobStays ==
  ASSUME Tables, Grows, NEW j, JobIsSound(j, entry)
  PROVE  JobIsSound(j, entry')
<1>1. ASSUME NEW a \in Elements(j.asked), a.file \in Files
      PROVE  Asked(j.kind, a, entry')
  <2>1. Asked(j.kind, a, entry) /\ entry[a.file].rev \in Nat
    BY <1>1 DEF JobIsSound, Tables
  <2> QED BY <1>1, <2>1 DEF Asked, Grows
<1> QED BY <1>1 DEF JobIsSound

\* The store after a pull.
LEMMA PulledIs ==
  ASSUME Tables, Locals, entry' = entry, local' = H!Pulled
  PROVE  Locals'
<1>1. ASSUME NEW f \in Files
      PROVE  /\ local'[f] \in [rev : Nat, deleted : BOOLEAN, dirty : BOOLEAN]
             /\ local'[f].rev = entry[f].rev /\ local'[f].deleted = entry[f].deleted
  BY DEF H!Pulled, Tables, Locals
<1>2. local' \in [Files -> [rev : Nat, deleted : BOOLEAN, dirty : BOOLEAN]]
  BY <1>1 DEF H!Pulled
<1>3. \A f \in Files : entry[f].rev \in Nat
  BY DEF Tables
<1> QED BY <1>1, <1>2, <1>3 DEF Locals

\* The work stays, is joined by a sound job, or loses its head or has it replaced by one.
LEMMA WorkStays ==
  ASSUME Tables, Works, Grows, work' = work
  PROVE  Works'
<1>1. \A j \in Elements(work) : JobIsSound(j, entry')
  BY JobStays DEF Works
<1> QED BY <1>1 DEF Works, Elements

LEMMA WorkJoined ==
  ASSUME Tables, Works, Grows, NEW c, JobIsSound(c, entry'), work' = Append(work, c)
  PROVE  Works'
<1>1. /\ Append(work, c) \in Seq(Elements(Append(work, c)))
      /\ Elements(Append(work, c)) = Elements(work) \union {c}
  BY QueueIs DEF Works
<1>2. \A j \in Elements(Append(work, c)) : JobIsSound(j, entry')
  BY <1>1, JobStays DEF Works
<1> QED BY <1>1, <1>2 DEF Works, Elements

LEMMA WorkEnded ==
  ASSUME Tables, Works, Grows, work # <<>>, work' = Tail(work)
  PROVE  Works'
<1>1. /\ Tail(work) \in Seq(Elements(Tail(work)))
      /\ Elements(Tail(work)) \subseteq Elements(work)
  BY QueueIs DEF Works
<1>2. \A j \in Elements(Tail(work)) : JobIsSound(j, entry')
  BY <1>1, JobStays DEF Works
<1> QED BY <1>1, <1>2 DEF Works, Elements

LEMMA WorkGoesOn ==
  ASSUME Tables, Works, Grows, work # <<>>, NEW c, JobIsSound(c, entry'), H!Worked(c)
  PROVE  Works'
<1>1. /\ <<c>> \o Tail(work) \in Seq(Elements(<<c>> \o Tail(work)))
      /\ Elements(<<c>> \o Tail(work)) \subseteq Elements(work) \union {c}
  BY QueueIs DEF Works
<1>2. \A j \in Elements(<<c>> \o Tail(work)) : JobIsSound(j, entry')
  BY <1>1, JobStays DEF Works
<1>3. work' = <<c>> \o Tail(work)
  BY DEF H!Worked
<1> QED BY <1>1, <1>2, <1>3 DEF Works, Elements

LEMMA HeadIs ==
  ASSUME Works, work # <<>>
  PROVE  JobIsSound(Head(work), entry)
BY QueueIs DEF Works

\* The newest version that can be restored is one that can be, if there is any; and the
\* versions that share the date of the newest hold the same.
LEMMA LatestIs ==
  ASSUME Tables, Captures, NEW f \in Files, H!RestorableVersions(f) # {}
  PROVE  /\ H!LatestRestorable(f) \in H!RestorableVersions(f)
         /\ \A v \in H!RestorableVersions(f) : v.at <= H!LatestRestorable(f).at
<1> DEFINE R == H!RestorableVersions(f)
           ages == {entry[f].at - v.at : v \in R}
<1>1. \A v \in R : /\ v \in versions /\ v.file = f /\ v.at \in Nat /\ v.rev \in Nat
                   /\ v.at <= entry[f].at
                   /\ \A w \in R : w.at = v.at => w.rev = v.rev
  BY DEF H!RestorableVersions, H!VersionsOf, Captures, Holds
<1>2. entry[f].at \in Nat
  BY DEF Tables
<1>3. PICK a \in ages : \A b \in ages : a <= b
  <2>1. ages \subseteq Nat /\ ages # {}
    BY <1>1, <1>2
  <2> HIDE DEF ages
  <2> QED BY <2>1, NatHasLeast
<1>4. PICK v \in R : a = entry[f].at - v.at
  OBVIOUS
<1>5. \A w \in R : w.at <= v.at
  <2> TAKE w \in R
  <2>1. a <= entry[f].at - w.at
    BY <1>3
  <2> QED BY <1>1, <1>2, <1>4, <2>1
<1>6. \A w \in R : ~H!Newer(<<w.at, w.rev>>, <<v.at, v.rev>>)
  <2> TAKE w \in R
  <2>1. w.at \in Nat /\ v.at \in Nat /\ w.rev \in Nat /\ v.rev \in Nat /\ w.at <= v.at
        /\ (w.at = v.at => w.rev = v.rev)
    BY <1>1, <1>5
  <2> HIDE DEF R
  <2> QED BY <2>1 DEF H!Newer
<1>7. /\ H!LatestRestorable(f) \in R
      /\ \A w \in R : ~H!Newer(<<w.at, w.rev>>,
                               <<H!LatestRestorable(f).at, H!LatestRestorable(f).rev>>)
  BY <1>6 DEF H!LatestRestorable
<1>8. \A w \in R : w.at <= H!LatestRestorable(f).at
  <2> TAKE w \in R
  <2>1. w.at \in Nat /\ H!LatestRestorable(f).at \in Nat
    BY <1>1, <1>7
  <2>2. ~H!Newer(<<w.at, w.rev>>, <<H!LatestRestorable(f).at, H!LatestRestorable(f).rev>>)
    BY <1>7
  <2> QED BY <2>1, <2>2 DEF H!Newer
<1> QED BY <1>7, <1>8

-----------------------------------------------------------------------------
(* Steps of other devices, of the sync of this one, and of the screens.     *)

LEMMA OtherEditsKeeps ==
  ASSUME HistoryInv, NEW f \in Files, H!OtherEdits(f)
  PROVE  HistoryInv'
<1>1. H!Commit({H!Upsert(f, entry[f].rev + 1)}, "auto") /\ local' = local /\ work' = work
  BY DEF H!OtherEdits, H!Screen
<1>2. Tables' /\ Captures' /\ Recorded' /\ Grows
  BY <1>1, CommitKeeps DEF HistoryInv, H!Upsert
<1> QED BY <1>1, <1>2, LocalsStay, WorkStays DEF HistoryInv

LEMMA OtherDeletesKeeps ==
  ASSUME HistoryInv, NEW fs \in SUBSET Files, H!OtherDeletes(fs)
  PROVE  HistoryInv'
<1> DEFINE ms == {H!Delete(f) : f \in fs}
<1>1. /\ H!Commit(ms, "auto") /\ local' = local /\ work' = work
      /\ \A f \in fs : ~entry[f].deleted
  BY DEF H!OtherDeletes, H!Screen
<1>2. /\ \A m \in ms : ~entry[m.file].deleted
      /\ \A m, n \in ms : m.file = n.file => m = n
  BY <1>1 DEF H!Delete
<1> HIDE DEF ms
<1>3. Tables' /\ Captures' /\ Recorded' /\ Grows
  BY <1>1, <1>2, CommitKeeps DEF HistoryInv
<1> QED BY <1>1, <1>3, LocalsStay, WorkStays DEF HistoryInv

LEMMA OtherRestoresKeeps ==
  ASSUME HistoryInv, NEW f \in Files, H!OtherRestores(f)
  PROVE  HistoryInv'
<1> DEFINE m == H!Upsert(f, H!LatestRestorable(f).content)
<1>1. H!Commit({m}, "before_restore") /\ local' = local /\ work' = work
  BY DEF H!OtherRestores, H!Screen
<1>2. m.op # "delete"
  BY DEF H!Upsert
<1> HIDE DEF m
<1>3. Tables' /\ Captures' /\ Recorded' /\ Grows
  BY <1>1, <1>2, CommitKeeps DEF HistoryInv
<1> QED BY <1>1, <1>3, LocalsStay, WorkStays DEF HistoryInv

LEMMA PullsAllKeeps ==
  ASSUME HistoryInv, H!PullsAll
  PROVE  HistoryInv'
<1>1. UNCHANGED <<now, entry, versions, hist>> /\ local' = H!Pulled /\ work' = work
  BY DEF H!PullsAll, H!Screen, H!server
<1> QED BY <1>1, TablesStay, PulledIs, WorkStays DEF HistoryInv

LEMMA LocalEditKeeps ==
  ASSUME HistoryInv, H!LocalEdit
  PROVE  HistoryInv'
<1>1. /\ UNCHANGED <<now, entry, versions, hist>> /\ work' = work
      /\ local' = [local EXCEPT ![active].dirty = TRUE]
  BY DEF H!LocalEdit, H!Screen, H!server
<1>2. Locals'
  BY <1>1 DEF HistoryInv, Locals
<1> QED BY <1>1, <1>2, TablesStay, WorkStays DEF HistoryInv

LEMMA LocalPushKeeps ==
  ASSUME HistoryInv, NEW f \in Files, H!LocalPush(f)
  PROVE  HistoryInv'
<1>1. /\ H!Commit({H!Upsert(f, entry[f].rev + 1)}, "auto") /\ work' = work
      /\ local' = [local EXCEPT ![f] = [rev |-> entry[f].rev + 1, deleted |-> FALSE,
                                        dirty |-> FALSE]]
  BY DEF H!LocalPush, H!Screen
<1>2. Tables' /\ Captures' /\ Recorded' /\ Grows
  BY <1>1, CommitKeeps DEF HistoryInv, H!Upsert
<1>3. entry'[f].rev = entry[f].rev + 1 /\ entry'[f].deleted = FALSE
  <2> DEFINE m == H!Upsert(f, entry[f].rev + 1)
             gone == (CHOOSE n \in {m} : n.file = f).op = "delete"
  <2>1. m.file = f /\ m.op = "upsert"
    BY DEF H!Upsert
  <2>2. (CHOOSE n \in {m} : n.file = f) = m
    BY <2>1
  <2>3. gone = FALSE
    BY <2>1, <2>2
  <2>4. /\ entry'[f].rev = entry[f].rev + 1
        /\ entry'[f].deleted = gone
    <3> HIDE DEF m
    <3>1. H!Commit({m}, "auto")
      BY <1>1 DEF m
    <3>2. \E content : entry'[f] = [rev |-> entry[f].rev + 1, deleted |-> gone, at |-> now + 1,
                                    content |-> content]
      BY <2>1, <3>1 DEF H!Commit
    <3>3. gone \in BOOLEAN
      OBVIOUS
    <3> HIDE DEF gone
    <3> QED BY <3>2, <3>3
  <2> HIDE DEF gone
  <2> QED BY <2>3, <2>4
<1>4. Locals'
  <2>1. ASSUME NEW g \in Files
        PROVE  /\ local'[g].rev <= entry'[g].rev
               /\ local'[g].rev = entry'[g].rev => local'[g].deleted = entry'[g].deleted
    <3>1. CASE g = f
      <4>1. local'[f] = [rev |-> entry[f].rev + 1, deleted |-> FALSE, dirty |-> FALSE]
        BY <1>1 DEF HistoryInv, Locals
      <4>2. entry[f].rev \in Nat
        BY DEF HistoryInv, Tables
      <4>3. local'[f].rev = entry[f].rev + 1 /\ local'[f].deleted = FALSE
        BY <4>1
      <4>4. entry[f].rev + 1 <= entry[f].rev + 1
        BY <4>2
      <4>5. local'[f].rev <= entry'[f].rev
        BY <1>3, <4>3, <4>4
      <4>6. local'[f].deleted = entry'[f].deleted
        BY <1>3, <4>3
      <4> QED BY <3>1, <4>5, <4>6
    <3>2. CASE g # f
      <4>1. local'[g] = local[g]
        BY <1>1, <3>2 DEF HistoryInv, Locals
      <4>2. /\ local[g].rev \in Nat /\ entry[g].rev \in Nat /\ local[g].rev <= entry[g].rev
            /\ local[g].rev = entry[g].rev => local[g].deleted = entry[g].deleted
        BY DEF HistoryInv, Tables, Locals
      <4> QED BY <1>2, <4>1, <4>2 DEF Grows
    <3> QED BY <3>1, <3>2
  <2>2. local' \in [Files -> [rev : Nat, deleted : BOOLEAN, dirty : BOOLEAN]]
    BY <1>1 DEF HistoryInv, Locals, Tables
  <2> QED BY <2>1, <2>2 DEF Locals
<1> QED BY <1>1, <1>2, <1>4, WorkStays DEF HistoryInv

\* What only a screen notices.
LEMMA ScreenKeeps ==
  ASSUME HistoryInv, UNCHANGED <<now, entry, versions, hist, local, work>>
  PROVE  HistoryInv'
BY TablesStay, LocalsStay, WorkStays DEF HistoryInv

-----------------------------------------------------------------------------
(* Steps of restores and purges.                                            *)

\* A job that has asked nothing promises nothing, but that its version is of a file.
LEMMA NewJobIsSound ==
  ASSUME NEW c, Shaped(c), c.asked = <<>>, c.stage # "checked",
         c.kind = "version" => c.file \in Files
  PROVE  JobIsSound(c, entry')
BY DEF JobIsSound, Elements

LEMMA PaneRestoreKeeps ==
  ASSUME HistoryInv, NEW v, H!PaneRestore(v)
  PROVE  HistoryInv'
<1> DEFINE c == [H!Job EXCEPT !.kind = "version", !.file = active, !.version = v]
<1>1. UNCHANGED <<now, entry, versions, hist, local>> /\ work' = Append(work, c)
  BY DEF H!PaneRestore, H!server
<1>2. Shaped(c) /\ c.asked = <<>> /\ c.stage # "checked" /\ (c.kind = "version" => c.file \in Files)
  BY DEF H!PaneRestore, H!Job, Shaped
<1> HIDE DEF c
<1>3. JobIsSound(c, entry')
  BY <1>2, NewJobIsSound
<1> QED BY <1>1, <1>3, TablesStay, LocalsStay, WorkJoined DEF HistoryInv

LEMMA RestoreSelectedKeeps ==
  ASSUME HistoryInv, H!RestoreSelected
  PROVE  HistoryInv'
<1> DEFINE c == [H!Job EXCEPT !.kind = "files", !.files = H!Chosen]
<1>1. UNCHANGED <<now, entry, versions, hist, local>> /\ work' = Append(work, c)
  BY DEF H!RestoreSelected, H!server
<1>2. Shaped(c) /\ c.asked = <<>> /\ c.stage # "checked" /\ (c.kind = "version" => c.file \in Files)
  BY DEF H!Job, Shaped
<1> HIDE DEF c
<1>3. JobIsSound(c, entry')
  BY <1>2, NewJobIsSound
<1> QED BY <1>1, <1>3, TablesStay, LocalsStay, WorkJoined DEF HistoryInv

\* The restore of a version asks only for a file that this device has: if its base is
\* still the revision of the entry, the file is there.
LEMMA VersionWorkKeeps ==
  ASSUME HistoryInv, H!VersionWork
  PROVE  HistoryInv'
<1> DEFINE job == Head(work)
           mine == local[job.file]
           a == [file |-> job.file, version |-> job.version, base |-> mine.rev]
           c == [job EXCEPT !.stage = "sent", !.asked = <<a>>]
<1>1. /\ UNCHANGED <<now, entry, versions, hist, local>> /\ work # <<>>
      /\ job.kind = "version"
      /\ work' = Tail(work) \/ (~mine.deleted /\ H!Worked(c))
  BY DEF H!VersionWork, H!Working, H!WorkEnds, H!server
<1>2. JobIsSound(job, entry)
  BY <1>1, HeadIs DEF HistoryInv
<1>3. ASSUME ~mine.deleted
      PROVE  JobIsSound(c, entry')
  <2>1. job.file \in Files /\ entry' = entry
    BY <1>1, <1>2 DEF JobIsSound
  <2>2. /\ Shaped(c) /\ c.asked = <<a>> /\ c.stage = "sent" /\ c.kind = job.kind
        /\ c.file = job.file
    BY <1>2 DEF JobIsSound, Shaped
  <2>3. Elements(<<a>>) = {a} /\ <<a>> \in Seq({a})
    BY DEF Elements
  <2>4. Asked("version", a, entry)
    BY <1>3, <2>1 DEF Asked, HistoryInv, Locals
  <2> HIDE DEF c, a
  <2> QED BY <1>1, <2>1, <2>2, <2>3, <2>4 DEF JobIsSound
<1> HIDE DEF c, mine, job
<1>4. Tables' /\ Captures' /\ Recorded' /\ Grows /\ Locals'
  BY <1>1, TablesStay, LocalsStay DEF HistoryInv
<1>5. Works'
  BY <1>1, <1>3, <1>4, WorkEnded, WorkGoesOn DEF HistoryInv
<1> QED BY <1>4, <1>5 DEF HistoryInv

\* The restore of deleted files asks only for versions with a content.
LEMMA ScanFileKeeps ==
  ASSUME HistoryInv, H!ScanFile
  PROVE  HistoryInv'
<1> DEFINE job == Head(work)
           d == job.files[job.scanned + 1]
           next == [job EXCEPT !.scanned = @ + 1,
                      !.stage = IF job.scanned + 1 = Len(job.files) THEN "sent" ELSE "queued"]
           a == [file |-> d.file, version |-> H!LatestRestorable(d.file), base |-> d.rev]
           failing == [next EXCEPT !.failed = @ \union {d.file}]
           asking == [next EXCEPT !.asked = Append(@, a)]
<1>1. /\ UNCHANGED <<now, entry, versions, hist, local>> /\ work # <<>>
      /\ job.kind = "files"
      /\ \/ H!Worked(failing)
         \/ H!RestorableVersions(d.file) # {} /\ H!Worked(asking)
  BY DEF H!ScanFile, H!Working, H!server
<1>2. JobIsSound(job, entry)
  BY <1>1, HeadIs DEF HistoryInv
<1>3. /\ Shaped(failing) /\ failing.asked = job.asked /\ failing.kind = job.kind
      /\ failing.stage # "checked"
  BY <1>2 DEF JobIsSound, Shaped
<1>4. /\ Shaped(asking) /\ asking.asked = Append(job.asked, a) /\ asking.kind = job.kind
      /\ asking.stage # "checked"
  BY <1>2 DEF JobIsSound, Shaped
<1>5. JobIsSound(failing, entry')
  <2> HIDE DEF failing, job
  <2> QED BY <1>1, <1>2, <1>3 DEF JobIsSound
<1>6. ASSUME H!RestorableVersions(d.file) # {}
      PROVE  JobIsSound(asking, entry')
  <2>1. ASSUME a.file \in Files
        PROVE  a.version.op = "upsert"
    <3>1. H!LatestRestorable(d.file) \in H!RestorableVersions(d.file)
      BY <1>6, <2>1, LatestIs DEF HistoryInv
    <3> QED BY <3>1 DEF H!RestorableVersions
  <2> HIDE DEF asking, job, a
  <2>2. /\ Append(job.asked, a) \in Seq(Elements(Append(job.asked, a)))
        /\ Elements(Append(job.asked, a)) = Elements(job.asked) \union {a}
    BY <1>2, QueueIs DEF JobIsSound
  <2> QED BY <1>1, <1>2, <1>4, <2>1, <2>2 DEF JobIsSound, Asked
<1> HIDE DEF job, d, failing, asking
<1>7. Tables' /\ Captures' /\ Recorded' /\ Grows /\ Locals'
  BY <1>1, TablesStay, LocalsStay DEF HistoryInv
<1>8. Works'
  BY <1>1, <1>5, <1>6, <1>7, WorkGoesOn DEF HistoryInv
<1> QED BY <1>7, <1>8 DEF HistoryInv

LEMMA ChecksKeeps ==
  ASSUME HistoryInv, H!Checks
  PROVE  HistoryInv'
<1> DEFINE job == Head(work)
           may == [i \in DOMAIN job.asked |-> H!MayRestore(job.asked[i])]
           passing == {i \in DOMAIN may : may[i]}
           results == [i \in DOMAIN job.asked |-> IF may[i] THEN "pending" ELSE "rejected"]
           c == [job EXCEPT !.stage = "checked", !.results = results,
                            !.indexes = H!Ascending(passing)]
<1>1. UNCHANGED <<now, entry, versions, hist, local>> /\ work # <<>> /\ H!Worked(c)
  BY DEF H!Checks, H!Working, H!server
<1>2. JobIsSound(job, entry)
  BY <1>1, HeadIs DEF HistoryInv
<1>3. \A k \in DOMAIN H!Ascending(passing) : H!Ascending(passing)[k] \in DOMAIN job.asked
  <2>1. passing \subseteq DOMAIN job.asked
    OBVIOUS
  <2> HIDE DEF passing
  <2> QED BY <2>1, AscendingIs
<1>4. /\ Shaped(c) /\ c.asked = job.asked /\ c.kind = job.kind /\ c.file = job.file
      /\ c.indexes = H!Ascending(passing)
  <2> HIDE DEF passing, results
  <2> QED BY <1>2 DEF JobIsSound, Shaped
<1> HIDE DEF job, c, passing
<1>5. JobIsSound(c, entry')
  BY <1>1, <1>2, <1>3, <1>4 DEF JobIsSound
<1> QED BY <1>1, <1>5, TablesStay, LocalsStay, WorkGoesOn DEF HistoryInv

\* A restore deletes nothing: one of a deleted file brings a content, and one of a version
\* finds its file there, or another revision than its base.
LEMMA CommitsKeeps ==
  ASSUME HistoryInv, NEW missing, H!Commits(missing)
  PROVE  HistoryInv'
<1> DEFINE job == Head(work)
           asks(k) == job.asked[job.indexes[k]]
           accepted(k) == entry[asks(k).file].rev = asks(k).base /\ asks(k).file \notin missing
           taken == {k \in DOMAIN job.indexes : accepted(k)}
           outcomes == [k \in DOMAIN job.indexes |-> IF accepted(k) THEN "accepted" ELSE "rejected"]
           ms == {[file |-> asks(k).file, op |-> asks(k).version.op,
                   content |-> asks(k).version.content] : k \in taken}
           results == H!Put(job, outcomes)
           done == {asks(k).file : k \in taken}
           c == [job EXCEPT !.stage = "answered", !.results = results, !.done = done]
<1>1. /\ local' = local /\ work # <<>> /\ job.stage = "checked" /\ H!Worked(c)
      /\ \/ UNCHANGED <<now, entry, versions, hist>>
         \/ H!Commit(ms, "before_restore")
  BY DEF H!Commits, H!Working, H!server
<1>2. JobIsSound(job, entry)
  BY <1>1, HeadIs DEF HistoryInv
<1>3. ASSUME NEW m \in ms, m.file \in Files, m.op = "delete"
      PROVE  ~entry[m.file].deleted
  <2>1. PICK k \in taken : m = [file |-> asks(k).file, op |-> asks(k).version.op,
                                content |-> asks(k).version.content]
    BY <1>3
  <2>2. job.indexes[k] \in DOMAIN job.asked
    BY <1>1, <1>2 DEF JobIsSound
  <2>3. asks(k) \in Elements(job.asked)
    BY <2>2 DEF Elements
  <2>4. asks(k).file \in Files /\ asks(k).version.op = "delete" /\ m.file = asks(k).file
    BY <1>3, <2>1
  <2>5. Asked(job.kind, asks(k), entry)
    BY <1>2, <2>3, <2>4 DEF JobIsSound
  <2>6. entry[asks(k).file].rev = asks(k).base
    OBVIOUS
  <2> QED BY <2>4, <2>5, <2>6 DEF Asked
<1>4. /\ Shaped(c) /\ c.asked = job.asked /\ c.kind = job.kind /\ c.file = job.file
      /\ c.stage = "answered"
  <2> HIDE DEF results, done
  <2> QED BY <1>2 DEF JobIsSound, Shaped
<1> HIDE DEF job, c, ms
<1>5. Tables' /\ Captures' /\ Recorded' /\ Grows
  BY <1>1, <1>3, TablesStay, CommitKeeps DEF HistoryInv
<1>6. Locals'
  BY <1>1, <1>5, LocalsStay DEF HistoryInv
<1>7. JobIsSound(c, entry')
  <2>1. JobIsSound(job, entry')
    BY <1>2, <1>5, JobStays DEF HistoryInv
  <2> QED BY <1>4, <2>1 DEF JobIsSound
<1>8. Works'
  BY <1>1, <1>5, <1>7, WorkGoesOn DEF HistoryInv
<1> QED BY <1>5, <1>6, <1>8 DEF HistoryInv

LEMMA VersionRestoredKeeps ==
  ASSUME HistoryInv, H!VersionRestored
  PROVE  HistoryInv'
<1>1. /\ UNCHANGED <<now, entry, versions, hist>> /\ work # <<>> /\ work' = Tail(work)
      /\ local' = H!Pulled \/ local' = local
  BY DEF H!VersionRestored, H!Working, H!WorkEnds, H!server
<1>2. Tables' /\ Captures' /\ Recorded' /\ Grows
  BY <1>1, TablesStay DEF HistoryInv
<1> QED BY <1>1, <1>2, PulledIs, LocalsStay, WorkEnded DEF HistoryInv

LEMMA FilesRestoredKeeps ==
  ASSUME HistoryInv, H!FilesRestored
  PROVE  HistoryInv'
<1>1. /\ UNCHANGED <<now, entry, versions>> /\ work # <<>> /\ work' = Tail(work)
      /\ local' = H!Pulled \/ local' = local
      /\ \E true : hist' = [hist EXCEPT !.true = true]
  BY DEF H!FilesRestored
<1>2. /\ hist' = [lost |-> hist'.lost, purged |-> hist'.purged, true |-> hist'.true]
      /\ hist'.lost = hist.lost /\ hist'.purged = hist.purged
  BY <1>1 DEF HistoryInv, Tables
<1>3. Tables' /\ Captures' /\ Recorded' /\ Grows
  BY <1>1, <1>2 DEF HistoryInv, Tables, Captures, Recorded, TakenAway, Grows
<1> QED BY <1>1, <1>3, PulledIs, LocalsStay, WorkEnded DEF HistoryInv

LEMMA WorkFailsKeeps ==
  ASSUME HistoryInv, H!WorkFails
  PROVE  HistoryInv'
<1>1. /\ UNCHANGED <<now, entry, versions, hist, local>> /\ work # <<>> /\ work' = Tail(work)
  BY DEF H!WorkFails, H!Working, H!WorkEnds, H!server
<1>2. Tables' /\ Captures' /\ Recorded' /\ Grows
  BY <1>1, TablesStay DEF HistoryInv
<1> QED BY <1>1, <1>2, LocalsStay, WorkEnded DEF HistoryInv

\* What is purged is recorded with the revision that its entry has.
LEMMA PurgesKeeps ==
  ASSUME HistoryInv, H!Purges
  PROVE  HistoryInv'
<1> DEFINE gone == {d.file : d \in {e \in H!ToSet(dialog.sent) : H!MayPurge(e)}}
           purged == {<<d.file, d.rev>> : d \in {e \in H!ToSet(dialog.sent) : H!MayPurge(e)}}
<1>1. /\ UNCHANGED <<now, entry, local, work>>
      /\ versions' = {v \in versions : v.file \notin gone}
      /\ hist' = [hist EXCEPT !.purged = @ \union purged]
  BY DEF H!Purges
<1>2. \A f \in gone : <<f, entry[f].rev>> \in purged
  BY DEF H!MayPurge
<1> HIDE DEF gone, purged
<1>3. /\ hist' = [lost |-> hist'.lost, purged |-> hist'.purged, true |-> hist'.true]
      /\ hist'.lost = hist.lost /\ hist'.purged = hist.purged \union purged
  BY <1>1 DEF HistoryInv, Tables
<1>4. Tables' /\ Grows
  BY <1>1, <1>3 DEF HistoryInv, Tables, Grows
<1>5. Captures'
  BY <1>1 DEF HistoryInv, Captures
<1>6. Recorded'
  <2>1. SUFFICES ASSUME NEW f \in Files, entry[f].deleted, <<f, entry[f].rev>> \notin hist'.purged
                 PROVE  \E v \in versions' : TakenAway(v, f)'
    BY <1>1 DEF Recorded
  <2>2. f \notin gone /\ <<f, entry[f].rev>> \notin hist.purged
    BY <1>2, <1>3, <2>1
  <2>3. PICK v \in versions : TakenAway(v, f)
    BY <2>1, <2>2 DEF HistoryInv, Recorded
  <2>4. v \in versions' /\ TakenAway(v, f)'
    BY <1>1, <1>3, <2>2, <2>3 DEF TakenAway
  <2> QED BY <2>4
<1> QED BY <1>1, <1>4, <1>5, <1>6, LocalsStay, WorkStays DEF HistoryInv

-----------------------------------------------------------------------------
(* All steps together.                                                      *)

LEMMA HistoryStarts == ASSUME H!Init PROVE HistoryInv
<1>1. /\ now = 1 /\ versions = {} /\ work = <<>>
      /\ entry = [f \in Files |-> [rev |-> 1, deleted |-> FALSE, at |-> 1, content |-> 1]]
      /\ local = [f \in Files |-> [rev |-> 1, deleted |-> FALSE, dirty |-> FALSE]]
      /\ hist = [lost |-> [f \in Files |-> 0], purged |-> {}, true |-> TRUE]
  BY DEF H!Init
<1>2. hist = [lost |-> hist.lost, purged |-> hist.purged, true |-> hist.true]
  BY <1>1
<1>3. \A f \in Files : /\ entry[f].rev = 1 /\ entry[f].deleted = FALSE /\ entry[f].at = 1
                       /\ local[f] = [rev |-> 1, deleted |-> FALSE, dirty |-> FALSE]
  BY <1>1
<1>4. Works
  BY <1>1 DEF Works, Elements
<1>5. Locals
  <2>1. local \in [Files -> [rev : Nat, deleted : BOOLEAN, dirty : BOOLEAN]]
    BY <1>1
  <2>2. \A f \in Files : local[f].rev = 1 /\ local[f].deleted = FALSE
    BY <1>3
  <2>3. \A f \in Files : local[f].rev <= entry[f].rev /\ local[f].deleted = entry[f].deleted
    <3>1. \A f \in Files : local[f].rev = entry[f].rev /\ local[f].deleted = entry[f].deleted
      BY <1>3, <2>2, Zenon
    <3>2. \A f \in Files : local[f].rev \in Nat
      BY <2>1
    <3> QED BY <3>1, <3>2
  <2> QED BY <2>1, <2>3 DEF Locals
<1>6. \A f \in Files : /\ entry[f].rev \in Nat /\ entry[f].deleted \in BOOLEAN
                       /\ entry[f].at \in Nat /\ entry[f].at <= now /\ ~entry[f].deleted
  <2>1. \A f \in Files : ~entry[f].deleted /\ entry[f].deleted \in BOOLEAN
    BY <1>3, Zenon
  <2>2. \A f \in Files : entry[f].rev = 1 /\ entry[f].at = 1
    BY <1>3, Zenon
  <2> QED BY <1>1, <2>1, <2>2
<1>7. Tables
  BY <1>1, <1>2, <1>6 DEF Tables
<1>8. Captures /\ Recorded
  BY <1>1, <1>6 DEF Captures, Recorded
<1> QED BY <1>4, <1>5, <1>7, <1>8 DEF HistoryInv

LEMMA ScreensKeep ==
  ASSUME HistoryInv,
         \/ \E f \in Files \union {H!NoFile, H!Excluded} : H!FileOpens(f)
         \/ H!PaneRefresh \/ H!LoadMore \/ H!PageArrives \/ H!PageFails
         \/ H!DialogOpens \/ H!DialogCloses \/ H!DialogLoadsMore
         \/ H!DialogLists \/ H!DialogListFails
         \/ \E f \in Files : H!Choose(f) \/ H!Preview(f)
         \/ H!ChooseAll \/ H!PurgeSelected \/ H!PurgeFails \/ H!PreviewEnds
  PROVE  HistoryInv'
<1>1. UNCHANGED <<now, entry, versions, hist, local, work>>
  BY DEF H!FileOpens, H!PaneRefresh, H!LoadMore, H!PageArrives, H!PageFails, H!DialogOpens,
         H!DialogCloses, H!DialogLoadsMore, H!DialogLists, H!DialogListFails, H!Choose, H!Preview,
         H!ChooseAll, H!PurgeSelected, H!PurgeFails, H!PreviewEnds, H!server
<1> QED BY <1>1, ScreenKeeps

LEMMA HistoryKeeps == ASSUME HistoryInv, [H!Next]_(H!vars) PROVE HistoryInv'
<1>1. CASE UNCHANGED H!vars
  <2>1. UNCHANGED <<now, entry, versions, hist, local, work>>
    BY <1>1 DEF H!vars
  <2> QED BY <2>1, ScreenKeeps
<1>2. CASE \/ \E f \in Files : H!OtherEdits(f) \/ H!OtherRestores(f) \/ H!LocalPush(f)
           \/ \E fs \in SUBSET Files : H!OtherDeletes(fs)
           \/ H!PullsAll \/ H!LocalEdit
  BY <1>2, OtherEditsKeeps, OtherRestoresKeeps, LocalPushKeeps, OtherDeletesKeeps, PullsAllKeeps,
     LocalEditKeeps
<1>3. CASE \/ \E v \in H!ToSet(pane.rows) : H!PaneRestore(v)
           \/ H!VersionWork \/ H!ScanFile \/ H!Checks \/ H!VersionRestored \/ H!FilesRestored
           \/ H!WorkFails
           \/ \E missing \in SUBSET Files : H!Commits(missing)
           \/ H!RestoreSelected \/ H!Purges
  BY <1>3, PaneRestoreKeeps, VersionWorkKeeps, ScanFileKeeps, ChecksKeeps, VersionRestoredKeeps,
     FilesRestoredKeeps, WorkFailsKeeps, CommitsKeeps, RestoreSelectedKeeps, PurgesKeeps
<1> QED BY <1>1, <1>2, <1>3, ScreensKeep DEF H!Next

\* A behaviour of the run is one of the history, as it is one of the plugin.
LEMMA RunIsHistory == MCSpec => H!Spec
<1>1. MCInit => H!Init
  BY DEF MCInit
<1>2. [MCNext]_mcvars => [H!Next]_(H!vars)
  <2>1. ASSUME UNCHANGED historyVars PROVE UNCHANGED H!vars
    BY <2>1 DEF historyVars, H!vars
  <2>2. UNCHANGED mcvars => UNCHANGED historyVars
    BY DEF mcvars, historyVars
  <2> QED BY <2>1, <2>2 DEF MCNext
<1> QED BY <1>1, <1>2, PTL DEF MCSpec, H!Spec

\* Whatever is edited, deleted, restored or purged meanwhile, from this device or another,
\* and however old the list is that the user picked from: as long as a deletion is within
\* the retention and has not itself been purged, its file can be restored as it was.
THEOREM DeletedStaysRestorable == MCSpec => []DeletedIsRestorable
<1>1. H!Spec => []HistoryInv
  <2>1. H!Init => HistoryInv
    BY HistoryStarts
  <2>2. HistoryInv /\ [H!Next]_(H!vars) => HistoryInv'
    BY HistoryKeeps
  <2> QED BY <2>1, <2>2, PTL DEF H!Spec
<1>2. HistoryInv => DeletedIsRestorable
  <2>1. SUFFICES ASSUME HistoryInv, NEW f \in Files, entry[f].deleted,
                        entry[f].at >= now - Retention, <<f, entry[f].rev>> \notin hist.purged
                 PROVE  /\ H!RestorableVersions(f) # {}
                        /\ H!LatestRestorable(f).content = hist.lost[f]
    BY DEF DeletedIsRestorable, H!DeletedIsRestorable
  <2>2. PICK v \in versions : TakenAway(v, f)
    BY <2>1 DEF HistoryInv, Recorded
  <2>3. v \in H!RestorableVersions(f)
    BY <2>1, <2>2 DEF TakenAway, H!RestorableVersions, H!VersionsOf, H!Retained
  <2> DEFINE w == H!LatestRestorable(f)
  <2>4. w \in H!RestorableVersions(f) /\ v.at <= w.at
    BY <2>1, <2>3, LatestIs DEF HistoryInv
  <2>5. w \in versions /\ w.file = f
    BY <2>4 DEF H!RestorableVersions, H!VersionsOf
  <2>6. w.at \in Nat /\ v.at \in Nat /\ w.at <= v.at
    BY <2>1, <2>2, <2>5 DEF TakenAway, HistoryInv, Captures, Tables
  <2>7. w.at = v.at
    BY <2>4, <2>6
  <2>8. w.content = v.content
    BY <2>1, <2>2, <2>5, <2>7 DEF TakenAway, HistoryInv, Captures, Holds
  <2> QED BY <2>2, <2>3, <2>8 DEF TakenAway
<1> QED BY <1>1, <1>2, RunIsHistory, PTL
=============================================================================
