--------------------------- MODULE AutoSyncProofs ---------------------------
(***************************************************************************)
(* What is proved of AutoSync for every value of its constants: the types, *)
(* and that an active loop forgets nothing.                                *)
(***************************************************************************)
EXTENDS AutoSync, TLAPS

-----------------------------------------------------------------------------
(* What the functions of the loop's fields give. *)

LoopFields == [state : States, session : BOOLEAN, push : BOOLEAN, pull : BOOLEAN,
           timers : SUBSET Timers, holds : BOOLEAN, shown : Statuses]
Conns == [pc : {"idle", "token", "hello", "ready"}, ahead : BOOLEAN]
ConnsDone == [pc : {"idle", "token", "hello", "ready", "done"}, ahead : BOOLEAN]
DrainFields == [pc : {"idle", "session", "pull", "push", "pullAfter"},
            push : BOOLEAN, pull : BOOLEAN, hold : BOOLEAN, open : BOOLEAN,
            late : BOOLEAN, missed : BOOLEAN, stuck : BOOLEAN]

\* A loop that is stopped has neither a timer nor a session, and a push is held
\* only while its retry timer is armed.
Sound(l) ==
  /\ l \in LoopFields
  /\ ~Active(l) => l.timers = {} /\ ~l.session
  /\ l.holds => "syncRetry" \in l.timers

\* What a step takes from the loop and the queue is still there afterwards.
Same(l, m) ==
  /\ m.session = l.session /\ m.push = l.push /\ m.pull = l.pull
  /\ m.timers = l.timers /\ m.holds = l.holds
  /\ Active(m) = Active(l)

\* Asking for a session changes nothing but what the loop shows of itself.
LEMMA ConnectingKeeps ==
  ASSUME NEW l, Sound(l), NEW c \in ConnsDone
  PROVE  /\ Sound(Connecting(l, c)) /\ Same(l, Connecting(l, c))
         /\ Connecting(l, c).state \in {l.state, "connecting"}
BY DEF Sound, Same, Connecting, Needed, Goes, Active, LoopFields, States, Statuses

\* An attempt is under way when one is needed, and only then does one begin.
LEMMA AttemptStarts ==
  ASSUME NEW l, Sound(l), NEW c \in ConnsDone
  PROVE  /\ Attempt(l, c) \in Conns
         /\ Active(l) /\ ~l.session /\ c.pc = "idle" => Attempt(l, c).pc = "token"
         /\ c.pc \in {"token", "hello", "ready"} => Attempt(l, c) = c
         /\ l.session /\ c.pc = "idle" => Attempt(l, c) = c
         /\ ~Active(l) /\ c.pc = "idle" => Attempt(l, c) = c
         /\ Attempt(l, c).pc \in {"token", "hello"} => ~l.session \/ Attempt(l, c) = c
BY DEF Attempt, Needed, Ended, NoConn, Conns, ConnsDone, Active, Sound, LoopFields

\* scheduleSyncRetry leaves an active loop with its retry timer, and a stopped one as
\* it was.
LEMMA RetryLaterKeeps ==
  ASSUME NEW l, Sound(l), NEW h \in BOOLEAN
  PROVE  /\ Sound(RetryLater(l, h))
         /\ RetryLater(l, h).session = l.session
         /\ RetryLater(l, h).push = l.push /\ RetryLater(l, h).pull = l.pull
         /\ Active(RetryLater(l, h)) = Active(l)
         /\ l.timers \subseteq RetryLater(l, h).timers
         /\ RetryLater(l, h).timers \subseteq l.timers \union {"syncRetry"}
         /\ Active(l) => "syncRetry" \in RetryLater(l, h).timers
<1> DEFINE held == [l EXCEPT !.holds = @ \/ h]
           m == RetryLater(l, h)
<1>1. CASE ~Active(l)
  BY <1>1 DEF RetryLater
<1>2. CASE Active(l) /\ "syncRetry" \in l.timers
  <2>1. m = held
    BY <1>2 DEF RetryLater
  <2> QED BY <1>2, <2>1 DEF Sound, LoopFields, Active
<1>3. CASE Active(l) /\ "syncRetry" \notin l.timers
  <2>1. m = [held EXCEPT !.state = "retry_wait", !.timers = @ \union {"syncRetry"}]
    BY <1>3 DEF RetryLater
  <2>2. /\ held \in LoopFields /\ held.session = l.session /\ held.timers = l.timers
        /\ held.push = l.push /\ held.pull = l.pull
    BY DEF Sound, LoopFields
  <2>3. "syncRetry" \in Timers /\ "retry_wait" \in States
    BY DEF Timers, States
  <2> HIDE DEF held
  <2>4. /\ m \in LoopFields /\ m.state = "retry_wait"
        /\ m.session = held.session /\ m.push = held.push /\ m.pull = held.pull
        /\ m.timers = held.timers \union {"syncRetry"}
    BY <2>1, <2>2, <2>3 DEF LoopFields
  <2> QED BY <1>3, <2>2, <2>4 DEF Sound, Active
<1> QED BY <1>1, <1>2, <1>3

\* scheduleReconnect leaves an active loop with its reconnect timer.
LEMMA ReconnectLaterKeeps ==
  ASSUME NEW l, Sound(l)
  PROVE  /\ Sound(ReconnectLater(l))
         /\ ReconnectLater(l).session = l.session
         /\ ReconnectLater(l).push = l.push /\ ReconnectLater(l).pull = l.pull
         /\ ReconnectLater(l).holds = l.holds
         /\ Active(ReconnectLater(l)) = Active(l)
         /\ ReconnectLater(l).state \in {l.state, "reconnect_wait"}
         /\ ReconnectLater(l).timers = IF Active(l) THEN l.timers \union {"reconnect"}
                                       ELSE l.timers
<1>1. CASE ~Active(l) \/ "reconnect" \in l.timers
  BY <1>1 DEF ReconnectLater, Sound
<1>2. CASE Active(l) /\ "reconnect" \notin l.timers
  <2> DEFINE g == Goes(l, "reconnect_wait")
  <2>1. ReconnectLater(l) = [g EXCEPT !.timers = @ \union {"reconnect"}]
    BY <1>2 DEF ReconnectLater
  <2>2. /\ g \in LoopFields /\ Same(l, g) /\ g.state = "reconnect_wait"
    BY <1>2 DEF Goes, Sound, Same, Active, LoopFields, States, Statuses
  <2> HIDE DEF g
  <2> QED BY <1>2, <2>1, <2>2 DEF Sound, Same, Active, LoopFields, Timers
<1> QED BY <1>1, <1>2

\* A retry that is off holds nothing back.
LEMMA ResetRetryKeeps ==
  ASSUME NEW l, Sound(l)
  PROVE  /\ Sound(ResetRetry(l))
         /\ ResetRetry(l).session = l.session /\ ResetRetry(l).state = l.state
         /\ ResetRetry(l).push = l.push /\ ResetRetry(l).pull = l.pull
         /\ Active(ResetRetry(l)) = Active(l)
         /\ ~ResetRetry(l).holds
         /\ ResetRetry(l).timers = l.timers \ {"syncRetry"}
BY DEF ResetRetry, Sound, Active, LoopFields

\* The end of a drain may call the loop idle, and changes nothing else.
LEMMA SettledKeeps ==
  ASSUME NEW l, Sound(l)
  PROVE  /\ Sound(Settled(l)) /\ Same(l, Settled(l))
         /\ Settled(l).state \in {l.state, "live"}
BY DEF Settled, Idle, Sound, Same, Active, LoopFields, States, Statuses

\* The two ends of the head of the drain's loop: a pass that has taken what can run, or a
\* queue in which nothing waits but a push that is held.
LEMMA LoopsKeeps ==
  ASSUME NEW l, Sound(l), l.state # "retry_wait", NEW c \in ConnsDone, Loops(l, c)
  PROVE  /\ Sound(loop') /\ drain' \in DrainFields /\ conn' \in Conns
         /\ loop'.session = l.session /\ loop'.timers = l.timers
         /\ Active(loop') = Active(l)
         /\ l.push => loop'.push \/ drain'.push
         /\ conn'.pc \in {"token", "hello"} => ~l.session \/ conn' = c
         /\ \/ /\ drain'.pc = "session" /\ (drain'.push \/ drain'.pull)
               /\ loop'.state # "retry_wait"
               /\ Active(l) /\ ~l.session /\ c.pc = "idle" => conn'.pc = "token"
               /\ c.pc \in {"token", "hello", "ready"} => conn' = c
            \/ /\ drain' = NoDrain
               /\ Active(l) /\ Pending(loop') => "syncRetry" \in l.timers
               /\ loop'.state = "retry_wait" => "syncRetry" \in l.timers
               /\ loop'.push = l.push /\ loop'.pull = l.pull
               /\ conn' = Ended(c)
<1>1. CASE Active(l) /\ Runnable(l)
  <2> DEFINE t == Taken(l)
  <2>1. /\ loop' = Connecting(t, c) /\ conn' = Attempt(t, c) /\ drain' = Pass(l)
    BY <1>1 DEF Loops
  <2>2. /\ Sound(t) /\ t.session = l.session /\ t.timers = l.timers /\ t.state = l.state
        /\ t.push = (l.push /\ Held(l)) /\ ~t.pull /\ Active(t)
    BY <1>1 DEF Taken, Sound, Active, LoopFields, Held
  <2>3. /\ drain'.pc = "session" /\ drain'.push = (l.push /\ ~Held(l))
        /\ drain'.pull = l.pull /\ drain' \in DrainFields
    BY <2>1 DEF Pass, NoDrain, DrainFields, Sound, LoopFields, Held
  <2>4. drain'.push \/ drain'.pull
    BY <1>1, <2>3 DEF Runnable
  <2> HIDE DEF t
  <2>5. /\ Sound(loop') /\ Same(t, loop') /\ loop'.state \in {t.state, "connecting"}
    BY <2>1, <2>2, ConnectingKeeps
  <2>6. /\ conn' \in Conns
        /\ Active(t) /\ ~t.session /\ c.pc = "idle" => conn'.pc = "token"
        /\ c.pc \in {"token", "hello", "ready"} => conn' = c
        /\ conn'.pc \in {"token", "hello"} => ~l.session \/ conn' = c
    BY <2>1, <2>2, AttemptStarts
  <2> QED BY <1>1, <2>2, <2>3, <2>4, <2>5, <2>6 DEF Same
<1>2. CASE ~(Active(l) /\ Runnable(l))
  <2> DEFINE m == Left(l)
  <2>1. loop' = Settled(m) /\ drain' = NoDrain /\ conn' = Ended(c)
    BY <1>2 DEF Loops, Leaves
  <2>2. /\ Sound(m) /\ Same(l, m)
        /\ m.state = "retry_wait" => "syncRetry" \in l.timers
    BY DEF Left, Sound, Same, Active, Held, LoopFields, States
  <2>3. Active(l) /\ Pending(l) => "syncRetry" \in l.timers
    BY <1>2 DEF Pending, Runnable, Held
  <2> HIDE DEF m
  <2>4. /\ Sound(loop') /\ Same(m, loop') /\ loop'.state \in {m.state, "live"}
    BY <2>1, <2>2, SettledKeeps
  <2>5. /\ conn' \in Conns /\ drain' \in DrainFields
        /\ conn'.pc \in {"token", "hello"} => conn' = c
    BY <2>1 DEF Ended, NoConn, Conns, ConnsDone, NoDrain, DrainFields
  <2> QED BY <2>1, <2>2, <2>3, <2>4, <2>5 DEF Same, Pending
<1> QED BY <1>1, <1>2

\* drain(), called: the pass under way goes on, or the loop's head decides.
LEMMA DrainsKeeps ==
  ASSUME NEW l, Sound(l), NEW c \in ConnsDone, Drains(l, c), drain \in DrainFields
  PROVE  /\ Sound(loop') /\ drain' \in DrainFields /\ conn' \in Conns
         /\ loop'.session = l.session /\ loop'.timers = l.timers
         /\ Active(loop') = Active(l)
         /\ l.push => loop'.push \/ drain'.push
         /\ c.pc \in {"token", "hello", "ready"} => conn' = c
         /\ conn'.pc \in {"token", "hello"} => ~l.session \/ conn' = c
         /\ \/ /\ drain.pc = "idle" /\ Active(l)
               /\ drain'.pc = "session" /\ (drain'.push \/ drain'.pull)
               /\ loop'.state # "retry_wait"
               /\ ~l.session /\ c.pc = "idle" => conn'.pc = "token"
            \/ /\ drain.pc = "idle" /\ Active(l) /\ drain' = NoDrain
               /\ Active(l) /\ Pending(loop') => "syncRetry" \in l.timers
               /\ loop'.state = "retry_wait" => "syncRetry" \in l.timers
               /\ conn' = Ended(c)
            \/ /\ ~Active(l) \/ drain.pc # "idle"
               /\ loop' = l /\ drain' = drain /\ conn' = Ended(c)
<1>1. CASE Active(l) /\ drain.pc = "idle"
  <2> DEFINE m == [l EXCEPT !.state = "draining"]
  <2>1. /\ Sound(m) /\ Same(l, m) /\ m.state # "retry_wait" /\ Active(m)
    BY <1>1 DEF Sound, Same, Active, LoopFields, States
  <2>2. Loops(m, c)
    BY <1>1 DEF Drains
  <2> HIDE DEF m
  <2>3. c.pc \in {"token", "hello", "ready"} => Ended(c) = c
    BY DEF Ended
  <2>4. /\ Sound(loop') /\ drain' \in DrainFields /\ conn' \in Conns
        /\ loop'.session = m.session /\ loop'.timers = m.timers
        /\ Active(loop') = Active(m)
        /\ m.push => loop'.push \/ drain'.push
        /\ conn'.pc \in {"token", "hello"} => ~m.session \/ conn' = c
        /\ \/ /\ drain'.pc = "session" /\ (drain'.push \/ drain'.pull)
              /\ loop'.state # "retry_wait"
              /\ Active(m) /\ ~m.session /\ c.pc = "idle" => conn'.pc = "token"
              /\ c.pc \in {"token", "hello", "ready"} => conn' = c
           \/ /\ drain' = NoDrain
              /\ Active(m) /\ Pending(loop') => "syncRetry" \in m.timers
              /\ loop'.state = "retry_wait" => "syncRetry" \in m.timers
              /\ conn' = Ended(c)
    BY <2>1, <2>2, LoopsKeeps
  <2>5. /\ m.session = l.session /\ m.push = l.push /\ m.timers = l.timers
        /\ Active(m) /\ Active(l)
    BY <1>1, <2>1 DEF Same
  <2>6. Active(loop') = Active(l)
    BY <2>4, <2>5
  <2> QED BY <1>1, <2>3, <2>4, <2>5, <2>6
<1>2. CASE ~(Active(l) /\ drain.pc = "idle")
  <2>1. loop' = l /\ drain' = drain /\ conn' = Ended(c)
    BY <1>2 DEF Drains
  <2>2. /\ Ended(c) \in Conns
        /\ c.pc \in {"token", "hello", "ready"} => Ended(c) = c
        /\ Ended(c).pc \in {"token", "hello"} => Ended(c) = c
    BY DEF Ended, NoConn, Conns, ConnsDone
  <2> QED BY <1>2, <2>1, <2>2
<1> QED BY <1>1, <1>2

-----------------------------------------------------------------------------
(* The inductive invariant. *)

\* The store has no more changes than the user has made.
EditsAreCounted ==
  /\ spent \in [edits : Nat, remote : Nat, faults : Nat, calls : Nat]
  /\ dirty <= spent.edits /\ spent.edits <= MaxEdits

\* Between passes, and when the push of a pass is done, no push is under way, and a
\* backoff has its timer.
BetweenPasses ==
  /\ drain.pc \in {"idle", "pullAfter"} => ~drain.push
  /\ loop.state = "retry_wait" => "syncRetry" \in loop.timers /\ drain.pc = "idle"

\* A reconnect timer counts only where there is no session: when it fires on a loop that
\* has one, nothing happens.
WorkHasDriver ==
  Active(loop) /\ Pending(loop) =>
    \/ drain.pc # "idle" \/ conn.pc # "idle" \/ "syncRetry" \in loop.timers
    \/ ~loop.session /\ "reconnect" \in loop.timers

\* A change in the store waits for the debounce, is asked for, is being pushed, or will
\* be found when the session that is to come reads the store.
EditsHaveDriver ==
  Active(loop) /\ dirty > 0 =>
    \/ "push" \in loop.timers \/ loop.push \/ drain.push \/ conn.pc # "idle"
    \/ ~loop.session /\ "reconnect" \in loop.timers

\* On a calm day the reconnect timer survives the attempts that it starts.
CalmReconnects ==
  calm =>
    /\ Active(loop) /\ ~loop.session =>
         "reconnect" \in loop.timers \/ conn.pc \in {"token", "hello"}
    /\ ~Active(loop) => conn.pc = "idle"

\* An attempt is made only without a session, until it opens one.
AttemptsSeek == conn.pc \in {"token", "hello"} => ~loop.session

Inductive ==
  /\ TypeOK /\ Sound(loop) /\ EditsAreCounted /\ BetweenPasses /\ AttemptsSeek
  /\ WorkHasDriver /\ EditsHaveDriver /\ CalmReconnects

\* The steps that only wait for the network, and those of other devices.
QuietSteps == LocalChange \/ RemoteChange \/ TokenArrives \/ SessionOpens

\* What the user and the network do between two passes keeps the invariant.
LEMMA QuietStepsKeep ==
  ASSUME AutoSyncBounds, Inductive, QuietSteps, UNCHANGED calm
  PROVE  Inductive'
<1> USE DEF Inductive
<1>t. /\ loop \in LoopFields /\ conn \in Conns /\ drain \in DrainFields /\ dirty \in 0 .. MaxEdits
      /\ behind \in BOOLEAN /\ notice \in BOOLEAN /\ MaxEdits \in Nat /\ Sound(loop)
  BY DEF AutoSyncBounds, TypeOK, LoopFields, Conns, DrainFields
<1>1. CASE LocalChange
  <2>1. /\ spent' = [spent EXCEPT !.edits = @ + 1] /\ spent.edits < MaxEdits
        /\ dirty' = dirty + 1 /\ UNCHANGED <<conn, drain, behind, notice>>
        /\ loop' = IF Active(loop)
                   THEN [loop EXCEPT !.shown = "syncing", !.timers = @ \union {"push"}]
                   ELSE loop
    BY <1>1 DEF LocalChange, Spend
  <2>2. EditsAreCounted' /\ dirty' \in 0 .. MaxEdits
    BY <1>t, <2>1 DEF EditsAreCounted
  <2>3. /\ loop' \in LoopFields /\ loop'.session = loop.session /\ loop'.push = loop.push
        /\ loop'.pull = loop.pull /\ loop'.holds = loop.holds /\ loop'.state = loop.state
        /\ loop'.timers = IF Active(loop) THEN loop.timers \union {"push"} ELSE loop.timers
    BY <1>t, <2>1 DEF LoopFields, Timers, Statuses
  <2>4. Sound(loop')
    BY <1>t, <2>3 DEF Sound, Active
  <2>5. TypeOK'
    BY <1>t, <2>1, <2>2, <2>3, <2>4 DEF TypeOK, LoopFields, Conns, DrainFields, Sound
  <2> QED BY <2>1, <2>2, <2>3, <2>4, <2>5
          DEF BetweenPasses, AttemptsSeek, WorkHasDriver, EditsHaveDriver,
              CalmReconnects, Active, Pending
<1>2. CASE RemoteChange
  <2>1. /\ spent' = [spent EXCEPT !.remote = @ + 1]
        /\ behind' = TRUE /\ notice' \in BOOLEAN /\ UNCHANGED <<loop, conn, dirty>>
        /\ drain' \in DrainFields /\ drain'.pc = drain.pc /\ drain'.push = drain.push
        /\ drain'.pull = drain.pull
    BY <1>2, <1>t DEF RemoteChange, Spend, DrainFields, LoopFields
  <2>2. EditsAreCounted'
    BY <2>1 DEF EditsAreCounted
  <2>3. TypeOK'
    BY <1>t, <2>1 DEF TypeOK, LoopFields, Conns, DrainFields
  <2> QED BY <2>1, <2>2, <2>3
          DEF BetweenPasses, AttemptsSeek, WorkHasDriver, EditsHaveDriver,
              CalmReconnects
<1>3. CASE TokenArrives
  <2>1. /\ conn.pc = "token" /\ conn' = [pc |-> "hello", ahead |-> behind]
        /\ UNCHANGED <<loop, drain, dirty, behind, notice, spent>>
    BY <1>3 DEF TokenArrives
  <2>2. TypeOK'
    BY <1>t, <2>1 DEF TypeOK, LoopFields, Conns, DrainFields
  <2> QED BY <2>1, <2>2 DEF EditsAreCounted, BetweenPasses, AttemptsSeek, WorkHasDriver, EditsHaveDriver,
                            CalmReconnects
<1>4. CASE SessionOpens
  <2>1. /\ conn.pc = "hello" /\ UNCHANGED <<drain, dirty, behind, notice, spent>>
    BY <1>4 DEF SessionOpens
  <2>2. CASE Active(loop)
    <3>1. /\ loop' = [loop EXCEPT !.session = TRUE]
          /\ conn' = [pc |-> "ready", ahead |-> conn.ahead \/ behind]
      BY <1>4, <2>2 DEF SessionOpens
    <3>2. /\ loop' \in LoopFields /\ loop'.session = TRUE /\ loop'.push = loop.push
          /\ loop'.pull = loop.pull /\ loop'.holds = loop.holds
          /\ loop'.state = loop.state /\ loop'.timers = loop.timers
      BY <1>t, <3>1 DEF LoopFields
    <3>3. conn' \in Conns /\ conn'.pc = "ready"
      BY <1>t, <3>1 DEF Conns
    <3>4. Sound(loop')
      BY <1>t, <2>2, <3>2 DEF Sound, Active
    <3>5. TypeOK'
      BY <1>t, <2>1, <3>2, <3>3, <3>4 DEF TypeOK, LoopFields, Conns, DrainFields, Sound
    <3> QED BY <2>1, <2>2, <3>2, <3>3, <3>4, <3>5
            DEF EditsAreCounted, BetweenPasses, AttemptsSeek, WorkHasDriver, EditsHaveDriver,
              CalmReconnects,
                Active
  <2>3. CASE ~Active(loop)
    <3>1. conn' = NoConn /\ loop' = loop
      BY <1>4, <2>3 DEF SessionOpens
    <3>2. TypeOK'
      BY <1>t, <2>1, <3>1 DEF TypeOK, LoopFields, Conns, DrainFields, NoConn
    <3> QED BY <2>1, <2>3, <3>1, <3>2
            DEF EditsAreCounted, BetweenPasses, AttemptsSeek, WorkHasDriver, EditsHaveDriver,
              CalmReconnects,
                NoConn
  <2> QED BY <2>2, <2>3
<1> QED BY <1>1, <1>2, <1>3, <1>4 DEF QuietSteps

\* What asks for a session: the plugin's calls and the reconnect timer.
SessionSteps == Start \/ ResumeConnection \/ ReconnectTimer

\* A loop that asks for a session has one, or has an attempt under way.
LEMMA SessionStepsKeep ==
  ASSUME AutoSyncBounds, Inductive, SessionSteps, UNCHANGED calm
  PROVE  Inductive'
<1> USE DEF Inductive
<1>t. /\ loop \in LoopFields /\ conn \in Conns /\ conn \in ConnsDone /\ drain \in DrainFields
      /\ dirty \in 0 .. MaxEdits
      /\ behind \in BOOLEAN /\ notice \in BOOLEAN /\ MaxEdits \in Nat /\ Sound(loop)
  BY DEF AutoSyncBounds, TypeOK, LoopFields, Conns, DrainFields, ConnsDone
<1>1. PICK l :
        /\ Sound(l) /\ loop' = Connecting(l, conn) /\ conn' = Attempt(l, conn)
        /\ l.session = loop.session /\ l.push = loop.push /\ l.pull = loop.pull
        /\ loop.timers \subseteq l.timers \union {"reconnect"} /\ l.timers \subseteq loop.timers
        /\ Active(l) /\ l.state \in {loop.state, "live"}
        /\ \/ ~Active(loop)
           \/ Active(loop) /\ ~calm
           \/ Active(loop) /\ conn.pc # "ready"
  <2>1. CASE Start
    <3>1. loop' = Connecting([loop EXCEPT !.state = "live"], conn)
          /\ conn' = Attempt([loop EXCEPT !.state = "live"], conn) /\ ~Active(loop)
      BY <2>1 DEF Start, Call
    <3> DEFINE l == [loop EXCEPT !.state = "live"]
    <3>2. /\ Sound(l) /\ l.session = loop.session /\ l.push = loop.push /\ l.pull = loop.pull
          /\ l.timers = loop.timers /\ Active(l) /\ l.state = "live"
      BY <1>t DEF Sound, Active, LoopFields, States
    <3> HIDE DEF l
    <3> QED BY <3>1, <3>2 DEF l
  <2>2. CASE ResumeConnection \/ ReconnectTimer
    <3> DEFINE l == [loop EXCEPT !.timers = @ \ {"reconnect"}]
    <3>1. loop' = Connecting(l, conn) /\ conn' = Attempt(l, conn)
      BY <2>2 DEF ResumeConnection, Call, ReconnectTimer, Fired
    <3>2. Active(loop)
      BY <1>t, <2>2 DEF ResumeConnection, ReconnectTimer, Fires, Sound
    <3>3. /\ Sound(l) /\ l.session = loop.session /\ l.push = loop.push /\ l.pull = loop.pull
          /\ l.timers = loop.timers \ {"reconnect"} /\ Active(l) /\ l.state = loop.state
      BY <1>t, <3>2 DEF Sound, Active, LoopFields
    <3>4. ~calm \/ conn.pc # "ready"
      BY <2>2 DEF ResumeConnection, ReconnectTimer
    <3> HIDE DEF l
    <3> QED BY <3>1, <3>2, <3>3, <3>4
  <2> QED BY <2>1, <2>2 DEF SessionSteps
<1>2. /\ UNCHANGED <<drain, dirty, behind, notice>>
      /\ EditsAreCounted'
  BY DEF SessionSteps, Start, ResumeConnection, ReconnectTimer, Call, Fires, Spend,
         EditsAreCounted
<1>3. /\ Sound(loop') /\ loop'.session = l.session /\ loop'.push = l.push
      /\ loop'.pull = l.pull /\ loop'.timers = l.timers /\ Active(loop') = Active(l)
      /\ loop'.state \in {l.state, "connecting"}
  BY <1>t, <1>1, ConnectingKeeps DEF Same
<1>4. /\ conn' \in Conns
      /\ ~loop.session => conn'.pc # "idle"
      /\ ~loop.session /\ conn.pc # "ready" => conn'.pc \in {"token", "hello"}
      /\ conn.pc # "idle" => conn' = conn
      /\ loop.session => conn' = conn
  <2>1. conn.pc \in {"idle", "token", "hello", "ready"}
    BY <1>t DEF Conns
  <2>2. /\ Attempt(l, conn) \in Conns
        /\ Active(l) /\ ~l.session /\ conn.pc = "idle" => Attempt(l, conn).pc = "token"
        /\ conn.pc \in {"token", "hello", "ready"} => Attempt(l, conn) = conn
        /\ l.session /\ conn.pc = "idle" => Attempt(l, conn) = conn
    BY <1>t, <1>1, AttemptStarts
  <2> QED BY <1>1, <2>1, <2>2
<1>5. TypeOK'
  BY <1>t, <1>2, <1>3, <1>4 DEF TypeOK, Sound, LoopFields, Conns, DrainFields
<1>6. BetweenPasses'
  BY <1>1, <1>2, <1>3 DEF BetweenPasses
<1>7. WorkHasDriver'
  BY <1>1, <1>2, <1>3, <1>4 DEF WorkHasDriver, Pending, Sound
<1>8. EditsHaveDriver'
  BY <1>1, <1>2, <1>3, <1>4 DEF EditsHaveDriver, Sound, EditsAreCounted
<1>9. CalmReconnects'
  BY <1>1, <1>2, <1>3, <1>4 DEF CalmReconnects
<1>10. AttemptsSeek'
  BY <1>1, <1>3, <1>4 DEF AttemptsSeek
<1> QED BY <1>2, <1>3, <1>5, <1>6, <1>7, <1>8, <1>9, <1>10

\* What stops the loop: the plugin, a refusal, a server that is full.
StopSteps == Stop \/ SessionIsRefused \/ QuotaExceeded

\* A loop that stops is owed nothing, and leaves no timer and no session behind.
LEMMA StopStepsKeep ==
  ASSUME Inductive, StopSteps, UNCHANGED calm
  PROVE  Inductive'
<1> USE DEF Inductive
<1>t. /\ loop \in LoopFields /\ conn \in Conns /\ drain \in DrainFields /\ dirty \in 0 .. MaxEdits
      /\ behind \in BOOLEAN /\ notice \in BOOLEAN
  BY DEF TypeOK, LoopFields, Conns, DrainFields
<1>1. ASSUME NEW shown \in Statuses
      PROVE  /\ Sound(Stopped(loop, shown)) /\ ~Active(Stopped(loop, shown))
  BY <1>t DEF Stopped, Sound, Active, LoopFields, States
<1>2. Sound(loop') /\ ~Active(loop')
  <2>0. "paused" \in Statuses /\ "attention_needed" \in Statuses
    BY DEF Statuses
  <2>1. CASE Stop \/ SessionIsRefused
    <3>1. \E shown \in Statuses : loop' = Stopped(loop, shown)
      BY <2>0, <2>1 DEF Stop, SessionIsRefused
    <3> QED BY <1>1, <3>1
  <2>2. CASE QuotaExceeded
    <3>1. loop' = Settled(Stopped(loop, "paused"))
      BY <2>2 DEF QuotaExceeded, Leaves
    <3> QED BY <1>1, <2>0, <3>1, SettledKeeps DEF Same
  <2> QED BY <2>1, <2>2 DEF StopSteps
<1>n. NoConn \in Conns /\ NoConn.pc = "idle"
  BY DEF NoConn, Conns
<1>3. /\ ~calm /\ UNCHANGED <<dirty, behind>> /\ notice' = FALSE
      /\ conn' \in {conn, NoConn}
  <2>1. CASE Stop
    BY <2>1 DEF Stop
  <2>2. CASE SessionIsRefused
    BY <2>2 DEF SessionIsRefused
  <2>3. CASE QuotaExceeded
    BY <2>3 DEF QuotaExceeded
  <2> QED BY <2>1, <2>2, <2>3 DEF StopSteps
<1>4. EditsAreCounted'
  BY <1>3 DEF StopSteps, Stop, SessionIsRefused, QuotaExceeded, Spend, EditsAreCounted
<1>5. drain' = NoDrain \/ drain' = [drain EXCEPT !.open = FALSE]
  BY DEF StopSteps, Stop, SessionIsRefused, QuotaExceeded, Leaves
<1>6. /\ drain' \in DrainFields /\ (drain'.pc \in {"idle", "pullAfter"} => ~drain'.push)
      /\ drain'.pc \in {"session", "pull", "push"} => drain'.push \/ drain'.pull
  <2>1. CASE drain' = NoDrain
    BY <2>1 DEF DrainFields, NoDrain
  <2>2. CASE drain' = [drain EXCEPT !.open = FALSE]
    <3>1. /\ drain' \in DrainFields /\ drain'.pc = drain.pc /\ drain'.push = drain.push
          /\ drain'.pull = drain.pull
      BY <1>t, <2>2 DEF DrainFields
    <3> QED BY <3>1 DEF BetweenPasses, TypeOK
  <2> QED BY <1>5, <2>1, <2>2
<1>7. TypeOK'
  BY <1>t, <1>n, <1>2, <1>3, <1>6 DEF TypeOK, Sound, LoopFields, Conns, DrainFields
<1>8. loop'.state = "stopped"
  BY <1>2 DEF Active
<1>9. AttemptsSeek' /\ BetweenPasses'
  BY <1>2, <1>6, <1>8 DEF AttemptsSeek, BetweenPasses, Sound
<1> QED BY <1>2, <1>3, <1>4, <1>6, <1>7, <1>9
        DEF WorkHasDriver, EditsHaveDriver, CalmReconnects

\* What takes the session: a socket that closes, an attempt that fails.
LostSteps == OpenFails \/ SessionDrops

\* An active loop that loses its session, or the attempt to open one, has its reconnect
\* timer.
LEMMA LostStepsKeep ==
  ASSUME Inductive, LostSteps, UNCHANGED calm
  PROVE  Inductive'
<1> USE DEF Inductive
<1>t. /\ loop \in LoopFields /\ conn \in Conns /\ drain \in DrainFields /\ dirty \in 0 .. MaxEdits
      /\ behind \in BOOLEAN /\ notice \in BOOLEAN /\ Sound(loop)
  BY DEF TypeOK, LoopFields, Conns, DrainFields
<1>n. NoConn \in Conns /\ NoConn.pc = "idle"
  BY DEF NoConn, Conns
<1>a. ASSUME NEW l \in {loop, Alarmed(loop)}
      PROVE  /\ l \in LoopFields /\ l.session = loop.session /\ Sound(l)
             /\ l.push = loop.push /\ l.pull = loop.pull /\ l.timers = loop.timers
             /\ l.state = loop.state /\ Active(l) = Active(loop)
  BY <1>t DEF Alarmed, Sound, Active, LoopFields, Statuses
<1>b. ASSUME NEW l \in {loop, Alarmed(loop)}, NEW m, m = [l EXCEPT !.session = FALSE]
      PROVE  /\ Sound(m) /\ ~m.session
             /\ m.push = loop.push /\ m.pull = loop.pull /\ m.timers = loop.timers
             /\ m.state = loop.state /\ Active(m) = Active(loop)
  <2>1. /\ l \in LoopFields /\ l.session = loop.session /\ Sound(l)
        /\ l.push = loop.push /\ l.pull = loop.pull /\ l.timers = loop.timers
        /\ l.state = loop.state /\ Active(l) = Active(loop)
    BY <1>a
  <2> QED BY <1>b, <2>1 DEF Sound, Active, LoopFields
<1>1. PICK m : /\ Sound(m) /\ ~m.session
               /\ m.push = loop.push /\ m.pull = loop.pull /\ m.timers = loop.timers
               /\ m.state = loop.state /\ Active(m) = Active(loop)
               /\ loop' = ReconnectLater(m)
  <2>1. CASE OpenFails
    <3>1. PICK l \in {loop, Alarmed(loop)} :
            loop' = ReconnectLater([l EXCEPT !.session = @ /\ conn.pc # "ready"])
      BY <2>1 DEF OpenFails
    <3>2. (l.session /\ conn.pc # "ready") = FALSE
      <4>1. l.session => conn.pc \notin {"token", "hello"}
        BY <1>a DEF AttemptsSeek
      <4>2. l.session \in BOOLEAN
        BY <1>a DEF LoopFields
      <4> QED BY <1>t, <2>1, <4>1, <4>2 DEF OpenFails, Conns
    <3>3. loop' = ReconnectLater([l EXCEPT !.session = FALSE])
      BY <3>1, <3>2
    <3> QED BY <1>b, <3>3
  <2>2. CASE SessionDrops
    <3>1. PICK l \in {loop, Alarmed(loop)} : loop' = Disconnected(l)
      BY <2>2 DEF SessionDrops
    <3>2. Active(l)
      BY <1>a, <1>t, <2>2 DEF Sound, SessionDrops
    <3>3. loop' = ReconnectLater([l EXCEPT !.session = FALSE])
      BY <3>1, <3>2 DEF Disconnected
    <3> QED BY <1>b, <3>3
  <2> QED BY <2>1, <2>2 DEF LostSteps
<1>2. /\ UNCHANGED <<dirty, behind>> /\ notice' \in BOOLEAN
      /\ conn' \in {conn, NoConn}
      /\ drain' \in DrainFields /\ drain'.pc = drain.pc /\ drain'.push = drain.push
      /\ drain'.pull = drain.pull
  BY <1>t DEF LostSteps, OpenFails, SessionDrops, DrainFields, LoopFields
<1>3. EditsAreCounted'
  BY <1>2 DEF LostSteps, OpenFails, SessionDrops, Spend, EditsAreCounted
<1>5. /\ Sound(loop') /\ ~loop'.session
      /\ loop'.push = loop.push /\ loop'.pull = loop.pull
      /\ Active(loop') = Active(loop)
      /\ loop'.state \in {loop.state, "reconnect_wait"}
      /\ loop'.timers = IF Active(loop) THEN loop.timers \union {"reconnect"} ELSE loop.timers
  <2>1. /\ Sound(ReconnectLater(m)) /\ ReconnectLater(m).session = m.session
        /\ ReconnectLater(m).push = m.push /\ ReconnectLater(m).pull = m.pull
        /\ Active(ReconnectLater(m)) = Active(m)
        /\ ReconnectLater(m).state \in {m.state, "reconnect_wait"}
        /\ ReconnectLater(m).timers = IF Active(m) THEN m.timers \union {"reconnect"}
                                      ELSE m.timers
    BY <1>1, ReconnectLaterKeeps
  <2> QED BY <1>1, <2>1
<1>6. TypeOK'
  BY <1>t, <1>n, <1>2, <1>5 DEF TypeOK, Sound, LoopFields, Conns, DrainFields
<1>7. BetweenPasses'
  BY <1>2, <1>5 DEF BetweenPasses
<1>8. WorkHasDriver' /\ EditsHaveDriver'
  BY <1>5 DEF WorkHasDriver, EditsHaveDriver
<1>9. AttemptsSeek'
  BY <1>5 DEF AttemptsSeek
<1>10. CalmReconnects'
  <2>1. ~Active(loop') => conn'.pc = "idle" \/ conn' = conn
    BY <1>n, <1>2
  <2> QED BY <1>5, <2>1 DEF CalmReconnects
<1> QED BY <1>3, <1>5, <1>6, <1>7, <1>8, <1>9, <1>10

\* What a drain that goes on, or ends, has to find so that nothing is forgotten: the
\* session and its timer are as they were, and a change in the store has a driver other
\* than the pass that ends.
KeepsDrivers(l) ==
  /\ l.session = loop.session /\ Active(l) = Active(loop)
  /\ "reconnect" \in l.timers <=> "reconnect" \in loop.timers
  /\ Active(l) /\ dirty' > 0 =>
       \/ "push" \in l.timers \/ l.push \/ conn.pc # "idle"
       \/ ~l.session /\ "reconnect" \in l.timers

\* The rest of a step of a pass keeps its types.
RestKeeps ==
  /\ EditsAreCounted' /\ dirty' \in 0 .. MaxEdits
  /\ behind' \in BOOLEAN /\ notice' \in BOOLEAN /\ UNCHANGED calm

\* A pass whose end goes round the drain's loop.
LEMMA LoopsOn ==
  ASSUME Inductive, NEW l, Sound(l), l.state # "retry_wait", Loops(l, conn),
         KeepsDrivers(l), RestKeeps
  PROVE  Inductive'
<1>t. /\ conn \in Conns /\ conn \in ConnsDone /\ Sound(loop)
      /\ conn.pc \in {"idle", "token", "hello", "ready"}
  BY DEF Inductive, TypeOK, Conns, ConnsDone
<1>1. /\ Sound(loop') /\ drain' \in DrainFields /\ conn' \in Conns
      /\ loop'.session = l.session /\ loop'.timers = l.timers
      /\ Active(loop') = Active(l)
      /\ l.push => loop'.push \/ drain'.push
      /\ conn'.pc \in {"token", "hello"} => ~l.session \/ conn' = conn
      /\ \/ /\ drain'.pc = "session" /\ (drain'.push \/ drain'.pull)
            /\ loop'.state # "retry_wait"
            /\ Active(l) /\ ~l.session /\ conn.pc = "idle" => conn'.pc = "token"
            /\ conn.pc \in {"token", "hello", "ready"} => conn' = conn
         \/ /\ drain' = NoDrain
            /\ Active(l) /\ Pending(loop') => "syncRetry" \in l.timers
            /\ loop'.state = "retry_wait" => "syncRetry" \in l.timers
            /\ loop'.push = l.push /\ loop'.pull = l.pull
            /\ conn' = Ended(conn)
  BY <1>t, LoopsKeeps
<1>2. Ended(conn) = conn
  BY <1>t DEF Ended
<1>3. /\ conn.pc # "idle" => conn' = conn
      /\ drain'.pc \in {"session", "pull", "push"} => drain'.push \/ drain'.pull
      /\ drain'.pc \in {"idle", "pullAfter"} => ~drain'.push
      /\ loop'.state = "retry_wait" => "syncRetry" \in loop'.timers /\ drain'.pc = "idle"
      /\ Active(loop') /\ Pending(loop') =>
            drain'.pc # "idle" \/ "syncRetry" \in loop'.timers
  BY <1>t, <1>1, <1>2 DEF NoDrain
<1>4. TypeOK'
  BY <1>1, <1>3 DEF TypeOK, RestKeeps, Sound, LoopFields, Conns, DrainFields
<1>5. BetweenPasses' /\ WorkHasDriver'
  BY <1>3 DEF BetweenPasses, WorkHasDriver
<1>6. AttemptsSeek'
  BY <1>1 DEF Inductive, AttemptsSeek, KeepsDrivers
<1>7. EditsHaveDriver'
  BY <1>1, <1>3 DEF EditsHaveDriver, KeepsDrivers
<1>8. CalmReconnects'
  <2>1. ~Active(l) /\ conn.pc = "idle" => conn' = conn
    <3>1. ~Active(l) => conn' = Ended(conn)
      BY DEF Loops
    <3> QED BY <1>2, <3>1
  <2> QED BY <1>1, <1>3, <2>1 DEF Inductive, CalmReconnects, KeepsDrivers, RestKeeps
<1> QED BY <1>1, <1>4, <1>5, <1>6, <1>7, <1>8 DEF Inductive, RestKeeps

\* A pass that ends the drain.
LEMMA LeavesSafely ==
  ASSUME Inductive, NEW l, Sound(l), Leaves(l), UNCHANGED conn,
         l.state = "retry_wait" => "syncRetry" \in l.timers,
         Active(l) /\ Pending(l) =>
           "syncRetry" \in l.timers \/ (~l.session /\ "reconnect" \in l.timers),
         KeepsDrivers(l), RestKeeps
  PROVE  Inductive'
<1>1. /\ Sound(loop') /\ Same(l, loop') /\ loop'.state \in {l.state, "live"}
      /\ drain' = NoDrain
  BY SettledKeeps DEF Leaves
<1>2. drain' \in DrainFields /\ drain'.pc = "idle" /\ ~drain'.push
  BY <1>1 DEF NoDrain, DrainFields
<1>3. /\ loop'.session = l.session /\ loop'.push = l.push /\ loop'.pull = l.pull
      /\ loop'.timers = l.timers /\ Active(loop') = Active(l)
  BY <1>1 DEF Same
<1>4. TypeOK'
  BY <1>1, <1>2 DEF Inductive, TypeOK, RestKeeps, Sound, LoopFields, Conns, DrainFields
<1>5. BetweenPasses' /\ WorkHasDriver'
  BY <1>1, <1>2, <1>3 DEF BetweenPasses, WorkHasDriver, Pending
<1>6. AttemptsSeek' /\ EditsHaveDriver'
  BY <1>3 DEF Inductive, AttemptsSeek, EditsHaveDriver, KeepsDrivers
<1>7. CalmReconnects'
  BY <1>3 DEF Inductive, CalmReconnects, KeepsDrivers, RestKeeps
<1> QED BY <1>1, <1>4, <1>5, <1>6, <1>7 DEF Inductive, RestKeeps

\* A pass that failed, or got nowhere, leaves a timer that takes it up again.
LEMMA RetriesSafely ==
  ASSUME Inductive, NEW l, Sound(l), l.state # "retry_wait", NEW h \in BOOLEAN,
         Leaves(RetryLater(l, h)), UNCHANGED conn, KeepsDrivers(l), RestKeeps
  PROVE  Inductive'
<1> DEFINE m == RetryLater(l, h)
<1>1. /\ Sound(m) /\ m.session = l.session /\ m.push = l.push /\ m.pull = l.pull
      /\ Active(m) = Active(l) /\ l.timers \subseteq m.timers
      /\ m.timers \subseteq l.timers \union {"syncRetry"}
      /\ Active(l) => "syncRetry" \in m.timers
  BY RetryLaterKeeps
<1>2. Leaves(m)
  OBVIOUS
<1> HIDE DEF m
<1>3. m.state = "retry_wait" => "syncRetry" \in m.timers
  BY <1>1 DEF Active
<1>4. KeepsDrivers(m)
  BY <1>1 DEF KeepsDrivers
<1>5. Active(m) /\ Pending(m) =>
        "syncRetry" \in m.timers \/ (~m.session /\ "reconnect" \in m.timers)
  BY <1>1 DEF Active
<1>6. Sound(m)
  BY <1>1
<1> QED BY <1>2, <1>3, <1>4, <1>5, <1>6, LeavesSafely

\* The end of a pass that did not fail: the drain goes round, or waits for a retry.
LEMMA PassEndKeeps ==
  ASSUME Inductive, NEW l, Sound(l), l.state # "retry_wait",
         NEW late \in BOOLEAN, NEW stalled \in BOOLEAN, PassEnds(l, late, stalled),
         KeepsDrivers(l), RestKeeps
  PROVE  Inductive'
<1>1. CASE late \/ stalled
  <2> DEFINE m == IF late THEN Alarmed(l) ELSE l
  <2>1. Leaves(RetryLater(m, TRUE)) /\ UNCHANGED conn
    BY <1>1 DEF PassEnds
  <2>2. /\ Sound(m) /\ m.state = l.state /\ m.session = l.session /\ m.push = l.push
        /\ m.timers = l.timers /\ Active(m) = Active(l)
    BY DEF Alarmed, Sound, Active, LoopFields, Statuses
  <2> HIDE DEF m
  <2>3. KeepsDrivers(m)
    BY <2>2 DEF KeepsDrivers
  <2> QED BY <2>1, <2>2, <2>3, RetriesSafely
<1>2. CASE ~(late \/ stalled)
  <2> DEFINE m == IF drain.hold THEN l ELSE ResetRetry(l)
  <2>1. Loops(m, conn)
    BY <1>2 DEF PassEnds
  <2>2. /\ Sound(m) /\ m.state = l.state /\ m.session = l.session /\ m.push = l.push
        /\ Active(m) = Active(l) /\ l.timers \ {"syncRetry"} \subseteq m.timers
        /\ m.timers \subseteq l.timers
    BY ResetRetryKeeps
  <2> HIDE DEF m
  <2>3. KeepsDrivers(m)
    BY <2>2 DEF KeepsDrivers
  <2> QED BY <2>1, <2>2, <2>3, LoopsOn
<1> QED BY <1>1, <1>2

PassSteps == SessionIsKnown \/ PullEnds \/ PushEnds \/ PullAfterPushEnds \/ PassFails

\* A pass forgets nothing of what it took, whatever becomes of it.
LEMMA PassStepsKeep ==
  ASSUME AutoSyncBounds, Inductive, PassSteps, UNCHANGED calm
  PROVE  Inductive'
<1>t. /\ loop \in LoopFields /\ conn \in Conns /\ drain \in DrainFields
      /\ dirty \in 0 .. MaxEdits /\ Sound(loop) /\ EditsAreCounted
      /\ behind \in BOOLEAN /\ notice \in BOOLEAN /\ MaxEdits \in Nat
  BY DEF AutoSyncBounds, Inductive, TypeOK, LoopFields, Conns, DrainFields
<1>b. /\ drain.push \in BOOLEAN /\ drain.pull \in BOOLEAN /\ drain.missed \in BOOLEAN
      /\ drain.late \in BOOLEAN /\ drain.stuck \in BOOLEAN
  BY <1>t DEF DrainFields
<1>d. /\ drain.pc # "idle" => loop.state # "retry_wait"
      /\ drain.pc = "pullAfter" => ~drain.push
      /\ drain.pc \in {"session", "pull", "push"} => drain.push \/ drain.pull
  BY DEF Inductive, BetweenPasses, TypeOK
<1>1. CASE SessionIsKnown
  <2>0. RestKeeps
    BY <1>1, <1>t DEF SessionIsKnown, RestKeeps, EditsAreCounted
  <2>1. CASE loop.session
    <3>1. /\ drain.pc = "session"
          /\ drain' = [drain EXCEPT !.open = TRUE,
                                    !.pc = IF drain.pull THEN "pull" ELSE "push"]
          /\ UNCHANGED <<loop, conn, dirty, behind, notice, spent>>
      BY <1>1, <2>1 DEF SessionIsKnown
    <3>2. /\ drain' \in DrainFields /\ drain'.pc \in {"pull", "push"}
          /\ drain'.push = drain.push /\ drain'.pull = drain.pull
      BY <1>t, <3>1 DEF DrainFields
    <3>3. TypeOK'
      BY <1>t, <1>d, <3>1, <3>2
      DEF Inductive, TypeOK, Sound, LoopFields, Conns, DrainFields
    <3> QED BY <1>d, <3>1, <3>2, <3>3
            DEF Inductive, BetweenPasses, AttemptsSeek, EditsAreCounted, WorkHasDriver,
                EditsHaveDriver, CalmReconnects
  <2>2. CASE ~loop.session
    <3> DEFINE l == [loop EXCEPT !.push = @ \/ drain.push, !.pull = @ \/ drain.pull]
    <3>1. /\ Leaves(IF "reconnect" \in l.timers THEN l ELSE RetryLater(l, FALSE))
          /\ UNCHANGED <<conn, dirty>> /\ drain.pc = "session"
      BY <1>1, <2>2 DEF SessionIsKnown
    <3>l. l = [loop EXCEPT !.push = @ \/ drain.push, !.pull = @ \/ drain.pull]
      OBVIOUS
    <3> HIDE DEF l
    <3>2. /\ Sound(l) /\ l.state = loop.state /\ l.session = loop.session
          /\ l.timers = loop.timers /\ Active(l) = Active(loop)
          /\ l.push = (loop.push \/ drain.push)
      BY <1>t, <1>b, <3>l DEF Sound, Active, LoopFields
    <3>3. KeepsDrivers(l)
      BY <3>1, <3>2 DEF KeepsDrivers, Inductive, EditsHaveDriver
    <3>4. l.state # "retry_wait"
      BY <1>d, <3>1, <3>2
    <3>5. CASE "reconnect" \in l.timers
      BY <2>0, <2>2, <3>1, <3>2, <3>3, <3>4, <3>5, LeavesSafely
    <3>6. CASE "reconnect" \notin l.timers
      BY <2>0, <3>1, <3>2, <3>3, <3>4, <3>6, RetriesSafely
    <3> QED BY <3>5, <3>6
  <2> QED BY <2>1, <2>2
<1>2. CASE PullEnds
  <2>0. RestKeeps
    BY <1>2, <1>t, <1>b DEF PullEnds, RestKeeps, EditsAreCounted
  <2>1. CASE drain.push
    <3>1. /\ drain.pc = "pull"
          /\ drain' = [drain EXCEPT !.pc = "push", !.pull = FALSE, !.missed = FALSE]
          /\ UNCHANGED <<loop, conn, dirty, notice, spent>> /\ behind' \in BOOLEAN
      BY <1>2, <1>b, <2>1 DEF PullEnds
    <3>2. drain' \in DrainFields /\ drain'.pc = "push" /\ drain'.push = drain.push
      BY <1>t, <3>1 DEF DrainFields
    <3>3. TypeOK'
      BY <1>t, <2>1, <3>1, <3>2
      DEF Inductive, TypeOK, Sound, LoopFields, Conns, DrainFields
    <3> QED BY <1>d, <3>1, <3>2, <3>3
            DEF Inductive, BetweenPasses, AttemptsSeek, EditsAreCounted, WorkHasDriver,
                EditsHaveDriver, CalmReconnects
  <2>2. CASE ~drain.push
    <3>1. PassEnds(loop, FALSE, FALSE) /\ drain.pc = "pull" /\ UNCHANGED dirty
      BY <1>2, <2>2 DEF PullEnds
    <3>2. KeepsDrivers(loop)
      BY <2>2, <3>1 DEF KeepsDrivers, Inductive, EditsHaveDriver
    <3> QED BY <1>t, <1>d, <2>0, <3>1, <3>2, PassEndKeeps
  <2> QED BY <2>1, <2>2
<1>3. CASE PushEnds
  <2>1. PICK left \in 0 .. dirty, asks \in BOOLEAN, late \in BOOLEAN, stuck \in BOOLEAN :
          PushDone(left, asks, late, stuck)
    <3>1. CASE \E left \in 0 .. dirty, asks \in BOOLEAN : PushDone(left, asks, FALSE, FALSE)
      BY <3>1
    <3>2. CASE \E left \in 1 .. dirty, asks \in BOOLEAN : PushDone(left, asks, TRUE, FALSE)
      <4>1. 1 .. dirty \subseteq 0 .. dirty
        BY <1>t
      <4> QED BY <3>2, <4>1
    <3>3. CASE PushDone(dirty, TRUE, FALSE, TRUE)
      <4>1. dirty \in 0 .. dirty
        BY <1>t
      <4> QED BY <3>3, <4>1
    <3> QED BY <1>3, <3>1, <3>2, <3>3 DEF PushEnds
  <2>2. /\ drain.pc = "push" /\ dirty' = left /\ UNCHANGED <<behind, notice>>
    BY <1>3, <2>1 DEF PushEnds, PushDone
  <2>3. spent' \in [edits : Nat, remote : Nat, faults : Nat, calls : Nat]
        /\ spent'.edits = spent.edits
    <3>1. \/ spent' = spent
          \/ spent' = [spent EXCEPT !.faults = @ + 1]
      BY <1>3 DEF PushEnds, Spend
    <3> QED BY <1>t, <3>1 DEF EditsAreCounted
  <2>4. left \in Nat /\ left <= dirty
    BY <1>t
  <2>5. RestKeeps
    BY <1>t, <2>2, <2>3, <2>4 DEF RestKeeps, EditsAreCounted
  <2> DEFINE l == [loop EXCEPT !.push = @ \/ left > 0]
  <2>6. /\ Sound(l) /\ l.state = loop.state /\ l.session = loop.session
        /\ l.timers = loop.timers /\ Active(l) = Active(loop)
        /\ l.push = (loop.push \/ left > 0)
    BY <1>t DEF Sound, Active, LoopFields
  <2>7. CASE asks
    <3>1. /\ loop' = l /\ UNCHANGED conn
          /\ drain' = [drain EXCEPT !.pc = "pullAfter", !.push = FALSE,
                                    !.pull = TRUE, !.late = late, !.stuck = stuck]
      BY <2>1, <2>7 DEF PushDone
    <3>2. drain' \in DrainFields /\ drain'.pc = "pullAfter" /\ ~drain'.push
      BY <1>t, <3>1 DEF DrainFields
    <3>3. /\ Sound(loop') /\ loop'.state = loop.state /\ loop'.session = loop.session
          /\ loop'.timers = loop.timers /\ Active(loop') = Active(loop)
          /\ dirty' > 0 => loop'.push
      BY <2>2, <2>6, <3>1
    <3> HIDE DEF l
    <3>4. TypeOK'
      BY <1>t, <2>5, <3>1, <3>2, <3>3
      DEF Inductive, TypeOK, RestKeeps, Sound, LoopFields, Conns, DrainFields
    <3> QED BY <1>d, <2>2, <2>5, <3>1, <3>2, <3>3, <3>4
            DEF Inductive, RestKeeps, BetweenPasses, AttemptsSeek, WorkHasDriver,
                EditsHaveDriver, CalmReconnects
  <2>8. CASE ~asks
    <3>1. PassEnds(l, late, FALSE)
      BY <2>1, <2>8 DEF PushDone
    <3> HIDE DEF l
    <3>2. KeepsDrivers(l)
      BY <2>2, <2>6 DEF KeepsDrivers
    <3> QED BY <1>d, <2>2, <2>5, <2>6, <3>1, <3>2, PassEndKeeps
  <2> QED BY <2>7, <2>8
<1>4. CASE PullAfterPushEnds
  <2>1. PICK applied \in BOOLEAN : PassEnds(loop, drain.late, drain.stuck /\ ~applied)
    BY <1>4 DEF PullAfterPushEnds
  <2>2. drain.pc = "pullAfter" /\ UNCHANGED dirty
    BY <1>4 DEF PullAfterPushEnds
  <2>3. RestKeeps
    BY <1>4, <1>t, <1>b DEF PullAfterPushEnds, RestKeeps, EditsAreCounted
  <2>4. KeepsDrivers(loop)
    BY <1>d, <2>2 DEF KeepsDrivers, Inductive, EditsHaveDriver
  <2>5. (drain.stuck /\ ~applied) \in BOOLEAN
    BY <1>b
  <2> QED BY <1>t, <1>b, <1>d, <2>1, <2>2, <2>3, <2>4, <2>5, PassEndKeeps
<1>5. CASE PassFails
  <2>1. PICK k \in {loop, Alarmed(loop)} :
          Leaves(RetryLater([k EXCEPT !.push = @ \/ drain.push, !.pull = @ \/ drain.pull],
                            drain.push))
    BY <1>5 DEF PassFails
  <2>2. /\ Sound(k) /\ k.state = loop.state /\ k.session = loop.session
        /\ k.push = loop.push /\ k.timers = loop.timers /\ Active(k) = Active(loop)
    BY <1>t DEF Alarmed, Sound, Active, LoopFields, Statuses
  <2> DEFINE l == [k EXCEPT !.push = @ \/ drain.push, !.pull = @ \/ drain.pull]
  <2>l. l = [k EXCEPT !.push = @ \/ drain.push, !.pull = @ \/ drain.pull]
    OBVIOUS
  <2>4. drain.pc # "idle" /\ UNCHANGED <<conn, dirty, behind, notice>>
    BY <1>5 DEF PassFails
  <2>5. RestKeeps
    BY <1>5, <1>t, <2>4 DEF PassFails, Spend, RestKeeps, EditsAreCounted
  <2>6. Leaves(RetryLater(l, drain.push))
    BY <2>1
  <2> HIDE DEF l
  <2>3. /\ Sound(l) /\ l.state = k.state /\ l.session = k.session
        /\ l.timers = k.timers /\ Active(l) = Active(k)
        /\ l.push = (k.push \/ drain.push)
    BY <1>b, <2>2, <2>l DEF Sound, Active, LoopFields
  <2>7. KeepsDrivers(l)
    BY <2>2, <2>3, <2>4 DEF KeepsDrivers, Inductive, EditsHaveDriver
  <2> QED BY <1>b, <1>d, <2>2, <2>3, <2>4, <2>5, <2>6, <2>7, RetriesSafely
<1> QED BY <1>1, <1>2, <1>3, <1>4, <1>5 DEF PassSteps

\* What calls drain().
DrainSteps == NoticeArrives \/ PushTimer \/ SyncRetryTimer \/ SessionIsReady

\* drain(), called with what has become work.  seen is the attempt as the call leaves it: an
\* attempt that is ready is done, and settles.
LEMMA DrainsSafely ==
  ASSUME Inductive, NEW l, Sound(l), Active(l), NEW seen \in ConnsDone, Drains(l, seen),
         RestKeeps, UNCHANGED dirty, l.session = loop.session,
         l.state = "retry_wait" => drain.pc = "idle",
         calm => Active(loop),
         "reconnect" \in l.timers <=> "reconnect" \in loop.timers,
         dirty > 0 => \/ "push" \in l.timers \/ l.push \/ drain.push
                      \/ seen.pc \in {"token", "hello", "ready"}
                      \/ ~l.session /\ "reconnect" \in l.timers,
         seen = conn \/ (conn.pc = "ready" /\ seen.pc = "done")
  PROVE  Inductive'
<1>t. /\ conn \in Conns /\ drain \in DrainFields /\ Sound(loop)
      /\ conn.pc \in {"idle", "token", "hello", "ready"}
  BY DEF Inductive, TypeOK, Conns, DrainFields
<1>1. /\ Sound(loop') /\ drain' \in DrainFields /\ conn' \in Conns
      /\ loop'.session = l.session /\ loop'.timers = l.timers
      /\ Active(loop') = Active(l)
      /\ l.push => loop'.push \/ drain'.push
      /\ seen.pc \in {"token", "hello", "ready"} => conn' = seen
      /\ conn'.pc \in {"token", "hello"} => ~l.session \/ conn' = seen
      /\ \/ /\ drain.pc = "idle" /\ Active(l)
            /\ drain'.pc = "session" /\ (drain'.push \/ drain'.pull)
            /\ loop'.state # "retry_wait"
            /\ ~l.session /\ seen.pc = "idle" => conn'.pc = "token"
         \/ /\ drain.pc = "idle" /\ Active(l) /\ drain' = NoDrain
            /\ Active(l) /\ Pending(loop') => "syncRetry" \in l.timers
            /\ loop'.state = "retry_wait" => "syncRetry" \in l.timers
            /\ conn' = Ended(seen)
         \/ /\ ~Active(l) \/ drain.pc # "idle"
            /\ loop' = l /\ drain' = drain /\ conn' = Ended(seen)
  BY <1>t, DrainsKeeps
<1>2. /\ drain'.pc \in {"session", "pull", "push"} => drain'.push \/ drain'.pull
      /\ drain'.pc \in {"idle", "pullAfter"} => ~drain'.push
      /\ loop'.state = "retry_wait" => "syncRetry" \in loop'.timers /\ drain'.pc = "idle"
      /\ Active(loop') /\ Pending(loop') =>
            drain'.pc # "idle" \/ "syncRetry" \in loop'.timers
  <2>1. CASE drain.pc = "idle"
    BY <1>1, <2>1 DEF NoDrain
  <2>2. CASE drain.pc # "idle"
    BY <1>1, <2>2 DEF Inductive, TypeOK, BetweenPasses
  <2> QED BY <2>1, <2>2
<1>3. drain.pc = "idle" => ~drain.push
  BY DEF Inductive, BetweenPasses
<1>4. drain.pc # "idle" => drain' = drain
  BY <1>1
<1>5. TypeOK'
  BY <1>1, <1>2 DEF TypeOK, RestKeeps, Sound, LoopFields, Conns, DrainFields
<1>6. BetweenPasses' /\ WorkHasDriver'
  BY <1>2 DEF BetweenPasses, WorkHasDriver
<1>7. AttemptsSeek'
  BY <1>1 DEF Inductive, AttemptsSeek
<1>8. EditsHaveDriver'
  BY <1>1, <1>3, <1>4 DEF EditsHaveDriver
<1>9. CalmReconnects'
  <2>1. calm /\ ~loop.session =>
          "reconnect" \in loop.timers \/ conn.pc \in {"token", "hello"}
    BY DEF Inductive, CalmReconnects
  <2>2. Active(loop')
    BY <1>1
  <2> QED BY <1>1, <2>1, <2>2 DEF CalmReconnects, RestKeeps
<1> QED BY <1>1, <1>5, <1>6, <1>7, <1>8, <1>9 DEF Inductive, RestKeeps

\* A loop that has nothing to do goes idle and keeps its session, and its timers but for a
\* backoff that is over.
LEMMA IdlesSafely ==
  ASSUME Inductive, NEW l, Sound(l), Active(l), loop' = Idle(l), UNCHANGED drain,
         RestKeeps, UNCHANGED dirty, l.session = loop.session, ~Pending(l),
         conn' = conn \/ (conn.pc = "ready" /\ conn' = NoConn /\ dirty = 0),
         loop.timers \subseteq l.timers \union {"syncRetry"},
         Active(loop) /\ dirty > 0 => l.push = loop.push,
         ~Active(loop) => conn.pc = "ready" /\ dirty = 0
  PROVE  Inductive'
<1>t. /\ conn \in Conns /\ NoConn \in Conns /\ drain \in DrainFields
      /\ NoConn.pc = "idle"
  BY DEF Inductive, TypeOK, Conns, DrainFields, NoConn
<1>1. /\ loop' \in LoopFields /\ loop'.session = l.session /\ loop'.push = l.push
      /\ loop'.pull = l.pull /\ loop'.timers = l.timers /\ loop'.holds = l.holds
      /\ loop'.state = "live"
  BY DEF Idle, Sound, LoopFields, States, Statuses
<1>2. Sound(loop') /\ Active(loop') /\ ~Pending(loop')
  BY <1>1 DEF Sound, Active, Pending
<1>3. TypeOK'
  BY <1>t, <1>1, <1>2 DEF Inductive, TypeOK, RestKeeps, Sound, LoopFields, Conns, DrainFields
<1>4. BetweenPasses' /\ WorkHasDriver'
  BY <1>1, <1>2 DEF Inductive, BetweenPasses, WorkHasDriver
<1>5. AttemptsSeek'
  BY <1>t, <1>1 DEF Inductive, AttemptsSeek
<1>6. EditsHaveDriver'
  BY <1>1 DEF Inductive, EditsHaveDriver
<1>7. CalmReconnects'
  BY <1>1, <1>2 DEF Inductive, CalmReconnects, RestKeeps
<1> QED BY <1>2, <1>3, <1>4, <1>5, <1>6, <1>7 DEF Inductive, RestKeeps

\* What asks for work hands it to a pass, or finds the loop with nothing to do.
LEMMA DrainStepsKeep ==
  ASSUME Inductive, DrainSteps, UNCHANGED calm
  PROVE  Inductive'
<1>t. /\ loop \in LoopFields /\ conn \in Conns /\ conn \in ConnsDone /\ drain \in DrainFields
      /\ dirty \in 0 .. MaxEdits /\ Sound(loop) /\ EditsAreCounted
      /\ behind \in BOOLEAN /\ notice \in BOOLEAN
  BY DEF Inductive, TypeOK, LoopFields, Conns, ConnsDone, DrainFields
<1>p. conn.pc \in {"idle", "token", "hello", "ready"}
  BY <1>t DEF Conns
<1>d. /\ Active(loop) /\ dirty > 0 =>
           \/ "push" \in loop.timers \/ loop.push \/ drain.push \/ conn.pc # "idle"
           \/ ~loop.session /\ "reconnect" \in loop.timers
      /\ loop.state = "retry_wait" => drain.pc = "idle"
  BY DEF Inductive, EditsHaveDriver, BetweenPasses
<1>0. RestKeeps /\ UNCHANGED dirty
  BY <1>t DEF DrainSteps, NoticeArrives, PushTimer, SyncRetryTimer, SessionIsReady, ReadyWith,
              Fires, RestKeeps, EditsAreCounted
<1>1. CASE NoticeArrives
  <2>1. CASE Active(loop)
    <3> DEFINE l == [loop EXCEPT !.shown = "syncing", !.pull = TRUE]
    <3>1. Drains(l, conn)
      BY <1>1, <2>1 DEF NoticeArrives
    <3>2. /\ Sound(l) /\ Active(l) /\ l.session = loop.session /\ l.push = loop.push
          /\ l.timers = loop.timers /\ l.state = loop.state
      BY <1>t, <2>1 DEF Sound, Active, LoopFields, Statuses
    <3> HIDE DEF l
    <3> QED BY <1>t, <1>p, <1>d, <1>0, <2>1, <3>1, <3>2, DrainsSafely
  <2>2. CASE ~Active(loop)
    <3>1. UNCHANGED <<loop, conn, drain, spent>>
      BY <1>1, <2>2 DEF NoticeArrives
    <3>2. TypeOK'
      BY <1>0, <3>1 DEF Inductive, TypeOK, RestKeeps
    <3> QED BY <1>0, <3>1, <3>2
            DEF Inductive, RestKeeps, BetweenPasses, AttemptsSeek, WorkHasDriver,
                EditsHaveDriver, CalmReconnects
  <2> QED BY <2>1, <2>2
<1>2. CASE PushTimer
  <2> DEFINE l == [loop EXCEPT !.timers = @ \ {"push"}, !.push = TRUE]
  <2>1. "push" \in loop.timers /\ Drains(l, conn)
    BY <1>2, <1>t DEF PushTimer, Fires, Fired, LoopFields
  <2>2. Active(loop)
    BY <1>t, <2>1 DEF Sound
  <2>3. /\ Sound(l) /\ Active(l) /\ l.session = loop.session /\ l.push
        /\ l.timers = loop.timers \ {"push"} /\ l.state = loop.state
    BY <1>t, <2>2 DEF Sound, Active, LoopFields
  <2> HIDE DEF l
  <2> QED BY <1>t, <1>p, <1>d, <1>0, <2>1, <2>2, <2>3, DrainsSafely
<1>3. CASE SyncRetryTimer
  <2> DEFINE k == [loop EXCEPT !.timers = @ \ {"syncRetry"}, !.holds = FALSE]
  <2>1. /\ "syncRetry" \in loop.timers
        /\ IF Pending(k) THEN Drains([k EXCEPT !.shown = "syncing"], conn)
           ELSE loop' = Idle(k) /\ UNCHANGED <<conn, drain>>
    BY <1>3, <1>t DEF SyncRetryTimer, Fires, Fired, LoopFields
  <2>2. Active(loop)
    BY <1>t, <2>1 DEF Sound
  <2>3. /\ Sound(k) /\ Active(k) /\ k.session = loop.session /\ k.push = loop.push
        /\ k.timers = loop.timers \ {"syncRetry"} /\ k.state = loop.state
    BY <1>t, <2>2 DEF Sound, Active, LoopFields
  <2>4. CASE Pending(k)
    <3> DEFINE l == [k EXCEPT !.shown = "syncing"]
    <3>1. Drains(l, conn)
      BY <2>1, <2>4
    <3>2. /\ Sound(l) /\ Active(l) /\ l.session = loop.session /\ l.push = loop.push
          /\ l.timers = loop.timers \ {"syncRetry"} /\ l.state = loop.state
      BY <2>3 DEF Sound, Active, LoopFields, Statuses
    <3> HIDE DEF l, k
    <3> QED BY <1>t, <1>p, <1>d, <1>0, <2>2, <3>1, <3>2, DrainsSafely
  <2>5. CASE ~Pending(k)
    <3>1. loop' = Idle(k) /\ UNCHANGED <<conn, drain>>
      BY <2>1, <2>5
    <3> HIDE DEF k
    <3> QED BY <1>0, <2>2, <2>3, <2>5, <3>1, IdlesSafely
  <2> QED BY <2>4, <2>5
<1>4. CASE SessionIsReady
  <2> DEFINE k == [loop EXCEPT !.push = @ \/ dirty > 0, !.pull = @ \/ conn.ahead,
                               !.state = "live",
                               !.shown = IF dirty > 0 \/ conn.ahead THEN "syncing" ELSE @]
             l == ResetRetry(k)
             seen == [conn EXCEPT !.pc = "done"]
  <2>1. /\ conn.pc = "ready"
        /\ IF Pending(l) THEN Drains(l, seen)
           ELSE loop' = Idle(l) /\ conn' = NoConn /\ UNCHANGED drain
    BY <1>4 DEF SessionIsReady, ReadyWith
  <2>2. /\ Sound(k) /\ Active(k) /\ k.session = loop.session /\ k.state = "live"
        /\ k.push = (loop.push \/ dirty > 0) /\ k.timers = loop.timers
    <3>1. conn.ahead \in BOOLEAN /\ (dirty > 0) \in BOOLEAN
      BY <1>t DEF Conns
    <3> QED BY <1>t, <3>1 DEF Sound, Active, LoopFields, States, Statuses
  <2> HIDE DEF k
  <2>3. /\ Sound(l) /\ Active(l) /\ l.session = loop.session /\ l.state = "live"
        /\ l.push = (loop.push \/ dirty > 0) /\ l.timers = loop.timers \ {"syncRetry"}
    BY <2>2, ResetRetryKeeps
  <2>4. calm => Active(loop)
    BY <2>1 DEF Inductive, CalmReconnects
  <2>5. seen \in ConnsDone /\ seen.pc = "done"
    BY <1>t DEF Conns, ConnsDone
  <2> HIDE DEF l, seen
  <2>6. CASE Pending(l)
    <3>1. Drains(l, seen)
      BY <2>1, <2>6
    <3> QED BY <1>0, <2>1, <2>3, <2>4, <2>5, <3>1, DrainsSafely
  <2>7. CASE ~Pending(l)
    <3>1. loop' = Idle(l) /\ conn' = NoConn /\ UNCHANGED drain
      BY <2>1, <2>7
    <3>2. dirty = 0
      <4>1. ~l.push
        BY <2>7 DEF Pending
      <4>2. ~(dirty > 0)
        BY <2>3, <4>1
      <4> QED BY <1>t, <4>2
    <3> QED BY <1>0, <2>1, <2>3, <2>7, <3>1, <3>2, IdlesSafely
  <2> QED BY <2>6, <2>7
<1> QED BY <1>1, <1>2, <1>3, <1>4 DEF DrainSteps

-----------------------------------------------------------------------------
(* The theorems. *)

\* A plugin that has not started forgets nothing.
LEMMA InitIsInductive ==
  ASSUME AutoSyncBounds, Init
  PROVE  Inductive
<1>1. /\ loop.state = "stopped" /\ loop.timers = {} /\ ~loop.session /\ ~loop.holds
      /\ loop \in LoopFields
  BY DEF Init, LoopFields, States, Statuses
<1>2. drain \in DrainFields /\ drain.pc = "idle" /\ ~drain.push
  BY DEF Init, NoDrain, DrainFields
<1>3. conn \in Conns /\ conn.pc = "idle"
  BY DEF Init, NoConn, Conns
<1>4. /\ dirty = 0 /\ behind = FALSE /\ notice = FALSE
      /\ spent = [edits |-> 0, remote |-> 0, faults |-> 0, calls |-> 0]
  BY DEF Init
<1>5. EditsAreCounted /\ dirty \in 0 .. MaxEdits
  BY <1>4 DEF EditsAreCounted, AutoSyncBounds
<1>6. TypeOK
  BY <1>1, <1>2, <1>3, <1>4, <1>5 DEF TypeOK, LoopFields, Conns, DrainFields, Active
<1> QED BY <1>1, <1>2, <1>3, <1>5, <1>6
        DEF Inductive, Sound, BetweenPasses, AttemptsSeek, WorkHasDriver, EditsHaveDriver,
            CalmReconnects, Active

\* Every step keeps what a loop needs so as not to forget.
LEMMA InductiveInvariant == ASSUME AutoSyncBounds PROVE Spec => []Inductive
<1>1. Init => Inductive
  BY InitIsInductive
<1>2. Inductive /\ [Next]_vars => Inductive'
  <2> SUFFICES ASSUME Inductive, [Next]_vars PROVE Inductive'
    OBVIOUS
  <2>1. CASE Next
    <3>1. UNCHANGED calm
      BY <2>1 DEF Next
    <3>2. CASE QuietSteps
      BY <3>1, <3>2, QuietStepsKeep
    <3>3. CASE SessionSteps
      BY <3>1, <3>3, SessionStepsKeep
    <3>4. CASE StopSteps
      BY <3>1, <3>4, StopStepsKeep
    <3>5. CASE LostSteps
      BY <3>1, <3>5, LostStepsKeep
    <3>6. CASE DrainSteps
      BY <3>1, <3>6, DrainStepsKeep
    <3>7. CASE PassSteps
      BY <3>1, <3>7, PassStepsKeep
    <3> QED BY <2>1, <3>2, <3>3, <3>4, <3>5, <3>6, <3>7
            DEF Next, Step, QuietSteps, SessionSteps, StopSteps, LostSteps, DrainSteps,
                PassSteps
  <2>2. CASE UNCHANGED vars
    BY <2>2 DEF vars, Inductive, TypeOK, EditsAreCounted, BetweenPasses, AttemptsSeek,
                WorkHasDriver, EditsHaveDriver, CalmReconnects
  <2> QED BY <2>1, <2>2
<1> QED BY <1>1, <1>2, PTL DEF Spec

\* Whatever the order of timers, messages and failures, the fields of the loop have their
\* types, a pass that runs has taken some work, and a stopped loop has neither a timer nor
\* a session.
THEOREM TypeCorrect == AutoSyncBounds /\ Spec => []TypeOK
<1> SUFFICES ASSUME AutoSyncBounds PROVE Spec => []TypeOK
  OBVIOUS
<1>1. Inductive => TypeOK
  BY DEF Inductive
<1>2. Spec => []Inductive
  BY InductiveInvariant
<1> QED BY <1>1, <1>2, PTL

\* An active loop forgets nothing, for any number of changes, failures and calls: work
\* that was requested, changes in the store, a backoff and a missing session all have a
\* pass, an attempt or a timer that will see to them.
THEOREM NothingStaysForgotten == AutoSyncBounds /\ Spec => []NothingIsForgotten
<1> SUFFICES ASSUME AutoSyncBounds PROVE Spec => []NothingIsForgotten
  OBVIOUS
<1>1. Inductive => NothingIsForgotten
  <2> SUFFICES ASSUME Inductive PROVE NothingIsForgotten
    OBVIOUS
  <2>1. WorkIsDriven
    BY DEF Inductive, WorkHasDriver, WorkIsDriven
  <2>2. BackoffEnds
    BY DEF Inductive, Sound, BetweenPasses, BackoffEnds
  <2>3. ChangesAreDriven
    <3> SUFFICES ASSUME Active(loop), dirty > 0, drain.pc = "idle", conn.pc = "idle"
                 PROVE  loop.timers # {}
      BY DEF ChangesAreDriven
    <3>1. ~drain.push
      BY DEF Inductive, BetweenPasses
    <3>2. "push" \in loop.timers \/ loop.push \/ "reconnect" \in loop.timers
      BY <3>1 DEF Inductive, EditsHaveDriver
    <3>3. loop.push => "syncRetry" \in loop.timers \/ "reconnect" \in loop.timers
      BY DEF Inductive, WorkHasDriver, Pending
    <3> QED BY <3>2, <3>3
  <2>4. ActiveReconnects
    BY DEF Inductive, CalmReconnects, ActiveReconnects
  <2> QED BY <2>1, <2>2, <2>3, <2>4 DEF NothingIsForgotten
<1>2. Spec => []Inductive
  BY InductiveInvariant
<1> QED BY <1>1, <1>2, PTL
=============================================================================
