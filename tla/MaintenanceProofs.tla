------------------------- MODULE MaintenanceProofs -------------------------
(***************************************************************************)
(* What is proved of Maintenance for every value of its constants, and of  *)
(* the sync loop of the plugin that is checked in the same run.            *)
(***************************************************************************)
EXTENDS MCLive, WellFoundedInduction, TLAPS

-----------------------------------------------------------------------------
(* Least elements, and the retry delay, which is defined by recursion.  An  *)
(* argument by induction is one by the least counterexample.                *)

\* Every set of natural numbers but the empty one has a least element.
LEMMA NatHasLeast ==
  ASSUME NEW T, T \subseteq Nat, T # {}
  PROVE  \E x \in T : \A y \in T : x <= y
<1> DEFINE R == {ss \in Nat \X Nat : ss[1] < ss[2]}
<1>1. IsWellFoundedOn(R, Nat)
  BY NatLessThanWellFounded DEF OpToRel
<1>2. PICK x \in T : \A y \in T : ~(<<y, x>> \in R)
  <2> HIDE DEF R
  <2> QED BY <1>1, WFMin
<1>3. ASSUME NEW y \in T PROVE x <= y
  <2>1. x \in Nat /\ y \in Nat
    OBVIOUS
  <2>2. ~(y < x)
    BY <1>2, <2>1
  <2> QED BY <2>1, <2>2
<1> QED BY <1>3

\* The earliest of some instants is one of them, and no other comes before it.
LEMMA EarliestIsLeast ==
  ASSUME NEW times, times \subseteq Nat, times # {}
  PROVE  Earliest(times) \in times /\ \A u \in times : Earliest(times) <= u
<1>1. \E t \in times : \A u \in times : t <= u
  BY NatHasLeast
<1> QED BY <1>1 DEF Earliest

\* The capped delay is a positive delay that does not exceed the limit.
LEMMA CappedType ==
  ASSUME NEW d \in Nat
  PROVE  Capped(d) \in Nat /\ Capped(d) <= RetryMax
BY MaintenanceTimes DEF Capped

IsBackoff(g, n) ==
  /\ g \in [0 .. n -> Nat]
  /\ \A i \in 0 .. n : g[i] = Capped(IF i = 0 THEN RetryMin ELSE 2 * g[i - 1])

\* The first n delays can be computed, whatever n.
LEMMA BackoffExists ==
  ASSUME NEW n \in Nat
  PROVE  \E g : IsBackoff(g, n)
<1> DEFINE T == {m \in Nat : ~\E g : IsBackoff(g, m)}
<1>1. SUFFICES ASSUME T # {} PROVE FALSE
  OBVIOUS
<1>2. PICK m \in T : \A y \in T : m <= y
  <2>1. T \subseteq Nat
    OBVIOUS
  <2> HIDE DEF T
  <2> QED BY <1>1, <2>1, NatHasLeast
<1>3. CASE m = 0
  <2> DEFINE g == [i \in 0 .. 0 |-> Capped(RetryMin)]
  <2>1. Capped(RetryMin) \in Nat
    BY CappedType, MaintenanceTimes
  <2>2. IsBackoff(g, 0)
    BY <2>1 DEF IsBackoff
  <2> QED BY <1>3, <2>2
<1>4. CASE m # 0
  <2>1. m \in Nat /\ m - 1 \in Nat /\ m - 1 \notin T
    <3>1. m \in Nat /\ m - 1 \in Nat /\ ~(m <= m - 1)
      BY <1>4
    <3> HIDE DEF T
    <3> QED BY <1>2, <3>1
  <2>2. PICK g : IsBackoff(g, m - 1)
    BY <2>1
  <2> DEFINE h == [i \in 0 .. m |-> IF i = m THEN Capped(2 * g[m - 1]) ELSE g[i]]
  <2>3. g[m - 1] \in Nat /\ Capped(2 * g[m - 1]) \in Nat
    <3>1. g[m - 1] \in Nat
      BY <2>1, <2>2 DEF IsBackoff
    <3> QED BY <3>1, CappedType
  <2>4. h \in [0 .. m -> Nat]
    BY <2>1, <2>2, <2>3 DEF IsBackoff
  <2>5. ASSUME NEW i \in 0 .. m
        PROVE  h[i] = Capped(IF i = 0 THEN RetryMin ELSE 2 * h[i - 1])
    <3>1. CASE i = m
      BY <2>1, <3>1, <1>4
    <3>2. CASE i # m
      <4>1. i \in 0 .. m - 1
        BY <2>1, <3>2
      <4>2. h[i] = g[i] /\ (i # 0 => h[i - 1] = g[i - 1])
        BY <2>1, <4>1
      <4> QED BY <4>1, <4>2, <2>2 DEF IsBackoff
    <3> QED BY <3>1, <3>2
  <2> HIDE DEF h
  <2>6. IsBackoff(h, m)
    BY <2>4, <2>5 DEF IsBackoff
  <2> QED BY <2>6, <1>2
<1> QED BY <1>3, <1>4

\* However far the delays are computed, they are the same.
LEMMA BackoffIsUnique ==
  ASSUME NEW m \in Nat, NEW n \in Nat, NEW g, NEW h, IsBackoff(g, m), IsBackoff(h, n),
         NEW i \in Nat, i <= m, i <= n
  PROVE  g[i] = h[i]
<1> DEFINE T == {j \in Nat : j <= m /\ j <= n /\ g[j] # h[j]}
<1>1. SUFFICES ASSUME T # {} PROVE FALSE
  OBVIOUS
<1>2. PICK j \in T : \A y \in T : j <= y
  <2>1. T \subseteq Nat
    OBVIOUS
  <2> HIDE DEF T
  <2> QED BY <1>1, <2>1, NatHasLeast
<1>3. j \in Nat /\ j <= m /\ j <= n /\ g[j] # h[j]
  BY <1>2
<1>4. j # 0
  BY <1>3 DEF IsBackoff
<1>5. g[j - 1] = h[j - 1]
  BY <1>2, <1>3, <1>4
<1>6. g[j] = Capped(2 * g[j - 1]) /\ h[j] = Capped(2 * h[j - 1])
  BY <1>3, <1>4 DEF IsBackoff
<1> QED BY <1>3, <1>5, <1>6

\* The recursion that defines Backoff has a solution, so Backoff is one.
LEMMA BackoffUnfolds ==
  Backoff = [n \in Nat |-> Capped(IF n = 0 THEN RetryMin ELSE 2 * Backoff[n - 1])]
<1> DEFINE G(n) == CHOOSE g : IsBackoff(g, n)
           f == [n \in Nat |-> G(n)[n]]
<1>1. ASSUME NEW n \in Nat PROVE IsBackoff(G(n), n)
  BY BackoffExists
<1>2. ASSUME NEW n \in Nat
      PROVE  f[n] = Capped(IF n = 0 THEN RetryMin ELSE 2 * f[n - 1])
  <2>1. IsBackoff(G(n), n)
    BY <1>1
  <2>2. G(n)[n] = Capped(IF n = 0 THEN RetryMin ELSE 2 * G(n)[n - 1])
    <3> HIDE DEF G
    <3> QED BY <2>1 DEF IsBackoff
  <2>3. n # 0 => G(n)[n - 1] = G(n - 1)[n - 1]
    <3>1. SUFFICES ASSUME n # 0 PROVE G(n)[n - 1] = G(n - 1)[n - 1]
      OBVIOUS
    <3>2. n - 1 \in Nat
      BY <3>1
    <3>3. IsBackoff(G(n - 1), n - 1)
      BY <1>1, <3>2
    <3> HIDE DEF G
    <3> QED BY <2>1, <3>2, <3>3, BackoffIsUnique
  <2> HIDE DEF G
  <2> QED BY <2>2, <2>3
<1>3. f = [n \in Nat |-> Capped(IF n = 0 THEN RetryMin ELSE 2 * f[n - 1])]
  <2>1. f = [n \in Nat |-> f[n]]
    OBVIOUS
  <2> HIDE DEF f
  <2> QED BY <1>2, <2>1
<1> HIDE DEF f
<1> QED BY <1>3 DEF Backoff

\* A failed job is retried after a delay within the limit.
LEMMA BackoffType ==
  ASSUME NEW n \in Nat
  PROVE  Backoff[n] \in Nat /\ Backoff[n] <= RetryMax
<1> DEFINE T == {j \in Nat : Backoff[j] \notin Nat}
<1>1. Backoff[0] \in Nat
  BY BackoffUnfolds, CappedType, MaintenanceTimes
<1>2. ASSUME NEW j \in Nat, Backoff[j] \in Nat PROVE Backoff[j + 1] \in Nat
  BY <1>2, BackoffUnfolds, CappedType
<1>3. T = {}
  <2>1. SUFFICES ASSUME T # {} PROVE FALSE
    OBVIOUS
  <2>2. PICK j \in T : \A y \in T : j <= y
    <3>1. T \subseteq Nat
      OBVIOUS
    <3> HIDE DEF T
    <3> QED BY <2>1, <3>1, NatHasLeast
  <2>3. j \in Nat /\ j # 0 /\ Backoff[j] \notin Nat
    BY <1>1
  <2>4. j - 1 \in Nat /\ Backoff[j - 1] \in Nat
    BY <2>2, <2>3
  <2> QED BY <1>2, <2>3, <2>4
<1>4. \A j \in Nat : Backoff[j] \in Nat
  BY <1>3
<1>5. (IF n = 0 THEN RetryMin ELSE 2 * Backoff[n - 1]) \in Nat
  BY <1>4, MaintenanceTimes
<1>6. Backoff[n] = Capped(IF n = 0 THEN RetryMin ELSE 2 * Backoff[n - 1])
  BY BackoffUnfolds
<1> QED BY <1>5, <1>6, CappedType

-----------------------------------------------------------------------------
(* The table of jobs and the alarm. *)

Tables == [Keys -> [due : Nat \union {NoTime}, retries : Nat]]

\* The alarm that is set was armed for an instant, and fires by then or at once.
AlarmIsSound ==
  \/ alarm = NoAlarm
  \/ /\ alarm.for \in Nat /\ alarm.at \in Nat
     /\ alarm.at <= alarm.for \/ alarm.at <= now

\* A job that is deferred has a due date no later than asked for; the others stay.
LEMMA DeferredJob ==
  ASSUME NEW js \in Tables, NEW k \in Keys, NEW t \in Nat
  PROVE  /\ Deferred(js, k, t) \in Tables
         /\ Deferred(js, k, t)[k].due \in Nat
         /\ Deferred(js, k, t)[k].due <= t
         /\ \A l \in Keys \ {k} : Deferred(js, k, t)[l] = js[l]
<1>1. CASE js[k].due # NoTime /\ js[k].due <= t
  BY <1>1 DEF Deferred, Tables
<1>2. CASE ~(js[k].due # NoTime /\ js[k].due <= t)
  <2>1. Deferred(js, k, t) = [js EXCEPT ![k] = [due |-> t, retries |-> js[k].retries]]
    BY <1>2 DEF Deferred
  <2> QED BY <2>1 DEF Tables
<1> QED BY <1>1, <1>2

\* Rewriting the row of a job leaves a table.
LEMMA RescheduledJob ==
  ASSUME NEW js \in Tables, NEW k \in Keys, NEW t \in Nat \union {NoTime}
  PROVE  /\ Rescheduled(js, k, t) \in Tables
         /\ Rescheduled(js, k, t)[k].due = t
         /\ \A l \in Keys \ {k} : Rescheduled(js, k, t)[l] = js[l]
BY DEF Rescheduled, Tables

\* The next due date of a table with jobs is the due date of one of them.
LEMMA EarliestDueIsLeast ==
  ASSUME NEW js \in Tables, Stored(js) # {}
  PROVE  /\ EarliestDue(js) \in Nat
         /\ \E k \in Stored(js) : EarliestDue(js) = js[k].due
         /\ \A k \in Stored(js) : EarliestDue(js) <= js[k].due
<1> DEFINE dues == {js[k].due : k \in Stored(js)}
<1>1. dues \subseteq Nat /\ dues # {}
  BY DEF Stored, Tables
<1>2. EarliestDue(js) \in dues /\ \A u \in dues : EarliestDue(js) <= u
  BY <1>1, EarliestIsLeast DEF EarliestDue
<1> QED BY <1>1, <1>2

\* An alarm armed for t fires by t, or at once.
LEMMA ArmedIsSound ==
  ASSUME now \in Nat, NEW t \in Nat
  PROVE  /\ Armed(t) \in [for : Nat, at : Nat]
         /\ Armed(t).for = t
         /\ Armed(t).at <= t \/ Armed(t).at <= now
BY DEF Armed

\* rearm leaves an alarm for the jobs there are, whatever alarm it found.
LEMMA RearmedIsSound ==
  ASSUME TypeOK, AlarmIsSound, NEW js \in Tables
  PROVE  /\ Rearmed(js) = NoAlarm
            \/ /\ Rearmed(js).for \in Nat /\ Rearmed(js).at \in Nat
               /\ Rearmed(js).at <= Rearmed(js).for \/ Rearmed(js).at <= now
         /\ Rearmed(js) \in [for : Nat \union {NoTime}, at : Nat \union {NoTime}]
         /\ Stored(js) # {} =>
              /\ Rearmed(js).for = EarliestDue(js)
              /\ Rearmed(js).at # NoTime
              /\ Rearmed(js).at <= EarliestDue(js) \/ Rearmed(js).at <= now
<1>1. CASE Stored(js) = {}
  BY <1>1 DEF Rearmed, NoAlarm, NoTime
<1>2. CASE Stored(js) # {} /\ alarm.for = EarliestDue(js)
  <2>1. EarliestDue(js) \in Nat /\ alarm # NoAlarm
    BY <1>2, EarliestDueIsLeast DEF NoAlarm, NoTime
  <2>2. Rearmed(js) = alarm
    BY <1>2 DEF Rearmed
  <2> QED BY <1>2, <2>1, <2>2 DEF AlarmIsSound, TypeOK, NoTime
<1>3. CASE Stored(js) # {} /\ alarm.for # EarliestDue(js)
  <2>1. EarliestDue(js) \in Nat
    BY <1>3, EarliestDueIsLeast
  <2>2. Rearmed(js) = Armed(EarliestDue(js))
    BY <1>3 DEF Rearmed
  <2> QED BY <1>3, <2>1, <2>2, ArmedIsSound DEF TypeOK, NoTime
<1> QED BY <1>1, <1>2, <1>3

-----------------------------------------------------------------------------
(* Type correctness, and the inductive invariant. *)

\* What keeps the summary of a Node coordinator from being forgotten: the flush the
\* service believes scheduled is in the table, and so is one that is being run, which
\* no change overtakes.
FlushIsKept ==
  /\ scheduledFlushAt # NoTime => jobs["health_summary_flush"].due # NoTime
  /\ drain.pc = "health_summary_flush" =>
       /\ jobs["health_summary_flush"].due # NoTime
       /\ onNode => ~dirty

\* TypeOK and DueDatesAreKept together with what they rest on.
Inductive == TypeOK /\ AlarmIsSound /\ DueDatesAreKept /\ FlushIsKept

\* Deferring a job and re-arming keeps the alarm of a coordinator that sleeps.
LEMMA StoreKeepsArmed ==
  ASSUME TypeOK, AlarmIsSound, JobsAreArmed, NEW js \in Tables, StoreDeferred(js),
         UNCHANGED <<now, up, waiting, drain>>
  PROVE  /\ jobs' \in Tables
         /\ alarm' \in [for : Nat \union {NoTime}, at : Nat \union {NoTime}]
         /\ AlarmIsSound'
         /\ JobsAreArmed'
<1>1. CASE js = jobs
  BY <1>1 DEF StoreDeferred, JobsAreArmed, AlarmIsSound, TypeOK, EarliestDue, Stored
<1>2. CASE js # jobs
  <2>1. jobs' = js /\ alarm' = Rearmed(js)
    BY <1>2 DEF StoreDeferred
  <2>2. AlarmIsSound'
    BY <2>1, RearmedIsSound DEF AlarmIsSound
  <2>3. Stored(js) # {} =>
          alarm'.at # NoTime /\ (alarm'.at <= EarliestDue(js) \/ alarm'.at <= now + AlarmRetry)
    <3>1. SUFFICES ASSUME Stored(js) # {}
                   PROVE  alarm'.at # NoTime
                          /\ (alarm'.at <= EarliestDue(js) \/ alarm'.at <= now + AlarmRetry)
      OBVIOUS
    <3>2. EarliestDue(js) \in Nat
      BY <3>1, EarliestDueIsLeast
    <3>3. alarm'.at \in Nat
      BY <2>1, <3>1, RearmedIsSound DEF NoTime
    <3> QED BY <2>1, <3>1, <3>2, <3>3, RearmedIsSound, MaintenanceTimes DEF TypeOK
  <2> QED BY <2>1, <2>2, <2>3, RearmedIsSound DEF JobsAreArmed, Stored, EarliestDue
<1> QED BY <1>1, <1>2

\* The summary's flush is in the table after it was asked for.
LEMMA FlushIsDeferred ==
  ASSUME TypeOK, FlushIsKept, NEW js \in Tables,
         js["health_summary_flush"] = jobs["health_summary_flush"]
  PROVE  /\ WithFlush(js) \in Tables
         /\ WithFlush(js)["health_summary_flush"].due # NoTime
         /\ WithFlush(js)["blob_gc"] = js["blob_gc"]
<1>1. "health_summary_flush" \in Keys /\ "blob_gc" \in Keys \ {"health_summary_flush"}
      /\ FlushAt \in Nat
  BY MaintenanceTimes DEF Keys, FlushAt, TypeOK
<1>2. CASE Trusted
  BY <1>2 DEF WithFlush, Trusted, FlushIsKept
<1>3. CASE ~Trusted
  <2>1. WithFlush(js) = Deferred(js, "health_summary_flush", FlushAt)
    BY <1>3 DEF WithFlush
  <2> DEFINE k == "health_summary_flush"
  <2> HIDE DEF k
  <2>2. k = "health_summary_flush"
    BY DEF k
  <2>3. /\ Deferred(js, k, FlushAt) \in Tables /\ Deferred(js, k, FlushAt)[k].due \in Nat
        /\ \A l \in Keys \ {k} : Deferred(js, k, FlushAt)[l] = js[l]
    BY <1>1, <2>2, DeferredJob
  <2> QED BY <1>1, <2>1, <2>2, <2>3 DEF NoTime
<1> QED BY <1>2, <1>3

\* Due dates, the alarm and the flush in memory agree in every reachable state.
LEMMA InductiveInvariant == Spec => []Inductive
<1>1. Init => Inductive
  <2> SUFFICES ASSUME Init PROVE Inductive
    OBVIOUS
  <2>1. TypeOK
    BY MaintenanceModes DEF Init, TypeOK, NoJob, NoAlarm, IdleDrain, NoTime
  <2>2. Stored(jobs) = {}
    BY DEF Init, Stored, NoJob
  <2> QED BY <2>1, <2>2 DEF Init, Inductive, AlarmIsSound, DueDatesAreKept, FlushIsKept,
                            JobsAreArmed, IdleDrain
<1>2. Inductive /\ [Next]_vars => Inductive'
  <2> SUFFICES ASSUME Inductive, [Next]_vars PROVE Inductive'
    OBVIOUS
  <2> USE DEF Inductive
  <2>k. /\ "blob_gc" \in Keys /\ "health_summary_flush" \in Keys
        /\ "blob_gc" \in Keys \ {"health_summary_flush"}
        /\ "health_summary_flush" \in Keys \ {"blob_gc"}
    BY DEF Keys
  <2>j. jobs \in Tables
    BY DEF TypeOK, Tables
  <2>1. CASE Tick
    BY <2>1, MaintenanceTimes
       DEF Tick, TypeOK, AlarmIsSound, DueDatesAreKept, FlushIsKept, JobsAreArmed, NoTime,
           EarliestDue, Stored
  <2>2. CASE StageBlob
    <3>1. PICK d \in GcDelays : /\ garbage' = garbage \union {now + d}
                               /\ StoreDeferred(Deferred(jobs, "blob_gc", now + d))
      BY <2>2 DEF StageBlob
    <3>2. UNCHANGED <<onNode, now, up, waiting, drain, scheduledFlushAt, dirty>>
      BY <2>2 DEF StageBlob
    <3> DEFINE js == Deferred(jobs, "blob_gc", now + d)
    <3>3. now + d \in Nat
      BY MaintenanceTimes DEF TypeOK
    <3>4. /\ js \in Tables /\ js["blob_gc"].due # NoTime
          /\ js["health_summary_flush"] = jobs["health_summary_flush"]
      <4> HIDE DEF js
      <4>1. /\ js \in Tables /\ js["blob_gc"].due \in Nat
            /\ \A l \in Keys \ {"blob_gc"} : js[l] = jobs[l]
        BY <2>k, <2>j, <3>3, DeferredJob DEF js
      <4> QED BY <2>k, <4>1 DEF NoTime
    <3>5. jobs' = js
      BY <3>1 DEF StoreDeferred
    <3> HIDE DEF js
    <3>6. jobs' \in Tables /\ AlarmIsSound' /\ JobsAreArmed'
          /\ alarm' \in [for : Nat \union {NoTime}, at : Nat \union {NoTime}]
      BY <3>1, <3>2, <3>4, StoreKeepsArmed DEF DueDatesAreKept, js
    <3> QED BY <3>1, <3>2, <3>3, <3>4, <3>5, <3>6
            DEF TypeOK, Tables, DueDatesAreKept, FlushIsKept
  <2>3. CASE Report
    <3>1. PICK js \in Tables :
            /\ StoreDeferred(WithFlush(js))
            /\ js["health_summary_flush"] = jobs["health_summary_flush"]
            /\ js["blob_gc"].due = NoTime => garbage' = {}
            /\ garbage' \subseteq Nat
      <4>1. CASE garbage' = garbage /\ StoreDeferred(WithFlush(jobs))
        BY <2>j, <4>1 DEF DueDatesAreKept, TypeOK
      <4>2. CASE \E d \in GcDelays :
                   /\ garbage' = garbage \union {now + d}
                   /\ StoreDeferred(WithFlush(Deferred(jobs, "blob_gc", Earliest(garbage'))))
        <5>1. PICK d \in GcDelays :
                /\ garbage' = garbage \union {now + d}
                /\ StoreDeferred(WithFlush(Deferred(jobs, "blob_gc", Earliest(garbage'))))
          BY <4>2
        <5>2. garbage' \subseteq Nat /\ garbage' # {}
          BY <5>1, MaintenanceTimes DEF TypeOK
        <5>3. Earliest(garbage') \in Nat
          BY <5>2, EarliestIsLeast
        <5>4. /\ Deferred(jobs, "blob_gc", Earliest(garbage')) \in Tables
              /\ Deferred(jobs, "blob_gc", Earliest(garbage'))["blob_gc"].due # NoTime
              /\ Deferred(jobs, "blob_gc", Earliest(garbage'))["health_summary_flush"]
                   = jobs["health_summary_flush"]
          <6> DEFINE js == Deferred(jobs, "blob_gc", Earliest(garbage'))
          <6> HIDE DEF js
          <6>1. /\ js \in Tables /\ js["blob_gc"].due \in Nat
                /\ \A l \in Keys \ {"blob_gc"} : js[l] = jobs[l]
            BY <2>k, <2>j, <5>3, DeferredJob DEF js
          <6>2. js["blob_gc"].due # NoTime
                /\ js["health_summary_flush"] = jobs["health_summary_flush"]
            BY <2>k, <6>1 DEF NoTime
          <6> QED BY <6>1, <6>2 DEF js
        <5> QED BY <5>1, <5>2, <5>4
      <4> QED BY <2>3, <4>1, <4>2 DEF Report
    <3>2. /\ UNCHANGED <<onNode, now, up, waiting, drain>>
          /\ dirty' = TRUE /\ scheduledFlushAt' \in Nat
          /\ onNode => drain.pc = "idle"
      BY <2>3, MaintenanceTimes
         DEF Report, MayEnter, TypeOK, Trusted, NoTime, FlushAt
    <3>3. /\ WithFlush(js) \in Tables
          /\ WithFlush(js)["health_summary_flush"].due # NoTime
          /\ WithFlush(js)["blob_gc"] = js["blob_gc"]
      BY <3>1, FlushIsDeferred
    <3>4. jobs' = WithFlush(js)
      BY <3>1 DEF StoreDeferred
    <3>5. jobs' \in Tables /\ AlarmIsSound' /\ JobsAreArmed'
          /\ alarm' \in [for : Nat \union {NoTime}, at : Nat \union {NoTime}]
      BY <3>1, <3>2, <3>3, StoreKeepsArmed DEF DueDatesAreKept
    <3> QED BY <3>1, <3>2, <3>3, <3>4, <3>5
            DEF TypeOK, Tables, DueDatesAreKept, FlushIsKept
  <2>4. CASE AlarmFires
    BY <2>4 DEF AlarmFires, NoAlarm, NoTime, TypeOK, AlarmIsSound, DueDatesAreKept,
                FlushIsKept, JobsAreArmed
  <2>5. CASE DrainBegins
    BY <2>5, MaintenanceTimes
       DEF DrainBegins, TypeOK, AlarmIsSound, DueDatesAreKept, FlushIsKept, JobsAreArmed
  <2>6. ASSUME NEW k \in Keys, TakeJob(k) PROVE Inductive'
    <3>1. /\ drain.pc = "draining" /\ drain.left > 0
          /\ jobs[k].due # NoTime
          /\ drain' = [pc |-> k, now |-> drain.now, left |-> drain.left - 1]
          /\ dirty' = (dirty /\ k = "blob_gc")
          /\ UNCHANGED <<onNode, now, jobs, alarm, up, waiting, scheduledFlushAt, garbage>>
      BY <2>6 DEF TakeJob, Foremost
    <3>2. drain' \in [pc : Keys \union {"idle", "draining"}, now : Nat, left : Nat]
      BY <3>1 DEF TypeOK
    <3>3. k = "blob_gc" \/ k = "health_summary_flush"
      BY DEF Keys
    <3>4. drain'.pc # "idle"
      BY <3>1, <3>3
    <3>5. dirty' \in BOOLEAN /\ (dirty' => dirty)
      BY <3>1 DEF TypeOK
    <3>6. TypeOK'
      BY <3>1, <3>2, <3>5 DEF TypeOK
    <3>7. DueDatesAreKept' /\ AlarmIsSound'
      BY <3>1, <3>4, <3>5 DEF DueDatesAreKept, JobsAreArmed, AlarmIsSound
    <3>8. FlushIsKept'
      BY <3>1, <3>3 DEF FlushIsKept
    <3> QED BY <3>6, <3>7, <3>8
  <2>7. CASE GcEnds
    <3> DEFINE js == Deferred(jobs, "health_summary_flush", drain.now)
               next == IF garbage' = {} THEN NoTime ELSE Earliest(garbage')
    <3>1. /\ jobs' = Rescheduled(js, "blob_gc", next)
          /\ garbage' \subseteq garbage
          /\ alarm' = IF js = jobs THEN alarm ELSE Rearmed(js)
          /\ drain' = [pc |-> "draining", now |-> drain.now, left |-> drain.left]
          /\ UNCHANGED <<onNode, now, up, waiting, scheduledFlushAt, dirty>>
      BY <2>7 DEF GcEnds, Resume
    <3>2. garbage' \subseteq Nat
      BY <3>1 DEF TypeOK
    <3>3. next \in Nat \union {NoTime} /\ (garbage' # {} => next # NoTime)
      <4>1. garbage' # {} => Earliest(garbage') \in Nat
        BY <3>2, EarliestIsLeast
      <4> QED BY <4>1 DEF NoTime
    <3>4. js \in Tables /\ js["health_summary_flush"].due # NoTime
      <4>1. drain.now \in Nat
        BY DEF TypeOK
      <4>2. js \in Tables /\ js["health_summary_flush"].due \in Nat
        BY <2>k, <2>j, <4>1, DeferredJob
      <4> QED BY <4>2 DEF NoTime
    <3> HIDE DEF js, next
    <3>5. /\ jobs' \in Tables /\ jobs'["blob_gc"].due = next
          /\ jobs'["health_summary_flush"].due # NoTime
      BY <2>k, <3>1, <3>3, <3>4, RescheduledJob DEF Keys
    <3>6. AlarmIsSound'
          /\ alarm' \in [for : Nat \union {NoTime}, at : Nat \union {NoTime}]
      BY <3>1, <3>4, RearmedIsSound DEF AlarmIsSound, TypeOK
    <3> QED BY <3>1, <3>2, <3>3, <3>5, <3>6
            DEF TypeOK, Tables, DueDatesAreKept, FlushIsKept, JobsAreArmed
  <2>8. CASE FlushEnds
    <3>1. PICK next \in {NoTime, drain.now + StaleDelay} :
            /\ scheduledFlushAt' = next
            /\ jobs' = Rescheduled(jobs, "health_summary_flush", next)
      BY <2>8 DEF FlushEnds
    <3>2. /\ UNCHANGED <<onNode, now, alarm, up, waiting, garbage, dirty>>
          /\ drain' = [pc |-> "draining", now |-> drain.now, left |-> drain.left]
          /\ drain.pc = "health_summary_flush"
      BY <2>8 DEF FlushEnds, Resume
    <3>3. next \in Nat \union {NoTime}
      BY MaintenanceTimes DEF TypeOK
    <3>4. /\ jobs' \in Tables /\ jobs'["health_summary_flush"].due = next
          /\ jobs'["blob_gc"] = jobs["blob_gc"]
      BY <2>k, <2>j, <3>1, <3>3, RescheduledJob DEF Keys
    <3> QED BY <3>1, <3>2, <3>3, <3>4
            DEF TypeOK, Tables, AlarmIsSound, DueDatesAreKept, FlushIsKept, JobsAreArmed
  <2>9. CASE JobFails
    <3>1. /\ drain.pc \in Keys
          /\ jobs' = [jobs EXCEPT ![drain.pc] =
               [due |-> drain.now + Backoff[jobs[drain.pc].retries],
                retries |-> jobs[drain.pc].retries + 1]]
          /\ drain' = [pc |-> "draining", now |-> drain.now, left |-> drain.left]
          /\ IF drain.pc = "blob_gc" THEN UNCHANGED <<scheduledFlushAt, dirty>>
             ELSE scheduledFlushAt' = NoTime /\ dirty' = TRUE
          /\ UNCHANGED <<onNode, now, alarm, up, waiting, garbage>>
      BY <2>9 DEF JobFails, Resume
    <3>2. jobs[drain.pc].retries \in Nat
      BY <3>1 DEF TypeOK
    <3>3. drain.now + Backoff[jobs[drain.pc].retries] \in Nat
      BY <3>2, BackoffType DEF TypeOK
    <3>4. /\ jobs' \in Tables /\ jobs'[drain.pc].due # NoTime
          /\ \A l \in Keys \ {drain.pc} : jobs'[l] = jobs[l]
      BY <2>j, <3>1, <3>2, <3>3 DEF Tables, NoTime
    <3> QED BY <2>k, <3>1, <3>4
            DEF TypeOK, Tables, AlarmIsSound, DueDatesAreKept, FlushIsKept, JobsAreArmed, Keys,
                NoTime
  <2>10. CASE DrainEnds
    <3>1. /\ alarm' = Rearmed(jobs) /\ drain' = IdleDrain
          /\ UNCHANGED <<onNode, now, jobs, up, waiting, scheduledFlushAt, garbage, dirty>>
      BY <2>10 DEF DrainEnds
    <3>2. AlarmIsSound'
          /\ alarm' \in [for : Nat \union {NoTime}, at : Nat \union {NoTime}]
      BY <2>j, <3>1, RearmedIsSound DEF AlarmIsSound
    <3>3. JobsAreArmed'
      <4>1. SUFFICES ASSUME Stored(jobs) # {}
                     PROVE  alarm'.at # NoTime
                            /\ (alarm'.at <= EarliestDue(jobs) \/ alarm'.at <= now + AlarmRetry)
        BY <3>1 DEF JobsAreArmed, Stored, EarliestDue
      <4>2. EarliestDue(jobs) \in Nat
        BY <2>j, <4>1, EarliestDueIsLeast
      <4>3. /\ alarm'.at # NoTime /\ alarm'.at \in Nat
            /\ alarm'.at <= EarliestDue(jobs) \/ alarm'.at <= now
        BY <2>j, <3>1, <3>2, <4>1, RearmedIsSound
      <4> QED BY <4>2, <4>3, MaintenanceTimes DEF TypeOK
    <3> QED BY <3>1, <3>2, <3>3 DEF TypeOK, DueDatesAreKept, FlushIsKept, IdleDrain
  <2>11. CASE DrainThrows
    <3>1. /\ alarm' = Armed(now + AlarmRetry) /\ drain' = IdleDrain
          /\ UNCHANGED <<onNode, now, jobs, up, waiting, scheduledFlushAt, garbage, dirty>>
      BY <2>11 DEF DrainThrows
    <3>2. now + AlarmRetry \in Nat /\ now \in Nat /\ now <= now + AlarmRetry
      BY MaintenanceTimes DEF TypeOK
    <3>3. /\ alarm' \in [for : Nat, at : Nat]
          /\ alarm'.for = now + AlarmRetry
          /\ alarm'.at <= now + AlarmRetry
      BY <3>1, <3>2, ArmedIsSound
    <3>4. alarm'.at # NoTime
      BY <3>3 DEF NoTime
    <3> QED BY <3>1, <3>2, <3>3, <3>4
            DEF TypeOK, AlarmIsSound, DueDatesAreKept, FlushIsKept, JobsAreArmed, IdleDrain
  <2>12. CASE Crash
    <3>1. /\ up' = FALSE /\ waiting' = FALSE /\ drain' = IdleDrain
          /\ scheduledFlushAt' = NoTime
          /\ dirty' = (dirty \/ drain.pc = "health_summary_flush")
          /\ alarm' \in {NoAlarm, alarm, [for |-> now, at |-> now]}
          /\ UNCHANGED <<onNode, now, jobs, garbage>>
      BY <2>12 DEF Crash
    <3>2. alarm' \in [for : Nat \union {NoTime}, at : Nat \union {NoTime}] /\ AlarmIsSound'
      <4>1. CASE alarm' = NoAlarm
        BY <4>1 DEF NoAlarm, NoTime, AlarmIsSound
      <4>2. CASE alarm' = alarm
        BY <3>1, <4>2 DEF TypeOK, AlarmIsSound
      <4>3. CASE alarm' = [for |-> now, at |-> now]
        BY <3>1, <4>3 DEF TypeOK, AlarmIsSound
      <4> QED BY <3>1, <4>1, <4>2, <4>3
    <3>3. TypeOK'
      BY <3>1, <3>2 DEF TypeOK, IdleDrain
    <3> QED BY <3>1, <3>2, <3>3
            DEF DueDatesAreKept, FlushIsKept, JobsAreArmed, IdleDrain
  <2>13. CASE Start
    <3>1. /\ UNCHANGED <<onNode, now, jobs, waiting, drain, scheduledFlushAt, garbage, dirty>>
          /\ up' = TRUE
          /\ alarm' = IF Stored(jobs) = {} THEN alarm
                      ELSE IF alarm.for = NoTime \/ alarm.for > EarliestDue(jobs)
                           THEN Armed(EarliestDue(jobs))
                           ELSE alarm
      BY <2>13 DEF Start
    <3>2. CASE Stored(jobs) = {}
      BY <3>1, <3>2 DEF TypeOK, AlarmIsSound, DueDatesAreKept, FlushIsKept, JobsAreArmed,
                        Stored
    <3>3. CASE Stored(jobs) # {}
      <4>1. EarliestDue(jobs) \in Nat
        BY <2>j, <3>3, EarliestDueIsLeast
      <4>2. /\ alarm' \in [for : Nat, at : Nat]
            /\ alarm'.at <= alarm'.for \/ alarm'.at <= now
            /\ alarm'.for <= EarliestDue(jobs)
        <5>1. CASE alarm.for = NoTime \/ alarm.for > EarliestDue(jobs)
          BY <3>1, <3>3, <4>1, <5>1, ArmedIsSound DEF TypeOK
        <5>2. CASE ~(alarm.for = NoTime \/ alarm.for > EarliestDue(jobs))
          BY <3>1, <3>3, <4>1, <5>2 DEF TypeOK, AlarmIsSound, NoAlarm
        <5> QED BY <5>1, <5>2
      <4>3. alarm'.at # NoTime
            /\ (alarm'.at <= EarliestDue(jobs) \/ alarm'.at <= now + AlarmRetry)
        BY <4>1, <4>2, MaintenanceTimes DEF TypeOK, NoTime
      <4>4. AlarmIsSound' /\ JobsAreArmed'
        BY <3>1, <4>2, <4>3 DEF AlarmIsSound, JobsAreArmed, Stored, EarliestDue
      <4> QED BY <3>1, <4>2, <4>4 DEF TypeOK, DueDatesAreKept, FlushIsKept
    <3> QED BY <3>2, <3>3
  <2>14. CASE UNCHANGED vars
    BY <2>14 DEF vars, TypeOK, AlarmIsSound, DueDatesAreKept, FlushIsKept, JobsAreArmed,
                 Stored, EarliestDue
  <2> QED BY <2>1, <2>2, <2>3, <2>4, <2>5, <2>6, <2>7, <2>8, <2>9, <2>10, <2>11, <2>12,
             <2>13, <2>14 DEF Next
<1> QED BY <1>1, <1>2, PTL DEF Spec

\* Every reachable state has the declared types: no alarm drains more jobs than the
\* limit allows (drain.left is a natural number), and due dates are dates.
THEOREM TypeCorrect == Spec => []TypeOK
<1>1. Inductive => TypeOK
  BY DEF Inductive
<1> QED BY <1>1, InductiveInvariant, PTL

\* No reason to wake up is lost: a sleeping coordinator is armed for its jobs, garbage
\* has its job, and on Node a change the summary lacks has its flush, whatever fails,
\* restarts or comes between the awaits of the alarm (drain, rearm, runGc,
\* scheduleSummaryFlush).
THEOREM DueDatesStayKept == Spec => []DueDatesAreKept
<1>1. Inductive => DueDatesAreKept
  BY DEF Inductive
<1> QED BY <1>1, InductiveInvariant, PTL

-----------------------------------------------------------------------------
(* When the alarm fires. *)

\* The alarm fires no earlier than the date it was armed for, or is a timer that could not
\* count that far.
FiresRightly == SleepsUntil(alarm, alarm.for)

\* Arming makes it so, whatever the date.
LEMMA ArmedRightly ==
  ASSUME now \in Nat, NEW t \in Nat
  PROVE  SleepsUntil(Armed(t), Armed(t).for)
BY MaintenanceTimes DEF Armed, SleepsUntil

\* The same of an alarm that rearm sets.
LEMMA RearmedRightly ==
  ASSUME TypeOK, FiresRightly, NEW js \in Tables
  PROVE  SleepsUntil(Rearmed(js), Rearmed(js).for)
<1>1. CASE Stored(js) = {}
  BY <1>1 DEF Rearmed, NoAlarm, NoTime, SleepsUntil
<1>2. CASE Stored(js) # {}
  <2>1. EarliestDue(js) \in Nat
    BY <1>2, EarliestDueIsLeast DEF Stored
  <2> QED BY <1>2, <2>1, ArmedRightly DEF Rearmed, FiresRightly, TypeOK
<1> QED BY <1>1, <1>2

\* An alarm is what it was, none, one for now, one that arm set or one that rearm set.
LEMMA AlarmIsSet ==
  ASSUME Inductive, Next
  PROVE  \/ alarm' \in {alarm, NoAlarm, [for |-> now, at |-> now]}
         \/ \E t \in Nat : alarm' = Armed(t)
         \/ \E js \in Tables : alarm' = Rearmed(js)
<1> USE DEF Inductive
<1>t. TypeOK /\ jobs \in Tables /\ now \in Nat
  BY DEF TypeOK, Tables
<1>k. "blob_gc" \in Keys /\ "health_summary_flush" \in Keys
  BY DEF Keys
<1>1. CASE Tick
  BY <1>1 DEF Tick
<1>2. CASE StageBlob
  <2>1. PICK d \in GcDelays : StoreDeferred(Deferred(jobs, "blob_gc", now + d))
    BY <1>2 DEF StageBlob
  <2>2. now + d \in Nat
    BY <1>t, MaintenanceTimes
  <2> QED BY <1>t, <1>k, <2>1, <2>2, DeferredJob DEF StoreDeferred
<1>3. CASE Report
  <2>1. PICK js \in Tables : /\ StoreDeferred(WithFlush(js))
                            /\ js["health_summary_flush"] = jobs["health_summary_flush"]
    <3>1. CASE StoreDeferred(WithFlush(jobs))
      BY <1>t, <3>1
    <3>2. ASSUME NEW d \in GcDelays, garbage' = garbage \union {now + d},
                 StoreDeferred(WithFlush(Deferred(jobs, "blob_gc", Earliest(garbage'))))
          PROVE  \E js \in Tables :
                   /\ StoreDeferred(WithFlush(js))
                   /\ js["health_summary_flush"] = jobs["health_summary_flush"]
      <4>1. garbage' \subseteq Nat /\ garbage' # {}
        BY <1>t, <3>2, MaintenanceTimes DEF TypeOK
      <4>2. Earliest(garbage') \in Nat
        BY <4>1, EarliestIsLeast
      <4>3. "health_summary_flush" \in Keys \ {"blob_gc"}
        BY DEF Keys
      <4> QED BY <1>t, <1>k, <3>2, <4>2, <4>3, DeferredJob
    <3> QED BY <1>3, <3>1, <3>2 DEF Report
  <2>2. WithFlush(js) \in Tables
    BY <2>1, FlushIsDeferred
  <2> QED BY <2>1, <2>2 DEF StoreDeferred
<1>4. CASE AlarmFires
  BY <1>4 DEF AlarmFires
<1>5. CASE DrainBegins
  BY <1>5 DEF DrainBegins
<1>6. ASSUME NEW k \in Keys, TakeJob(k) PROVE alarm' = alarm
  BY <1>6 DEF TakeJob
<1>7. CASE GcEnds
  <2> DEFINE js == Deferred(jobs, "health_summary_flush", drain.now)
  <2>1. alarm' = IF js = jobs THEN alarm ELSE Rearmed(js)
    BY <1>7 DEF GcEnds
  <2>2. js \in Tables
    BY <1>t, <1>k, DeferredJob DEF TypeOK
  <2> QED BY <2>1, <2>2
<1>8. CASE FlushEnds
  BY <1>8 DEF FlushEnds
<1>9. CASE JobFails
  BY <1>9 DEF JobFails
<1>10. CASE DrainEnds
  BY <1>t, <1>10 DEF DrainEnds
<1>11. CASE DrainThrows
  <2>1. now + AlarmRetry \in Nat
    BY <1>t, MaintenanceTimes
  <2> QED BY <1>11, <2>1 DEF DrainThrows
<1>12. CASE Crash
  BY <1>12 DEF Crash
<1>13. CASE Start
  <2>1. CASE Stored(jobs) = {}
    BY <1>13, <2>1 DEF Start
  <2>2. CASE Stored(jobs) # {}
    <3>1. EarliestDue(jobs) \in Nat
      BY <1>t, <2>2, EarliestDueIsLeast DEF Stored
    <3> QED BY <1>13, <2>2, <3>1 DEF Start
  <2> QED BY <2>1, <2>2
<1> QED BY <1>1, <1>2, <1>3, <1>4, <1>5, <1>6, <1>7, <1>8, <1>9, <1>10, <1>11, <1>12, <1>13
        DEF Next

\* Every alarm fires rightly.
LEMMA RightInvariant == Spec => []FiresRightly
<1>1. Init => FiresRightly
  BY MaintenanceTimes DEF Init, FiresRightly, SleepsUntil, NoAlarm, NoTime
<1>2. Inductive /\ FiresRightly /\ [Next]_vars => FiresRightly'
  <2> SUFFICES ASSUME Inductive, FiresRightly, [Next]_vars PROVE FiresRightly'
    OBVIOUS
  <2>t. TypeOK /\ now \in Nat
    BY DEF Inductive, TypeOK
  <2>o. onNode' = onNode
    BY DEF Next, vars, Tick, StageBlob, Report, AlarmFires, DrainBegins, TakeJob, GcEnds,
           FlushEnds, JobFails, DrainEnds, DrainThrows, Crash, Start
  <2>1. SleepsUntil(alarm', alarm'.for)
    <3>1. CASE alarm' \in {alarm, NoAlarm, [for |-> now, at |-> now]}
      <4>1. CASE alarm' = alarm
        BY <4>1 DEF FiresRightly
      <4>2. CASE alarm' = NoAlarm
        BY <4>2 DEF NoAlarm, NoTime, SleepsUntil
      <4>3. CASE alarm' = [for |-> now, at |-> now]
        BY <2>t, <4>3 DEF SleepsUntil
      <4> QED BY <3>1, <4>1, <4>2, <4>3
    <3>2. CASE \E t \in Nat : alarm' = Armed(t)
      BY <2>t, <3>2, ArmedRightly
    <3>3. CASE \E js \in Tables : alarm' = Rearmed(js)
      BY <2>t, <3>3, RearmedRightly
    <3>4. CASE UNCHANGED vars
      BY <3>4 DEF vars, FiresRightly
    <3> QED BY <3>1, <3>2, <3>3, <3>4, AlarmIsSet
  <2> QED BY <2>o, <2>1 DEF FiresRightly, SleepsUntil
<1> QED BY <1>1, <1>2, InductiveInvariant, PTL DEF Spec

\* A run of the alarm that leaves nothing due sleeps until the next due date, but for a Node
\* timer that cannot count that far and fires at once: what rearm leaves is armed for the
\* earliest date, not due yet, and fires no earlier otherwise (drain, rearm, arm).
THEOREM SleepsUntilNextDue == Spec => SleepsUntilDue
<1> DEFINE Sleeps ==
             drain.pc = "draining" /\ drain.left > 0 /\ DrainEnds
               => \/ alarm'.at = NoTime
                  \/ EarliestDue(jobs) > drain.now /\ SleepsUntil(alarm', EarliestDue(jobs))
<1>1. Inductive /\ FiresRightly /\ [Next]_vars => [Sleeps]_vars
  <2> SUFFICES ASSUME Inductive, FiresRightly, drain.left > 0, DrainEnds
               PROVE  \/ alarm'.at = NoTime
                      \/ EarliestDue(jobs) > drain.now /\ SleepsUntil(alarm', EarliestDue(jobs))
    OBVIOUS
  <2>t. TypeOK /\ jobs \in Tables
    BY DEF Inductive, TypeOK, Tables
  <2>1. alarm' = Rearmed(jobs) /\ \A k \in Keys : ~Foremost(k)
    BY <2>t DEF DrainEnds, TypeOK
  <2>2. CASE Stored(jobs) = {}
    BY <2>1, <2>2 DEF Rearmed, NoAlarm
  <2>3. CASE Stored(jobs) # {}
    <3>1. SleepsUntil(alarm', alarm'.for)
      BY <2>t, <2>1, RearmedRightly
    <3>2. alarm'.for = EarliestDue(jobs)
      BY <2>t, <2>1, <2>3, RearmedIsSound DEF Inductive
    <3>3. PICK k \in Stored(jobs) :
            EarliestDue(jobs) = jobs[k].due /\ \A l \in Stored(jobs) : jobs[k].due <= jobs[l].due
      BY <2>t, <2>3, EarliestDueIsLeast
    <3>4. ASSUME jobs[k].due <= drain.now PROVE FALSE
      <4>1. \A l \in Stored(jobs) : jobs[l].due \in Nat
        BY <2>t DEF Stored, Tables
      <4>2. CASE "blob_gc" \in Stored(jobs) /\ jobs["blob_gc"].due = jobs[k].due
        <5>1. Foremost("blob_gc")
          BY <3>3, <3>4, <4>1, <4>2 DEF Foremost, Stored
        <5> QED BY <2>1, <4>2, <5>1 DEF Stored
      <4>3. CASE ~("blob_gc" \in Stored(jobs) /\ jobs["blob_gc"].due = jobs[k].due)
        <5>1. \A l \in Stored(jobs) \ {k} : l = "blob_gc" \/ k = "blob_gc"
          BY DEF Stored, Keys
        <5>2. Foremost(k)
          BY <3>3, <3>4, <4>1, <4>3, <5>1 DEF Foremost, Stored
        <5> QED BY <2>1, <3>3, <5>2 DEF Stored
      <4> QED BY <4>2, <4>3
    <3>5. jobs[k].due \in Nat /\ drain.now \in Nat
      BY <2>t, <3>3 DEF Stored, Tables, TypeOK
    <3> QED BY <3>1, <3>2, <3>3, <3>4, <3>5
  <2> QED BY <2>2, <2>3
<1> QED BY <1>1, InductiveInvariant, RightInvariant, PTL DEF Spec, SleepsUntilDue

-----------------------------------------------------------------------------
(* What the run checks of the sync loop. *)

\* What is proved of AutoSync for any bounds holds of the run, in which a behaviour is about
\* the maintenance jobs, the sessions or the loop: an active loop forgets nothing.
THEOREM LoopForgetsNothing == MCSpec => []NothingIsForgotten
<1>1. MCInit => A!Init
  BY DEF MCInit
<1>2. [MCNext]_mcvars => [A!Next]_(A!vars)
  BY DEF MCNext, Maintain, Talk, Sync, mcvars, loopVars, A!vars
<1>3. A!AutoSyncBounds /\ A!Spec => []A!TypeOK
  BY A!TypeCorrect
<1>4. A!AutoSyncBounds /\ A!Spec => []A!NothingIsForgotten
  BY A!NothingStaysForgotten
<1>5. A!TypeOK /\ A!NothingIsForgotten => NothingIsForgotten
  BY DEF NothingIsForgotten
<1> QED BY <1>1, <1>2, <1>3, <1>4, <1>5, LoopBounds, PTL DEF MCSpec, A!Spec
=============================================================================
