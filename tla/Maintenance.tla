---------------------------- MODULE Maintenance ----------------------------
(***************************************************************************)
(* The maintenance jobs of one vault's coordinator, the alarm that runs    *)
(* them, and the health summary that one of them writes to the database    *)
(* all vaults share (apps/api/src/sync/coordinator: maintenance-scheduler, *)
(* node-maintenance-scheduler, maintenance-service, health/sync-service).  *)
(*                                                                         *)
(* The jobs are rows of a table.  In a Durable Object the alarm is kept by *)
(* the platform; in a Node process it is a timer, and a timer whose delay  *)
(* exceeds what setTimeout can count fires at once.  Handlers enter at any *)
(* await of the alarm's in a Durable Object, never on Node (vault lock).   *)
(*                                                                         *)
(* Abstractions.  garbage holds the instants at which something becomes    *)
(* collectible; one pass takes the oldest.  dirty says that the summary    *)
(* last written lacks a change whose handler asked for a flush.  Due dates *)
(* are not rounded here (Coordinator rounds them).                         *)
(***************************************************************************)
EXTENDS Integers

CONSTANTS
  Runtimes,     \* values of onNode to check
  TimerMax,     \* longest delay a Node timer can count
  FlushDelay,   \* from a change to the flush of the summary
  StaleDelay,   \* from a flush to the next time-based change of the summary
  GcDelays,     \* how far ahead new garbage may become collectible
  RetryMin, RetryMax, \* backoff of a failed job
  AlarmRetry,   \* after an alarm that threw
  MaxDrained,   \* jobs run per alarm
  MaxRetries,   \* bound: failures in a row of one job
  Horizon,      \* bound: from here on no client acts and nothing fails
  MaxTime       \* bound: last instant of the clock

ASSUME MaintenanceModes == Runtimes \subseteq BOOLEAN
ASSUME MaintenanceTimes ==
  /\ TimerMax \in Nat /\ FlushDelay \in Nat \ {0} /\ StaleDelay \in Nat \ {0}
  /\ GcDelays \subseteq Nat /\ RetryMin \in Nat \ {0} /\ RetryMax \in Nat \ {0}
  /\ AlarmRetry \in Nat \ {0} /\ MaxDrained \in Nat \ {0}
  /\ MaxRetries \in Nat /\ Horizon \in Nat /\ MaxTime \in Nat

VARIABLES
  onNode,     \* TRUE: Node process; FALSE: Durable Object.  Never changes.
  now,
  jobs,       \* the maintenance_jobs table; due = NoTime when there is no row
  alarm,      \* the date armed for, and the instant it fires
  up,         \* whether the coordinator is loaded
  waiting,    \* an alarm that has fired and has not begun to drain
  drain,      \* the alarm's run over the due jobs
  scheduledFlushAt, \* the flush the service believes scheduled, in memory
  garbage,
  dirty

vars == <<onNode, now, jobs, alarm, up, waiting, drain, scheduledFlushAt, garbage, dirty>>

Keys == {"blob_gc", "health_summary_flush"}
NoTime == -1
NoJob == [due |-> NoTime, retries |-> 0]
NoAlarm == [for |-> NoTime, at |-> NoTime]
IdleDrain == [pc |-> "idle", now |-> 0, left |-> 0]

Init ==
  /\ onNode \in Runtimes
  /\ now = 0
  /\ jobs = [k \in Keys |-> NoJob]
  /\ alarm = NoAlarm
  /\ up = TRUE
  /\ waiting = FALSE
  /\ drain = IdleDrain
  /\ scheduledFlushAt = NoTime
  /\ garbage = {}
  /\ dirty = FALSE

-----------------------------------------------------------------------------
(* The table and the alarm. *)

Stored(js) == {k \in Keys : js[k].due # NoTime}

Earliest(times) == CHOOSE t \in times : \A u \in times : t <= u

EarliestDue(js) == Earliest({js[k].due : k \in Stored(js)})

\* An alarm for t.  A Node timer is given a delay, at least 0, and takes one it
\* cannot count for the shortest.
Armed(t) ==
  [for |-> t,
   at |-> IF ~onNode THEN t
          ELSE IF t <= now \/ t - now > TimerMax THEN now ELSE t]

\* Mutant: an earlier alarm is kept, as ensureArmed keeps it.
RearmedIfLater(js) ==
  IF Stored(js) = {} THEN NoAlarm
  ELSE IF alarm.for # NoTime /\ alarm.for <= EarliestDue(js) THEN alarm
  ELSE Armed(EarliestDue(js))

Rearmed(js) ==
  IF Stored(js) = {} THEN NoAlarm
  ELSE IF alarm.for = EarliestDue(js) THEN alarm ELSE Armed(EarliestDue(js))

\* defer: an earlier due date wins, and failures are not forgotten.
Deferred(js, k, t) ==
  IF js[k].due # NoTime /\ js[k].due <= t THEN js
  ELSE [js EXCEPT ![k] = [due |-> t, retries |-> @.retries]]

StoreDeferred(js) ==
  /\ jobs' = js
  /\ alarm' = IF js = jobs THEN alarm ELSE Rearmed(js)

\* scheduleSummaryFlush trusts the date it remembers.
FlushAt == now + FlushDelay
Trusted == scheduledFlushAt # NoTime /\ scheduledFlushAt <= FlushAt

WithFlush(js) ==
  IF Trusted THEN js ELSE Deferred(js, "health_summary_flush", FlushAt)

-----------------------------------------------------------------------------
(* What clients do. *)

Calm == now < Horizon

MayEnter == up /\ Calm /\ (onNode => drain.pc = "idle")

Tick ==
  /\ now < MaxTime
  /\ Calm \/ (drain.pc = "idle" /\ ~waiting)
  /\ now' = now + 1
  /\ UNCHANGED <<onNode, jobs, alarm, up, waiting, drain, scheduledFlushAt, garbage, dirty>>

\* Staging a blob makes garbage to come and asks for no flush.
StageBlob ==
  /\ MayEnter
  /\ \E d \in GcDelays :
       /\ garbage' = garbage \union {now + d}
       /\ StoreDeferred(Deferred(jobs, "blob_gc", now + d))
  /\ UNCHANGED <<onNode, now, up, waiting, drain, scheduledFlushAt, dirty>>

\* A commit or a purge may make garbage and asks for a flush; connecting,
\* detaching, aborting, acknowledging and disconnecting only ask.
Report ==
  /\ MayEnter
  /\ dirty' = TRUE
  /\ scheduledFlushAt' = IF Trusted THEN scheduledFlushAt ELSE FlushAt
  /\ \/ garbage' = garbage /\ StoreDeferred(WithFlush(jobs))
     \/ \E d \in GcDelays :
          /\ garbage' = garbage \union {now + d}
          /\ StoreDeferred(WithFlush(Deferred(jobs, "blob_gc",
                                              Earliest(garbage'))))
  /\ UNCHANGED <<onNode, now, up, waiting, drain>>

-----------------------------------------------------------------------------
(* The alarm. *)

AlarmFires ==
  /\ up
  /\ alarm.at # NoTime /\ alarm.at <= now
  /\ onNode \/ (drain.pc = "idle" /\ ~waiting)
  /\ alarm' = NoAlarm
  /\ waiting' = TRUE
  /\ UNCHANGED <<onNode, now, jobs, up, drain, scheduledFlushAt, garbage, dirty>>

DrainBegins ==
  /\ waiting /\ drain.pc = "idle"
  /\ waiting' = FALSE
  /\ drain' = [pc |-> "draining", now |-> now, left |-> MaxDrained]
  /\ UNCHANGED <<onNode, now, jobs, alarm, up, scheduledFlushAt, garbage, dirty>>

\* The job to run next: the earliest of those due, by name when two are.
Foremost(k) ==
  /\ jobs[k].due # NoTime /\ jobs[k].due <= drain.now
  /\ \A l \in Stored(jobs) \ {k} :
       jobs[k].due < jobs[l].due \/ (jobs[k].due = jobs[l].due /\ k = "blob_gc")

\* Mutant: the loop over due jobs has no bound.
TakeAnyJob(k) ==
  /\ drain.pc = "draining"
  /\ Foremost(k)
  /\ drain' = [pc |-> k, now |-> drain.now, left |-> drain.left - 1]
  /\ dirty' = (dirty /\ k = "blob_gc")
  /\ UNCHANGED <<onNode, now, jobs, alarm, up, waiting, scheduledFlushAt, garbage>>

\* The handler of the job runs up to its await: the flush has read the summary.
TakeJob(k) ==
  /\ drain.pc = "draining" /\ drain.left > 0
  /\ Foremost(k)
  /\ drain' = [pc |-> k, now |-> drain.now, left |-> drain.left - 1]
  /\ dirty' = (dirty /\ k = "blob_gc")
  /\ UNCHANGED <<onNode, now, jobs, alarm, up, waiting, scheduledFlushAt, garbage>>

Resume == drain' = [pc |-> "draining", now |-> drain.now, left |-> drain.left]

\* The row of k is deleted, or overwritten with its next date.
Rescheduled(js, k, t) == [js EXCEPT ![k] = [due |-> t, retries |-> 0]]

\* Mutant: a pass that found its batch deletes the job, whatever came meanwhile.
GcEndsOnce ==
  LET js == Deferred(jobs, "health_summary_flush", drain.now)
  IN  /\ drain.pc = "blob_gc"
      /\ garbage' = {t \in garbage : t > drain.now \/ \E u \in garbage : u < t}
      /\ jobs' = Rescheduled(js, "blob_gc", NoTime)
      /\ alarm' = IF js = jobs THEN alarm ELSE Rearmed(js)
      /\ Resume
      /\ UNCHANGED <<onNode, now, up, waiting, scheduledFlushAt, dirty>>

GcEnds ==
  LET js == Deferred(jobs, "health_summary_flush", drain.now)
  IN  /\ drain.pc = "blob_gc"
      /\ garbage' = {t \in garbage : t > drain.now \/ \E u \in garbage : u < t}
      /\ jobs' = Rescheduled(js, "blob_gc",
                   IF garbage' = {} THEN NoTime ELSE Earliest(garbage'))
      /\ alarm' = IF js = jobs THEN alarm ELSE Rearmed(js)
      /\ Resume
      /\ UNCHANGED <<onNode, now, up, waiting, scheduledFlushAt, dirty>>

FlushEnds ==
  /\ drain.pc = "health_summary_flush"
  /\ \E next \in {NoTime, drain.now + StaleDelay} :
       /\ scheduledFlushAt' = next
       /\ jobs' = Rescheduled(jobs, "health_summary_flush", next)
  /\ Resume
  /\ UNCHANGED <<onNode, now, alarm, up, waiting, garbage, dirty>>

\* The delay after n failures before this one: it doubles with each, up to a limit.
Capped(delay) == IF delay < RetryMax THEN delay ELSE RetryMax
Backoff[n \in Nat] == Capped(IF n = 0 THEN RetryMin ELSE 2 * Backoff[n - 1])

JobFails ==
  /\ Calm
  /\ drain.pc \in Keys /\ jobs[drain.pc].retries < MaxRetries
  /\ jobs' = [jobs EXCEPT ![drain.pc] =
       [due |-> drain.now + Backoff[@.retries], retries |-> @.retries + 1]]
  /\ Resume
  /\ IF drain.pc = "blob_gc" THEN UNCHANGED <<scheduledFlushAt, dirty>>
     ELSE scheduledFlushAt' = NoTime /\ dirty' = TRUE
  /\ UNCHANGED <<onNode, now, alarm, up, waiting, garbage>>

DrainEnds ==
  /\ drain.pc = "draining"
  /\ drain.left = 0 \/ \A k \in Keys : ~Foremost(k)
  /\ alarm' = Rearmed(jobs)
  /\ drain' = IdleDrain
  /\ UNCHANGED <<onNode, now, jobs, up, waiting, scheduledFlushAt, garbage, dirty>>

\* The table itself cannot be read or written: the alarm is set again.
DrainThrows ==
  /\ Calm
  /\ drain.pc = "draining"
  /\ alarm' = Armed(now + AlarmRetry)
  /\ drain' = IdleDrain
  /\ UNCHANGED <<onNode, now, jobs, up, waiting, scheduledFlushAt, garbage, dirty>>

-----------------------------------------------------------------------------
(* The coordinator is evicted, or its process ends.  The platform delivers an *)
(* alarm again whose handler did not finish; a timer is gone.                 *)

Crash ==
  /\ up /\ Calm
  /\ up' = FALSE
  /\ waiting' = FALSE
  /\ drain' = IdleDrain
  /\ scheduledFlushAt' = NoTime
  /\ dirty' = (dirty \/ drain.pc = "health_summary_flush")
  /\ alarm' = IF onNode THEN NoAlarm
              ELSE IF (waiting \/ drain.pc # "idle")
                      /\ (alarm.at = NoTime \/ alarm.at > now)
                   THEN [for |-> now, at |-> now]
                   ELSE alarm
  /\ UNCHANGED <<onNode, now, jobs, garbage>>

\* Mutant: a coordinator that loads sets no alarm.
StartUnarmed ==
  /\ ~up
  /\ up' = TRUE
  /\ UNCHANGED <<onNode, now, jobs, alarm, waiting, drain, scheduledFlushAt, garbage, dirty>>

\* ensureArmed, when a request or the platform's alarm loads the coordinator.
Start ==
  /\ ~up
  /\ up' = TRUE
  /\ alarm' = IF Stored(jobs) = {} THEN alarm
              ELSE IF alarm.for = NoTime \/ alarm.for > EarliestDue(jobs)
                   THEN Armed(EarliestDue(jobs))
                   ELSE alarm
  /\ UNCHANGED <<onNode, now, jobs, waiting, drain, scheduledFlushAt, garbage, dirty>>

Next ==
  \/ Tick \/ StageBlob \/ Report
  \/ AlarmFires \/ DrainBegins \/ \E k \in Keys : TakeJob(k)
  \/ GcEnds \/ FlushEnds \/ JobFails \/ DrainEnds \/ DrainThrows
  \/ Crash \/ Start

Spec == Init /\ [][Next]_vars

\* Time passes, the alarm is delivered, its run goes on, and somebody asks for
\* the vault after a crash.
Fairness ==
  /\ SF_vars(Tick)
  /\ WF_vars(AlarmFires) /\ WF_vars(DrainBegins)
  /\ WF_vars((\E k \in Keys : TakeJob(k)) \/ GcEnds \/ FlushEnds \/ DrainEnds)
  /\ WF_vars(Start)

FairSpec == Spec /\ Fairness

-----------------------------------------------------------------------------
(* What must hold. *)

TypeOK ==
  /\ onNode \in BOOLEAN
  /\ now \in Nat
  /\ jobs \in [Keys -> [due : Nat \union {NoTime}, retries : Nat]]
  /\ alarm \in [for : Nat \union {NoTime}, at : Nat \union {NoTime}]
  /\ up \in BOOLEAN /\ waiting \in BOOLEAN /\ dirty \in BOOLEAN
  /\ drain \in [pc : Keys \union {"idle", "draining"}, now : Nat, left : Nat]
  /\ scheduledFlushAt \in Nat \union {NoTime}
  /\ garbage \subseteq Nat

\* A loaded coordinator that is not draining has an alarm for its jobs, no
\* later than the earliest of them unless the alarm itself has just failed.
JobsAreArmed ==
  up /\ drain.pc = "idle" /\ ~waiting /\ Stored(jobs) # {} =>
    /\ alarm.at # NoTime
    /\ alarm.at <= EarliestDue(jobs) \/ alarm.at <= now + AlarmRetry

\* No reason to wake up is lost.  Jobs are armed; garbage keeps its job while a pass
\* awaits the object store, whatever a handler defers before the pass rewrites the
\* row; and where no handler enters while a flush awaits its database, a change
\* that the written summary lacks has a flush to come.
DueDatesAreKept ==
  /\ JobsAreArmed
  /\ garbage # {} => jobs["blob_gc"].due # NoTime
  /\ onNode /\ dirty => jobs["health_summary_flush"].due # NoTime

\* What an alarm for t, armed at any instant so far, does: it fires no earlier than t, or it
\* is a timer that fired at once because t lay further ahead than it counts.
SleepsUntil(a, t) == a.at >= t \/ (onNode /\ a.at + TimerMax < t)

\* A run that leaves nothing due sleeps until the next due date, but for a Node timer that
\* cannot count that far: that one wakes the coordinator at once, and does so again from
\* every run until the date is near enough.
SleepsUntilDue ==
  [][drain.pc = "draining" /\ drain.left > 0 /\ DrainEnds
       => \/ alarm'.at = NoTime
          \/ EarliestDue(jobs) > drain.now /\ SleepsUntil(alarm', EarliestDue(jobs))]_vars

\* Once clients stop and calls succeed, the garbage goes and on Node the summary
\* catches up, whatever crashed before.
Settles == <>[](garbage = {} /\ (onNode => ~dirty))
=============================================================================
