------------------------------- MODULE MCLive -------------------------------
(***************************************************************************)
(* What must come about in the end, for three systems with timers of their *)
(* own: the maintenance jobs of a coordinator, the sessions between a      *)
(* plugin and a coordinator, and the sync loop of a plugin.  A behaviour   *)
(* picks one; the others stand still, and are owed nothing.                *)
(***************************************************************************)
EXTENDS Maintenance, Sequences, FiniteSets

CONSTANTS Apps, MaxConns, MaxAsks, MaxEdits, MaxChanges, MaxFaults,
          Calms, MaxLocal, MaxRemote, MaxTroubles, MaxCalls

VARIABLES part,  \* which part this behaviour is about
          client, server, toServer, toClient, cut, awaiting, vault, device, spent,
          loop, conn, pass, unsent, behind, notice, used, calm

S == INSTANCE Session WITH up <- toServer, down <- toClient

\* AutoSync, with what is proved of it.
A == INSTANCE AutoSyncProofs WITH
       drain <- pass, dirty <- unsent, spent <- used, MaxEdits <- MaxLocal,
       MaxFaults <- MaxTroubles

ASSUME LoopBounds == A!AutoSyncBounds

sessionVars == <<client, server, toServer, toClient, cut, awaiting, vault, device, spent>>
loopVars == <<loop, conn, pass, unsent, behind, notice, used, calm>>
mcvars == <<vars, sessionVars, loopVars, part>>

\* The part that stands still has one state; of Session, no more than its properties
\* look at, connections that are closed.
AtRest == onNode = CHOOSE b \in Runtimes : TRUE
NoSessions == /\ client = [c \in S!Conns |-> [pending |-> {}, phase |-> "closed"]]
              /\ server = {} /\ toServer = {} /\ toClient = {} /\ cut = {}
              /\ awaiting = {} /\ vault = {} /\ device = {} /\ spent = {}

NoLoop == calm = CHOOSE c \in Calms : TRUE

MCInit == /\ Init /\ A!Init
          /\ \/ part = "maintenance" /\ NoSessions /\ NoLoop
             \/ part = "session" /\ AtRest /\ S!Init /\ NoLoop
             \/ part = "loop" /\ AtRest /\ NoSessions

Maintain == part = "maintenance" /\ UNCHANGED <<part, sessionVars, loopVars>>
Talk == part = "session" /\ UNCHANGED <<part, vars, loopVars>>
Sync == part = "loop" /\ UNCHANGED <<part, vars, sessionVars>>

\* Bound: on days that are not calm, when nothing need arrive, one local change fewer.
FewChanges == calm \/ used'.edits < MaxLocal

MCNext == (Maintain /\ Next) \/ (Talk /\ S!Next) \/ (Sync /\ A!Next /\ FewChanges)

MCSpec == MCInit /\ [][MCNext]_mcvars

\* The fairness of Maintenance, of Session and of AutoSync.  A behaviour has one part and the
\* actions of the others are never enabled in it, so that one condition on three actions of
\* different parts is a condition on each of them; those of the parts without connections
\* stand beside those of the first connection.
MCFairness ==
  /\ SF_mcvars(Maintain /\ Tick)
  /\ WF_mcvars(\/ Talk /\ \E w \in awaiting : S!CommitReturns(w)
               \/ Sync /\ A!Proceeds /\ UNCHANGED calm)
  /\ \A c \in S!Conns :
       /\ WF_mcvars(\/ Talk /\ S!Beat(c)
                    \/ c = 1 /\ Maintain /\ AlarmFires
                    \/ c = 1 /\ Sync /\ A!NoticeArrives /\ UNCHANGED calm)
       /\ WF_mcvars(\/ Talk /\ S!TimeOut(c) /\ c \in cut
                    \/ c = 1 /\ Maintain /\ DrainBegins
                    \/ c = 1 /\ Sync /\ A!PushTimer /\ UNCHANGED calm)
       /\ WF_mcvars(\/ Talk /\ S!Receive(c)
                    \/ c = 1 /\ Maintain
                         /\ ((\E k \in Keys : TakeJob(k)) \/ GcEnds \/ FlushEnds \/ DrainEnds)
                    \/ c = 1 /\ Sync /\ A!ReconnectTimer /\ UNCHANGED calm)
       /\ WF_mcvars(\/ Talk /\ S!Accept(c)
                    \/ c = 1 /\ Maintain /\ Start
                    \/ c = 1 /\ Sync /\ A!SyncRetryTimer /\ UNCHANGED calm)
       /\ WF_mcvars(\/ Talk /\ S!Serve(c)
                    \/ c = 1 /\ Sync /\ A!Opens /\ UNCHANGED calm)

MCFairSpec == MCSpec /\ MCFairness

\* Every request settles, a session whose network is gone is given up (Session), and the
\* garbage and the summary settle once clients stop (Maintenance).
EverythingSettles == Settles /\ S!SessionsSettle
\* An active loop forgets nothing: not what it was asked for, not what waits in the store,
\* not the end of a backoff, and not that it has no session; and all is of its type (AutoSync).
NothingIsForgotten == part = "loop" => A!TypeOK /\ A!NothingIsForgotten
\* Changes of either side reach the other once the loop is started, on a calm day (AutoSync:
\* A!ChangesArrive; a loop that stands still has been started by nobody).
ChangesArrive == A!ChangesArrive
=============================================================================
