------------------------------ MODULE MCPlugin ------------------------------
(***************************************************************************)
(* Parts of the plugin that are looked at in one run: its pipelines, and   *)
(* the version history, which asks nothing of them but a session.  A       *)
(* behaviour picks one of them and the other stands still.                 *)
(***************************************************************************)
EXTENDS Plugin

CONSTANTS Files, Screens, PageSize, Retention, AutoBucket, MaxChosen, MaxTime, MaxClicks,
          MaxLost  \* MaxFaults of the history

VARIABLES part,  \* which part this behaviour is about
          now, entry, versions, local, active, pane, known, loads, dialog, work, hist,
          used   \* what the bounds of the history count

H == INSTANCE History WITH spent <- used, MaxFaults <- MaxLost

historyVars == <<now, entry, versions, local, active, pane, known, loads, dialog, work, hist, used>>
mcvars == <<vars, historyVars, part>>

\* The part that stands still has one state.
AtRest == world.valid = {} /\ plugin.token = 0 /\ plugin.stored = 0 /\ ~plugin.required
HistoryAtRest == used.screens = CHOOSE s \in Screens : TRUE

MCInit == /\ part \in {"plugin", "history"}
          /\ Init /\ H!Init
          /\ IF part = "history" THEN AtRest ELSE HistoryAtRest

MCNext ==
  \/ part = "plugin" /\ Next /\ UNCHANGED <<part, historyVars>>
  \/ part = "history" /\ H!Next /\ UNCHANGED <<part, vars>>

MCSpec == MCInit /\ [][MCNext]_mcvars

\* The types of both parts.
PluginTypeOK == IF part = "history" THEN H!TypeOK ELSE TypeOK
\* A screen that waits for nothing shows what there is, and what the user is told was
\* restored is what the coordinator has restored (History).
ScreensAreTrue == part = "history" => H!ScreensAreTrue
\* A deleted file can be restored as it was until this deletion is purged (History).
DeletedIsRestorable == part = "history" => H!DeletedIsRestorable
=============================================================================
