------------------------------ MODULE MCDevice ------------------------------
(***************************************************************************)
(* Three views of a device in one run: Device has the interleavings of its *)
(* recorder, its push and its pull on files that stay where they are,      *)
(* Paths has files that move, TextMerge what it makes of a note that two   *)
(* devices have edited.  A behaviour picks one, the others stand still.    *)
(***************************************************************************)
EXTENDS Device, SequencesExt

CONSTANTS Ids, Names, Hidden, OthersBytes, OwnBytes, Nil, Window, BatchSize, OneSecond,
          MaxCopies, MaxChanges, MaxActs, MaxStops,
          Separator, NoMerge, MaxCells, MaxRewrites

VARIABLES part,  \* which part this behaviour is about
          served, last, tree, store, checkpoint, pulling, running, used, mine, astray,
          common, here, there, edits

P == INSTANCE Paths WITH
       feed <- served, head <- last, file <- tree, rows <- store, cursor <- checkpoint,
       pull <- pulling, spent <- used, Theirs <- OthersBytes, Mine <- OwnBytes,
       WindowSize <- Window, MaxTroubles <- MaxStops

Words == {<<"x">>, <<"n">>}
Notes == {<<<<"x">>, <<"y">>, <<"z">>>>, <<<<"x">>>>, <<>>, <<<<"y", Separator, "z">>, <<"x">>>>}
T == INSTANCE TextMerge WITH MaxEdits <- MaxRewrites, Contents <- Words, Bases <- Notes

pathsVars == <<served, last, tree, store, checkpoint, pulling, running, used, mine, astray>>
noteVars == <<common, here, there, edits>>
mcvars == <<vars, pathsVars, noteVars, part>>

\* A part that stands still has one state, or none at all.
AtRest == /\ cursor = head
          /\ LET ids == SetToSeq(Entries \ New) IN \A k \in DOMAIN ids : feed[ids[k]].seq = k
NoPaths ==
  /\ served = Nil /\ last = 0 /\ tree = Nil /\ store = Nil /\ checkpoint = 0
  /\ pulling = Nil /\ running = FALSE /\ used = Nil /\ mine = {} /\ astray = {}
NoNote == common = <<>>

MCInit == /\ Init /\ T!Init
          /\ \/ part = "device" /\ NoPaths /\ NoNote
             \/ part = "paths" /\ AtRest /\ P!Init /\ NoNote
             \/ part = "merge" /\ AtRest /\ NoPaths

MCNext ==
  \/ part = "device" /\ Next /\ UNCHANGED <<part, pathsVars, noteVars>>
  \/ part = "paths" /\ P!Next /\ UNCHANGED <<part, vars, noteVars>>
  \/ part = "merge" /\ T!Next /\ UNCHANGED <<part, vars, pathsVars>>

MCSpec == MCInit /\ [][MCNext]_mcvars

\* The types of both parts.
DeviceTypeOK == TypeOK /\ (part = "paths" => P!TypeOK)
\* A device with nothing to pull and nothing to push has the server's files (Device:
\* applyRemoteEntryStatesInBatches, the recorder and the push), where the server has them
\* (Paths: planManifest, createPathDependencyBatches).
SettledAgrees == SettledHasArrived /\ (part = "paths" => P!TreesAgree)
\* No window of moves takes along what the user wrote (Paths: findConflictingPendingMutation).
NothingLost == part = "paths" => P!NothingLost
\* A clean merge of two devices' edits keeps what each has written and takes out what each
\* has taken out (TextMerge: mergeText3).
MergesAreSound == part = "merge" => T!MergesAreSound
=============================================================================
