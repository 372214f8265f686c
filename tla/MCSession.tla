----------------------------- MODULE MCSession ------------------------------
(***************************************************************************)
(* The sessions between the coordinator and the plugins (Session), and     *)
(* what a plugin selects of its files (Selection).  A behaviour is about   *)
(* one of them, and the other stands still.                                *)
(***************************************************************************)
EXTENDS Session

CONSTANTS MaxActs, MaxPeers, MaxRules

VARIABLES part,  \* which of the two this behaviour is about
          path, file, entry, row, pulled, rules, lane, listing, did, hist

FileNames ==
  {"pic.png", "old.md", "x.md", "c.md", "note.sync-conflict-20260101-120000.md",
   "app.json", "workspace.json", "data.json", "__synch_probe__.md"}
KindOfName == [n \in FileNames |-> CASE n = "pic.png" -> "image"
                                    [] n \in {"app.json", "workspace.json", "data.json"} -> "json"
                                    [] OTHER -> "md"]
ConfigFiles ==
  {"mainSettings", "appearance", "themesAndSnippets", "hotkeys", "corePluginList",
   "corePluginData", "communityPluginList", "communityPluginFiles", "communityPluginData"}
Default == [kinds |-> {"image"}, excluded |-> {}, hidden |-> {}, config |-> {}]
PrivateFiles ==
  {<<".tools", ".git", "c.md">>, <<".obsidian", "workspace.json">>,
   <<".obsidian", "plugins", "syncali", "data.json">>,
   <<"arch", "note.sync-conflict-20260101-120000.md">>}
Files ==
  PrivateFiles \union
    {<<"arch", "pic.png">>, <<"arch", "old.md">>, <<".tools", "x.md">>,
     <<".obsidian", "app.json">>, <<".obsidian", "plugins", "cal", "data.json">>}
DottedNames == {".tools", ".sub", ".git", ".obsidian"}
CopyNames == {"note.sync-conflict-20260101-120000.md"}
Selections ==
  {Default,
   [Default EXCEPT !.excluded = {<<"arch">>, <<"arch", "old">>, <<".tools">>}],
   [Default EXCEPT !.hidden = {<<".tools">>, <<".tools", ".sub">>, <<".obsidian">>, <<"arch">>}],
   [Default EXCEPT !.config = ConfigFiles],
   [Default EXCEPT !.kinds = {}, !.config = {"mainSettings", "corePluginData"}]}

\* Selection, with what is proved of it.
F == INSTANCE SelectionProofs WITH
       server <- entry, spent <- did, SomePaths <- Files, Private <- PrivateFiles,
       Dotted <- DottedNames, Copies <- CopyNames, KindOf <- KindOfName, Settings <- Selections

\* The paths and settings are such as Selection takes them to be.
ASSUME PathsArePlain == F!PlainPaths

fileVars == <<path, file, entry, row, pulled, rules, lane, listing, did, hist>>
mcvars == <<vars, fileVars, part>>

\* A part that stands still has one state.
NoSession == vault.features = {} /\ \A a \in Apps : device[a].cursor = 0
NoFile == path = <<"arch", "pic.png">> /\ entry.rev = 0 /\ rules = Default

\* An old server meets devices that are ahead of it, a new one those that are not: the two
\* have nothing to do with each other.
OldOrNew == \A a \in Apps : (vault.features = {}) = (device[a].cursor = 1)

MCInit == /\ part \in {"session", "selection"}
          /\ Init /\ F!Init
          /\ IF part = "session" THEN OldOrNew /\ NoFile ELSE NoSession

MCNext ==
  \/ part = "session" /\ Next /\ UNCHANGED <<part, fileVars>>
  \/ part = "selection" /\ F!Next /\ UNCHANGED <<part, vars>>

MCSpec == MCInit /\ [][MCNext]_mcvars

\* The types of both.
SessionTypeOK == TypeOK /\ F!TypeOK
\* A scan whose listing was not overtaken deletes for others only what a person has deleted;
\* what is private stays so, and the device has the files that are selected (Selection).
SelectionIsKept == part = "selection" => F!SelectionIsKept
\* Excluding a path never removes its file from the server: no scan deletes for everybody
\* what only the rules have hidden from it (Selection).
ExcludingRemovesNothing == part = "selection" => F!ExcludingRemovesNothing
\* A file whose path is selected again never replaces an edit that was noted meanwhile
\* (Selection).
ReturningFileIsNewest == part = "selection" => F!ReturningFileIsNewest
=============================================================================
