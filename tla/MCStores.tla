------------------------------- MODULE MCStores -------------------------------
(***************************************************************************)
(* One behaviour exercises one of the components that keep what clients    *)
(* have been given or have stored: `focus` says which.  The components     *)
(* share no state, so the others stay as they were created.                *)
(***************************************************************************)
EXTENDS MCReads, MCLookups
LOCAL INSTANCE TLC

CONSTANTS Files, Calls, MaxFiles, MaxContents,             \* FileStore
          Services, Slots, Ids, Plugins, MaxCalls          \* RuntimeState

ASSUME StoresAssumption ==
    /\ MaxContents \in Nat /\ MaxFiles \in Nat \ {0, 1} /\ MaxCalls \in Nat

VARIABLES focus,
          disk, checkpoints, op, fresh, born, dropped, clash,
          stateFile, loaded, memory, call, calls, acked, current, overlapped, failed

filesVars == <<disk, checkpoints, op, fresh, born, dropped, clash>>
runtimeVars == <<stateFile, loaded, memory, call, calls, acked, current, overlapped, failed>>
storeVars == <<filesVars, runtimeVars, contextVars, pagesVars>>
lookupVars == <<registryVars, catalogVars, bufferVars>>

F == INSTANCE FileStore
R == INSTANCE RuntimeState

Init ==
    /\ focus \in {"files", "runtime", "context", "pages", "stream", "tail", "registry", "catalog", "buffers"}
    /\ F!Init /\ (focus # "files" => disk = [f \in Files |-> F!Absent])
    /\ R!RuntimeInit
    /\ C!ContextInit /\ (focus # "context" => content = [x \in {code, metadata} |-> short])
    /\ P!PagesInit /\ (focus # "pages" => file.lines = <<>> /\ ~file.ended /\ ~file.large /\ ~file.trusted)
    /\ S!StreamInit /\ T!TailInit
    /\ W!RegistryInit /\ (focus # "registry" => unrestricted /\ rows = <<>>)
    /\ X!CatalogInit
    /\ (focus # "catalog" => \A r \in DOMAIN folders, f \in DOMAIN configs : folders[r] = {} /\ configs[f] = {})
    /\ O!BuffersInit

FilesStep == focus = "files" /\ F!Next /\ UNCHANGED <<focus, logVars, lookupVars, runtimeVars, contextVars, pagesVars>>
RuntimeStep == focus = "runtime" /\ R!RuntimeNext /\ UNCHANGED <<focus, logVars, lookupVars, filesVars, contextVars, pagesVars>>
ContextStep == focus = "context" /\ C!ContextNext /\ UNCHANGED <<focus, logVars, lookupVars, filesVars, runtimeVars, pagesVars>>
PagesStep == focus = "pages" /\ P!PagesNext /\ UNCHANGED <<focus, logVars, lookupVars, filesVars, runtimeVars, contextVars>>

StreamStep == focus = "stream" /\ S!StreamNext /\ UNCHANGED <<focus, storeVars, lookupVars, tailVars>>
TailStep == focus = "tail" /\ T!TailNext /\ UNCHANGED <<focus, storeVars, lookupVars, streamVars>>

RegistryStep == focus = "registry" /\ W!RegistryNext /\ UNCHANGED <<focus, storeVars, logVars, catalogVars, bufferVars>>
CatalogStep == focus = "catalog" /\ X!CatalogNext /\ UNCHANGED <<focus, storeVars, logVars, registryVars, bufferVars>>
BuffersStep == focus = "buffers" /\ O!BuffersNext /\ UNCHANGED <<focus, storeVars, logVars, registryVars, catalogVars>>

Next == FilesStep \/ RuntimeStep \/ ContextStep \/ PagesStep \/ StreamStep \/ TailStep
          \/ RegistryStep \/ CatalogStep \/ BuffersStep
Spec == Init /\ [][Next]_<<focus, storeVars, logVars, lookupVars>>

(* Once two requests of the file service have met on a path ContentKept    *)
(* says nothing any more, and neither does it of what follows.             *)
NoClash == ~clash

(* Which request of the file service it is makes no difference.            *)
Symmetric == Permutations(Calls)

-----------------------------------------------------------------------------
(* Every component keeps its variables in their types.                     *)
StoresTypeOK ==
    CASE focus = "files" -> F!TypeOK
      [] focus = "runtime" -> R!RuntimeTypeOK
      [] focus = "stream" -> S!StreamTypeOK
      [] focus = "tail" -> T!TailTypeOK
      [] focus = "registry" -> W!RegistryTypeOK
      [] OTHER -> TRUE

(* FileStore: what was in a file is still in a file or in a checkpoint.    *)
ContentKept == focus = "files" => F!ContentKept

(* RuntimeState: a task or checkpoint that was answered is stored.         *)
AnsweredIsStored == focus = "runtime" => R!AnsweredIsStored

(* ContextEngine: a reference of the ledger names a path that has the      *)
(* content; the pages of a chain are all its candidates, each once.        *)
(* FilePages: the pages of a chain are the lines of the file.              *)
(* OutputBuffers: a follower of a process has its lines or has been told.  *)
ReadsSound ==
    CASE focus = "context" -> C!LedgerSound /\ C!PagesTile
      [] focus = "pages" -> P!PagesLossless
      [] focus = "buffers" -> O!BuffersSound
      [] OTHER -> TRUE

(* WorkspaceRegistry: a root is registered once, and a path means a file   *)
(* of the innermost workspace around it.  ExtensionCatalog: a list has     *)
(* every skill and server once, from the place that counts.                *)
LookupsTrue ==
    CASE focus = "registry" -> W!RegistrySound
      [] focus = "catalog" -> X!CatalogAnswersTrue
      [] OTHER -> TRUE

(* LogStream and LogTail: a page shows what reached it, once, and the tail *)
(* passes on what the file holds.                                          *)
ViewSound ==
    CASE focus = "stream" -> S!ViewSound
      [] focus = "tail" -> T!TailExact
      [] OTHER -> TRUE

-----------------------------------------------------------------------------
(* The disk and the places of the run.                                     *)
(* Drives C: and E:, and D: is a name for C:\x; C:\p holds a directory, a  *)
(* secret file, and links to both sides of its border and to nothing;      *)
(* C:\l is another name of it.  It may be a workspace from a session in    *)
(* the other mode.                                                         *)
ThreeDrives == <<<<"C">>, <<"D">>, <<"E">>>>
Dirs == {<<"C">>, <<"E">>, <<"C", "p">>, <<"C", "p", "s">>, <<"C", "x">>}
Links == {[from |-> <<"C", "p", "out">>, to |-> <<"C", "x">>],
          [from |-> <<"C", "p", "in">>, to |-> <<"C", "p", "key">>],
          [from |-> <<"C", "p", "gone">>, to |-> <<"C", "p", "no">>],
          [from |-> <<"C", "l">>, to |-> <<"C", "p">>], [from |-> <<"D">>, to |-> <<"C", "x">>]}
Key == <<"C", "p", "key">>
LinkedDisk ==
    [q \in Dirs \union {Key} \union {l.from : l \in Links} |->
        IF q \in Dirs THEN [kind |-> "dir"] ELSE IF q = Key THEN [kind |-> "file"]
        ELSE [kind |-> "link", to |-> (CHOOSE l \in Links : l.from = q).to]]
TwoNames == {<<"C", "p">>, <<"C", "l">>}
EarlierRows == {<<>>, <<[id |-> 1, root |-> <<"C", "p">>, real |-> <<"C", "p">>]>>}
PathInputs ==
    [absolute : {TRUE}, path : {<<"C", "p", "s">>, <<"C", "x", "n">>, <<"C", "l", "s">>}]
      \union [absolute : {FALSE},
              path : {<<"in">>, <<"s">>, <<"out">>, <<"out", "n">>, <<"gone">>,
                      <<"s", "..", "..", "x">>, <<"n">>}]

(* Skills below and beside each other, too deep, of one name; servers of   *)
(* one name in two files, one of them this program.                        *)
Skill(q, named) == [path |-> q, named |-> named]
Server(name, own) == [name |-> name, own |-> own]
Asked(kind, id, words) == [kind |-> kind, id |-> id, words |-> words]
TwoRoots == <<"home", "ws">>
TwoConfigs == <<"cursor", "settings">>
SkillFolders ==
    {{}, {Skill(<<"a">>, "")}, {Skill(<<"a">>, ""), Skill(<<"a", "b">>, "x")},
     {Skill(<<"a">>, ""), Skill(<<"c">>, "a")},
     {Skill(<<"a", "b">>, "x"), Skill(<<"d", "d", "d", "d">>, "x")}}
ChildServers == {{}, {Server("s", FALSE)}, {Server("s", TRUE), Server("t", FALSE)}}
CatalogAsks ==
    {Asked("mcp", "s", <<>>), Asked("list", "", <<>>),
     Asked("read", <<"home", "a">>, <<"f">>), Asked("read", <<"home", "x">>, <<"..", "..", "f">>)}
=============================================================================
