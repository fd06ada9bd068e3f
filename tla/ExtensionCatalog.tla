--------------------------- MODULE ExtensionCatalog ---------------------------
(***************************************************************************)
(* What the extensions find on the disk each time they are asked: skills   *)
(* (packages/extensions/src/skill-catalog.ts) in the roots of several      *)
(* programs, and child MCP servers (mcp-config-loader.ts, allowlist.ts) in *)
(* their configuration files.  Both read one place after the other, while  *)
(* those programs and the user go on editing, and keep one entry of a      *)
(* name: of skills the first, of servers the last.                         *)
(*                                                                         *)
(* A skill folder is its path below the root and the name its SKILL.md     *)
(* gives it, if any.  A server is its name and whether it is this program. *)
(***************************************************************************)
EXTENDS Naturals, Sequences, SequencesExt, FiniteSets, Functions

CONSTANTS Roots,      \* the skill roots, in order
          Off,        \* disabledSkillRoots
          Files,      \* the configuration files, then the settings, in order
          Folders,    \* what may be in a root: sets of skill folders
          Servers,    \* what may be in a file: sets of servers; {} also if it is invalid
          Allowlist,  \* the mode is "allowlist", not "enable_all"
          Enabled, Disabled,
          Asks,       \* requests: kind, id, and the relative path of a read
          MaxEdits    \* bound: edits during one search

VARIABLES
    folders, \* per root: the skill folders in it
    configs, \* per file: the servers in it
    search,  \* the running request: what is still to be read, what was found
    answer,  \* the last answer
    during,  \* history: every entry that was there at some time of the search
    edits    \* history: edits since the search began

catalogVars == <<folders, configs, search, answer, during, edits>>

None == [kind |-> "none"]

CatalogInit ==
    /\ folders \in [Range(Roots) -> Folders] /\ configs \in [Range(Files) -> Servers]
    /\ search = None /\ answer = None /\ during = {} /\ edits = 0

-----------------------------------------------------------------------------
(* walkForSkills: no deeper than three levels, and not below a skill.      *)
SkillFiles(root) ==
    {f \in folders[root] : Len(f.path) <= 3 /\ \A g \in folders[root] : ~IsStrictPrefix(g.path, f.path)}

(* parseSkillMarkdown: the name is that of the folder if it gives none.    *)
NameOf(f) == IF f.named # "" THEN f.named ELSE Last(f.path)

(* discover of the skills, in one root.                                    *)
SkillsOf(root) ==
    IF root \in Off THEN {}
    ELSE {[id |-> <<root, NameOf(f)>>, root |-> root, path |-> f.path] :
              f \in SkillFiles(root)}

(* isServerEnabled, exclusionReason, toServer.                             *)
Excluded(s) == s.own
IsServerEnabled(name) == name \notin Disabled /\ (Allowlist => name \in Enabled)
ServersOf(file) ==
    {[id |-> s.name, source |-> file, excluded |-> Excluded(s), enabled |-> ~Excluded(s) /\ IsServerEnabled(s.name)] :
        s \in configs[file]}

Found(place) == IF place \in Range(Roots) THEN SkillsOf(place) ELSE ServersOf(place)
Orders(S) == {order \in [1..Cardinality(S) -> S] : Range(order) = S}

(* dedupeById keeps the first of a name, dedupeServers the last.           *)
DedupeById(list) ==
    {list[i] : i \in {j \in DOMAIN list : \A k \in DOMAIN list : list[k].id = list[j].id => j <= k}}
DedupeServers(list) ==
    {list[i] : i \in {j \in DOMAIN list : \A k \in DOMAIN list : list[k].id = list[j].id => k <= j}}
Deduped(kind, list) == IF kind = "mcp" THEN DedupeServers(list) ELSE DedupeById(list)

-----------------------------------------------------------------------------
(* Somebody saves a file or moves a folder.  An answer is looked at before *)
(* anything else happens.                                                  *)
Present(fs, cs) == UNION ({fs[r] : r \in Range(Roots)} \union {cs[f] : f \in Range(Files)})
Edited ==
    /\ during' = IF search = None THEN {} ELSE during \union Present(folders', configs')
    /\ edits' = IF search = None THEN 0 ELSE edits + 1
    /\ answer' = None
    /\ UNCHANGED search
EditFolders ==
    /\ edits < MaxEdits
    /\ \E r \in Range(Roots), F \in Folders : folders[r] # F /\ folders' = [folders EXCEPT ![r] = F]
    /\ UNCHANGED configs /\ Edited
EditConfig ==
    /\ edits < MaxEdits
    /\ \E f \in Range(Files), S \in Servers : configs[f] # S /\ configs' = [configs EXCEPT ![f] = S]
    /\ UNCHANGED folders /\ Edited

Begin(ask) ==
    /\ search = None
    /\ search' = [kind |-> ask.kind, ask |-> ask, got |-> <<>>,
                  left |-> IF ask.kind = "mcp" THEN Files ELSE Roots]
    /\ during' = Present(folders, configs) /\ edits' = 0 /\ answer' = None
    /\ UNCHANGED <<folders, configs>>

(* One root or one file is read.                                           *)
ReadPlace ==
    /\ search # None /\ search.left # <<>>
    /\ \E order \in Orders(Found(Head(search.left))) :
          search' = [search EXCEPT !.got = @ \o order, !.left = Tail(@)]
    /\ UNCHANGED <<folders, configs, answer, during, edits>>

(* The list is answered as it is; `read` looks for the identifier in it    *)
(* and then at the file, which must be inside the folder of the skill.     *)
Enter(folder, word) ==
    IF word # ".." THEN Append(folder, word) ELSE IF folder = <<>> THEN folder ELSE Front(folder)
Below(folder, words) == FoldLeft(Enter, folder, words)
SkillFile(skill, words) ==
    LET at == Below(skill.path, words)
    IN  IF ~IsPrefix(skill.path, at) THEN [code |-> "PATH_OUTSIDE_WORKSPACE"]
        ELSE IF \A f \in folders[skill.root] : f.path # skill.path THEN [code |-> "FILE_NOT_FOUND"]
        ELSE [code |-> "OK", root |-> skill.root, at |-> at]

AnswerSearch ==
    /\ search # None /\ search.left = <<>>
    /\ LET list == Deduped(search.kind, search.got)
           hit  == {e \in list : e.id = search.ask.id}
       IN  answer' = [kind |-> search.kind, list |-> list, ask |-> search.ask,
                      read |-> IF search.kind # "read" THEN None
                               ELSE IF hit = {} THEN [code |-> "FILE_NOT_FOUND"]
                               ELSE SkillFile(CHOOSE e \in hit : TRUE, search.ask.words)]
    /\ search' = None
    /\ UNCHANGED <<folders, configs, during, edits>>

CatalogNext == EditFolders \/ EditConfig \/ ReadPlace \/ AnswerSearch \/ \E ask \in Asks : Begin(ask)
CatalogSpec == CatalogInit /\ [][CatalogNext]_catalogVars

-----------------------------------------------------------------------------
(* What a list should be while nobody edits: per name the entry of the     *)
(* place that counts (one of them, if it has several of that name).        *)
Rank(kind, place) ==
    LET places == IF kind = "mcp" THEN Files ELSE Roots
        i      == CHOOSE j \in DOMAIN places : places[j] = place
    IN  IF kind = "mcp" THEN Len(places) - i ELSE i
PlaceOf(entry) == IF "root" \in DOMAIN entry THEN entry.root ELSE entry.source
Entries(kind) == UNION {Found(p) : p \in Range(IF kind = "mcp" THEN Files ELSE Roots)}
Counts(kind, entry) ==
    \A e \in Entries(kind) : e.id = entry.id => Rank(kind, PlaceOf(entry)) <= Rank(kind, PlaceOf(e))

(* skill-catalog.test.ts, mcp-config-loader.test.ts, extensions-service.   *)
(* test.ts: an answer names everything once, from the place that counts,   *)
(* leaves nothing out if nobody edited meanwhile and invents nothing if    *)
(* somebody did; this program is never one of its own children; and what   *)
(* is read of a skill is a file of its folder.                             *)
CatalogComplete ==
    (answer # None /\ search = None /\ edits = 0) =>
        /\ \A e \in answer.list : Counts(answer.kind, e)
        /\ answer.kind # "mcp" =>
              \A e \in answer.list : \A f \in folders[e.root] : ~IsStrictPrefix(f.path, e.path)
        /\ {e.id : e \in answer.list} = {e.id : e \in Entries(answer.kind)}
CatalogTrue ==
    answer # None =>
        /\ \A d, e \in answer.list : d.id = e.id => d = e
        /\ answer.kind = "mcp" => \A e \in answer.list :
              /\ \E s \in during : "own" \in DOMAIN s /\ s.name = e.id /\ s.own = e.excluded
              /\ e.enabled => ~e.excluded /\ IsServerEnabled(e.id)
        /\ answer.kind # "mcp" => \A e \in answer.list :
              \E f \in during : "path" \in DOMAIN f /\ f.path = e.path /\ Len(f.path) <= 3
        /\ (answer.kind = "read" /\ answer.read.code = "OK") =>
              \E e \in answer.list : /\ e.id = answer.ask.id /\ e.root = answer.read.root
                                     /\ IsPrefix(e.path, answer.read.at)
CatalogAnswersTrue == CatalogComplete /\ CatalogTrue
=============================================================================
