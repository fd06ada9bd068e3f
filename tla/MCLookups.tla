------------------------------ MODULE MCLookups -------------------------------
(***************************************************************************)
(* The components that look up what a client names, each with its          *)
(* instance: the workspaces and the guard of their paths, and the catalog  *)
(* of skills and child servers.  They share no state.                      *)
(***************************************************************************)
EXTENDS Naturals, Sequences, FiniteSets

CONSTANTS Runtimes, Desktop, Drives, Disk, MaxLinks, Secrets, Earlier,
          Places, Inputs, MaxRows,                         \* WorkspaceRegistry
          Roots, Off, Configs, Folders, Servers, Allowlist, Enabled, Disabled,
          Asks, MaxEdits                                   \* ExtensionCatalog

VARIABLES unrestricted, rows, ids, actor, roots, found,
          folders, configs, search, answer, during, edits

registryVars == <<unrestricted, rows, ids, actor, roots, found>>
catalogVars == <<folders, configs, search, answer, during, edits>>

W == INSTANCE WorkspaceRegistry
X == INSTANCE ExtensionCatalog WITH Files <- Configs

(* A disk has directories, files and links.  A drive is there and is a     *)
(* directory, or another name of one (subst, a mapped drive): a link here. *)
(* The table holds roots with their real paths.  A place is a skill root   *)
(* or a configuration file, once.                                          *)
Names == STRING
Paths == Seq(Names) \ {<<>>}
ASSUME LookupsAssumption ==
    /\ MaxLinks \in Nat /\ MaxRows \in Nat /\ MaxEdits \in Nat
    /\ DOMAIN Disk \subseteq Paths
    /\ \A p \in DOMAIN Disk : Disk[p] \in [kind : {"dir", "file"}] \union [kind : {"link"}, to : Paths]
    /\ Drives \in Seq(DOMAIN Disk)
    /\ \A i \in DOMAIN Drives : W!Exists(Drives[i]) /\ Disk[W!Realpath(Disk, Drives[i])].kind = "dir"
    /\ \A table \in Earlier :
          /\ table \in Seq([id : 1..MaxRows, root : Paths, real : Paths])
          /\ Len(table) <= MaxRows
          /\ \A i \in DOMAIN table :
                table[i].id <= Len(table) /\ table[i].real = W!Realpath(Disk, table[i].root)
    /\ Places \subseteq Paths /\ Inputs \subseteq [absolute : BOOLEAN, path : Seq(Names)]
    /\ Roots \in Seq(Names) /\ Configs \in Seq(Names)
    /\ \A i, j \in DOMAIN Roots : Roots[i] = Roots[j] => i = j
    /\ \A i, j \in DOMAIN Configs : Configs[i] = Configs[j] => i = j
    /\ \A i \in DOMAIN Roots, j \in DOMAIN Configs : Roots[i] # Configs[j]
    /\ \A skills \in Folders : skills \subseteq [path : Paths, named : Names] /\ IsFiniteSet(skills)
    /\ \A children \in Servers : children \subseteq [name : Names, own : BOOLEAN] /\ IsFiniteSet(children)
=============================================================================
