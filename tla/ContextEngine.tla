---------------------------- MODULE ContextEngine ----------------------------
(***************************************************************************)
(* ContextEngine and ContextEconomyRuntime (mcp-server: context-engine.ts, *)
(* context-economy.ts): ranked candidates are read, prepared against the   *)
(* ledger and delivered in pages; a one-use token continues a chain of     *)
(* pages.  Contents, paths and their kinds are values; the texts, symbols  *)
(* and scores' reasons are left out.  A read and the preparation of what   *)
(* it returned are one step: nothing is awaited between them.              *)
(***************************************************************************)
EXTENDS Integers, Sequences, Functions, FiniteSets, Selections

CONSTANTS Paths, Contents,
          Chains,           \* clients, each with one chain of pages at a time
          Size,             \* bytes of a content
          PathKind,         \* classifyContextPath, of a path
          ContentKind,      \* "text", "generated" or "binary", of a content
          MaxEntries, MaxStoredBytes,
          MaxCalls          \* bound: requests in all

VARIABLES
    content,      \* what each path holds, or Missing
    ledger,       \* byPath: the entries, oldest first
    prints,       \* byFingerprint: the path whose entry holds a content
    storedBytes,
    chain,        \* what each client asks for and is owed
    asked         \* how many requests there have been

contextVars == <<content, ledger, prints, storedBytes, chain, asked>>

Missing == "missing"
Quiet == [at |-> "idle", kind |-> "none", explicit |-> FALSE, changed |-> {}, selected |-> <<>>, got |-> <<>>,
          rest |-> <<>>, given |-> <<>>, all |-> <<>>]

ContextInit ==
    /\ content \in [Paths -> Contents]
    /\ ledger = <<>> /\ prints = <<>> /\ storedBytes = 0
    /\ chain = [r \in Chains |-> Quiet]
    /\ asked = 0

-----------------------------------------------------------------------------
(* collectWorkspace: every path that a search or Git names is scored; paths*)
(* that automatic discovery leaves out stay out unless they have changed.  *)
Discoverable(p) == PathKind[p] \in {"source", "metadata"}

Score(f) == 20 * f.matches + (IF f.named THEN 25 ELSE 0)
            + (IF f.changed THEN 50 ELSE IF f.matches > 0 THEN 4 ELSE 0)

(* The best first; of two as good the path decides (483), which is left    *)
(* out here, so it may be either.                                          *)
Orders(set) == Bijection(1..Cardinality(set), set)
Rankings(found, explicit) ==
    {s \in Orders({p \in DOMAIN found : explicit \/ found[p].changed \/ Discoverable(p)}) :
        \A i, j \in DOMAIN s : i < j => Score(found[s[i]]) >= Score(found[s[j]])}

(* What search and Git may say of a path: its text matches, and it may     *)
(* have changed, or only its name does.                                    *)
Finds == [matches : {1}, named : {FALSE}, changed : BOOLEAN]
         \union [matches : {0}, named : {TRUE}, changed : {FALSE}]

-----------------------------------------------------------------------------
(* ContextEconomyRuntime.                                                  *)
Sum(entries) == Total([i \in 1..Len(entries) |-> IF entries[i].kept THEN entries[i].bytes ELSE 0])
Entry(p) == Selected(ledger, {e \in Range(ledger) : e.path = p})

(* prepare: what of content c of path p goes to the client.                *)
Kind(p, c) ==
    IF PathKind[p] = "ignored" THEN "ignored"
    ELSE IF ContentKind[c] = "binary" \/ PathKind[p] = "binary" THEN "binary"
    ELSE IF ContentKind[c] = "generated" THEN "generated" ELSE PathKind[p]

Delivery(p, c, explicit) ==
    LET previous == Entry(p)
    IN  CASE Kind(p, c) = "binary" -> "metadata"
          [] Kind(p, c) \in {"generated", "metadata"} /\ ~explicit -> "metadata"
          [] previous # <<>> /\ previous[1].print = c -> "unchanged"
          [] c \in DOMAIN prints /\ prints[c] # p -> "reference"
          [] previous # <<>> /\ previous[1].kept -> "diff"
          [] OTHER -> "content"

(* remember: the new entry replaces the old one of its path; then the      *)
(* oldest go until both limits are kept.                                   *)
Mut_Remember(p, c) ==
    LET others == Selected(ledger, {e \in Range(ledger) : e.path # p})
        added == Append(others, [path |-> p, print |-> c, bytes |-> Size[c], kept |-> Size[c] <= MaxStoredBytes])
        Fits(n) == Len(added) - n <= MaxEntries /\ Sum(SubSeq(added, n + 1, Len(added))) <= MaxStoredBytes
        n == CHOOSE k \in 0..Len(added) : Fits(k) /\ \A j \in 0..(k - 1) : ~Fits(j)
        left == SubSeq(added, n + 1, Len(added))
        free == Restrict(prints, {x \in DOMAIN prints : prints[x] # p})
        known == IF Size[c] > MaxStoredBytes \/ c \in DOMAIN free THEN free
                 ELSE [x \in DOMAIN free \union {c} |-> IF x = c THEN p ELSE free[x]]
    IN  /\ ledger' = left
        /\ storedBytes' = Sum(left)
        /\ prints' = known
Remember(p, c) ==
    LET others == Selected(ledger, {e \in Range(ledger) : e.path # p})
        added == Append(others, [path |-> p, print |-> c, bytes |-> Size[c], kept |-> Size[c] <= MaxStoredBytes])
        Fits(n) == Len(added) - n <= MaxEntries /\ Sum(SubSeq(added, n + 1, Len(added))) <= MaxStoredBytes
        n == CHOOSE k \in 0..Len(added) : Fits(k) /\ \A j \in 0..(k - 1) : ~Fits(j)
        left == SubSeq(added, n + 1, Len(added))
        free == Restrict(prints, {x \in DOMAIN prints : prints[x] # p})
        known == IF Size[c] > MaxStoredBytes \/ c \in DOMAIN free THEN free
                 ELSE [x \in DOMAIN free \union {c} |-> IF x = c THEN p ELSE free[x]]
    IN  /\ ledger' = left
        /\ storedBytes' = Sum(left)
        /\ prints' = Restrict(known, {x \in DOMAIN known : \E i \in DOMAIN left : left[i].path = known[x]})

-----------------------------------------------------------------------------
(* materialize selects the first candidates of what is left.               *)
Select(r, rest, size, page) ==
    LET n == IF size < Len(rest) THEN size ELSE Len(rest)
    IN  chain' = [chain EXCEPT ![r] = [page EXCEPT !.at = "reading", !.selected = SubSeq(rest, 1, n),
                     !.got = [i \in 1..n |-> <<>>], !.rest = rest]]

Collect(r, found, explicit, size) ==
    /\ chain[r].at \in {"idle", "paused"} /\ asked < MaxCalls
    /\ \E all \in Rankings(found, explicit) :
          Select(r, all, size, [Quiet EXCEPT !.kind = "context", !.explicit = explicit, !.all = all,
                                       !.changed = {p \in Paths : found[p].changed}])
    /\ asked' = asked + 1
    /\ UNCHANGED <<content, ledger, prints, storedBytes>>

(* The token is deleted first, whatever becomes of the page.               *)
Continue(r, size) ==
    /\ chain[r].at = "paused" /\ chain[r].kind = "context"
    /\ Select(r, chain[r].rest, size, chain[r])
    /\ UNCHANGED <<content, ledger, prints, storedBytes, asked>>

(* readCandidate; the reads of a page end in any order.                    *)
Got(r, i, reading) == chain' = [chain EXCEPT ![r] = [chain[r] EXCEPT !.got = [chain[r].got EXCEPT ![i] = reading]]]
ReadCandidate(r, i) ==
    /\ chain[r].at = "reading" /\ i \in DOMAIN chain[r].selected /\ chain[r].got[i] = <<>>
    /\ LET p == chain[r].selected[i]
           c == content[p]
       IN  \/ /\ c # Missing
              /\ LET delivery == Delivery(p, c, chain[r].explicit \/ p \in chain[r].changed)
                 IN  Got(r, i, <<c, delivery>>)
              /\ Remember(p, c)
           \/ /\ c = Missing
              /\ Got(r, i, <<"error">>)
              /\ UNCHANGED <<ledger, prints, storedBytes>>
    /\ UNCHANGED <<content, asked>>

(* The page ends where the byte target is reached, after one file at least;*)
(* what was read beyond it stays with the candidates that are left.        *)
Answer(r, keep) ==
    LET page == chain[r]
        rest == SubSeq(page.rest, keep + 1, Len(page.rest))
    IN  /\ page.at = "reading" /\ \A i \in DOMAIN page.got : page.got[i] # <<>>
        /\ keep <= Len(page.selected) /\ (keep >= 1 \/ page.selected = <<>>)
        /\ chain' = [chain EXCEPT ![r] = [page EXCEPT
                        !.at = IF rest = <<>> THEN "idle" ELSE "paused", !.rest = rest,
                        !.given = page.given \o SubSeq(page.selected, 1, keep),
                        !.selected = <<>>, !.got = <<>>]]
        /\ UNCHANGED <<content, ledger, prints, storedBytes, asked>>

(* fullScan and continueFullScan give paths alone, a page at a time, in the*)
(* order in which searchFiles met them.                                    *)
FullScan(r, files, size) ==
    /\ chain[r].at \in {"idle", "paused"} /\ asked < MaxCalls
    /\ LET n == IF size < Len(files) THEN size ELSE Len(files)
       IN  chain' = [chain EXCEPT ![r] = [Quiet EXCEPT !.kind = "scan", !.all = files,
                        !.given = SubSeq(files, 1, n), !.rest = SubSeq(files, n + 1, Len(files)),
                        !.at = IF n < Len(files) THEN "paused" ELSE "idle"]]
    /\ asked' = asked + 1
    /\ UNCHANGED <<content, ledger, prints, storedBytes>>

ContinueFullScan(r, size) ==
    /\ chain[r].at = "paused" /\ chain[r].kind = "scan"
    /\ LET page == chain[r]
           n == IF size < Len(page.rest) THEN size ELSE Len(page.rest)
       IN  chain' = [chain EXCEPT ![r] = [page EXCEPT
                        !.given = page.given \o SubSeq(page.rest, 1, n),
                        !.rest = SubSeq(page.rest, n + 1, Len(page.rest)),
                        !.at = IF n < Len(page.rest) THEN "paused" ELSE "idle"]]
    /\ UNCHANGED <<content, ledger, prints, storedBytes, asked>>

(* Somebody writes or removes a file.                                      *)
FileChanges(p) ==
    /\ \E c \in Contents \union {Missing} : c # content[p] /\ content' = [content EXCEPT ![p] = c]
    /\ UNCHANGED <<ledger, prints, storedBytes, chain, asked>>

ContextNext ==
    \/ \E r \in Chains, size \in 1..Cardinality(Paths) :
          \/ \E found \in [Paths -> Finds], explicit \in BOOLEAN : Collect(r, found, explicit, size)
          \/ \E files \in Orders(Paths) : FullScan(r, files, size)
          \/ Continue(r, size) \/ ContinueFullScan(r, size)
    \/ \E r \in Chains, i \in 1..Cardinality(Paths) : ReadCandidate(r, i)
    \/ \E r \in Chains, keep \in 0..Cardinality(Paths) : Answer(r, keep)
    \/ \E p \in Paths : FileChanges(p)

ContextSpec == ContextInit /\ [][ContextNext]_contextVars

-----------------------------------------------------------------------------
(* The ledger keeps its limits and its books: a reference always names a   *)
(* path whose present entry holds that content (context-economy.ts 234-254)*)
LedgerSound ==
    /\ Len(ledger) <= MaxEntries /\ storedBytes = Sum(ledger) /\ storedBytes <= MaxStoredBytes
    /\ \A x \in DOMAIN prints :
          \E i \in DOMAIN ledger : ledger[i].path = prints[x] /\ ledger[i].print = x /\ ledger[i].kept

(* Pages cut by count or by bytes, over files that come and go: what a     *)
(* chain has given and what its token still holds are together all its     *)
(* candidates, each once (materialize, 527-571; fullScan, 266-327).        *)
PagesTile ==
    \A r \in Chains : chain[r].given \o chain[r].rest = chain[r].all
=============================================================================
