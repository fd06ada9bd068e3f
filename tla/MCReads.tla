------------------------------- MODULE MCReads --------------------------------
(***************************************************************************)
(* The components that pass text on to those who read it, each with its    *)
(* instance: the context engine, the pages of files, the output of         *)
(* processes, the live log and the tail of a log file.  They share no      *)
(* state.                                                                  *)
(***************************************************************************)
EXTENDS Naturals, FiniteSets

CONSTANTS code, metadata, short, long, Clients, MaxEntries, MaxStoredBytes, MaxAsked, \* ContextEngine
          LineKinds, MaxLines, PageSizes, Targets,         \* FilePages
          MaxBytes, TailLines, MaxPieces,                  \* OutputBuffers
          Events, MaxKept, MaxView, MaxIds,                \* LogStream
          Inodes, MaxSize, Window, Chunk, Nothing          \* LogTail

ASSUME ReadsAssumption ==
    /\ MaxEntries \in Nat /\ MaxStoredBytes \in Nat /\ MaxBytes \in Nat /\ TailLines \subseteq Nat
    /\ LineKinds \subseteq Nat /\ MaxLines \in Nat /\ PageSizes \subseteq Nat \ {0} /\ Targets \subseteq Nat
    /\ MaxKept \in Nat /\ MaxView \in Nat \ {0} /\ IsFiniteSet(Events)
    /\ MaxSize \in Nat /\ Window \in Nat /\ Chunk \in Nat

VARIABLES content, ledger, prints, storedBytes, chain, asked,
          file, token, pages,
          ring, capture, reader, written, limited,
          recorded, tailed, hub, socket, fetch, page, clearing, due, late,
          path, inode, tail, told, expected, blurred

contextVars == <<content, ledger, prints, storedBytes, chain, asked>>
pagesVars == <<file, token, pages>>
bufferVars == <<ring, capture, reader, written, limited>>
streamVars == <<recorded, tailed, hub, socket, fetch, page, clearing, due, late>>
tailVars == <<path, inode, tail, told, expected, blurred>>
logVars == <<streamVars, tailVars>>

C == INSTANCE ContextEngine WITH
        Paths <- {code, metadata}, Contents <- {short, long}, Chains <- Clients,
        Size <- [x \in {short, long} |-> IF x = short THEN 1 ELSE 2],
        PathKind <- [x \in {code, metadata} |-> IF x = code THEN "source" ELSE "metadata"],
        ContentKind <- [x \in {short, long} |-> "text"],
        MaxCalls <- MaxAsked
P == INSTANCE FilePages
O == INSTANCE OutputBuffers WITH
        Streams <- {"stdout", "stderr"},
        Pieces <- [size : {1, 2}, split : {0}] \union [size : {MaxBytes + 1}, split : {1, 3}]
S == INSTANCE LogStream WITH MaxLines <- MaxKept, MaxSeen <- Cardinality(Events)
T == INSTANCE LogTail WITH MaxLives <- 1
=============================================================================
