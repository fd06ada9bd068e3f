------------------------------ MODULE Selections ------------------------------
(***************************************************************************)
(* Array.filter and its like: the elements of a sequence that belong to a  *)
(* set, in their order; and Array.reduce with + and Array.flat.  They are  *)
(* SelectSeq with a set for a test and folds, written as functions so that *)
(* SequenceLemmas can say what they return.                                *)
(***************************************************************************)
EXTENDS Integers, Sequences

Selected(s, S) ==
    LET upto[i \in 0..Len(s)] ==
          IF i = 0 THEN <<>>
          ELSE IF s[i] \in S THEN Append(upto[i - 1], s[i]) ELSE upto[i - 1]
    IN  upto[Len(s)]

Total(s) ==
    LET upto[i \in 0..Len(s)] == IF i = 0 THEN 0 ELSE upto[i - 1] + s[i]
    IN  upto[Len(s)]

Flattened(s) ==
    LET upto[i \in 0..Len(s)] == IF i = 0 THEN <<>> ELSE upto[i - 1] \o s[i]
    IN  upto[Len(s)]
=============================================================================
