--------------------------- MODULE SequenceFilter ---------------------------
(***************************************************************************)
(* Dropping entries from an ordered table or a buffer: the elements of a   *)
(* sequence that are in a set, in their order.  It is SelectSeq with the   *)
(* test given as a set, written as a recursive function so that what it    *)
(* returns can be proved.                                                  *)
(***************************************************************************)
EXTENDS Integers, Sequences

Filter(s, A) ==
    LET kept[i \in 0..Len(s)] ==
            IF i = 0 THEN <<>>
            ELSE IF s[i] \in A THEN Append(kept[i - 1], s[i]) ELSE kept[i - 1]
    IN  kept[Len(s)]
=============================================================================
