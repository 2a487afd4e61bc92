----------------------------- MODULE Selections -----------------------------
(***************************************************************************)
(* What SelectSeq selects, by a set instead of a test, and written as a    *)
(* recursive function: so that it can be proved about.                     *)
(***************************************************************************)
EXTENDS Integers, Sequences

\* the elements of s that are in S, in their order
Selected(s, S) ==
    LET kept[i \in 0 .. Len(s)] ==
            IF i = 0 THEN <<>>
            ELSE IF s[i] \in S THEN Append(kept[i - 1], s[i])
            ELSE kept[i - 1]
    IN kept[Len(s)]
=============================================================================
