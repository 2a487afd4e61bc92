------------------------------ MODULE MCStrand ------------------------------
(***************************************************************************)
(* Instances of Strand for TLC: the keys and how next_avail_ip leads from  *)
(* one to the next.                                                        *)
(***************************************************************************)
EXTENDS Strand

Two == {1, 2}
Three == {1, 2, 3}
First == {1}
None == {}
NextOfTwo == [k \in Two |-> 3 - k]
NextOfThree == [k \in Three |-> (k % 3) + 1]
=============================================================================
