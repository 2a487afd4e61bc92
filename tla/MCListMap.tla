----------------------------- MODULE MCListMap ------------------------------
(***************************************************************************)
(* An instance of ListMap for TLC: one cell more than there are keys, so   *)
(* that an insertion may or may not reuse the cell that was freed last.    *)
(***************************************************************************)
EXTENDS ListMap, TLC

CONSTANTS k1, k2, k3, v1, v2, v3, c1, c2, c3, c4

ThreeKeys == {k1, k2, k3}
ThreeValues == {v1, v2, v3}
FourCells == {c1, c2, c3, c4}

\* None of the three kinds is compared otherwise than for equality, and the
\* properties of the run are safety properties.
Alike == Permutations(ThreeKeys) \cup Permutations(ThreeValues)
             \cup Permutations(FourCells)
=============================================================================
