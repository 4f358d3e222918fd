------------------------------ MODULE MCGCMStore ------------------------------
(* GCMStore with two messages of one application and one of another. *)
EXTENDS GCMStore, TLC

CONSTANTS i1, i2, i3, a1, a2

OneOther == [i \in Ids |-> IF i = i3 THEN a2 ELSE a1]

\* The messages of the first application are alike.
IdSymmetry == Permutations({i1, i2})
===============================================================================
