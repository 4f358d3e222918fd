----------------------------- MODULE MCMCSSystem -----------------------------
(* MCSSystem on small instances: the messages of each and their keys. *)
EXTENDS MCSSystem, TLC

CONSTANTS m1, m2, m3, k1, s1, s2

\* m1 and m2 collapse, m3 has no key.
TwoCollapse == [m \in Messages |-> IF m = m3 THEN NoKey ELSE k1]

AllCollapse == [m \in Messages |-> k1]

NoCollapse == [m \in Messages |-> NoKey]

\* Nothing tells server messages apart.
ServerSymmetry == Permutations(ServerIds)
==============================================================================
