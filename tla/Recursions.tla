------------------------------ MODULE Recursions ------------------------------
(***************************************************************************)
(* Induction over numbers, for sets, and functions defined by recursion,   *)
(* for the proofs about sequences of operations that are executed one      *)
(* after the other (the store of MCSSystem, the tasks of GCMStore).        *)
(***************************************************************************)
EXTENDS Integers, WellFoundedInduction, TLAPS

\* A set of numbers has a least element.
LEMMA Least ==
    ASSUME NEW T, T \subseteq Nat, T # {}
    PROVE  \E x \in T : \A y \in T : x <= y
<1> DEFINE R == OpToRel(<, Nat)
<1>1. IsWellFoundedOn(R, Nat)
  BY NatLessThanWellFounded
<1>2. \A x, y \in Nat : x < y => <<x, y>> \in R
  BY DEF OpToRel
<1> HIDE DEF R
<1>3. PICK x \in T : \A y \in T : ~ (<<y, x>> \in R)
  BY <1>1, WFMin
<1>4. ASSUME NEW y \in T PROVE x <= y
  <2>1. ~ (y < x)
    BY <1>2, <1>3
  <2>2. QED
    BY <2>1
<1>5. QED
  BY <1>4

\* Induction, on the set of the numbers with a property.
LEMMA Induct ==
    ASSUME NEW S, 0 \in S, \A n \in Nat : n \in S => n + 1 \in S
    PROVE  \A n \in Nat : n \in S
<1>1. SUFFICES ASSUME Nat \ S # {} PROVE FALSE
  OBVIOUS
<1>2. PICK x \in Nat \ S : \A y \in Nat \ S : x <= y
  BY <1>1, Least
<1>3. x # 0 /\ x - 1 \in Nat
  OBVIOUS
<1>4. x - 1 \in S
  BY <1>2, <1>3
<1>5. QED
  BY <1>2, <1>3, <1>4

\* Step n of a recursion over 0..k takes a value to G[n][value].
StaysIn(G, X, k) == \A n \in 1..k : \A y \in X : G[n][y] \in X

Solution(f, x, G, k) == f[0] = x /\ \A n \in 1..k : f[n] = G[n][f[n - 1]]

\* A recursion over 0..k whose steps stay within a set has a solution.
LEMMA Recursion ==
    ASSUME NEW X, NEW x \in X, NEW G, NEW k \in Nat, StaysIn(G, X, k)
    PROVE  \E f \in [0..k -> X] : Solution(f, x, G, k)
<1> DEFINE Solves(f, m) == f[0] = x /\ \A n \in 1..m : f[n] = G[n][f[n - 1]]
           S == {m \in Nat : m <= k => \E f \in [0..m -> X] : Solves(f, m)}
<1>1. 0 \in S
  <2>1. [n \in 0..0 |-> x] \in [0..0 -> X] /\ Solves([n \in 0..0 |-> x], 0)
    OBVIOUS
  <2>2. QED
    BY <2>1
<1>2. ASSUME NEW m \in Nat, m \in S
      PROVE  m + 1 \in S
  <2>1. SUFFICES ASSUME m + 1 <= k
                 PROVE  \E f \in [0..(m + 1) -> X] : Solves(f, m + 1)
    OBVIOUS
  <2>2. PICK f \in [0..m -> X] : Solves(f, m)
    BY <1>2, <2>1
  <2> DEFINE v == G[m + 1][f[m]]
             g == [n \in 0..(m + 1) |-> IF n = m + 1 THEN v ELSE f[n]]
  <2>3. v \in X
    BY <2>1, <2>2 DEF StaysIn
  <2> HIDE DEF v
  <2>4. g \in [0..(m + 1) -> X]
    BY <2>3
  <2>5. g[0] = x
    BY <2>2
  <2>6. ASSUME NEW n \in 1..(m + 1)
        PROVE  g[n] = G[n][g[n - 1]]
    <3>1. g[n - 1] = f[n - 1]
      OBVIOUS
    <3>2. CASE n = m + 1
      <4>1. g[n] = v
        BY <3>2
      <4>2. v = G[n][f[n - 1]]
        BY <3>2 DEF v
      <4>3. QED
        BY <3>1, <4>1, <4>2, Zenon
    <3>3. CASE n # m + 1
      <4>1. n \in 1..m /\ g[n] = f[n]
        BY <3>3
      <4>2. f[n] = G[n][f[n - 1]]
        BY <2>2, <4>1
      <4>3. QED
        BY <3>1, <4>1, <4>2, Zenon
    <3>4. QED
      BY <3>2, <3>3
  <2> HIDE DEF g
  <2>7. QED
    BY <2>4, <2>5, <2>6
<1>3. k \in S
  <2> HIDE DEF S
  <2>1. QED
    BY <1>1, <1>2, Induct
<1>4. QED
  BY <1>3 DEF Solution

\* A recursion has one solution.
LEMMA OneSolution ==
    ASSUME NEW f, NEW g, NEW G, NEW x, NEW k \in Nat,
           Solution(f, x, G, k), Solution(g, x, G, k)
    PROVE  \A n \in 0..k : f[n] = g[n]
<1> DEFINE S == {n \in Nat : n <= k => f[n] = g[n]}
<1>1. 0 \in S
  BY DEF Solution
<1>2. ASSUME NEW n \in Nat, n \in S
      PROVE  n + 1 \in S
  <2>1. SUFFICES ASSUME n + 1 <= k PROVE f[n + 1] = g[n + 1]
    OBVIOUS
  <2>2. n + 1 \in 1..k /\ (n + 1) - 1 = n /\ f[n] = g[n]
    BY <1>2, <2>1
  <2>3. f[n + 1] = G[n + 1][f[n]] /\ g[n + 1] = G[n + 1][g[n]]
    BY <2>2 DEF Solution
  <2>4. QED
    BY <2>2, <2>3
<1>3. \A n \in Nat : n \in S
  <2> HIDE DEF S
  <2>1. QED
    BY <1>1, <1>2, Induct
<1>4. QED
  BY <1>3

\* The longest prefix of indices that are not bad.
LEMMA Prefix ==
    ASSUME NEW k \in Nat, NEW Bad
    PROVE  \E n \in 0..k : /\ \A i \in 1..n : i \notin Bad
                           /\ n < k => n + 1 \in Bad
<1> DEFINE T == {i \in 1..(k + 1) : i = k + 1 \/ i \in Bad}
<1>1. T \subseteq Nat /\ k + 1 \in T
  OBVIOUS
<1>2. PICK x \in T : \A y \in T : x <= y
  BY <1>1, Least
<1>3. x - 1 \in 0..k /\ (x - 1) + 1 = x
  OBVIOUS
<1>4. \A i \in 1..(x - 1) : i \notin Bad
  BY <1>2, <1>3
<1>5. x - 1 < k => x \in Bad
  OBVIOUS
<1>6. QED
  BY <1>3, <1>4, <1>5

===============================================================================
