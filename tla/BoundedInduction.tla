--------------------------- MODULE BoundedInduction ---------------------------
(***************************************************************************)
(* Induction over numbers up to a bound, in the form the proofs of the     *)
(* other modules use it: what is to be shown is that a SET holds all the   *)
(* numbers, so that no operator is passed as a parameter.                  *)
(***************************************************************************)
EXTENDS Integers, NaturalsInduction, WellFoundedInduction, TLAPS

\* A nonempty set of natural numbers has a least element.
LEMMA Least ==
    ASSUME NEW T, T \subseteq Nat, T # {}
    PROVE  \E x \in T : \A y \in T : x <= y
  <1>1. IsWellFoundedOn(OpToRel(<, Nat), Nat)
    BY NatLessThanWellFounded, Zenon
  <1> DEFINE R == OpToRel(<, Nat)
  <1>2. \A x, y \in Nat : x < y => <<x, y>> \in R
    BY Zenon DEF OpToRel
  <1>3. IsWellFoundedOn(R, Nat)
    BY <1>1, Zenon
  <1> HIDE DEF R
  <1>4. \E x \in T : \A y \in T : ~ (<<y, x>> \in R)
    BY <1>3, WFMin, Zenon
  <1>5. PICK x \in T : \A y \in T : ~ (<<y, x>> \in R)
    BY <1>4
  <1>6. ASSUME NEW y \in T PROVE x <= y
    <2>1. ~ (y < x)
      BY <1>5, <1>2, Zenon
    <2> QED
      BY <2>1
  <1> QED
    BY <1>6

\* Induction up to a bound, for a set of numbers.
LEMMA UpTo ==
    ASSUME NEW N \in Nat, NEW S, 0 \in S, \A n \in 0 .. N - 1 : n \in S => n + 1 \in S
    PROVE  0 .. N \subseteq S
  <1> DEFINE T == 0 .. N \ S
  <1> SUFFICES ASSUME T # {} PROVE FALSE
    OBVIOUS
  <1>1. T \subseteq Nat
    OBVIOUS
  <1>2. PICK x \in T : \A y \in T : x <= y
    BY <1>1, Least
  <1>3. x \in 0 .. N /\ x \notin S /\ x # 0
    BY <1>2
  <1>4. x - 1 \in 0 .. N - 1 /\ x - 1 \in 0 .. N /\ ~ (x <= x - 1)
    BY <1>3
  <1>5. x - 1 \in S
    BY <1>2, <1>4
  <1>6. (x - 1) + 1 = x
    BY <1>3
  <1> QED
    BY <1>3, <1>4, <1>5, <1>6

\* The states of a loop of N turns that starts with e and whose i-th turn
\* takes x to G[x, i].
Loops(f, N, e, G) == f[0] = e /\ \A i \in 1 .. N : f[i] = G[<<f[i - 1], i>>]

\* Such a loop goes through one state after the other.
LEMMA LoopDefined ==
    ASSUME NEW N \in Nat, NEW D, NEW e \in D, NEW G \in [D \X (1 .. N) -> D]
    PROVE  \E f \in [0 .. N -> D] : Loops(f, N, e, G)
  <1> DEFINE Part(k, f) == /\ f \in [0 .. k -> D] /\ f[0] = e
                           /\ \A i \in 1 .. k : i \in 1 .. N => f[i] = G[<<f[i - 1], i>>]
             S == {k \in 0 .. N : \E f : Part(k, f)}
  <1>1. 0 \in S
    <2> DEFINE f == [n \in 0 .. 0 |-> e]
    <2>1. f \in [0 .. 0 -> D] /\ f[0] = e /\ 1 .. 0 = {}
      OBVIOUS
    <2>2. Part(0, f)
      BY <2>1
    <2>3. 0 \in 0 .. N
      OBVIOUS
    <2> HIDE DEF Part, f
    <2> QED
      BY <2>2, <2>3
  <1>2. ASSUME NEW k \in 0 .. N - 1, k \in S PROVE k + 1 \in S
    <2>1. PICK f : Part(k, f)
      BY <1>2
    <2>2. k + 1 \in 1 .. N /\ k \in 0 .. k /\ f[k] \in D
      BY <2>1
    <2>3. G[<<f[k], k + 1>>] \in D
      BY <2>2
    <2> DEFINE g == [n \in 0 .. k + 1 |-> IF n = k + 1 THEN G[<<f[k], k + 1>>] ELSE f[n]]
    <2>4. g \in [0 .. k + 1 -> D]
      <3>1. \A n \in 0 .. k + 1 : n # k + 1 => n \in 0 .. k /\ f[n] \in D
        BY <2>1
      <3> QED
        BY <2>3, <3>1
    <2>5. g[0] = e
      <3>1. 0 \in 0 .. k + 1 /\ 0 # k + 1
        OBVIOUS
      <3> QED
        BY <2>1, <3>1
    <2>6. ASSUME NEW i \in 1 .. k + 1, i \in 1 .. N PROVE g[i] = G[<<g[i - 1], i>>]
      <3>1. i - 1 \in 0 .. k + 1 /\ i - 1 # k + 1 /\ i \in 0 .. k + 1
        OBVIOUS
      <3>2. g[i - 1] = f[i - 1]
        BY <3>1
      <3>3. CASE i = k + 1
        <4>1. i - 1 = k
          BY <3>3
        <4>2. g[i] = G[<<f[k], k + 1>>]
          BY <3>1, <3>3
        <4> HIDE DEF g
        <4> QED
          BY <3>2, <3>3, <4>1, <4>2
      <3>4. CASE i # k + 1
        <4>1. i \in 1 .. k
          BY <3>4
        <4>2. g[i] = f[i]
          BY <3>1, <3>4
        <4> HIDE DEF g
        <4> QED
          BY <2>1, <2>6, <3>2, <4>1, <4>2
      <3> QED
        BY <3>3, <3>4
    <2> HIDE DEF g
    <2>7. Part(k + 1, g)
      BY <2>4, <2>5, <2>6
    <2> HIDE DEF Part
    <2> QED
      BY <2>2, <2>7
  <1>3. N \in S
    <2> HIDE DEF S
    <2>1. 0 .. N \subseteq S
      BY <1>1, <1>2, UpTo
    <2> QED
      BY <2>1
  <1>4. PICK f : Part(N, f)
    BY <1>3
  <1> QED
    BY <1>4 DEF Loops
=============================================================================
