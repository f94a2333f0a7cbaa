---------------------------- MODULE SetInduction ----------------------------
(* Induction over the natural numbers for a set: no set of them that has 0 *)
(* and every successor of its elements leaves any out.  It follows from    *)
(* the pigeonhole principle.                                               *)
EXTENDS Integers, FiniteSets, FiniteSetTheorems, TLAPS

LEMMA SetInduction ==
  ASSUME NEW T, 0 \in T, \A n \in Nat : n \in T => n + 1 \in T
  PROVE  \A n \in Nat : n \in T
<1> SUFFICES ASSUME NEW n \in Nat, n \notin T PROVE FALSE
  OBVIOUS
<1> DEFINE f == [k \in 0 .. n |-> IF k \in T THEN k ELSE k - 1]
<1>1. f \in [0 .. n -> 0 .. n - 1]
  <2> SUFFICES ASSUME NEW k \in 0 .. n PROVE (IF k \in T THEN k ELSE k - 1) \in 0 .. n - 1
    OBVIOUS
  <2>1. n # 0
    OBVIOUS
  <2> QED BY <2>1
<1>2. \A x, y \in 0 .. n : f[x] = f[y] => x = y
  <2> SUFFICES ASSUME NEW x \in 0 .. n, NEW y \in 0 .. n, x \in T, y \notin T, x = y - 1
               PROVE  FALSE
    OBVIOUS
  <2> QED OBVIOUS
<1>3. IsFiniteSet(0 .. n) /\ IsFiniteSet(0 .. n - 1) /\ Cardinality(0 .. n - 1) < Cardinality(0 .. n)
  BY FS_Interval
<1> HIDE DEF f
<1>4. \E x, y \in 0 .. n : x # y /\ f[x] = f[y]
  BY ONLY <1>1, <1>3, FS_PigeonHole, Zenon
<1> QED BY <1>2, <1>4
=============================================================================
