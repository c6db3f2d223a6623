---------------------------- MODULE LeastElement ----------------------------
(***************************************************************************)
(* Facts about natural numbers that the proofs of the other modules need.  *)
(* The loops of the code that stop at the first entry with some property   *)
(* are written with CHOOSE, and the choice exists because a nonempty set   *)
(* of natural numbers has a least element. The loops that run to their end *)
(* are recursive functions: there is one, and two with the same steps have *)
(* the same values.                                                        *)
(***************************************************************************)
EXTENDS Naturals, FiniteSetTheorems, WellFoundedInduction, TLAPS

(* The intervals 0 .. m, for m in S, are finite sets, so one of them is    *)
(* minimal for strict inclusion; its m is the least element of S.          *)
LEMMA LeastNatural ==
  ASSUME NEW S \in SUBSET Nat, S # {}
  PROVE  \E m \in S : \A j \in S : m <= j
<1> DEFINE T == {0 .. m : m \in S}
           R == StrictSubsetOrdering(Nat)
           F == FiniteSubsetsOf(Nat)
<1>1. T \subseteq F
  <2> SUFFICES ASSUME NEW m \in S
               PROVE  0 .. m \in F
    OBVIOUS
  <2>1. m \in Nat /\ 0 .. m \subseteq Nat
    OBVIOUS
  <2>2. IsFiniteSet(0 .. m)
    BY <2>1, FS_Interval
  <2> QED
    BY <2>1, <2>2 DEF FiniteSubsetsOf
<1>2. IsWellFoundedOn(R, F)
  BY FS_StrictSubsetOrderingWellFounded
<1>3. PICK t \in T : \A u \in T : <<u, t>> \notin R
  <2>1. T # {}
    OBVIOUS
  <2> HIDE DEF R, F, T
  <2> QED
    BY <1>1, <1>2, <2>1, WFMin
<1>4. PICK m \in S : t = 0 .. m
  OBVIOUS
<1>5. ASSUME NEW j \in S, ~(m <= j)
      PROVE  FALSE
  <2>1. j \in Nat /\ m \in Nat /\ j < m
    BY <1>5
  <2>2. 0 .. j \subseteq 0 .. m /\ m \in 0 .. m /\ m \notin 0 .. j
    BY <2>1
  <2>3. <<0 .. j, t>> \in R
    BY <2>1, <2>2, <1>4 DEF StrictSubsetOrdering
  <2> QED
    BY <1>3, <2>3, <1>5
<1> QED
  BY <1>5

(* Induction, stated with a set instead of a predicate: a set that holds 0 *)
(* and every successor of its members holds every natural number.          *)
LEMMA NatInductionOnSets ==
  ASSUME NEW S, 0 \in S, \A n \in Nat : n \in S => n + 1 \in S
  PROVE  Nat \subseteq S
<1> SUFFICES ASSUME Nat \ S # {}
             PROVE  FALSE
  OBVIOUS
<1>1. PICK m \in Nat \ S : \A j \in Nat \ S : m <= j
  BY LeastNatural
<1>2. m # 0 /\ m - 1 \in Nat
  OBVIOUS
<1>3. m - 1 \in S
  BY <1>1, <1>2
<1> QED
  BY <1>2, <1>3, <1>1
-----------------------------------------------------------------------------
(* Recursion                                                               *)

(* What a loop has after each of its steps, from value to value.           *)
Iterates(f, N, S, base, step) ==
  /\ f \in [0 .. N -> S] /\ f[0] = base
  /\ \A n \in 1 .. N : f[n] = step[<<f[n - 1], n>>]

(* Such steps can be taken as often as one likes: the recursive functions  *)
(* that stand for the loops of the code are there.                         *)
LEMMA Recursion ==
  ASSUME NEW N \in Nat, NEW S, NEW base \in S, NEW step \in [S \X (1 .. N) -> S]
  PROVE  \E f : Iterates(f, N, S, base, step)
<1> DEFINE Takes(f, m) == /\ f \in [0 .. m -> S] /\ f[0] = base
                          /\ \A n \in 1 .. m : f[n] = step[<<f[n - 1], n>>]
           T == {m \in Nat : m <= N => \E f : Takes(f, m)}
<1>1. 0 \in T
  <2> DEFINE f == [n \in 0 .. 0 |-> base]
  <2>1. Takes(f, 0)
    OBVIOUS
  <2> QED
    BY <2>1
<1>2. ASSUME NEW m \in Nat, m \in T
      PROVE  m + 1 \in T
  <2> SUFFICES ASSUME m + 1 <= N
               PROVE  \E f : Takes(f, m + 1)
    OBVIOUS
  <2>1. PICK f : Takes(f, m)
    BY <1>2
  <2> DEFINE next == step[<<f[m], m + 1>>]
             g == [n \in 0 .. m + 1 |-> IF n <= m THEN f[n] ELSE next]
  <2>2. f[m] \in S /\ m + 1 \in 1 .. N
    BY <2>1
  <2>3. next \in S
    BY <2>2
  <2> HIDE DEF next
  <2>4. /\ \A n \in 0 .. m : g[n] = f[n]
        /\ g[m + 1] = next
    OBVIOUS
  <2>5. g \in [0 .. m + 1 -> S]
    BY <2>1, <2>3
  <2> HIDE DEF g
  <2>6. ASSUME NEW n \in 1 .. m + 1
        PROVE  g[n] = step[<<g[n - 1], n>>]
    <3>1. CASE n \in 1 .. m
      <4>1. n \in 0 .. m /\ n - 1 \in 0 .. m
        BY <3>1
      <4> QED
        BY <2>1, <2>4, <3>1, <4>1
    <3>2. CASE n = m + 1
      <4>1. n - 1 = m /\ m \in 0 .. m
        BY <3>2
      <4> QED
        BY <2>4, <3>2, <4>1 DEF next
    <3> QED
      BY <3>1, <3>2
  <2>7. Takes(g, m + 1)
    BY <2>1, <2>4, <2>5, <2>6
  <2> QED
    BY <2>7
<1>3. N \in T
  <2>1. \A m \in Nat : m \in T => m + 1 \in T
    BY <1>2
  <2> HIDE DEF T
  <2> QED
    BY <1>1, <2>1, NatInductionOnSets
<1>4. PICK f : Takes(f, N)
  BY <1>3
<1> QED
  BY <1>4 DEF Iterates

(* What is computed by the same steps is the same.                         *)
LEMMA SameSteps ==
  ASSUME NEW N \in Nat, NEW f, NEW g, f[0] = g[0],
         \A n \in 1 .. N : f[n - 1] = g[n - 1] => f[n] = g[n]
  PROVE  \A n \in 0 .. N : f[n] = g[n]
<1> DEFINE T == {n \in Nat : n <= N => f[n] = g[n]}
<1>1. \A n \in Nat : n \in T => n + 1 \in T
  <2> SUFFICES ASSUME NEW n \in Nat, n \in T, n + 1 <= N
               PROVE  f[n + 1] = g[n + 1]
    OBVIOUS
  <2>1. n + 1 \in 1 .. N /\ (n + 1) - 1 = n /\ n <= N
    OBVIOUS
  <2> QED
    BY <2>1
<1>2. Nat \subseteq T
  <2>1. 0 \in T
    OBVIOUS
  <2> HIDE DEF T
  <2> QED
    BY <1>1, <2>1, NatInductionOnSets
<1> QED
  BY <1>2
=============================================================================
