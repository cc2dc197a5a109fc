------------------------------ MODULE LeastElement ------------------------------
(***************************************************************************)
(* Every non-empty set of natural numbers has a least element: what other  *)
(* proofs have of induction over data.                                     *)
(***************************************************************************)
EXTENDS Naturals, WellFoundedInduction, TLAPS

Below == {p \in Nat \X Nat : p[1] < p[2]}

LEMMA LeastExists ==
  ASSUME NEW T, T \subseteq Nat, T # {}
  PROVE  \E n \in T : \A m \in T : n <= m
  <1>1. IsWellFoundedOn(Below, Nat)
    BY NatLessThanWellFounded DEF OpToRel, Below
  <1>2. PICK n \in T : \A m \in T : ~ (<<m, n>> \in Below)
    BY <1>1, WFMin
  <1>3. \A m \in T : m < n => <<m, n>> \in Below
    BY <1>2 DEF Below
  <1>4. ASSUME NEW m \in T PROVE n <= m
    <2>1. m \in Nat /\ n \in Nat /\ ~ (m < n)
      BY <1>2, <1>3
    <2> QED BY <2>1
  <1> QED BY <1>4

(* Induction for the numbers of a set.                                     *)
LEMMA Induction ==
  ASSUME NEW T, 0 \in T, \A n \in Nat : n \in T => n + 1 \in T
  PROVE  \A n \in Nat : n \in T
  <1>1. SUFFICES ASSUME Nat \ T # {} PROVE FALSE
    OBVIOUS
  <1>2. PICK n \in Nat \ T : \A m \in Nat \ T : n <= m
    BY <1>1, LeastExists
  <1>3. n - 1 \in Nat /\ n - 1 \in T
    BY <1>2
  <1> QED BY <1>2, <1>3

(* A function that is defined by recursion along an interval exists.       *)
RecursiveSteps(m, S) == [(1 .. m) \X S -> S]
IsRecursive(f, m, S, base, step) ==
  /\ f \in [0 .. m -> S]
  /\ f[0] = base
  /\ \A n \in 1 .. m : f[n] = step[<<n, f[n - 1]>>]

LEMMA RecursionExists ==
  ASSUME NEW S, NEW m \in Nat, NEW base \in S, NEW step \in RecursiveSteps(m, S)
  PROVE  \E f : IsRecursive(f, m, S, base, step)
  <1> USE DEF RecursiveSteps
  <1> DEFINE Until(k, f) == /\ f \in [0 .. k -> S] /\ f[0] = base
                            /\ \A n \in 1 .. k : f[n] = step[<<n, f[n - 1]>>]
             T == {k \in Nat : k <= m => \E f : Until(k, f)}
  <1>1. 0 \in T
    <2>1. Until(0, [n \in 0 .. 0 |-> base])
      OBVIOUS
    <2> QED BY <2>1
  <1>2. ASSUME NEW k \in Nat, k \in T, k + 1 <= m PROVE \E g : Until(k + 1, g)
    <2>1. PICK f : Until(k, f)
      BY <1>2
    <2> DEFINE g == [n \in 0 .. k + 1 |-> IF n = k + 1 THEN step[<<k + 1, f[k]>>] ELSE f[n]]
    <2>2. step[<<k + 1, f[k]>>] \in S
      BY <1>2, <2>1
    <2>3. g \in [0 .. k + 1 -> S] /\ g[0] = base
      BY <2>1, <2>2
    <2>4. ASSUME NEW n \in 1 .. k + 1 PROVE g[n] = step[<<n, g[n - 1]>>]
      <3>1. g[n - 1] = f[n - 1]
        OBVIOUS
      <3>2. CASE n = k + 1
        <4>1. n - 1 = k
          BY <3>2
        <4>2. g[n] = step[<<n, f[k]>>]
          BY <3>2
        <4>3. g[n - 1] = f[k]
          BY <3>1, <4>1
        <4> HIDE DEF g
        <4> QED BY <4>2, <4>3
      <3>3. CASE n # k + 1
        <4>1. n \in 1 .. k /\ g[n] = f[n]
          BY <3>3
        <4> QED BY <2>1, <3>1, <4>1
      <3> QED BY <3>2, <3>3
    <2>5. Until(k + 1, g)
      BY <2>3, <2>4
    <2> QED BY <2>5
  <1>3. \A k \in Nat : k \in T => k + 1 \in T
    BY <1>2
  <1> HIDE DEF T
  <1>4. m \in T
    BY <1>1, <1>3, Induction
  <1> QED BY <1>4 DEF T, IsRecursive
=============================================================================
