----------------------------- MODULE Induction -----------------------------
(***************************************************************************)
(* Induction over the naturals for a set instead of a predicate: the       *)
(* provers cannot instantiate the library's induction theorems, which take *)
(* an operator, but they can instantiate the least-element theorem of      *)
(* well-founded relations, which takes sets.                               *)
(***************************************************************************)
EXTENDS Integers, WellFoundedInduction, TLAPS

(* A set of naturals that is not empty has a least element. *)
LEMMA LeastElement ==
  ASSUME NEW T \in SUBSET Nat, T # {}
  PROVE  \E x \in T : \A y \in T : x <= y
<1> DEFINE R == {ss \in Nat \X Nat : ss[1] < ss[2]}
<1>1. IsWellFoundedOn(R, Nat)
  BY NatLessThanWellFounded DEF OpToRel
<1>2. PICK x \in T : \A y \in T : ~(<<y, x>> \in R)
  <2> HIDE DEF R
  <2> QED
    BY <1>1, WFMin
<1> SUFFICES ASSUME NEW y \in T PROVE x <= y
  OBVIOUS
<1>3. x \in Nat /\ y \in Nat /\ ~(<<y, x>> \in R)
  BY <1>2
<1>4. ~(y < x)
  BY <1>3
<1> QED
  BY <1>3, <1>4

(* Induction: from 0, one at a time. *)
LEMMA SetInduction ==
  ASSUME NEW S, 0 \in S, \A n \in Nat : n \in S => n + 1 \in S
  PROVE  \A n \in Nat : n \in S
<1> DEFINE T == Nat \ S
<1> SUFFICES ASSUME T # {} PROVE FALSE
  OBVIOUS
<1>1. PICK x \in T : \A y \in T : x <= y
  BY LeastElement
<1>2. x \in Nat /\ x # 0 /\ x - 1 \in Nat /\ ~(x <= x - 1)
  OBVIOUS
<1>3. x - 1 \in S
  BY <1>1, <1>2
<1>4. (x - 1) + 1 \in S
  BY <1>2, <1>3
<1> QED
  BY <1>2, <1>4

(* Induction: from all smaller ones. *)
LEMMA SetStrongInduction ==
  ASSUME NEW S, \A n \in Nat : (\A m \in 0 .. n - 1 : m \in S) => n \in S
  PROVE  \A n \in Nat : n \in S
<1> DEFINE T == Nat \ S
<1> SUFFICES ASSUME T # {} PROVE FALSE
  OBVIOUS
<1>1. PICK x \in T : \A y \in T : x <= y
  BY LeastElement
<1>2. \A m \in 0 .. x - 1 : m \in S
  BY <1>1
<1> QED
  BY <1>1, <1>2

(* Induction on a rank. *)
LEMMA RankInduction ==
  ASSUME NEW D, NEW r, \A n \in D : r[n] \in Nat, NEW S,
         \A n \in D : (\A m \in D : r[m] < r[n] => m \in S) => n \in S
  PROVE  \A n \in D : n \in S
<1> DEFINE T == {k \in Nat : \A n \in D : r[n] = k => n \in S}
<1>1. ASSUME NEW k \in Nat, \A m \in 0 .. k - 1 : m \in T PROVE k \in T
  <2> SUFFICES ASSUME NEW n \in D, r[n] = k PROVE n \in S
    OBVIOUS
  <2>1. ASSUME NEW m \in D, r[m] < r[n] PROVE m \in S
    <3>1. r[m] \in 0 .. k - 1
      BY <2>1
    <3>2. r[m] \in T
      BY <1>1, <3>1
    <3> QED
      BY <3>2
  <2> QED
    BY <2>1
<1> HIDE DEF T
<1>2. \A k \in Nat : k \in T
  BY <1>1, SetStrongInduction
<1> QED
  BY <1>2 DEF T

(* A function that is defined in terms of its values at smaller ranks      *)
(* exists: b[<<f, n>>] is the value at n when those are the values of f.    *)
ByRank(D, V, r, b) ==
  \A n \in D : \A f, g \in [D -> V] :
    (\A m \in D : r[m] < r[n] => f[m] = g[m]) => b[<<f, n>>] = b[<<g, n>>]

Fixpoint(D, V, b, f) == f \in [D -> V] /\ \A n \in D : f[n] = b[<<f, n>>]

LEMMA RecursiveFunction ==
  ASSUME NEW D, NEW V, NEW e \in V, NEW K \in Nat, NEW r \in [D -> 0 .. K],
         NEW b \in [[D -> V] \X D -> V], ByRank(D, V, r, b)
  PROVE  \E f : Fixpoint(D, V, b, f)
<1> DEFINE P(k, f) == \A n \in D : r[n] < k => f[n] = b[<<f, n>>]
<1> DEFINE S == {k \in Nat : \E f \in [D -> V] : P(k, f)}
<1>0. \A n \in D : r[n] \in Nat /\ r[n] <= K
  OBVIOUS
<1>1. 0 \in S
  <2>1. [n \in D |-> e] \in [D -> V] /\ P(0, [n \in D |-> e])
    BY <1>0
  <2> QED
    BY <2>1
<1>2. ASSUME NEW k \in Nat, k \in S PROVE k + 1 \in S
  <2>1. PICK f \in [D -> V] : P(k, f)
    BY <1>2
  <2> DEFINE g == [n \in D |-> IF r[n] < k THEN f[n] ELSE b[<<f, n>>]]
  <2>2. \A n \in D : b[<<f, n>>] \in V /\ f[n] \in V
    OBVIOUS
  <2>3. g \in [D -> V]
    BY <2>2
  <2>4. /\ \A n \in D : r[n] < k => g[n] = f[n]
        /\ \A n \in D : ~(r[n] < k) => g[n] = b[<<f, n>>]
    OBVIOUS
  <2> HIDE DEF g
  <2>5. ASSUME NEW n \in D, r[n] < k + 1 PROVE g[n] = b[<<g, n>>]
    <3>1. \A m \in D : r[m] < r[n] => f[m] = g[m]
      BY <1>0, <2>4, <2>5
    <3>2. b[<<f, n>>] = b[<<g, n>>]
      BY <2>3, <3>1 DEF ByRank
    <3> QED
      BY <1>0, <2>1, <2>4, <3>2
  <2> QED
    BY <2>3, <2>5
<1> HIDE DEF S
<1>3. K + 1 \in S
  BY <1>1, <1>2, SetInduction
<1>4. PICK f \in [D -> V] : P(K + 1, f)
  BY <1>3 DEF S
<1>5. \A n \in D : r[n] < K + 1
  BY <1>0
<1> QED
  BY <1>4, <1>5 DEF Fixpoint

(* A function that is defined from its predecessor value. *)
Recursive(K, V, x, s, f) ==
  f \in [0 .. K -> V] /\ \A k \in 0 .. K : f[k] = IF k = 0 THEN x ELSE s[<<k, f[k - 1]>>]

LEMMA Recursion ==
  ASSUME NEW K \in Nat, NEW V, NEW x \in V, NEW s \in [(1 .. K) \X V -> V]
  PROVE  \E f : Recursive(K, V, x, s, f)
<1> DEFINE D == 0 .. K
<1> DEFINE r == [n \in D |-> n]
<1> DEFINE At(f, n) == IF n = 0 THEN x ELSE s[<<n, f[n - 1]>>]
<1> DEFINE b == [p \in [D -> V] \X D |-> At(p[1], p[2])]
<1>0. \A n \in D : n # 0 => n - 1 \in D /\ n \in 1 .. K /\ n - 1 < n
  OBVIOUS
<1>1. ASSUME NEW f \in [D -> V], NEW n \in D PROVE At(f, n) \in V
  BY <1>0
<1>2. r \in [D -> 0 .. K]
  OBVIOUS
<1>3. b \in [[D -> V] \X D -> V]
  BY <1>1
<1>4. \A f \in [D -> V], n \in D : b[<<f, n>>] = At(f, n)
  OBVIOUS
<1>5. \A n \in D : r[n] = n
  OBVIOUS
<1> HIDE DEF b, r, D
<1>6. ASSUME NEW n \in D, NEW f \in [D -> V], NEW g \in [D -> V],
             \A m \in D : r[m] < r[n] => f[m] = g[m]
      PROVE  b[<<f, n>>] = b[<<g, n>>]
  <2>1. n # 0 => f[n - 1] = g[n - 1]
    BY <1>0, <1>5, <1>6
  <2> QED
    BY <1>4, <2>1
<1>7. ByRank(D, V, r, b)
  BY <1>6 DEF ByRank
<1>8. \E f : Fixpoint(D, V, b, f)
  BY <1>2, <1>3, <1>7, RecursiveFunction
<1>9. PICK f : Fixpoint(D, V, b, f)
  BY <1>8
<1>10. f \in [D -> V] /\ \A n \in D : f[n] = b[<<f, n>>]
  BY <1>9 DEF Fixpoint
<1>11. \A n \in D : f[n] = At(f, n)
  BY <1>4, <1>10
<1> QED
  BY <1>10, <1>11 DEF D, Recursive
=============================================================================
