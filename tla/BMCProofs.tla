----------------------------- MODULE BMCProofs -----------------------------
(***************************************************************************)
(* The unfolding means what the circuit means, the query of a frame is     *)
(* satisfiable exactly when bad can be asserted there first, and the       *)
(* witness is a run: for every circuit, frame and number of threads.       *)
(***************************************************************************)
EXTENDS BMC, GatesProofs, SequenceTheorems

-----------------------------------------------------------------------------
(* Latches: the values of the first frame, then the next ones of Settle.   *)
LatchesAt(c, x, ins, l, n) ==
  IF n = 1 THEN x
  ELSE LET v == Settle(c, l[n - 1], ins[n - 1]) IN [j \in 1 .. c.num_latches |-> Holds(v, c.nexts[j])]

LatchRun(c, x, ins, k) == CHOOSE l : l = [n \in 1 .. k |-> LatchesAt(c, x, ins, l, n)]

InputsOK(c, ins, k) == \A n \in 1 .. k : ins[n] \in Bits(c.num_inputs)

LEMMA LatchesAtType ==
  ASSUME NEW c, IsCircuit(c), NEW x \in Bits(c.num_latches), NEW ins, NEW n \in Nat, n > 0,
         InputsOK(c, ins, n - 1), NEW l, n > 1 => l[n - 1] \in Bits(c.num_latches)
  PROVE  LatchesAt(c, x, ins, l, n) \in Bits(c.num_latches)
<1>1. CASE n = 1
  BY <1>1 DEF LatchesAt
<1>2. CASE n # 1
  <2>0. n - 1 \in 1 .. n - 1 /\ n > 1
    BY <1>2
  <2>1. l[n - 1] \in Bits(c.num_latches) /\ ins[n - 1] \in Bits(c.num_inputs)
    BY <2>0 DEF InputsOK
  <2> DEFINE v == Settle(c, l[n - 1], ins[n - 1])
  <2>2. \A m \in 1 .. NumVars(c) : v[m] \in BOOLEAN
    BY <2>1, SettleType
  <2> HIDE DEF v
  <2>3. \A j \in 1 .. c.num_latches : c.nexts[j] \in LitOf(NumVars(c))
    BY DEF IsCircuit
  <2>4. \A j \in 1 .. c.num_latches : Holds(v, c.nexts[j]) \in BOOLEAN
    BY <2>2, <2>3, HoldsType, CircuitNumbers
  <2>5. LatchesAt(c, x, ins, l, n) = [j \in 1 .. c.num_latches |-> Holds(v, c.nexts[j])]
    BY <1>2 DEF LatchesAt, v
  <2> QED
    BY <2>4, <2>5 DEF Bits
<1> QED
  BY <1>1, <1>2

LEMMA LatchRunDefined ==
  ASSUME NEW c, IsCircuit(c), NEW x \in Bits(c.num_latches), NEW ins, NEW k \in Nat,
         InputsOK(c, ins, k - 1)
  PROVE  /\ \A n \in 1 .. k : LatchRun(c, x, ins, k)[n] = LatchesAt(c, x, ins, LatchRun(c, x, ins, k), n)
         /\ \A n \in 1 .. k : LatchRun(c, x, ins, k)[n] \in Bits(c.num_latches)
<1> DEFINE D == 1 .. k
<1> DEFINE V == Bits(c.num_latches)
<1> DEFINE r == [n \in D |-> n]
<1> DEFINE b == [p \in [D -> V] \X D |-> LatchesAt(c, x, ins, p[1], p[2])]
<1>1. ASSUME NEW f \in [D -> V], NEW n \in D PROVE LatchesAt(c, x, ins, f, n) \in V
  <2>1. n \in Nat /\ n > 0 /\ (n > 1 => f[n - 1] \in V) /\ InputsOK(c, ins, n - 1)
    BY DEF InputsOK
  <2> QED
    BY <2>1, LatchesAtType
<1>2. r \in [D -> 0 .. k] /\ x \in V
  OBVIOUS
<1>3. b \in [[D -> V] \X D -> V]
  BY <1>1
<1>4. \A f \in [D -> V], n \in D : b[<<f, n>>] = LatchesAt(c, x, ins, f, n)
  OBVIOUS
<1>5. ASSUME NEW n \in D, NEW f \in [D -> V], NEW g \in [D -> V],
             \A m \in D : r[m] < r[n] => f[m] = g[m]
      PROVE  b[<<f, n>>] = b[<<g, n>>]
  <2>1. n # 1 => f[n - 1] = g[n - 1]
    BY <1>5
  <2>2. LatchesAt(c, x, ins, f, n) = LatchesAt(c, x, ins, g, n)
    BY <2>1 DEF LatchesAt
  <2> HIDE DEF b, D
  <2> QED
    BY <1>4, <2>2
<1>a. \A n \in D : n - 1 \in 1 .. k \/ n = 1
  OBVIOUS
<1> HIDE DEF b, r, D, V
<1>6. ByRank(D, V, r, b)
  BY <1>5 DEF ByRank
<1>7. \E f : Fixpoint(D, V, b, f)
  BY <1>2, <1>3, <1>6, RecursiveFunction
<1>8. PICK f \in [D -> V] : \A n \in D : f[n] = LatchesAt(c, x, ins, f, n)
  BY <1>4, <1>7 DEF Fixpoint
<1>9. f = [n \in D |-> LatchesAt(c, x, ins, f, n)]
  BY <1>8
<1> DEFINE l == LatchRun(c, x, ins, k)
<1>10. l = [n \in D |-> LatchesAt(c, x, ins, l, n)]
  BY <1>9 DEF LatchRun, D
<1> HIDE DEF l
<1>11. \A n \in D : l[n] = LatchesAt(c, x, ins, l, n)
  BY <1>10
<1> DEFINE S == {n \in D : l[n] \in V}
<1>12. ASSUME NEW n \in D, \A m \in D : r[m] < r[n] => m \in S PROVE n \in S
  <2>1. n \in Nat /\ n > 0 /\ InputsOK(c, ins, n - 1)
    BY DEF D, InputsOK
  <2>2. n > 1 => n - 1 \in D /\ r[n - 1] < r[n]
    BY DEF D, r
  <2>3. n > 1 => l[n - 1] \in V
    BY <1>12, <2>2
  <2> QED
    BY <1>11, <2>1, <2>3, LatchesAtType DEF V
<1>13. \A n \in D : r[n] \in Nat
  BY DEF D, r
<1> HIDE DEF S
<1>14. \A n \in D : n \in S
  BY <1>12, <1>13, RankInduction
<1> QED
  BY <1>11, <1>14 DEF S, D, V, l

LEMMA LatchRunPrefix ==
  ASSUME NEW c, IsCircuit(c), NEW x \in Bits(c.num_latches), NEW ins, NEW jns,
         NEW k \in Nat, NEW h \in Nat, k <= h, InputsOK(c, ins, k - 1), InputsOK(c, jns, h - 1),
         \A n \in 1 .. k - 1 : ins[n] = jns[n]
  PROVE  \A n \in 1 .. k : LatchRun(c, x, ins, k)[n] = LatchRun(c, x, jns, h)[n]
<1> DEFINE f == LatchRun(c, x, ins, k)
<1> DEFINE g == LatchRun(c, x, jns, h)
<1> DEFINE D == 1 .. k
<1> DEFINE r == [n \in D |-> n]
<1> DEFINE S == {n \in D : f[n] = g[n]}
<1>1. \A n \in D : f[n] = LatchesAt(c, x, ins, f, n) /\ g[n] = LatchesAt(c, x, jns, g, n)
  <2>1. \A n \in 1 .. k : f[n] = LatchesAt(c, x, ins, f, n)
    BY LatchRunDefined
  <2>2. \A n \in 1 .. h : g[n] = LatchesAt(c, x, jns, g, n)
    BY LatchRunDefined
  <2> HIDE DEF f, g
  <2> QED
    BY <2>1, <2>2
<1> HIDE DEF f, g
<1>2. ASSUME NEW n \in D, \A m \in D : r[m] < r[n] => m \in S PROVE n \in S
  <2>1. n # 1 => n - 1 \in D /\ r[n - 1] < r[n] /\ n - 1 \in 1 .. k - 1
    OBVIOUS
  <2>2. n # 1 => f[n - 1] = g[n - 1] /\ ins[n - 1] = jns[n - 1]
    BY <1>2, <2>1
  <2>3. LatchesAt(c, x, ins, f, n) = LatchesAt(c, x, jns, g, n)
    BY <2>2 DEF LatchesAt
  <2> QED
    BY <1>1, <2>3
<1>3. \A n \in D : r[n] \in Nat
  OBVIOUS
<1> HIDE DEF S, r, D
<1>4. \A n \in D : n \in S
  BY <1>2, <1>3, RankInduction
<1> QED
  BY <1>4 DEF S, D, f, g

LEMMA LatchesIsRun == \A c, x, ins, k : Latches(c, x, ins, k) = LatchRun(c, x, ins, k)[k]
BY DEF Latches, LatchRun, LatchesAt

LEMMA LatchesFirst ==
  ASSUME NEW c, IsCircuit(c), NEW x \in Bits(c.num_latches), NEW ins
  PROVE  Latches(c, x, ins, 1) = x
<1>1. 1 \in Nat /\ InputsOK(c, ins, 1 - 1)
  BY DEF InputsOK
<1>a. \A n \in 1 .. 1 : LatchRun(c, x, ins, 1)[n] = LatchesAt(c, x, ins, LatchRun(c, x, ins, 1), n)
  BY <1>1, LatchRunDefined
<1>2. LatchRun(c, x, ins, 1)[1] = LatchesAt(c, x, ins, LatchRun(c, x, ins, 1), 1)
  BY <1>a
<1> QED
  BY <1>2, LatchesIsRun DEF LatchesAt

LEMMA LatchesType ==
  ASSUME NEW c, IsCircuit(c), NEW x \in Bits(c.num_latches), NEW ins, NEW k \in Nat, k > 0,
         InputsOK(c, ins, k - 1)
  PROVE  Latches(c, x, ins, k) \in Bits(c.num_latches)
<1>1. \A n \in 1 .. k : LatchRun(c, x, ins, k)[n] \in Bits(c.num_latches)
  BY LatchRunDefined
<1>2. k \in 1 .. k
  OBVIOUS
<1> QED
  BY <1>1, <1>2, LatchesIsRun

LEMMA LatchesSame ==
  ASSUME NEW c, IsCircuit(c), NEW x \in Bits(c.num_latches), NEW ins, NEW jns, NEW k \in Nat, k > 0,
         InputsOK(c, ins, k - 1), InputsOK(c, jns, k - 1), \A n \in 1 .. k - 1 : ins[n] = jns[n]
  PROVE  Latches(c, x, ins, k) = Latches(c, x, jns, k)
<1>1. k \in 1 .. k /\ k <= k
  OBVIOUS
<1>2. \A n \in 1 .. k : LatchRun(c, x, ins, k)[n] = LatchRun(c, x, jns, k)[n]
  BY <1>1, LatchRunPrefix
<1> QED
  BY <1>1, <1>2, LatchesIsRun

NextLatches(c, v) == [j \in 1 .. c.num_latches |-> Holds(v, c.nexts[j])]

LEMMA LatchesNext ==
  ASSUME NEW c, IsCircuit(c), NEW x \in Bits(c.num_latches), NEW ins, NEW k \in Nat, k > 0,
         InputsOK(c, ins, k)
  PROVE  Latches(c, x, ins, k + 1) = NextLatches(c, Frame(c, x, ins, k))
<1>1. k + 1 \in Nat /\ k <= k + 1 /\ (k + 1) - 1 = k /\ k + 1 \in 1 .. k + 1 /\ k \in 1 .. k /\ k + 1 # 1
  OBVIOUS
<1>2. InputsOK(c, ins, k - 1) /\ InputsOK(c, ins, (k + 1) - 1)
  BY <1>1 DEF InputsOK
<1> DEFINE f == LatchRun(c, x, ins, k + 1)
<1>3. f[k + 1] = LatchesAt(c, x, ins, f, k + 1)
  BY <1>1, <1>2, LatchRunDefined
<1>4. LatchRun(c, x, ins, k)[k] = f[k]
  BY <1>1, <1>2, LatchRunPrefix
<1>5. Latches(c, x, ins, k) = f[k] /\ Latches(c, x, ins, k + 1) = f[k + 1]
  BY <1>4, LatchesIsRun
<1> HIDE DEF f
<1>6. LatchesAt(c, x, ins, f, k + 1) = NextLatches(c, Settle(c, f[k], ins[k]))
  BY <1>1 DEF LatchesAt, NextLatches
<1> QED
  BY <1>3, <1>5, <1>6 DEF Frame

LEMMA FrameSame ==
  ASSUME NEW c, IsCircuit(c), NEW x \in Bits(c.num_latches), NEW ins, NEW jns, NEW k \in Nat, k > 0,
         InputsOK(c, ins, k), InputsOK(c, jns, k), \A n \in 1 .. k : ins[n] = jns[n]
  PROVE  Frame(c, x, ins, k) = Frame(c, x, jns, k)
<1>1. k \in 1 .. k /\ InputsOK(c, ins, k - 1) /\ InputsOK(c, jns, k - 1) /\ \A n \in 1 .. k - 1 : ins[n] = jns[n]
  BY DEF InputsOK
<1>2. Latches(c, x, ins, k) = Latches(c, x, jns, k)
  BY <1>1, LatchesSame
<1> QED
  BY <1>1, <1>2 DEF Frame
-----------------------------------------------------------------------------
(* Aig_And.  GatesExact: under val, the values of the circuit's variables  *)
(* up to m obey its gates.                                                 *)
GatesExact(c, vs, m, val) ==
  \A i \in 1 .. Len(c.ands) : AndVar(c, i) <= m =>
    (Holds(val, vs[AndVar(c, i)]) <=>
       Holds(val, value(vs, c.ands[i].i1)) /\ Holds(val, value(vs, c.ands[i].i2)))

LitsUpTo(vs, m, n) == \A k \in 1 .. m : vs[k] \in LitOf(n)

AndAt(vs, and, p) ==
  LET v0 == value(vs, p[1])
      v1 == value(vs, p[2])
  IN IF v0 = v1 THEN v0
     ELSE IF v0 = -v1 THEN 1
     ELSE IF Abs(v0) = 1 THEN IF v0 = -1 THEN v1 ELSE 1
     ELSE IF Abs(v1) = 1 THEN IF v1 = -1 THEN v0 ELSE 1
     ELSE IF Abs(p[1]) < first_ands_index /\ Abs(p[2]) < first_ands_index THEN 0
     ELSE IF Child(vs, p[1], v1) \/ Child(vs, p[1], -v1) THEN Rewritten(vs, and, p[1], v0, v1)
     ELSE IF Child(vs, p[2], v0) \/ Child(vs, p[2], -v0) THEN Rewritten(vs, and, p[2], v1, v0)
     ELSE 0

Pair == LitOf(NumVars(ckt)) \X LitOf(NumVars(ckt))

AndOf(vs) == CHOOSE and : and = [p \in Pair |-> AndAt(vs, and, p)]

LEMMA AigAndIs == \A vs, p0, p1 : Aig_And(vs, p0, p1) = AndOf(vs)[<<p0, p1>>]
BY DEF Aig_And, AndOf, AndAt, Pair

LEMMA ValueType ==
  ASSUME NEW n \in Nat, NEW l \in LitOf(n), NEW vs, \A k \in 1 .. n : vs[k] \in Int
  PROVE  value(vs, l) \in Int /\ value(vs, -l) = -value(vs, l)
<1>1. CASE l > 0
  <2>1. vs[l] \in Int /\ ~(-l > 0) /\ -(-l) = l
    BY <1>1, LitOfType
  <2> QED
    BY <1>1, <2>1 DEF value
<1>2. CASE ~(l > 0)
  <2>1. vs[-l] \in Int /\ -l > 0
    BY <1>2, LitOfType
  <2> QED
    BY <1>2, <2>1 DEF value
<1> QED
  BY <1>1, <1>2

LEMMA ValueLit ==
  ASSUME NEW m \in Nat, NEW n \in Nat, NEW l \in LitOf(m), NEW vs, LitsUpTo(vs, m, n)
  PROVE  value(vs, l) \in LitOf(n)
<1>1. CASE l > 0
  BY <1>1, LitOfType DEF LitsUpTo, value
<1>2. CASE ~(l > 0)
  <2>1. vs[-l] \in LitOf(n)
    BY <1>2, LitOfType DEF LitsUpTo
  <2> QED
    BY <1>2, <2>1, LitOfType DEF value
<1> QED
  BY <1>1, <1>2

LEMMA FaninsOfGate ==
  ASSUME IsCircuit(ckt), NEW q \in LitOf(NumVars(ckt)), Abs(q) >= first_ands_index
  PROVE  \E i \in 1 .. Len(ckt.ands) :
           /\ AndVar(ckt, i) = Abs(q)
           /\ Fanins(q)[1] = ckt.ands[i].i1 /\ Fanins(q)[2] = ckt.ands[i].i2
           /\ Fanins(q)[1] \in LitOf(Abs(q) - 1) /\ Fanins(q)[2] \in LitOf(Abs(q) - 1)
<1> DEFINE i == Abs(q) - first_ands_index + 1
<1>1. Abs(q) \in 1 .. NumVars(ckt) /\ NumVars(ckt) \in Nat
  BY LitOfType, CircuitNumbers
<1>2. i \in 1 .. Len(ckt.ands) /\ AndVar(ckt, i) = Abs(q)
  <2> DEFINE b == 1 + ckt.num_inputs + ckt.num_latches
  <2> DEFINE r == Len(ckt.ands)
  <2>1. b \in Nat /\ r \in Nat
    BY CircuitNumbers
  <2>2. NumVars(ckt) = b + r /\ AndVar(ckt, i) = b + i /\ first_ands_index = b + 1
    BY DEF NumVars, AndVar, first_ands_index
  <2> HIDE DEF b, r
  <2>3. i \in 1 .. r /\ b + i = Abs(q)
    BY <1>1, <2>1, <2>2
  <2> QED
    BY <2>2, <2>3 DEF r
<1>3. Fanins(q) = <<ckt.ands[i].i1, ckt.ands[i].i2>>
  BY DEF Fanins
<1> HIDE DEF i
<1>4. ckt.ands[i].i1 \in LitOf(Abs(q) - 1) /\ ckt.ands[i].i2 \in LitOf(Abs(q) - 1)
  BY <1>2, FaninType
<1> QED
  BY <1>2, <1>3, <1>4

(* A variable that is not a gate is never rewritten. *)
LEMMA ChildOfGate ==
  ASSUME IsCircuit(ckt), NEW vs, \A k \in 1 .. NumVars(ckt) : vs[k] \in Int, vs[1] = 1,
         NEW q \in LitOf(NumVars(ckt)), NEW w \in Int,
         value(vs, q) # w, value(vs, q) # -w, Abs(w) # 1,
         Child(vs, q, w) \/ Child(vs, q, -w)
  PROVE  Abs(q) >= first_ands_index
<1> SUFFICES ASSUME ~(Abs(q) >= first_ands_index) PROVE FALSE
  OBVIOUS
<1>1. NumVars(ckt) \in Nat /\ Abs(q) \in 1 .. NumVars(ckt)
  BY LitOfType, CircuitNumbers
<1>2. Fanins(q)[1] = Abs(q) /\ Fanins(q)[2] = -1
  BY DEF Fanins
<1>3. value(vs, -1) = -1
  BY DEF value
<1>4. value(vs, Abs(q)) = value(vs, q) \/ value(vs, Abs(q)) = -value(vs, q)
  <2>1. Abs(q) > 0 /\ value(vs, Abs(q)) = vs[Abs(q)] /\ vs[Abs(q)] \in Int
    BY <1>1 DEF value
  <2>2. q > 0 => Abs(q) = q
    BY <1>1, LitOfType
  <2>3. ~(q > 0) => Abs(q) = -q /\ value(vs, q) = -vs[Abs(q)]
    BY <1>1, LitOfType DEF value
  <2> QED
    BY <2>1, <2>2, <2>3
<1>5. value(vs, q) \in Int
  BY <1>1, ValueType
<1>6. \A z \in {w, -w} : value(vs, Abs(q)) # z /\ -1 # z
  BY <1>4, <1>5 DEF Abs
<1> QED
  BY <1>2, <1>3, <1>6 DEF Child

RankOf(p) == IF Abs(p[1]) < Abs(p[2]) THEN Abs(p[2]) ELSE Abs(p[1])

LEMMA RewrittenLocal ==
  ASSUME IsCircuit(ckt), NEW vs, NEW q \in LitOf(NumVars(ckt)), Abs(q) >= first_ands_index,
         NEW v, NEW w, NEW f, NEW g,
         \A a, b \in LitOf(Abs(q) - 1) : f[<<a, b>>] = g[<<a, b>>]
  PROVE  Rewritten(vs, f, q, v, w) = Rewritten(vs, g, q, v, w)
<1> DEFINE a == Fanins(q)[1]
<1> DEFINE b == Fanins(q)[2]
<1>1. a \in LitOf(Abs(q) - 1) /\ b \in LitOf(Abs(q) - 1)
  BY FaninsOfGate
<1>2. Abs(q) - 1 \in Nat
  BY LitOfType, CircuitNumbers
<1>3. -a \in LitOf(Abs(q) - 1) /\ -b \in LitOf(Abs(q) - 1)
  BY <1>1, <1>2, LitOfType
<1>4. f[<<-a, b>>] = g[<<-a, b>>] /\ f[<<-b, a>>] = g[<<-b, a>>]
  BY <1>1, <1>3
<1> QED
  BY <1>4 DEF Rewritten

LEMMA AndAtLocal ==
  ASSUME IsCircuit(ckt), NEW vs, \A k \in 1 .. NumVars(ckt) : vs[k] \in Int, vs[1] = 1,
         NEW p \in Pair, NEW f, NEW g,
         \A m \in Pair : RankOf(m) < RankOf(p) => f[m] = g[m]
  PROVE  AndAt(vs, f, p) = AndAt(vs, g, p)
<1> DEFINE v0 == value(vs, p[1])
<1> DEFINE v1 == value(vs, p[2])
<1>1. /\ p[1] \in LitOf(NumVars(ckt)) /\ p[2] \in LitOf(NumVars(ckt)) /\ NumVars(ckt) \in Nat
      /\ v0 \in Int /\ v1 \in Int
  BY CircuitNumbers, ValueType DEF Pair
<1>2. ASSUME NEW q \in {p[1], p[2]}, NEW a \in LitOf(Abs(q) - 1), NEW b \in LitOf(Abs(q) - 1)
      PROVE  f[<<a, b>>] = g[<<a, b>>]
  <2>1. /\ Abs(p[1]) \in 1 .. NumVars(ckt) /\ Abs(p[2]) \in 1 .. NumVars(ckt)
        /\ Abs(q) \in 1 .. NumVars(ckt) /\ Abs(q) - 1 \in Nat
    BY <1>1, LitOfType
  <2>2. Abs(a) <= Abs(q) - 1 /\ Abs(b) <= Abs(q) - 1 /\ Abs(a) \in Nat /\ Abs(b) \in Nat
    BY <2>1, LitOfType
  <2>a. Abs(q) - 1 \in Int /\ NumVars(ckt) \in Int /\ Abs(q) - 1 <= NumVars(ckt)
    BY <1>1, <2>1
  <2>b. LitOf(Abs(q) - 1) \subseteq LitOf(NumVars(ckt))
    BY <2>a, LitOfMonotone
  <2>3. <<a, b>> \in Pair
    BY <2>b DEF Pair
  <2>4. RankOf(<<a, b>>) < RankOf(p)
    BY <2>1, <2>2 DEF RankOf
  <2> QED
    BY <2>3, <2>4
<1> SUFFICES ASSUME v0 # v1, v0 # -v1, Abs(v0) # 1, Abs(v1) # 1
             PROVE  AndAt(vs, f, p) = AndAt(vs, g, p)
  BY DEF AndAt
<1>3. Child(vs, p[1], v1) \/ Child(vs, p[1], -v1) =>
        Rewritten(vs, f, p[1], v0, v1) = Rewritten(vs, g, p[1], v0, v1)
  BY <1>1, <1>2, ChildOfGate, RewrittenLocal
<1>4. Child(vs, p[2], v0) \/ Child(vs, p[2], -v0) =>
        Rewritten(vs, f, p[2], v1, v0) = Rewritten(vs, g, p[2], v1, v0)
  <2>1. v1 # v0 /\ v1 # -v0
    BY <1>1
  <2> QED
    BY <1>1, <1>2, <2>1, ChildOfGate, RewrittenLocal
<1> HIDE DEF v0, v1
<1> QED
  BY <1>3, <1>4 DEF AndAt, v0, v1

LEMMA RewrittenType ==
  ASSUME IsCircuit(ckt), NEW vs, NEW q \in LitOf(NumVars(ckt)), Abs(q) >= first_ands_index,
         NEW v \in Int, NEW w \in Int, NEW f \in [Pair -> Int]
  PROVE  Rewritten(vs, f, q, v, w) \in Int
<1> DEFINE a == Fanins(q)[1]
<1> DEFINE b == Fanins(q)[2]
<1>1. a \in LitOf(Abs(q) - 1) /\ b \in LitOf(Abs(q) - 1)
  BY FaninsOfGate
<1>2. Abs(q) - 1 \in Nat /\ Abs(q) \in 1 .. NumVars(ckt) /\ NumVars(ckt) \in Nat
  BY LitOfType, CircuitNumbers
<1>3. -a \in LitOf(Abs(q) - 1) /\ -b \in LitOf(Abs(q) - 1)
  BY <1>1, <1>2, LitOfType
<1>4. <<-a, b>> \in Pair /\ <<-b, a>> \in Pair
  BY <1>1, <1>2, <1>3, LitOfMonotone DEF Pair
<1> QED
  BY <1>4 DEF Rewritten

LEMMA AndOfDefined ==
  ASSUME IsCircuit(ckt), NEW vs, \A k \in 1 .. NumVars(ckt) : vs[k] \in Int, vs[1] = 1
  PROVE  \A p \in Pair : AndOf(vs)[p] = AndAt(vs, AndOf(vs), p)
<1> DEFINE V == Int
<1> DEFINE r == [p \in Pair |-> RankOf(p)]
<1> DEFINE b == [p \in [Pair -> V] \X Pair |-> AndAt(vs, p[1], p[2])]
<1>1. NumVars(ckt) \in Nat
  BY CircuitNumbers
<1>2. \A p \in Pair : RankOf(p) \in 0 .. NumVars(ckt)
  <2> SUFFICES ASSUME NEW p \in Pair PROVE RankOf(p) \in 0 .. NumVars(ckt)
    OBVIOUS
  <2>1. Abs(p[1]) \in 1 .. NumVars(ckt) /\ Abs(p[2]) \in 1 .. NumVars(ckt)
    BY <1>1, LitOfType DEF Pair
  <2> QED
    BY <1>1, <2>1 DEF RankOf
<1>3. ASSUME NEW f \in [Pair -> V], NEW p \in Pair PROVE AndAt(vs, f, p) \in V
  <2> DEFINE v0 == value(vs, p[1])
  <2> DEFINE v1 == value(vs, p[2])
  <2>1. /\ p[1] \in LitOf(NumVars(ckt)) /\ p[2] \in LitOf(NumVars(ckt))
        /\ v0 \in Int /\ v1 \in Int
    BY <1>1, ValueType DEF Pair
  <2> SUFFICES ASSUME v0 # v1, v0 # -v1, Abs(v0) # 1, Abs(v1) # 1 PROVE AndAt(vs, f, p) \in V
    BY <2>1 DEF AndAt
  <2>2. Child(vs, p[1], v1) \/ Child(vs, p[1], -v1) => Rewritten(vs, f, p[1], v0, v1) \in Int
    BY <2>1, ChildOfGate, RewrittenType
  <2>3. Child(vs, p[2], v0) \/ Child(vs, p[2], -v0) => Rewritten(vs, f, p[2], v1, v0) \in Int
    <3>1. v1 # v0 /\ v1 # -v0
      BY <2>1
    <3> QED
      BY <2>1, <3>1, ChildOfGate, RewrittenType
  <2> HIDE DEF v0, v1
  <2> QED
    BY <2>1, <2>2, <2>3 DEF AndAt, v0, v1
<1>4. r \in [Pair -> 0 .. NumVars(ckt)] /\ 0 \in V
  BY <1>2
<1>5. b \in [[Pair -> V] \X Pair -> V]
  BY <1>3
<1>6. \A f \in [Pair -> V], p \in Pair : b[<<f, p>>] = AndAt(vs, f, p)
  OBVIOUS
<1>7. ASSUME NEW n \in Pair, NEW f \in [Pair -> V], NEW g \in [Pair -> V],
             \A m \in Pair : r[m] < r[n] => f[m] = g[m]
      PROVE  b[<<f, n>>] = b[<<g, n>>]
  <2>1. \A m \in Pair : RankOf(m) < RankOf(n) => f[m] = g[m]
    BY <1>7
  <2>2. AndAt(vs, f, n) = AndAt(vs, g, n)
    BY <2>1, AndAtLocal
  <2> HIDE DEF b
  <2> QED
    BY <1>6, <2>2
<1> HIDE DEF b, r, V
<1>8. ByRank(Pair, V, r, b)
  BY <1>7 DEF ByRank
<1>9. \E f : Fixpoint(Pair, V, b, f)
  BY <1>1, <1>4, <1>5, <1>8, RecursiveFunction
<1>10. PICK f \in [Pair -> V] : \A p \in Pair : f[p] = AndAt(vs, f, p)
  BY <1>6, <1>9 DEF Fixpoint
<1>11. f = [p \in Pair |-> AndAt(vs, f, p)]
  BY <1>10
<1>12. AndOf(vs) = [p \in Pair |-> AndAt(vs, AndOf(vs), p)]
  BY <1>11 DEF AndOf
<1> DEFINE h == AndOf(vs)
<1> HIDE DEF h
<1> QED
  BY <1>12 DEF h
(* The literal is the conjunction, or 0. *)
Conjunction(c, vs, m, n, r, v, w) ==
  /\ r \in LitOf(n)
  /\ \A val \in Valuation : ~val[1] /\ GatesExact(c, vs, m, val) =>
       (Holds(val, r) <=> Holds(val, v) /\ Holds(val, w))

AndExact(c, vs, m, n, p, r) == r # 0 => Conjunction(c, vs, m, n, r, value(vs, p[1]), value(vs, p[2]))

AndExactBelow(c, vs, m, n, k, f) ==
  \A a, b \in LitOf(k - 1) : AndExact(c, vs, m, n, <<a, b>>, f[<<a, b>>])

LEMMA RewrittenExact ==
  ASSUME IsCircuit(ckt), NEW vs, NEW m \in 1 .. NumVars(ckt), NEW n \in Nat, n > 0,
         LitsUpTo(vs, m, n), NEW q \in LitOf(m), Abs(q) >= first_ands_index,
         NEW w \in LitOf(n), Child(vs, q, w) \/ Child(vs, q, -w), NEW f,
         AndExactBelow(ckt, vs, m, n, Abs(q), f),
         NEW v, v = value(vs, q), NEW r, r = Rewritten(vs, f, q, v, w), r # 0
  PROVE  Conjunction(ckt, vs, m, n, r, v, w)
<1> DEFINE a == Fanins(q)[1]
<1> DEFINE b == Fanins(q)[2]
<1> DEFINE va == value(vs, a)
<1> DEFINE vb == value(vs, b)
<1> DEFINE k == Abs(q)
<1>1. /\ NumVars(ckt) \in Nat /\ m \in Nat /\ m \in Int /\ NumVars(ckt) \in Int /\ m <= NumVars(ckt)
  BY CircuitNumbers
<1>2. q \in LitOf(NumVars(ckt)) /\ k \in 1 .. m /\ q # 0 /\ q \in Int
  <2>1. LitOf(m) \subseteq LitOf(NumVars(ckt))
    BY <1>1, LitOfMonotone
  <2> QED
    BY <1>1, <2>1, LitOfType
<1>3. PICK i \in 1 .. Len(ckt.ands) :
        /\ AndVar(ckt, i) = k /\ a = ckt.ands[i].i1 /\ b = ckt.ands[i].i2
        /\ a \in LitOf(k - 1) /\ b \in LitOf(k - 1)
  BY <1>2, FaninsOfGate
<1>4. k - 1 \in Nat /\ k - 1 \in Int /\ k - 1 <= m
  BY <1>1, <1>2
<1>5. -a \in LitOf(k - 1) /\ -b \in LitOf(k - 1) /\ a \in LitOf(m) /\ b \in LitOf(m)
  <2>1. LitOf(k - 1) \subseteq LitOf(m)
    BY <1>1, <1>4, LitOfMonotone
  <2> QED
    BY <1>3, <1>4, <2>1, LitOfType
<1>6. va \in LitOf(n) /\ vb \in LitOf(n) /\ v \in LitOf(n) /\ vs[k] \in LitOf(n) /\ 1 \in LitOf(n)
  <2>1. 1 \in LitOf(n)
    BY DEF LitOf
  <2> QED
    BY <1>1, <1>2, <1>5, <2>1, ValueLit DEF LitsUpTo
<1>7. /\ \A z \in LitOf(k - 1) : \A y \in 1 .. k - 1 : vs[y] \in Int
      /\ value(vs, -a) = -va /\ value(vs, -b) = -vb
  <2>a. \A y \in 1 .. k - 1 : y \in 1 .. m
    BY <1>1, <1>4
  <2>b. \A y \in 1 .. m : vs[y] \in Int
    BY LitOfType DEF LitsUpTo
  <2>1. \A y \in 1 .. k - 1 : vs[y] \in Int
    BY <2>a, <2>b
  <2> QED
    BY <1>3, <1>4, <2>1, ValueType
<1>8. \A z \in LitOf(n) : z \in Int /\ z # 0 /\ -z \in LitOf(n)
  BY LitOfType
<1>9. v = IF q < 0 THEN -vs[k] ELSE vs[k]
  BY <1>2 DEF value, Abs
<1>10. \A z \in Int : Child(vs, q, z) <=> va = z \/ vb = z
  BY DEF Child
<1>11. r = IF Child(vs, q, -w) THEN IF q < 0 THEN w ELSE 1
           ELSE IF q > 0 THEN v
           ELSE IF vb = w THEN f[<<-a, b>>] ELSE f[<<-b, a>>]
  BY DEF Rewritten
<1>12. /\ AndExact(ckt, vs, m, n, <<-a, b>>, f[<<-a, b>>])
       /\ AndExact(ckt, vs, m, n, <<-b, a>>, f[<<-b, a>>])
  BY <1>3, <1>5 DEF AndExactBelow
<1>13. /\ f[<<-a, b>>] # 0 =>
            /\ f[<<-a, b>>] \in LitOf(n)
            /\ \A val \in Valuation : ~val[1] /\ GatesExact(ckt, vs, m, val) =>
                 (Holds(val, f[<<-a, b>>]) <=> Holds(val, -va) /\ Holds(val, vb))
       /\ f[<<-b, a>>] # 0 =>
            /\ f[<<-b, a>>] \in LitOf(n)
            /\ \A val \in Valuation : ~val[1] /\ GatesExact(ckt, vs, m, val) =>
                 (Holds(val, f[<<-b, a>>]) <=> Holds(val, -vb) /\ Holds(val, va))
  BY <1>7, <1>12 DEF AndExact, Conjunction
<1>14. ASSUME NEW val \in Valuation, GatesExact(ckt, vs, m, val)
       PROVE  Holds(val, vs[k]) <=> Holds(val, va) /\ Holds(val, vb)
  BY <1>2, <1>3, <1>14 DEF GatesExact
<1> DEFINE fab == f[<<-a, b>>]
<1> DEFINE fba == f[<<-b, a>>]
<1> HIDE DEF a, b, va, vb, k, fab, fba
<1>15. r \in LitOf(n)
  BY <1>6, <1>8, <1>11, <1>13 DEF fab, fba
<1>16. ASSUME NEW val \in Valuation, ~val[1], GatesExact(ckt, vs, m, val)
       PROVE  Holds(val, r) <=> Holds(val, v) /\ Holds(val, w)
  <2>1. ASSUME NEW z \in LitOf(n) PROVE Holds(val, -z) <=> ~Holds(val, z)
    BY <1>8, HoldsNegated
  <2>2. Holds(val, vs[k]) <=> Holds(val, va) /\ Holds(val, vb)
    BY <1>14, <1>16
  <2>3. ~Holds(val, 1)
    BY <1>16 DEF Holds
  <2>4. q < 0 => (Holds(val, v) <=> ~Holds(val, vs[k]))
    BY <1>6, <1>9, <2>1
  <2>5. ~(q < 0) => v = vs[k]
    BY <1>9
  <2>6. CASE Child(vs, q, -w)
    <3>1. va = -w \/ vb = -w
      BY <1>8, <1>10, <2>6
    <3>2. Holds(val, -w) <=> ~Holds(val, w)
      BY <2>1
    <3>3. r = IF q < 0 THEN w ELSE 1
      BY <1>11, <2>6
    <3> QED
      BY <2>2, <2>3, <2>4, <2>5, <3>1, <3>2, <3>3
  <2>7. CASE ~Child(vs, q, -w) /\ q > 0
    <3>1. va = w \/ vb = w
      BY <1>8, <1>10, <2>7
    <3>2. r = v /\ v = vs[k]
      BY <1>2, <1>11, <2>5, <2>7
    <3> QED
      BY <2>2, <3>1, <3>2
  <2>8. CASE ~Child(vs, q, -w) /\ q < 0 /\ vb = w
    <3>1. r = fab
      BY <1>2, <1>11, <2>8 DEF fab
    <3>2. Holds(val, fab) <=> Holds(val, -va) /\ Holds(val, vb)
      BY <1>13, <1>16, <3>1 DEF fab
    <3> QED
      BY <1>6, <2>1, <2>2, <2>4, <2>8, <3>1, <3>2
  <2>9. CASE ~Child(vs, q, -w) /\ q < 0 /\ vb # w
    <3>a. ~(q > 0)
      BY <1>2, <2>9
    <3>b. va = w
      BY <1>8, <1>10, <2>9
    <3>1. r = fba /\ va = w
      BY <1>11, <2>9, <3>a, <3>b DEF fba
    <3>2. Holds(val, fba) <=> Holds(val, -vb) /\ Holds(val, va)
      BY <1>13, <1>16, <3>1 DEF fba
    <3> QED
      BY <1>6, <2>1, <2>2, <2>4, <2>9, <3>1, <3>2
  <2> QED
    BY <1>2, <2>6, <2>7, <2>8, <2>9
<1> QED
  BY <1>15, <1>16 DEF Conjunction

LEMMA AigAndExact ==
  ASSUME IsCircuit(ckt), NEW vs, \A k \in 1 .. NumVars(ckt) : vs[k] \in Int, vs[1] = 1,
         NEW m \in 1 .. NumVars(ckt), NEW n \in Nat, n > 0, LitsUpTo(vs, m, n)
  PROVE  \A p0, p1 \in LitOf(m) : AndExact(ckt, vs, m, n, <<p0, p1>>, Aig_And(vs, p0, p1))
<1> DEFINE h == AndOf(vs)
<1> DEFINE D == LitOf(m) \X LitOf(m)
<1> DEFINE r == [p \in D |-> RankOf(p)]
<1> DEFINE S == {p \in D : AndExact(ckt, vs, m, n, p, h[p])}
<1>1. NumVars(ckt) \in Nat /\ m \in Nat /\ LitOf(m) \subseteq LitOf(NumVars(ckt))
  BY CircuitNumbers, LitOfMonotone
<1>2. \A p \in D : p \in Pair /\ h[p] = AndAt(vs, h, p)
  BY <1>1, AndOfDefined DEF Pair
<1> HIDE DEF h
<1>3. ASSUME NEW p \in D PROVE r[p] \in Nat
  <2>1. Abs(p[1]) \in Nat /\ Abs(p[2]) \in Nat
    BY <1>1, LitOfType
  <2> QED
    BY <2>1 DEF RankOf
<1>4. ASSUME NEW p \in D, \A y \in D : r[y] < r[p] => y \in S PROVE p \in S
  <2> DEFINE v0 == value(vs, p[1])
  <2> DEFINE v1 == value(vs, p[2])
  <2>1. /\ p[1] \in LitOf(m) /\ p[2] \in LitOf(m)
        /\ p[1] \in LitOf(NumVars(ckt)) /\ p[2] \in LitOf(NumVars(ckt))
        /\ v0 \in LitOf(n) /\ v1 \in LitOf(n)
    BY <1>1, ValueLit
  <2>2. \A z \in LitOf(n) : z \in Int /\ z # 0 /\ -z \in LitOf(n)
    BY LitOfType
  <2>3. ASSUME NEW q \in {p[1], p[2]}, NEW a \in LitOf(Abs(q) - 1), NEW b \in LitOf(Abs(q) - 1)
        PROVE  AndExact(ckt, vs, m, n, <<a, b>>, h[<<a, b>>])
    <3>1. /\ Abs(p[1]) \in 1 .. m /\ Abs(p[2]) \in 1 .. m
          /\ Abs(q) \in 1 .. m /\ Abs(q) - 1 \in Nat
      BY <1>1, <2>1, LitOfType
    <3>2. Abs(a) <= Abs(q) - 1 /\ Abs(b) <= Abs(q) - 1 /\ Abs(a) \in Nat /\ Abs(b) \in Nat
      BY <3>1, LitOfType
    <3>3. Abs(q) - 1 \in Int /\ m \in Int /\ Abs(q) - 1 <= m
      BY <3>1
    <3>4. LitOf(Abs(q) - 1) \subseteq LitOf(m)
      BY <3>3, LitOfMonotone
    <3>5. <<a, b>> \in D
      BY <3>4
    <3>6. RankOf(<<a, b>>) < RankOf(p)
      BY <3>1, <3>2 DEF RankOf
    <3>7. <<a, b>> \in S
      BY <1>4, <3>5, <3>6
    <3> QED
      BY <3>7
  <2> DEFINE z == h[p]
  <2>4. z = AndAt(vs, h, p)
    BY <1>2
  <2> HIDE DEF z
  <2> SUFFICES ASSUME z # 0
               PROVE  Conjunction(ckt, vs, m, n, z, v0, v1)
    BY DEF AndExact, z
  <2>5. CASE v0 = v1
    <3>1. z = v0
      BY <2>4, <2>5 DEF AndAt
    <3> QED
      BY <2>1, <2>5, <3>1 DEF Conjunction
  <2>6. CASE v0 # v1 /\ v0 = -v1
    <3>1. z = 1 /\ 1 \in LitOf(n)
      BY <2>4, <2>6 DEF AndAt, LitOf
    <3>2. ASSUME NEW val \in Valuation, ~val[1]
          PROVE  ~Holds(val, 1) /\ (Holds(val, v0) <=> ~Holds(val, v1))
      <4>1. Holds(val, -v1) <=> ~Holds(val, v1)
        BY <2>1, <2>2, HoldsNegated
      <4> QED
        BY <2>6, <3>2, <4>1 DEF Holds
    <3> QED
      BY <3>1, <3>2 DEF Conjunction
  <2>7. ASSUME NEW val \in Valuation, ~val[1]
        PROVE  ~Holds(val, 1) /\ Holds(val, -1)
    BY <2>7 DEF Holds
  <2>8. CASE v0 # v1 /\ v0 # -v1 /\ Abs(v0) = 1
    <3>0. 1 \in LitOf(n)
      BY DEF LitOf
    <3>1. (v0 = -1 /\ z = v1) \/ (v0 = 1 /\ z = 1)
      BY <2>1, <2>2, <2>4, <2>8 DEF AndAt, Abs
    <3> QED
      BY <2>1, <2>7, <3>0, <3>1 DEF Conjunction
  <2>9. CASE v0 # v1 /\ v0 # -v1 /\ Abs(v0) # 1 /\ Abs(v1) = 1
    <3>0. 1 \in LitOf(n)
      BY DEF LitOf
    <3>1. (v1 = -1 /\ z = v0) \/ (v1 = 1 /\ z = 1)
      BY <2>1, <2>2, <2>4, <2>9 DEF AndAt, Abs
    <3> QED
      BY <2>1, <2>7, <3>0, <3>1 DEF Conjunction
  <2>10. CASE v0 # v1 /\ v0 # -v1 /\ Abs(v0) # 1 /\ Abs(v1) # 1
    <3>1. v1 # v0 /\ v1 # -v0 /\ v0 \in Int /\ v1 \in Int
      BY <2>1, <2>2, <2>10
    <3>2. \/ /\ Child(vs, p[1], v1) \/ Child(vs, p[1], -v1)
             /\ z = Rewritten(vs, h, p[1], v0, v1)
          \/ /\ Child(vs, p[2], v0) \/ Child(vs, p[2], -v0)
             /\ z = Rewritten(vs, h, p[2], v1, v0)
      <4> HIDE DEF h
      <4> QED
        BY <2>4, <2>10 DEF AndAt
    <3>3. CASE /\ Child(vs, p[1], v1) \/ Child(vs, p[1], -v1)
               /\ z = Rewritten(vs, h, p[1], v0, v1)
      <4>1. Abs(p[1]) >= first_ands_index
        BY <2>1, <2>10, <3>1, <3>3, ChildOfGate
      <4>2. AndExactBelow(ckt, vs, m, n, Abs(p[1]), h)
        BY <2>3 DEF AndExactBelow
      <4> HIDE DEF v0, v1, D
      <4> QED
        BY <2>1, <3>3, <4>1, <4>2, RewrittenExact DEF v0
    <3>4. CASE /\ Child(vs, p[2], v0) \/ Child(vs, p[2], -v0)
               /\ z = Rewritten(vs, h, p[2], v1, v0)
      <4>1. Abs(p[2]) >= first_ands_index
        BY <2>1, <2>10, <3>1, <3>4, ChildOfGate
      <4>2. AndExactBelow(ckt, vs, m, n, Abs(p[2]), h)
        BY <2>3 DEF AndExactBelow
      <4> HIDE DEF v0, v1, D
      <4>3. Conjunction(ckt, vs, m, n, z, v1, v0)
        BY <2>1, <3>4, <4>1, <4>2, RewrittenExact DEF v1
      <4> QED
        BY <4>3 DEF Conjunction
    <3> QED
      BY <3>2, <3>3, <3>4
  <2> QED
    BY <2>5, <2>6, <2>8, <2>9, <2>10
<1> HIDE DEF S, r, D
<1>5. \A p \in D : p \in S
  BY <1>3, <1>4, RankInduction
<1> SUFFICES ASSUME NEW p0 \in LitOf(m), NEW p1 \in LitOf(m)
             PROVE  AndExact(ckt, vs, m, n, <<p0, p1>>, Aig_And(vs, p0, p1))
  OBVIOUS
<1>6. <<p0, p1>> \in D
  BY DEF D
<1>7. AndExact(ckt, vs, m, n, <<p0, p1>>, h[<<p0, p1>>])
  BY <1>5, <1>6 DEF S
<1> QED
  BY <1>7, AigAndIs DEF h
-----------------------------------------------------------------------------
(* The unfolding: its shape, and the valuations that obey its gates.       *)
GateRecord == [o : Nat, i1 : Int, i2 : Int]

UnfoldingRecord ==
  [nodes : Nat, ands : Seq(GateRecord), inputs : Seq(Nat), constraints : SUBSET Int, output : Int]

Inner(c, u) == 2 + c.num_latches .. u.nodes - 1

IsGate(u, n)  == \E g \in 1 .. Len(u.ands) : u.ands[g].o = n
IsInput(u, n) == \E t \in 1 .. Len(u.inputs) : u.inputs[t] = n

WellFormed(c, u) ==
  /\ u \in UnfoldingRecord /\ u.nodes >= 2 + c.num_latches
  /\ \A g \in 1 .. Len(u.ands) :
       /\ u.ands[g].o \in Inner(c, u)
       /\ u.ands[g].i1 \in LitOf(u.ands[g].o - 1) /\ u.ands[g].i2 \in LitOf(u.ands[g].o - 1)
  /\ \A g, h \in 1 .. Len(u.ands) : g < h => u.ands[g].o < u.ands[h].o
  /\ \A t \in 1 .. Len(u.inputs) : u.inputs[t] \in Inner(c, u)
  /\ \A n \in Inner(c, u) : IsGate(u, n) <=> ~IsInput(u, n)

GateHolds(u, val, g) ==
  val[u.ands[g].o] <=> Holds(val, u.ands[g].i1) /\ Holds(val, u.ands[g].i2)

Obeys(u, val) == ~val[1] /\ \A g \in 1 .. Len(u.ands) : GateHolds(u, val, g)

Extends(t, u) ==
  /\ u.nodes <= t.nodes /\ Len(u.ands) <= Len(t.ands)
  /\ \A g \in 1 .. Len(u.ands) : t.ands[g] = u.ands[g]
  /\ \A g \in Len(u.ands) + 1 .. Len(t.ands) : t.ands[g].o >= u.nodes

LEMMA UnfoldingType ==
  ASSUME NEW u \in UnfoldingRecord
  PROVE  /\ u.nodes \in Nat /\ u.ands \in Seq(GateRecord) /\ Len(u.ands) \in Nat
         /\ \A g \in 1 .. Len(u.ands) : u.ands[g] \in GateRecord
         /\ u.inputs \in Seq(Nat) /\ Len(u.inputs) \in Nat
         /\ \A t \in 1 .. Len(u.inputs) : u.inputs[t] \in Nat
         /\ u.constraints \subseteq Int /\ u.output \in Int
<1>1. u.nodes \in Nat /\ u.ands \in Seq(GateRecord) /\ u.inputs \in Seq(Nat)
      /\ u.constraints \subseteq Int /\ u.output \in Int
  BY DEF UnfoldingRecord
<1> QED
  BY <1>1, LenProperties, ElementOfSeq

LEMMA ObeysExtended ==
  ASSUME NEW t \in UnfoldingRecord, NEW u \in UnfoldingRecord, Extends(t, u), NEW val, Obeys(t, val)
  PROVE  Obeys(u, val)
<1>1. Len(t.ands) \in Nat /\ Len(u.ands) \in Nat
  BY UnfoldingType
<1>2. \A g \in 1 .. Len(u.ands) : g \in 1 .. Len(t.ands) /\ t.ands[g] = u.ands[g]
  BY <1>1 DEF Extends
<1> QED
  BY <1>2 DEF Obeys, GateHolds

LEMMA ExtendsTransitive ==
  ASSUME NEW s \in UnfoldingRecord, NEW t \in UnfoldingRecord, NEW u \in UnfoldingRecord,
         Extends(s, t), Extends(t, u)
  PROVE  Extends(s, u)
<1>1. /\ Len(s.ands) \in Nat /\ Len(t.ands) \in Nat /\ Len(u.ands) \in Nat
      /\ s.nodes \in Nat /\ t.nodes \in Nat /\ u.nodes \in Nat
  BY UnfoldingType
<1>2. \A g \in Len(u.ands) + 1 .. Len(s.ands) :
        g \in Len(t.ands) + 1 .. Len(s.ands) \/ g \in Len(u.ands) + 1 .. Len(t.ands)
  BY <1>1
<1>3. \A g \in 1 .. Len(s.ands) : s.ands[g].o \in Nat
  BY UnfoldingType DEF GateRecord
<1>4. ASSUME NEW g \in Len(u.ands) + 1 .. Len(s.ands) PROVE s.ands[g].o >= u.nodes
  <2>0. g \in 1 .. Len(s.ands)
    BY <1>1
  <2>1. CASE g \in Len(t.ands) + 1 .. Len(s.ands)
    BY <1>1, <1>3, <2>0, <2>1 DEF Extends
  <2>2. CASE g \in Len(u.ands) + 1 .. Len(t.ands)
    <3>1. g \in 1 .. Len(t.ands)
      BY <1>1, <2>2
    <3> QED
      BY <2>2, <3>1 DEF Extends
  <2> QED
    BY <1>2, <2>1, <2>2
<1> QED
  BY <1>1, <1>4 DEF Extends

(* One more gate has its value. *)
LEMMA GateAdded ==
  ASSUME NEW c, IsCircuit(c), NEW i \in 1 .. Len(c.ands), NEW vs \in [1 .. NumVars(c) -> Int],
         NEW r, NEW val, GatesExact(c, vs, AndVar(c, i) - 1, val),
         Holds(val, r) <=> Holds(val, value(vs, c.ands[i].i1)) /\ Holds(val, value(vs, c.ands[i].i2))
  PROVE  GatesExact(c, [vs EXCEPT ![AndVar(c, i)] = r], AndVar(c, i), val)
<1> DEFINE o == AndVar(c, i)
<1> DEFINE ws == [vs EXCEPT ![o] = r]
<1>1. /\ o \in 1 .. NumVars(c) /\ NumVars(c) \in Nat /\ ws[o] = r
      /\ \A k \in 1 .. NumVars(c) : k # o => ws[k] = vs[k]
  BY CircuitNumbers
<1> HIDE DEF ws
<1>2. ASSUME NEW k \in 1 .. Len(c.ands), AndVar(c, k) <= o
      PROVE  /\ value(ws, c.ands[k].i1) = value(vs, c.ands[k].i1)
             /\ value(ws, c.ands[k].i2) = value(vs, c.ands[k].i2)
  <2>1. /\ AndVar(c, k) - 1 \in Nat /\ AndVar(c, k) \in 1 .. NumVars(c)
        /\ c.ands[k].i1 \in LitOf(AndVar(c, k) - 1) /\ c.ands[k].i2 \in LitOf(AndVar(c, k) - 1)
    BY FaninType, CircuitNumbers
  <2>2. ASSUME NEW l \in LitOf(AndVar(c, k) - 1) PROVE value(ws, l) = value(vs, l)
    <3>1. Abs(l) \in 1 .. AndVar(c, k) - 1
      BY <2>1, LitOfType
    <3>2. Abs(l) \in 1 .. NumVars(c) /\ Abs(l) # o
      BY <1>1, <1>2, <2>1, <3>1
    <3>3. ws[Abs(l)] = vs[Abs(l)]
      BY <1>1, <3>2
    <3>4. l > 0 => Abs(l) = l
      BY <2>1, LitOfType
    <3>5. ~(l > 0) => Abs(l) = -l
      BY <2>1, LitOfType
    <3> QED
      BY <3>3, <3>4, <3>5 DEF value
  <2> QED
    BY <2>1, <2>2
<1>3. o <= o
  BY <1>1
<1> SUFFICES ASSUME NEW k \in 1 .. Len(c.ands), AndVar(c, k) <= o
             PROVE  Holds(val, ws[AndVar(c, k)]) <=>
                      Holds(val, value(ws, c.ands[k].i1)) /\ Holds(val, value(ws, c.ands[k].i2))
  BY DEF GatesExact, ws
<1>4. CASE k = i
  BY <1>1, <1>2, <1>3, <1>4
<1>5. CASE k # i
  <2>1. AndVar(c, k) \in 1 .. NumVars(c) /\ AndVar(c, k) # o /\ AndVar(c, k) <= o - 1
    <3> DEFINE b == 1 + c.num_inputs + c.num_latches
    <3>1. b \in Nat /\ Len(c.ands) \in Nat /\ AndVar(c, k) \in 1 .. NumVars(c)
      <4>1. c.num_inputs \in Nat /\ c.num_latches \in Nat /\ Len(c.ands) \in Nat
        BY CircuitNumbers
      <4>2. AndVar(c, k) \in 1 .. NumVars(c)
        BY CircuitNumbers
      <4> QED
        BY <4>1, <4>2
    <3>2. AndVar(c, k) = b + k /\ o = b + i
      BY DEF AndVar
    <3> HIDE DEF b, o
    <3> QED
      BY <1>5, <3>1, <3>2
  <2>2. Holds(val, vs[AndVar(c, k)]) <=>
          Holds(val, value(vs, c.ands[k].i1)) /\ Holds(val, value(vs, c.ands[k].i2))
    BY <2>1 DEF GatesExact
  <2> QED
    BY <1>1, <1>2, <2>1, <2>2
<1> QED
  BY <1>4, <1>5

(* What holds when the gates up to i have been unfolded. *)
Unfolded(c, s, i, s0) ==
  /\ s = [values |-> s.values, u |-> s.u]
  /\ s.values \in [1 .. NumVars(c) -> Int] /\ s.values[1] = 1
  /\ WellFormed(c, s.u)
  /\ LitsUpTo(s.values, AndVar(c, i), s.u.nodes - 1)
  /\ \A val \in Valuation : Obeys(s.u, val) => GatesExact(c, s.values, AndVar(c, i), val)
  /\ \A n \in 1 .. AndVar(c, 0) : s.values[n] = s0.values[n]
  /\ s.u.inputs = s0.u.inputs /\ Extends(s.u, s0.u)

(* The value of a gate is given, in an unfolding that may have grown. *)
LEMMA UnfoldedNext ==
  ASSUME NEW c, IsCircuit(c), NEW i \in 1 .. Len(c.ands), NEW s, NEW s0, Unfolded(c, s, i - 1, s0),
         s0.u \in UnfoldingRecord,
         NEW t, WellFormed(c, t), Extends(t, s.u), t.inputs = s.u.inputs,
         NEW r \in LitOf(t.nodes - 1),
         \A val \in Valuation : Obeys(t, val) /\ GatesExact(c, s.values, AndVar(c, i) - 1, val) =>
           (Holds(val, r) <=> /\ Holds(val, value(s.values, c.ands[i].i1))
                              /\ Holds(val, value(s.values, c.ands[i].i2)))
  PROVE  Unfolded(c, [values |-> [s.values EXCEPT ![AndVar(c, i)] = r], u |-> t], i, s0)
<1> DEFINE vs == s.values
<1> DEFINE o == AndVar(c, i)
<1> DEFINE ws == [vs EXCEPT ![o] = r]
<1>1. /\ o \in 1 .. NumVars(c) /\ NumVars(c) \in Nat /\ AndVar(c, i - 1) = o - 1 /\ o # 1
      /\ AndVar(c, 0) < o /\ AndVar(c, 0) \in 1 .. NumVars(c)
  <2> DEFINE b == 1 + c.num_inputs + c.num_latches
  <2>1. b \in Nat /\ b >= 1 /\ Len(c.ands) \in Nat
    BY CircuitNumbers
  <2>2. o = b + i /\ NumVars(c) = b + Len(c.ands) /\ AndVar(c, i - 1) = b + (i - 1) /\ AndVar(c, 0) = b + 0
    BY DEF AndVar, NumVars
  <2> HIDE DEF b, o
  <2> QED
    BY <2>1, <2>2
<1>2. /\ vs \in [1 .. NumVars(c) -> Int] /\ vs[1] = 1 /\ WellFormed(c, s.u)
      /\ LitsUpTo(vs, o - 1, s.u.nodes - 1)
      /\ \A val \in Valuation : Obeys(s.u, val) => GatesExact(c, vs, o - 1, val)
      /\ \A n \in 1 .. AndVar(c, 0) : vs[n] = s0.values[n]
      /\ s.u.inputs = s0.u.inputs /\ Extends(s.u, s0.u)
  BY <1>1 DEF Unfolded
<1>3. /\ t \in UnfoldingRecord /\ s.u \in UnfoldingRecord /\ t.nodes \in Nat /\ s.u.nodes \in Nat
      /\ s.u.nodes <= t.nodes /\ t.nodes >= 2 /\ s.u.nodes >= 2
  <2>1. t \in UnfoldingRecord /\ s.u \in UnfoldingRecord
    BY <1>2 DEF WellFormed
  <2>2. t.nodes \in Nat /\ s.u.nodes \in Nat /\ c.num_latches \in Nat
    BY <2>1, UnfoldingType, CircuitNumbers
  <2>3. t.nodes >= 2 + c.num_latches /\ s.u.nodes >= 2 + c.num_latches /\ s.u.nodes <= t.nodes
    BY <1>2 DEF WellFormed, Extends
  <2> QED
    BY <2>1, <2>2, <2>3
<1>4. /\ ws[o] = r /\ \A k \in 1 .. NumVars(c) : k # o => ws[k] = vs[k]
      /\ ws \in [1 .. NumVars(c) -> Int]
  <2>1. r \in Int
    BY DEF LitOf
  <2> QED
    BY <1>1, <1>2, <2>1
<1>5. LitsUpTo(ws, o, t.nodes - 1)
  <2> HIDE DEF ws, vs
  <2>1. LitOf(s.u.nodes - 1) \subseteq LitOf(t.nodes - 1)
    <3>1. s.u.nodes - 1 \in Int /\ t.nodes - 1 \in Int /\ s.u.nodes - 1 <= t.nodes - 1
      BY <1>3
    <3> QED
      BY <3>1, LitOfMonotone
  <2>2. \A k \in 1 .. o : k # o => k \in 1 .. o - 1 /\ k \in 1 .. NumVars(c)
    BY <1>1
  <2> QED
    BY <1>2, <1>4, <2>1, <2>2 DEF LitsUpTo
<1>6. ASSUME NEW val \in Valuation, Obeys(t, val) PROVE GatesExact(c, ws, o, val)
  <2>1. GatesExact(c, vs, o - 1, val)
    BY <1>2, <1>3, <1>6, ObeysExtended
  <2> QED
    BY <1>2, <1>6, <2>1, GateAdded
<1>7. /\ ws[1] = 1 /\ \A n \in 1 .. AndVar(c, 0) : ws[n] = s0.values[n]
  <2>1. 1 \in 1 .. NumVars(c) /\ \A n \in 1 .. AndVar(c, 0) : n # o /\ n \in 1 .. NumVars(c)
    BY <1>1
  <2> HIDE DEF ws, vs
  <2> QED
    BY <1>1, <1>2, <1>4, <2>1
<1>8. Extends(t, s0.u)
  BY <1>2, <1>3, ExtendsTransitive
<1> HIDE DEF ws
<1> DEFINE z == [values |-> ws, u |-> t]
<1>9. z.values = ws /\ z.u = t /\ z = [values |-> z.values, u |-> z.u]
  OBVIOUS
<1> HIDE DEF z
<1>10. Unfolded(c, z, i, s0)
  BY <1>2, <1>4, <1>5, <1>6, <1>7, <1>8, <1>9 DEF Unfolded
<1> QED
  BY <1>10 DEF z, ws
(* A gate appended to the unfolding, with a node of its own. *)
Grown(u, i1, i2) ==
  [u EXCEPT !.nodes = @ + 1, !.ands = Append(@, [o |-> u.nodes, i1 |-> i1, i2 |-> i2])]

LEMMA GrownFields ==
  ASSUME NEW u \in UnfoldingRecord, NEW i1 \in Int, NEW i2 \in Int
  PROVE  LET t == Grown(u, i1, i2)
             a == [o |-> u.nodes, i1 |-> i1, i2 |-> i2]
         IN /\ t \in UnfoldingRecord /\ t.nodes = u.nodes + 1 /\ t.inputs = u.inputs
            /\ Len(t.ands) = Len(u.ands) + 1 /\ t.ands[Len(u.ands) + 1] = a
            /\ \A g \in 1 .. Len(u.ands) : t.ands[g] = u.ands[g]
<1> DEFINE a == [o |-> u.nodes, i1 |-> i1, i2 |-> i2]
<1> DEFINE t == Grown(u, i1, i2)
<1>1. u.nodes \in Nat /\ u.ands \in Seq(GateRecord) /\ Len(u.ands) \in Nat
  BY UnfoldingType
<1>2. a \in GateRecord
  BY <1>1 DEF GateRecord
<1> HIDE DEF a
<1>3. /\ Append(u.ands, a) \in Seq(GateRecord) /\ Len(Append(u.ands, a)) = Len(u.ands) + 1
      /\ Append(u.ands, a)[Len(u.ands) + 1] = a
      /\ \A g \in 1 .. Len(u.ands) : Append(u.ands, a)[g] = u.ands[g]
  BY <1>1, <1>2, AppendProperties
<1>4. /\ t.nodes = u.nodes + 1 /\ t.ands = Append(u.ands, a) /\ t.inputs = u.inputs
      /\ t \in UnfoldingRecord
  <2> DEFINE b == Append(u.ands, a)
  <2>1. u.nodes + 1 \in Nat /\ b \in Seq(GateRecord)
    BY <1>1, <1>3
  <2>2. t = [u EXCEPT !.nodes = @ + 1, !.ands = b]
    BY DEF Grown, a
  <2> HIDE DEF b, t
  <2>3. t.nodes = u.nodes + 1 /\ t.ands = b /\ t.inputs = u.inputs /\ t \in UnfoldingRecord
    BY <2>1, <2>2 DEF UnfoldingRecord
  <2> QED
    BY <2>3 DEF b
<1> QED
  BY <1>3, <1>4 DEF a

LEMMA GrownWellFormed ==
  ASSUME NEW c, IsCircuit(c), NEW u, WellFormed(c, u),
         NEW i1 \in LitOf(u.nodes - 1), NEW i2 \in LitOf(u.nodes - 1)
  PROVE  LET t == Grown(u, i1, i2)
         IN /\ WellFormed(c, t) /\ Extends(t, u) /\ t.inputs = u.inputs /\ u.nodes \in LitOf(t.nodes - 1)
            /\ \A val : Obeys(t, val) => (val[u.nodes] <=> Holds(val, i1) /\ Holds(val, i2))
<1> DEFINE t == Grown(u, i1, i2)
<1> DEFINE a == [o |-> u.nodes, i1 |-> i1, i2 |-> i2]
<1>1. u \in UnfoldingRecord /\ i1 \in Int /\ i2 \in Int
  BY DEF WellFormed, LitOf
<1>2. /\ t \in UnfoldingRecord /\ t.nodes = u.nodes + 1 /\ t.inputs = u.inputs
      /\ Len(t.ands) = Len(u.ands) + 1 /\ t.ands[Len(u.ands) + 1] = a
      /\ \A g \in 1 .. Len(u.ands) : t.ands[g] = u.ands[g]
  BY <1>1, GrownFields
<1> HIDE DEF t
<1>3. /\ u.nodes \in Nat /\ Len(u.ands) \in Nat /\ Len(u.inputs) \in Nat /\ c.num_latches \in Nat
      /\ \A n \in 1 .. Len(u.inputs) : u.inputs[n] \in Nat
  BY <1>1, UnfoldingType, CircuitNumbers
<1>4. a.o = u.nodes /\ a.i1 = i1 /\ a.i2 = i2
  OBVIOUS
<1> HIDE DEF a
<1>5. u.nodes >= 2 + c.num_latches
  BY DEF WellFormed
<1>6. /\ Inner(c, u) \subseteq Inner(c, t) /\ u.nodes \in Inner(c, t)
      /\ \A n \in Inner(c, t) : n \in Inner(c, u) \/ n = u.nodes
      /\ \A n \in Inner(c, u) : n \in Nat /\ n < u.nodes
  BY <1>2, <1>3, <1>5 DEF Inner
<1>7. \A g \in 1 .. Len(t.ands) : g \in 1 .. Len(u.ands) \/ g = Len(u.ands) + 1
  BY <1>2, <1>3
<1>8. /\ \A g \in 1 .. Len(u.ands) : g \in 1 .. Len(t.ands) /\ g < Len(u.ands) + 1
      /\ Len(u.ands) + 1 \in 1 .. Len(t.ands)
  BY <1>2, <1>3
<1>9. /\ \A g \in 1 .. Len(u.ands) :
           /\ u.ands[g].o \in Inner(c, u)
           /\ u.ands[g].i1 \in LitOf(u.ands[g].o - 1) /\ u.ands[g].i2 \in LitOf(u.ands[g].o - 1)
      /\ \A g, h \in 1 .. Len(u.ands) : g < h => u.ands[g].o < u.ands[h].o
      /\ \A n \in 1 .. Len(u.inputs) : u.inputs[n] \in Inner(c, u)
      /\ \A n \in Inner(c, u) : IsGate(u, n) <=> ~IsInput(u, n)
  BY DEF WellFormed
<1>10. ASSUME NEW g \in 1 .. Len(t.ands)
       PROVE  /\ t.ands[g].o \in Inner(c, t)
              /\ t.ands[g].i1 \in LitOf(t.ands[g].o - 1) /\ t.ands[g].i2 \in LitOf(t.ands[g].o - 1)
  BY <1>2, <1>4, <1>6, <1>7, <1>9
<1>11. ASSUME NEW g \in 1 .. Len(t.ands), NEW h \in 1 .. Len(t.ands), g < h
       PROVE  t.ands[g].o < t.ands[h].o
  <2>1. g \in 1 .. Len(u.ands)
    BY <1>2, <1>3, <1>11
  <2>2. CASE h \in 1 .. Len(u.ands)
    BY <1>2, <1>9, <1>11, <2>1, <2>2
  <2>3. CASE h = Len(u.ands) + 1
    BY <1>2, <1>4, <1>6, <1>9, <2>1, <2>3
  <2> QED
    BY <1>7, <2>2, <2>3
<1>12. ASSUME NEW n \in Inner(c, t) PROVE IsGate(t, n) <=> ~IsInput(t, n)
  <2>1. IsInput(t, n) <=> IsInput(u, n)
    BY <1>2 DEF IsInput
  <2>2. IsGate(t, n) <=> IsGate(u, n) \/ n = u.nodes
    BY <1>2, <1>4, <1>7, <1>8 DEF IsGate
  <2>3. ~IsInput(u, u.nodes)
    BY <1>3, <1>6, <1>9 DEF IsInput
  <2> QED
    BY <1>6, <1>9, <2>1, <2>2, <2>3
<1>13. WellFormed(c, t)
  <2>1. t.nodes >= 2 + c.num_latches
    BY <1>2, <1>3, <1>5
  <2>2. \A n \in 1 .. Len(t.inputs) : t.inputs[n] \in Inner(c, t)
    BY <1>2, <1>6, <1>9
  <2> QED
    BY <1>2, <1>10, <1>11, <1>12, <2>1, <2>2 DEF WellFormed
<1>14. Extends(t, u)
  <2>1. \A g \in Len(u.ands) + 1 .. Len(t.ands) : g = Len(u.ands) + 1
    BY <1>2, <1>3
  <2>2. \A g \in Len(u.ands) + 1 .. Len(t.ands) : t.ands[g].o >= u.nodes
    BY <1>2, <1>3, <1>4, <2>1
  <2> QED
    BY <1>2, <1>3, <2>2 DEF Extends
<1>15. u.nodes \in LitOf(t.nodes - 1)
  <2> DEFINE N == u.nodes
  <2>1. N \in Nat /\ N > 0 /\ t.nodes - 1 = N
    BY <1>2, <1>3, <1>5
  <2> HIDE DEF N
  <2>2. N \in LitOf(N)
    BY <2>1 DEF LitOf
  <2> QED
    BY <2>1, <2>2 DEF N
<1>16. \A val : Obeys(t, val) => (val[u.nodes] <=> Holds(val, i1) /\ Holds(val, i2))
  BY <1>2, <1>4, <1>8 DEF Obeys, GateHolds
<1> QED
  BY <1>2, <1>13, <1>14, <1>15, <1>16 DEF t

LEMMA ExtendsItself ==
  ASSUME NEW u \in UnfoldingRecord
  PROVE  Extends(u, u)
BY UnfoldingType DEF Extends

LEMMA UnfoldAndStep ==
  ASSUME IsCircuit(ckt), NEW i \in 1 .. Len(ckt.ands), NEW s, NEW s0, Unfolded(ckt, s, i - 1, s0),
         s0.u \in UnfoldingRecord
  PROVE  Unfolded(ckt, UnfoldAnd(s, i), i, s0)
<1> DEFINE vs == s.values
<1> DEFINE o == AndVar(ckt, i)
<1> DEFINE p1 == ckt.ands[i].i1
<1> DEFINE p2 == ckt.ands[i].i2
<1> DEFINE i1 == value(vs, p1)
<1> DEFINE i2 == value(vs, p2)
<1> DEFINE v == Aig_And(vs, p1, p2)
<1> DEFINE h == Hashed(s.u, i1, i2)
<1> DEFINE n == s.u.nodes - 1
<1>1. /\ o \in 1 .. NumVars(ckt) /\ NumVars(ckt) \in Nat /\ AndVar(ckt, i - 1) = o - 1
      /\ o - 1 \in 1 .. NumVars(ckt) /\ o - 1 \in Nat
      /\ p1 \in LitOf(o - 1) /\ p2 \in LitOf(o - 1)
  <2>1. p1 \in LitOf(o - 1) /\ p2 \in LitOf(o - 1) /\ o \in 1 .. NumVars(ckt) /\ NumVars(ckt) \in Nat
    BY CircuitNumbers, FaninType
  <2>2. AndVar(ckt, i - 1) = o - 1 /\ o > 1
    <3>1. ckt.num_inputs \in Nat /\ ckt.num_latches \in Nat /\ Len(ckt.ands) \in Nat
      BY CircuitNumbers
    <3> QED
      BY <3>1 DEF AndVar
  <2> QED
    BY <2>1, <2>2
<1>2. /\ s = [values |-> vs, u |-> s.u]
      /\ vs \in [1 .. NumVars(ckt) -> Int] /\ vs[1] = 1 /\ WellFormed(ckt, s.u)
      /\ LitsUpTo(vs, o - 1, n)
  BY <1>1 DEF Unfolded
<1>3. s.u \in UnfoldingRecord /\ n \in Nat /\ n > 0 /\ s.u.nodes \in Nat
  <2>1. s.u \in UnfoldingRecord /\ s.u.nodes >= 2 + ckt.num_latches
    BY <1>2 DEF WellFormed
  <2>2. s.u.nodes \in Nat /\ ckt.num_latches \in Nat
    BY <2>1, UnfoldingType, CircuitNumbers
  <2> QED
    BY <2>1, <2>2
<1>4. i1 \in LitOf(n) /\ i2 \in LitOf(n)
  BY <1>1, <1>2, <1>3, ValueLit
<1>5. \A k \in 1 .. NumVars(ckt) : vs[k] \in Int
  BY <1>2
<1>6. AndExact(ckt, vs, o - 1, n, <<p1, p2>>, v)
  BY <1>1, <1>2, <1>3, <1>5, AigAndExact
<1>7. UnfoldAnd(s, i) =
        IF v # 0 THEN [s EXCEPT !.values[o] = v]
        ELSE IF h # {} THEN [s EXCEPT !.values[o] = s.u.ands[CHOOSE k \in h : TRUE].o]
        ELSE [values |-> [vs EXCEPT ![o] = s.u.nodes], u |-> Grown(s.u, i1, i2)]
  BY DEF UnfoldAnd, Grown
<1>8. \A r : [s EXCEPT !.values[o] = r] = [values |-> [vs EXCEPT ![o] = r], u |-> s.u]
  <2> DEFINE u == s.u
  <2> HIDE DEF vs, u, o
  <2>1. s = [values |-> vs, u |-> u]
    BY <1>2 DEF u
  <2>2. \A r : [[values |-> vs, u |-> u] EXCEPT !.values[o] = r] = [values |-> [vs EXCEPT ![o] = r], u |-> u]
    OBVIOUS
  <2> QED
    BY <2>1, <2>2 DEF u
<1>9. CASE v # 0
  <2>1. /\ v \in LitOf(n)
        /\ \A val \in Valuation : ~val[1] /\ GatesExact(ckt, vs, o - 1, val) =>
             (Holds(val, v) <=> Holds(val, i1) /\ Holds(val, i2))
    BY <1>6, <1>9 DEF AndExact, Conjunction
  <2>2. \A val \in Valuation : Obeys(s.u, val) /\ GatesExact(ckt, vs, o - 1, val) =>
          (Holds(val, v) <=> Holds(val, i1) /\ Holds(val, i2))
    BY <2>1 DEF Obeys
  <2>3. Extends(s.u, s.u)
    BY <1>3, ExtendsItself
  <2> HIDE DEF v
  <2>4. Unfolded(ckt, [values |-> [vs EXCEPT ![o] = v], u |-> s.u], i, s0)
    BY <1>2, <1>3, <2>1, <2>2, <2>3, UnfoldedNext
  <2> QED
    BY <1>7, <1>8, <1>9, <2>4
<1>10. CASE v = 0 /\ h # {}
  <2> DEFINE k == CHOOSE k \in h : TRUE
  <2> DEFINE r == s.u.ands[k].o
  <2>1. k \in h
    BY <1>10
  <2>2. k \in 1 .. Len(s.u.ands) /\ <<s.u.ands[k].i1, s.u.ands[k].i2>> \in {<<i1, i2>>, <<i2, i1>>}
    BY <2>1 DEF Hashed
  <2> HIDE DEF k
  <2>3. r \in LitOf(n) /\ r > 0
    <3>1. r \in Inner(ckt, s.u) /\ ckt.num_latches \in Nat
      BY <1>2, <2>2, CircuitNumbers DEF WellFormed
    <3> HIDE DEF r
    <3>2. r \in Int /\ r >= 2 /\ r <= s.u.nodes - 1
      BY <1>3, <3>1 DEF Inner
    <3> QED
      BY <1>3, <3>2 DEF LitOf
  <2>4. ASSUME NEW val \in Valuation, Obeys(s.u, val)
        PROVE  Holds(val, r) <=> Holds(val, i1) /\ Holds(val, i2)
    <3>1. GateHolds(s.u, val, k)
      BY <2>2, <2>4 DEF Obeys
    <3>2. Holds(val, r) = val[r]
      BY <2>3 DEF Holds
    <3>3. \/ s.u.ands[k].i1 = i1 /\ s.u.ands[k].i2 = i2
          \/ s.u.ands[k].i1 = i2 /\ s.u.ands[k].i2 = i1
      BY <2>2
    <3> QED
      BY <3>1, <3>2, <3>3 DEF GateHolds
  <2>5. Extends(s.u, s.u)
    BY <1>3, ExtendsItself
  <2> HIDE DEF r
  <2>6. Unfolded(ckt, [values |-> [vs EXCEPT ![o] = r], u |-> s.u], i, s0)
    BY <1>2, <1>3, <2>3, <2>4, <2>5, UnfoldedNext
  <2>7. UnfoldAnd(s, i) = [s EXCEPT !.values[o] = r]
    BY <1>7, <1>10 DEF r, k
  <2> QED
    BY <1>8, <2>6, <2>7
<1>11. CASE v = 0 /\ h = {}
  <2> DEFINE t == Grown(s.u, i1, i2)
  <2> DEFINE r == s.u.nodes
  <2>1. /\ WellFormed(ckt, t) /\ Extends(t, s.u) /\ t.inputs = s.u.inputs /\ r \in LitOf(t.nodes - 1)
        /\ \A val : Obeys(t, val) => (val[r] <=> Holds(val, i1) /\ Holds(val, i2))
    BY <1>2, <1>4, GrownWellFormed
  <2>2. \A val : Holds(val, r) = val[r]
    BY <1>3 DEF Holds
  <2> HIDE DEF t
  <2>3. Unfolded(ckt, [values |-> [vs EXCEPT ![o] = r], u |-> t], i, s0)
    BY <2>1, <2>2, UnfoldedNext
  <2> QED
    BY <1>7, <1>11, <2>3 DEF t
<1> QED
  BY <1>9, <1>10, <1>11

-----------------------------------------------------------------------------
(* All gates of a frame. *)
UnfoldTo(s0, k, f) == f = [i \in 0 .. k |-> IF i = 0 THEN s0 ELSE UnfoldAnd(f[i - 1], i)]

LEMMA UnfoldDefined ==
  ASSUME NEW s0, NEW K \in Nat
  PROVE  \E f : UnfoldTo(s0, K, f)
<1> DEFINE S == {k \in Nat : \E f : UnfoldTo(s0, k, f)}
<1>1. 0 \in S
  <2>1. \A i \in 0 .. 0 : i = 0
    OBVIOUS
  <2>2. UnfoldTo(s0, 0, [i \in 0 .. 0 |-> s0])
    BY <2>1 DEF UnfoldTo
  <2> QED
    BY <2>2
<1>2. ASSUME NEW k \in Nat, k \in S PROVE k + 1 \in S
  <2>1. PICK f : UnfoldTo(s0, k, f)
    BY <1>2
  <2> DEFINE g == [i \in 0 .. k + 1 |-> IF i = k + 1 THEN UnfoldAnd(f[k], k + 1) ELSE f[i]]
  <2>2. ASSUME NEW i \in 0 .. k + 1
        PROVE  g[i] = IF i = 0 THEN s0 ELSE UnfoldAnd(g[i - 1], i)
    <3>1. i # 0 => i - 1 \in 0 .. k /\ i - 1 \in 0 .. k + 1 /\ i - 1 # k + 1
      OBVIOUS
    <3>2. i # 0 => g[i - 1] = f[i - 1]
      BY <3>1
    <3>3. CASE i = k + 1
      <4>1. i # 0 /\ i - 1 = k /\ g[i] = UnfoldAnd(f[k], i)
        BY <3>3
      <4> QED
        BY <3>2, <4>1
    <3>4. CASE i # k + 1
      <4>1. i \in 0 .. k /\ g[i] = f[i]
        BY <3>4
      <4>2. f[i] = IF i = 0 THEN s0 ELSE UnfoldAnd(f[i - 1], i)
        BY <2>1, <4>1 DEF UnfoldTo
      <4> QED
        BY <3>2, <4>1, <4>2
    <3> QED
      BY <3>3, <3>4
  <2>3. g = [i \in 0 .. k + 1 |-> g[i]]
    OBVIOUS
  <2> HIDE DEF g
  <2>4. UnfoldTo(s0, k + 1, g)
    BY <2>2, <2>3 DEF UnfoldTo
  <2> QED
    BY <2>4
<1> HIDE DEF S
<1>3. K \in S
  BY <1>1, <1>2, SetInduction
<1> QED
  BY <1>3 DEF S

LEMMA UnfoldAll ==
  ASSUME IsCircuit(ckt), NEW s0, Unfolded(ckt, s0, 0, s0), NEW f, UnfoldTo(s0, Len(ckt.ands), f)
  PROVE  Unfolded(ckt, f[Len(ckt.ands)], Len(ckt.ands), s0)
<1> DEFINE K == Len(ckt.ands)
<1> DEFINE S == {i \in Nat : i <= K => Unfolded(ckt, f[i], i, s0)}
<1>1. K \in Nat
  BY CircuitNumbers
<1>2. /\ f[0] = s0 /\ \A i \in 0 .. K : i # 0 => f[i] = UnfoldAnd(f[i - 1], i)
      /\ s0.u \in UnfoldingRecord
  <2>1. 0 \in 0 .. K
    BY <1>1
  <2>2. \A i \in 0 .. K : f[i] = IF i = 0 THEN s0 ELSE UnfoldAnd(f[i - 1], i)
    BY DEF UnfoldTo
  <2> QED
    BY <2>1, <2>2 DEF Unfolded, WellFormed
<1>3. 0 \in S
  BY <1>2
<1>4. ASSUME NEW i \in Nat, i \in S PROVE i + 1 \in S
  <2> SUFFICES ASSUME i + 1 <= K PROVE Unfolded(ckt, f[i + 1], i + 1, s0)
    OBVIOUS
  <2>1. i + 1 \in 0 .. K /\ i + 1 \in 1 .. K /\ i + 1 # 0 /\ (i + 1) - 1 = i /\ i <= K
    BY <1>1
  <2>2. f[i + 1] = UnfoldAnd(f[i], i + 1)
    BY <1>2, <2>1
  <2>3. Unfolded(ckt, f[i], (i + 1) - 1, s0)
    BY <1>4, <2>1
  <2> HIDE DEF S
  <2> QED
    BY <1>2, <2>1, <2>2, <2>3, UnfoldAndStep
<1> HIDE DEF S
<1>5. K \in S
  BY <1>1, <1>3, <1>4, SetInduction
<1> QED
  BY <1>1, <1>5 DEF S
-----------------------------------------------------------------------------
(* The solver: the values of the gates it holds follow from those of the   *)
(* other variables.                                                        *)
Outputs(u, gs) == {u.ands[g].o : g \in gs}

Known(u, gs, a) == DOMAIN a \cup Outputs(u, gs)

NodeAt(u, gs, a, v, n) ==
  IF n \in DOMAIN a THEN a[n]
  ELSE LET g == u.ands[CHOOSE g \in gs : u.ands[g].o = n] IN Holds(v, g.i1) /\ Holds(v, g.i2)

(* a gives a value to every variable of the gates gs but their outputs. *)
Supports(c, u, gs, a) ==
  /\ WellFormed(c, u) /\ gs \subseteq 1 .. Len(u.ands)
  /\ DOMAIN a \subseteq 1 .. u.nodes - 1 /\ \A n \in DOMAIN a : a[n] \in BOOLEAN
  /\ DOMAIN a \cap Outputs(u, gs) = {}
  /\ \A g \in gs : Abs(u.ands[g].i1) \in Known(u, gs, a) /\ Abs(u.ands[g].i2) \in Known(u, gs, a)

LEMMA HoldsOne ==
  ASSUME NEW f, NEW g, NEW l \in Int, l # 0, f[Abs(l)] = g[Abs(l)]
  PROVE  Holds(f, l) = Holds(g, l)
<1>1. CASE l > 0
  <2>1. Abs(l) = l
    BY <1>1 DEF Abs
  <2> QED
    BY <1>1, <2>1 DEF Holds
<1>2. CASE ~(l > 0)
  <2>1. Abs(l) = -l
    BY <1>2 DEF Abs
  <2> QED
    BY <1>2, <2>1 DEF Holds
<1> QED
  BY <1>1, <1>2

LEMMA GateParts ==
  ASSUME NEW c, IsCircuit(c), NEW u, WellFormed(c, u), NEW g \in 1 .. Len(u.ands)
  PROVE  LET a == u.ands[g]
         IN /\ u.nodes \in Nat /\ a.o \in 2 .. u.nodes - 1 /\ a.o >= 2 + c.num_latches
            /\ a.i1 \in Int /\ a.i1 # 0 /\ Abs(a.i1) \in 1 .. a.o - 1 /\ Abs(a.i1) \in 1 .. u.nodes - 1
            /\ a.i2 \in Int /\ a.i2 # 0 /\ Abs(a.i2) \in 1 .. a.o - 1 /\ Abs(a.i2) \in 1 .. u.nodes - 1
<1> DEFINE a == u.ands[g]
<1>1. u \in UnfoldingRecord /\ a.o \in Inner(c, u) /\ a.i1 \in LitOf(a.o - 1) /\ a.i2 \in LitOf(a.o - 1)
  BY DEF WellFormed
<1>2. u.nodes \in Nat /\ c.num_latches \in Nat
  BY <1>1, UnfoldingType, CircuitNumbers
<1> HIDE DEF a
<1>3. a.o \in 2 .. u.nodes - 1 /\ a.o >= 2 + c.num_latches /\ a.o - 1 \in Nat
  BY <1>1, <1>2 DEF Inner
<1>4. /\ a.i1 \in Int /\ a.i1 # 0 /\ Abs(a.i1) \in 1 .. a.o - 1
      /\ a.i2 \in Int /\ a.i2 # 0 /\ Abs(a.i2) \in 1 .. a.o - 1
  BY <1>1, <1>3, LitOfType
<1>5. 1 .. a.o - 1 \subseteq 1 .. u.nodes - 1
  BY <1>2, <1>3
<1> QED
  BY <1>2, <1>3, <1>4, <1>5 DEF a

LEMMA GateUnique ==
  ASSUME NEW c, IsCircuit(c), NEW u, WellFormed(c, u), NEW g \in 1 .. Len(u.ands),
         NEW h \in 1 .. Len(u.ands), u.ands[g].o = u.ands[h].o
  PROVE  g = h
<1>1. Len(u.ands) \in Nat /\ u.ands[g].o \in Nat
  BY UnfoldingType DEF WellFormed, GateRecord
<1>2. ~(g < h) /\ ~(h < g)
  BY <1>1 DEF WellFormed
<1> QED
  BY <1>1, <1>2

LEMMA NodeAtLocal ==
  ASSUME NEW c, IsCircuit(c), NEW u, NEW gs, NEW a, Supports(c, u, gs, a), NEW n \in Known(u, gs, a),
         NEW f, NEW h, \A m \in Known(u, gs, a) : m < n => f[m] = h[m]
  PROVE  NodeAt(u, gs, a, f, n) = NodeAt(u, gs, a, h, n)
<1>1. CASE n \in DOMAIN a
  BY <1>1 DEF NodeAt
<1>2. CASE n \notin DOMAIN a
  <2> DEFINE k == CHOOSE k \in gs : u.ands[k].o = n
  <2>1. k \in gs /\ u.ands[k].o = n
    BY <1>2 DEF Known, Outputs
  <2> HIDE DEF k
  <2>2. k \in 1 .. Len(u.ands) /\ WellFormed(c, u)
    BY <2>1 DEF Supports
  <2> DEFINE b == u.ands[k]
  <2>3. /\ b.i1 \in Int /\ b.i1 # 0 /\ Abs(b.i1) \in 1 .. n - 1
        /\ b.i2 \in Int /\ b.i2 # 0 /\ Abs(b.i2) \in 1 .. n - 1 /\ n \in Nat
    BY <2>1, <2>2, GateParts
  <2>4. Abs(b.i1) \in Known(u, gs, a) /\ Abs(b.i2) \in Known(u, gs, a)
    BY <2>1 DEF Supports
  <2>5. Holds(f, b.i1) = Holds(h, b.i1) /\ Holds(f, b.i2) = Holds(h, b.i2)
    <3> HIDE DEF b
    <3>1. Abs(b.i1) < n /\ Abs(b.i2) < n
      BY <2>3
    <3> QED
      BY <2>3, <2>4, <3>1, HoldsOne
  <2> QED
    BY <1>2, <2>5 DEF NodeAt, k
<1> QED
  BY <1>1, <1>2

LEMMA KnownType ==
  ASSUME NEW c, IsCircuit(c), NEW u, NEW gs, NEW a, Supports(c, u, gs, a)
  PROVE  u.nodes \in Nat /\ \A n \in Known(u, gs, a) : n \in 1 .. u.nodes - 1
<1>1. u.nodes \in Nat
  BY UnfoldingType DEF Supports, WellFormed
<1>2. ASSUME NEW n \in Outputs(u, gs) PROVE n \in 1 .. u.nodes - 1
  <2>1. PICK g \in gs : n = u.ands[g].o
    BY DEF Outputs
  <2>2. g \in 1 .. Len(u.ands) /\ WellFormed(c, u)
    BY DEF Supports
  <2>3. n \in 2 .. u.nodes - 1
    BY <2>1, <2>2, GateParts
  <2> QED
    BY <1>1, <2>3
<1> QED
  BY <1>1, <1>2 DEF Known, Supports

NodesOf(u, gs, a) == CHOOSE v : v = [n \in Known(u, gs, a) |-> NodeAt(u, gs, a, v, n)]

LEMMA NodeValuesIs == \A gs, a : NodeValues(gs, a) = NodesOf(uaiger, gs, a)
BY DEF NodeValues, NodesOf, NodeAt, Known, Outputs

LEMMA NodesDefined ==
  ASSUME NEW c, IsCircuit(c), NEW u, NEW gs, NEW a, Supports(c, u, gs, a)
  PROVE  \A n \in Known(u, gs, a) : NodesOf(u, gs, a)[n] = NodeAt(u, gs, a, NodesOf(u, gs, a), n)
<1> DEFINE D == Known(u, gs, a)
<1> DEFINE V == BOOLEAN
<1> DEFINE e == FALSE
<1> DEFINE r == [n \in D |-> n]
<1> DEFINE b == [p \in [D -> V] \X D |-> NodeAt(u, gs, a, p[1], p[2])]
<1>1. u.nodes \in Nat /\ \A n \in D : n \in 1 .. u.nodes - 1
  BY KnownType
<1>2. r \in [D -> 0 .. u.nodes] /\ e \in V
  BY <1>1
<1>3. ASSUME NEW f \in [D -> V], NEW n \in D PROVE NodeAt(u, gs, a, f, n) \in V
  <2>1. CASE n \in DOMAIN a
    BY <2>1 DEF NodeAt, Supports
  <2>2. CASE n \notin DOMAIN a
    BY <2>2 DEF NodeAt
  <2> QED
    BY <2>1, <2>2
<1>4. b \in [[D -> V] \X D -> V]
  BY <1>3
<1>5. \A f \in [D -> V], n \in D : b[<<f, n>>] = NodeAt(u, gs, a, f, n)
  OBVIOUS
<1>6. ASSUME NEW n \in D, NEW f \in [D -> V], NEW g \in [D -> V],
             \A m \in D : r[m] < r[n] => f[m] = g[m]
      PROVE  b[<<f, n>>] = b[<<g, n>>]
  <2>1. \A m \in D : m < n => f[m] = g[m]
    BY <1>6
  <2>2. NodeAt(u, gs, a, f, n) = NodeAt(u, gs, a, g, n)
    BY <2>1, NodeAtLocal
  <2> HIDE DEF b, D
  <2> QED
    BY <1>5, <2>2
<1> HIDE DEF b, r, V, D, e
<1>7. ByRank(D, V, r, b)
  BY <1>6 DEF ByRank
<1>8. \E f : Fixpoint(D, V, b, f)
  BY <1>1, <1>2, <1>4, <1>7, RecursiveFunction
<1>9. PICK f \in [D -> V] : \A n \in D : f[n] = NodeAt(u, gs, a, f, n)
  BY <1>5, <1>8 DEF Fixpoint
<1>10. f = [n \in D |-> NodeAt(u, gs, a, f, n)]
  BY <1>9
<1> DEFINE v == NodesOf(u, gs, a)
<1>11. v = [n \in D |-> NodeAt(u, gs, a, v, n)]
  BY <1>10 DEF NodesOf, D
<1> HIDE DEF v
<1>12. \A n \in D : v[n] = NodeAt(u, gs, a, v, n)
  BY <1>11
<1> QED
  BY <1>12 DEF D, v

LEMMA NodesExact ==
  ASSUME NEW c, IsCircuit(c), NEW u, NEW gs, NEW a, Supports(c, u, gs, a)
  PROVE  LET v == NodesOf(u, gs, a)
         IN /\ \A n \in DOMAIN a : v[n] = a[n]
            /\ \A g \in gs : GateHolds(u, v, g)
            /\ \A n \in Known(u, gs, a) : v[n] \in BOOLEAN
<1> DEFINE v == NodesOf(u, gs, a)
<1>1. \A n \in Known(u, gs, a) : v[n] = NodeAt(u, gs, a, v, n)
  BY NodesDefined
<1> HIDE DEF v
<1>2. \A n \in DOMAIN a : v[n] = a[n]
  BY <1>1 DEF NodeAt, Known
<1>3. ASSUME NEW g \in gs
      PROVE  v[u.ands[g].o] = (Holds(v, u.ands[g].i1) /\ Holds(v, u.ands[g].i2))
  <2> DEFINE n == u.ands[g].o
  <2> DEFINE k == CHOOSE k \in gs : u.ands[k].o = n
  <2>1. n \in Known(u, gs, a) /\ n \notin DOMAIN a
    BY DEF Known, Outputs, Supports
  <2>2. k \in gs /\ u.ands[k].o = n
    OBVIOUS
  <2>3. k = g
    <3> HIDE DEF k
    <3>1. k \in 1 .. Len(u.ands) /\ g \in 1 .. Len(u.ands) /\ WellFormed(c, u)
      BY <2>2 DEF Supports
    <3> QED
      BY <2>2, <3>1, GateUnique
  <2>4. v[n] = NodeAt(u, gs, a, v, n)
    BY <1>1, <2>1
  <2>5. NodeAt(u, gs, a, v, n) = (Holds(v, u.ands[k].i1) /\ Holds(v, u.ands[k].i2))
    BY <2>1 DEF NodeAt
  <2> QED
    BY <2>3, <2>4, <2>5
<1>4. ASSUME NEW n \in Known(u, gs, a) PROVE v[n] \in BOOLEAN
  <2>1. CASE n \in DOMAIN a
    BY <1>2, <2>1 DEF Supports
  <2>2. CASE n \in Outputs(u, gs)
    <3>1. PICK g \in gs : n = u.ands[g].o
      BY <2>2 DEF Outputs
    <3> QED
      BY <1>3, <3>1
  <2> QED
    BY <2>1, <2>2 DEF Known
<1> QED
  BY <1>2, <1>3, <1>4 DEF GateHolds, v

(* They are the only values. *)
LEMMA NodesAgree ==
  ASSUME NEW c, IsCircuit(c), NEW u, NEW gs, NEW a, Supports(c, u, gs, a), NEW val \in Valuation,
         \A g \in gs : GateHolds(u, val, g), \A n \in DOMAIN a : val[n] = a[n]
  PROVE  \A n \in Known(u, gs, a) : val[n] = NodesOf(u, gs, a)[n]
<1> DEFINE v == NodesOf(u, gs, a)
<1> DEFINE D == Known(u, gs, a)
<1> DEFINE r == [n \in D |-> n]
<1> DEFINE S == {n \in D : val[n] = v[n]}
<1>1. \A n \in D : v[n] = NodeAt(u, gs, a, v, n)
  BY NodesDefined
<1>2. u.nodes \in Nat /\ \A n \in D : n \in 1 .. u.nodes - 1
  BY KnownType
<1>3. \A n \in D : val[n] = NodeAt(u, gs, a, val, n)
  <2> SUFFICES ASSUME NEW n \in D PROVE val[n] = NodeAt(u, gs, a, val, n)
    OBVIOUS
  <2>1. CASE n \in DOMAIN a
    BY <2>1 DEF NodeAt
  <2>2. CASE n \notin DOMAIN a
    <3> DEFINE k == CHOOSE k \in gs : u.ands[k].o = n
    <3>1. k \in gs /\ u.ands[k].o = n
      BY <2>2 DEF Known, Outputs
    <3>2. NodeAt(u, gs, a, val, n) = (Holds(val, u.ands[k].i1) /\ Holds(val, u.ands[k].i2))
      BY <2>2 DEF NodeAt
    <3> HIDE DEF k
    <3>3. val[n] <=> Holds(val, u.ands[k].i1) /\ Holds(val, u.ands[k].i2)
      BY <3>1 DEF GateHolds
    <3>4. val[n] \in BOOLEAN
      BY <1>2 DEF Valuation
    <3> QED
      BY <3>2, <3>3, <3>4
  <2> QED
    BY <2>1, <2>2
<1> HIDE DEF v
<1>4. \A n \in D : r[n] \in Nat
  BY <1>2
<1>5. ASSUME NEW n \in D, \A m \in D : r[m] < r[n] => m \in S PROVE n \in S
  <2>1. \A m \in D : m < n => val[m] = v[m]
    BY <1>5
  <2>2. NodeAt(u, gs, a, val, n) = NodeAt(u, gs, a, v, n)
    BY <2>1, NodeAtLocal
  <2> QED
    BY <1>1, <1>3, <2>2
<1> HIDE DEF S, r, D
<1>6. \A n \in D : n \in S
  BY <1>4, <1>5, RankInduction
<1> QED
  BY <1>6 DEF S, D, v
-----------------------------------------------------------------------------
(* The leaves, and the valuation a choice of their values determines.      *)
LeafOf(c, u) == (2 .. 1 + c.num_latches) \cup {u.inputs[t] : t \in 1 .. Len(u.inputs)}

LEMMA LeafIs ==
  ASSUME WellFormed(ckt, uaiger)
  PROVE  Leaf = LeafOf(ckt, uaiger)
<1>1. DOMAIN uaiger.inputs = 1 .. Len(uaiger.inputs)
  BY UnfoldingType, LenProperties DEF WellFormed
<1> QED
  BY <1>1 DEF Leaf, LeafOf

(* Every node is false, a leaf or a gate, and only one of these. *)
LEMMA NodeKinds ==
  ASSUME NEW c, IsCircuit(c), NEW u, WellFormed(c, u)
  PROVE  /\ u.nodes \in Nat /\ 1 \in 1 .. u.nodes - 1 /\ 1 \notin LeafOf(c, u)
         /\ \A n \in 1 .. u.nodes - 1 : IsGate(u, n) <=> n \notin LeafOf(c, u) \cup {1}
         /\ LeafOf(c, u) \subseteq 2 .. u.nodes - 1
<1>1. u.nodes \in Nat /\ c.num_latches \in Nat /\ u.nodes >= 2 + c.num_latches
  BY UnfoldingType, CircuitNumbers DEF WellFormed
<1>2. /\ \A t \in 1 .. Len(u.inputs) : u.inputs[t] \in Inner(c, u)
      /\ \A g \in 1 .. Len(u.ands) : u.ands[g].o \in Inner(c, u)
      /\ \A n \in Inner(c, u) : IsGate(u, n) <=> ~IsInput(u, n)
  BY DEF WellFormed
<1>3. /\ \A n \in Inner(c, u) : n \in 2 .. u.nodes - 1 /\ n # 1 /\ n \notin 2 .. 1 + c.num_latches
      /\ \A n \in 1 .. u.nodes - 1 : n = 1 \/ n \in 2 .. 1 + c.num_latches \/ n \in Inner(c, u)
      /\ 2 .. 1 + c.num_latches \subseteq 2 .. u.nodes - 1
      /\ 1 \in 1 .. u.nodes - 1 /\ 1 \notin 2 .. u.nodes - 1
  BY <1>1 DEF Inner
<1>4. LeafOf(c, u) \subseteq 2 .. u.nodes - 1
  BY <1>2, <1>3 DEF LeafOf
<1>5. ASSUME NEW n \in 1 .. u.nodes - 1 PROVE IsGate(u, n) <=> n \notin LeafOf(c, u) \cup {1}
  <2>1. CASE n \in Inner(c, u)
    <3>1. n \in LeafOf(c, u) <=> IsInput(u, n)
      BY <1>3, <2>1 DEF LeafOf, IsInput
    <3> QED
      BY <1>2, <1>3, <2>1, <3>1
  <2>2. CASE n \notin Inner(c, u)
    <3>1. n \in LeafOf(c, u) \cup {1}
      BY <1>3, <2>2 DEF LeafOf
    <3>2. ~IsGate(u, n)
      BY <1>2, <2>2 DEF IsGate
    <3> QED
      BY <3>1, <3>2
  <2> QED
    BY <2>1, <2>2
<1> QED
  BY <1>1, <1>3, <1>4, <1>5

LeavesOf(c, u, a) == [n \in LeafOf(c, u) \cup {1} |-> IF n = 1 THEN FALSE ELSE a[n]]

LEMMA LeavesSupport ==
  ASSUME NEW c, IsCircuit(c), NEW u, WellFormed(c, u), NEW a,
         \A n \in LeafOf(c, u) : a[n] \in BOOLEAN
  PROVE  /\ Supports(c, u, 1 .. Len(u.ands), LeavesOf(c, u, a))
         /\ Known(u, 1 .. Len(u.ands), LeavesOf(c, u, a)) = 1 .. u.nodes - 1
<1> DEFINE b == LeavesOf(c, u, a)
<1> DEFINE gs == 1 .. Len(u.ands)
<1>1. /\ DOMAIN b = LeafOf(c, u) \cup {1} /\ b[1] = FALSE
      /\ \A n \in LeafOf(c, u) : n # 1 => b[n] = a[n]
  BY DEF LeavesOf
<1> HIDE DEF b
<1>2. /\ u.nodes \in Nat /\ 1 \in 1 .. u.nodes - 1 /\ 1 \notin LeafOf(c, u)
      /\ \A n \in 1 .. u.nodes - 1 : IsGate(u, n) <=> n \notin LeafOf(c, u) \cup {1}
      /\ LeafOf(c, u) \subseteq 2 .. u.nodes - 1
  BY NodeKinds
<1>3. /\ DOMAIN b \subseteq 1 .. u.nodes - 1 /\ \A n \in DOMAIN b : b[n] \in BOOLEAN
  <2>1. 2 .. u.nodes - 1 \subseteq 1 .. u.nodes - 1
    BY <1>2
  <2> QED
    BY <1>1, <1>2, <2>1
<1>4. \A n : n \in Outputs(u, gs) <=> IsGate(u, n)
  BY DEF Outputs, IsGate
<1>5. \A g \in gs : /\ u.ands[g].o \in 1 .. u.nodes - 1
                    /\ Abs(u.ands[g].i1) \in 1 .. u.nodes - 1 /\ Abs(u.ands[g].i2) \in 1 .. u.nodes - 1
  <2> SUFFICES ASSUME NEW g \in gs
               PROVE  /\ u.ands[g].o \in 1 .. u.nodes - 1
                      /\ Abs(u.ands[g].i1) \in 1 .. u.nodes - 1 /\ Abs(u.ands[g].i2) \in 1 .. u.nodes - 1
    OBVIOUS
  <2>1. /\ u.ands[g].o \in 2 .. u.nodes - 1
        /\ Abs(u.ands[g].i1) \in 1 .. u.nodes - 1 /\ Abs(u.ands[g].i2) \in 1 .. u.nodes - 1
    BY GateParts
  <2> QED
    BY <1>2, <2>1
<1>6. Known(u, gs, b) = 1 .. u.nodes - 1
  <2>1. \A n \in Outputs(u, gs) : n \in 1 .. u.nodes - 1
    BY <1>5 DEF Outputs
  <2> HIDE DEF gs
  <2> QED
    BY <1>1, <1>2, <1>3, <1>4, <2>1 DEF Known
<1>7. DOMAIN b \cap Outputs(u, gs) = {}
  <2> HIDE DEF gs
  <2> QED
    BY <1>1, <1>2, <1>3, <1>4
<1>8. Supports(c, u, gs, b)
  <2> HIDE DEF gs
  <2>1. gs \subseteq 1 .. Len(u.ands)
    BY DEF gs
  <2> QED
    BY <1>3, <1>5, <1>6, <1>7, <2>1 DEF Supports
<1> QED
  BY <1>6, <1>8 DEF b

LEMMA LeavesRealized ==
  ASSUME NEW c, IsCircuit(c), NEW u, WellFormed(c, u), NEW a,
         \A n \in LeafOf(c, u) : a[n] \in BOOLEAN
  PROVE  \E val \in Valuation :
           /\ Obeys(u, val) /\ \A n \in LeafOf(c, u) : val[n] = a[n]
           /\ \A n \in 1 .. u.nodes - 1 :
                val[n] = NodesOf(u, 1 .. Len(u.ands), LeavesOf(c, u, a))[n]
<1> DEFINE b == LeavesOf(c, u, a)
<1> DEFINE gs == 1 .. Len(u.ands)
<1> DEFINE v == NodesOf(u, gs, b)
<1> DEFINE val == [n \in Nat |-> IF n \in 1 .. u.nodes - 1 THEN v[n] ELSE FALSE]
<1>1. Supports(c, u, gs, b) /\ Known(u, gs, b) = 1 .. u.nodes - 1
  BY LeavesSupport
<1>2. /\ \A n \in DOMAIN b : v[n] = b[n]
      /\ \A g \in gs : GateHolds(u, v, g)
      /\ \A n \in 1 .. u.nodes - 1 : v[n] \in BOOLEAN
  <2> HIDE DEF gs, b
  <2>1. /\ \A n \in DOMAIN b : v[n] = b[n]
        /\ \A g \in gs : GateHolds(u, v, g)
        /\ \A n \in Known(u, gs, b) : v[n] \in BOOLEAN
    BY <1>1, NodesExact
  <2> HIDE DEF v
  <2> QED
    BY <1>1, <2>1
<1>3. /\ u.nodes \in Nat /\ 1 \in 1 .. u.nodes - 1 /\ 1 \notin LeafOf(c, u)
      /\ LeafOf(c, u) \subseteq 2 .. u.nodes - 1
  BY NodeKinds
<1>4. /\ DOMAIN b = LeafOf(c, u) \cup {1} /\ b[1] = FALSE
      /\ \A n \in LeafOf(c, u) : b[n] = a[n]
  BY <1>3 DEF LeavesOf
<1> HIDE DEF v, b
<1>5. /\ val \in Valuation /\ \A n \in 1 .. u.nodes - 1 : val[n] = v[n]
  <2>1. \A n \in Nat : (IF n \in 1 .. u.nodes - 1 THEN v[n] ELSE FALSE) \in BOOLEAN
    BY <1>2
  <2>2. \A n \in 1 .. u.nodes - 1 : n \in Nat
    BY <1>3
  <2> QED
    BY <2>1, <2>2 DEF Valuation
<1> HIDE DEF val
<1>6. 2 .. u.nodes - 1 \subseteq 1 .. u.nodes - 1
  BY <1>3
<1>7. \A n \in LeafOf(c, u) : val[n] = a[n]
  BY <1>2, <1>3, <1>4, <1>5, <1>6
<1>8. val[1] = FALSE
  BY <1>2, <1>3, <1>4, <1>5
<1>9. ASSUME NEW g \in gs PROVE GateHolds(u, val, g)
  <2> DEFINE k == u.ands[g]
  <2>1. /\ k.o \in 2 .. u.nodes - 1
        /\ k.i1 \in Int /\ k.i1 # 0 /\ Abs(k.i1) \in 1 .. u.nodes - 1
        /\ k.i2 \in Int /\ k.i2 # 0 /\ Abs(k.i2) \in 1 .. u.nodes - 1
    BY GateParts
  <2>2. GateHolds(u, v, g)
    BY <1>2
  <2>3. val[k.o] = v[k.o]
    BY <1>5, <1>6, <2>1
  <2>4. Holds(val, k.i1) = Holds(v, k.i1) /\ Holds(val, k.i2) = Holds(v, k.i2)
    <3> HIDE DEF k
    <3> QED
      BY <1>5, <2>1, HoldsOne
  <2> QED
    BY <2>2, <2>3, <2>4 DEF GateHolds
<1>10. Obeys(u, val)
  BY <1>8, <1>9 DEF Obeys
<1> QED
  BY <1>5, <1>7, <1>10 DEF v, b

-----------------------------------------------------------------------------
(* The cone.  The solver holds, with a gate, the gates of its fan-ins, and *)
(* the gates of the literals it holds.                                     *)
Closed(u, gs) ==
  /\ gs \subseteq 1 .. Len(u.ands)
  /\ \A g \in gs, h \in 1 .. Len(u.ands) :
       u.ands[h].o \in {Abs(u.ands[g].i1), Abs(u.ands[g].i2)} => h \in gs

Covers(u, gs, us) == \A l \in us, h \in 1 .. Len(u.ands) : u.ands[h].o = Abs(l) => h \in gs

ConeAt(f, i) ==
  LET ands == uaiger.ands
  IN IF i = Len(ands) THEN {Abs(l) : l \in uaiger.constraints \cup {uaiger.output}}
     ELSE IF i + 1 \notin lit_has_insert /\ ands[i + 1].o \in f[i + 1]
          THEN f[i + 1] \cup {Abs(ands[i + 1].i1), Abs(ands[i + 1].i2)}
          ELSE f[i + 1]

ConeSets == CHOOSE f : f = [i \in 0 .. Len(uaiger.ands) |-> ConeAt(f, i)]

LEMMA ConeIs ==
  Cone = {i \in 1 .. Len(uaiger.ands) : uaiger.ands[i].o \in ConeSets[i]} \ lit_has_insert
BY DEF Cone, ConeSets, ConeAt

LEMMA ConeDefined ==
  ASSUME uaiger \in UnfoldingRecord
  PROVE  \A i \in 0 .. Len(uaiger.ands) : ConeSets[i] = ConeAt(ConeSets, i)
<1> DEFINE K == Len(uaiger.ands)
<1> DEFINE D == 0 .. K
<1> DEFINE V == SUBSET Int
<1> DEFINE r == [i \in D |-> K - i]
<1> DEFINE b == [p \in [D -> V] \X D |-> ConeAt(p[1], p[2])]
<1>1. K \in Nat /\ uaiger.constraints \subseteq Int /\ uaiger.output \in Int
  BY UnfoldingType
<1>2. \A l \in Int : Abs(l) \in Int
  BY DEF Abs
<1>3. r \in [D -> 0 .. K] /\ {} \in V
  BY <1>1
<1>4. ASSUME NEW f \in [D -> V], NEW i \in D PROVE ConeAt(f, i) \in V
  <2>1. CASE i = K
    BY <1>1, <1>2, <2>1 DEF ConeAt
  <2>2. CASE i # K
    <3>1. i + 1 \in D /\ i + 1 \in 1 .. K
      BY <1>1, <2>2
    <3>2. uaiger.ands[i + 1].i1 \in Int /\ uaiger.ands[i + 1].i2 \in Int
      BY <3>1, UnfoldingType DEF GateRecord
    <3>3. f[i + 1] \subseteq Int
      BY <3>1
    <3> QED
      BY <1>2, <2>2, <3>2, <3>3 DEF ConeAt
  <2> QED
    BY <2>1, <2>2
<1>5. b \in [[D -> V] \X D -> V]
  BY <1>4
<1>6. \A f \in [D -> V], i \in D : b[<<f, i>>] = ConeAt(f, i)
  OBVIOUS
<1>7. ASSUME NEW n \in D, NEW f \in [D -> V], NEW g \in [D -> V],
             \A m \in D : r[m] < r[n] => f[m] = g[m]
      PROVE  b[<<f, n>>] = b[<<g, n>>]
  <2>1. n # K => n + 1 \in D /\ r[n + 1] < r[n]
    BY <1>1
  <2>2. n # K => f[n + 1] = g[n + 1]
    BY <1>7, <2>1
  <2>3. ConeAt(f, n) = ConeAt(g, n)
    BY <2>2 DEF ConeAt
  <2> HIDE DEF b, D
  <2> QED
    BY <1>6, <2>3
<1> HIDE DEF b, r, V, D
<1>8. ByRank(D, V, r, b)
  BY <1>7 DEF ByRank
<1>9. \E f : Fixpoint(D, V, b, f)
  BY <1>1, <1>3, <1>5, <1>8, RecursiveFunction
<1>10. PICK f \in [D -> V] : \A i \in D : f[i] = ConeAt(f, i)
  BY <1>6, <1>9 DEF Fixpoint
<1>11. f = [i \in D |-> ConeAt(f, i)]
  BY <1>10
<1>12. ConeSets = [i \in D |-> ConeAt(ConeSets, i)]
  BY <1>11 DEF ConeSets, D
<1> DEFINE v == ConeSets
<1> HIDE DEF v
<1>13. \A i \in D : v[i] = ConeAt(v, i)
  BY <1>12 DEF v
<1> QED
  BY <1>13 DEF D, v

LEMMA ConeMonotone ==
  ASSUME uaiger \in UnfoldingRecord, NEW j \in 0 .. Len(uaiger.ands)
  PROVE  \A i \in 0 .. j : ConeSets[j] \subseteq ConeSets[i]
<1> DEFINE K == Len(uaiger.ands)
<1> DEFINE f == ConeSets
<1> DEFINE S == {d \in Nat : d <= j => f[j] \subseteq f[j - d]}
<1>1. K \in Nat /\ \A i \in 0 .. K : f[i] = ConeAt(f, i)
  BY UnfoldingType, ConeDefined
<1> HIDE DEF f
<1>2. 0 \in S
  <2>1. j - 0 = j
    BY <1>1
  <2> QED
    BY <2>1
<1>3. ASSUME NEW d \in Nat, d \in S PROVE d + 1 \in S
  <2> SUFFICES ASSUME d + 1 <= j PROVE f[j] \subseteq f[j - (d + 1)]
    OBVIOUS
  <2> DEFINE i == j - (d + 1)
  <2>1. i \in 0 .. K /\ i # K /\ i + 1 = j - d /\ d <= j
    BY <1>1
  <2> HIDE DEF i
  <2>2. f[j] \subseteq f[i + 1]
    BY <1>3, <2>1
  <2>3. f[i + 1] \subseteq ConeAt(f, i)
    BY <2>1 DEF ConeAt
  <2> QED
    BY <1>1, <2>1, <2>2, <2>3 DEF i
<1> HIDE DEF S
<1>4. \A d \in Nat : d \in S
  BY <1>2, <1>3, SetInduction
<1> SUFFICES ASSUME NEW i \in 0 .. j PROVE f[j] \subseteq f[i]
  BY DEF f
<1>5. j - i \in Nat /\ j - i <= j /\ j - (j - i) = i
  BY <1>1
<1> QED
  BY <1>4, <1>5 DEF S

LEMMA InsertedClosed ==
  ASSUME IsCircuit(ckt), WellFormed(ckt, uaiger), Closed(uaiger, lit_has_insert)
  PROVE  /\ Closed(uaiger, Inserted)
         /\ Covers(uaiger, Inserted, uaiger.constraints \cup {uaiger.output})
<1> DEFINE K == Len(uaiger.ands)
<1> DEFINE ands == uaiger.ands
<1> DEFINE f == ConeSets
<1>0. uaiger \in UnfoldingRecord
  BY DEF WellFormed
<1>1. K \in Nat /\ \A i \in 0 .. K : f[i] = ConeAt(f, i)
  BY <1>0, UnfoldingType, ConeDefined
<1>2. \A j \in 0 .. K : \A i \in 0 .. j : f[j] \subseteq f[i]
  BY <1>0, ConeMonotone
<1>3. /\ Inserted \subseteq 1 .. K
      /\ \A h \in 1 .. K : ands[h].o \in f[h] => h \in Inserted
      /\ \A h \in Inserted : h \in lit_has_insert \/ (h \notin lit_has_insert /\ ands[h].o \in f[h])
  BY ConeIs DEF Inserted, Closed
<1> HIDE DEF f
<1>4. Covers(uaiger, Inserted, uaiger.constraints \cup {uaiger.output})
  <2> SUFFICES ASSUME NEW l \in uaiger.constraints \cup {uaiger.output}, NEW h \in 1 .. K,
                      ands[h].o = Abs(l)
               PROVE  h \in Inserted
    BY DEF Covers
  <2>1. K \in 0 .. K /\ h \in 0 .. K
    BY <1>1
  <2>2. Abs(l) \in f[K]
    <3>1. f[K] = ConeAt(f, K)
      BY <1>1, <2>1
    <3> QED
      BY <3>1 DEF ConeAt
  <2> QED
    BY <1>2, <1>3, <2>1, <2>2
<1>5. Closed(uaiger, Inserted)
  <2> SUFFICES ASSUME NEW g \in Inserted, NEW h \in 1 .. K,
                      ands[h].o \in {Abs(ands[g].i1), Abs(ands[g].i2)}
               PROVE  h \in Inserted
    BY <1>3 DEF Closed
  <2>1. CASE g \in lit_has_insert
    BY <2>1 DEF Closed, Inserted
  <2>2. CASE g \notin lit_has_insert /\ ands[g].o \in f[g]
    <3>1. g \in 1 .. K
      BY <1>3
    <3> DEFINE i == g - 1
    <3>2. i \in 0 .. K /\ i # K /\ i + 1 = g
      BY <1>1, <3>1
    <3>3. f[i] = ConeAt(f, i)
      BY <1>1, <3>2
    <3>4. {Abs(ands[g].i1), Abs(ands[g].i2)} \subseteq f[i]
      <4> HIDE DEF i
      <4> QED
        BY <2>2, <3>2, <3>3 DEF ConeAt
    <3>5. h < g
      <4>1. ands[h].o < ands[g].o
        <5>1. ands[g].o \in Nat /\ Abs(ands[g].i1) \in 1 .. ands[g].o - 1 /\ Abs(ands[g].i2) \in 1 .. ands[g].o - 1
          <6>1. /\ ands[g].o \in 2 .. uaiger.nodes - 1 /\ Abs(ands[g].i1) \in 1 .. ands[g].o - 1
                /\ Abs(ands[g].i2) \in 1 .. ands[g].o - 1
            BY <3>1, GateParts
          <6> QED
            BY <6>1
        <5> QED
          BY <5>1
      <4>2. ands[h].o \in Nat /\ ands[g].o \in Nat
        BY <1>0, <3>1, UnfoldingType DEF GateRecord
      <4>3. ~(g < h) /\ g # h
        BY <3>1, <4>1, <4>2 DEF WellFormed
      <4> QED
        BY <1>1, <3>1, <4>3
    <3>6. h \in 0 .. i
      BY <1>1, <3>1, <3>5
    <3>7. ands[h].o \in f[h]
      BY <1>2, <3>2, <3>4, <3>6
    <3> QED
      BY <1>3, <3>7
  <2> QED
    BY <1>3, <2>1, <2>2
<1> QED
  BY <1>4, <1>5
-----------------------------------------------------------------------------
(* The query: its models are the runs that meet the literals held.         *)
SolverOK(u, gs, us) ==
  /\ Closed(u, gs) /\ Covers(u, gs, us)
  /\ us \subseteq LitOf(u.nodes - 1) /\ -1 \in us

LEMMA FreeSupports ==
  ASSUME IsCircuit(ckt), WellFormed(ckt, uaiger), NEW gs, NEW us, SolverOK(uaiger, gs, us),
         NEW a \in [Free(gs, us) -> BOOLEAN]
  PROVE  /\ Supports(ckt, uaiger, gs, a) /\ Free(gs, us) \subseteq LeafOf(ckt, uaiger) \cup {1}
         /\ 1 \in Free(gs, us) /\ \A l \in us : Abs(l) \in Known(uaiger, gs, a) /\ l \in Int /\ l # 0
<1> DEFINE N == uaiger.nodes - 1
<1>1. /\ uaiger.nodes \in Nat /\ 1 \in 1 .. N
      /\ \A n \in 1 .. N : IsGate(uaiger, n) <=> n \notin LeafOf(ckt, uaiger) \cup {1}
  BY NodeKinds
<1>2. N \in Nat
  BY <1>1
<1>3. \A l \in us : Abs(l) \in 1 .. N /\ l \in Int /\ l # 0
  BY <1>2, LitOfType DEF SolverOK
<1>4. \A g \in gs : /\ g \in 1 .. Len(uaiger.ands) /\ uaiger.ands[g].o \in 1 .. N
                    /\ Abs(uaiger.ands[g].i1) \in 1 .. N /\ Abs(uaiger.ands[g].i2) \in 1 .. N
  <2> SUFFICES ASSUME NEW g \in gs
               PROVE  /\ g \in 1 .. Len(uaiger.ands) /\ uaiger.ands[g].o \in 1 .. N
                      /\ Abs(uaiger.ands[g].i1) \in 1 .. N /\ Abs(uaiger.ands[g].i2) \in 1 .. N
    OBVIOUS
  <2>1. g \in 1 .. Len(uaiger.ands)
    BY DEF SolverOK, Closed
  <2>2. /\ uaiger.ands[g].o \in 2 .. N
        /\ Abs(uaiger.ands[g].i1) \in 1 .. N /\ Abs(uaiger.ands[g].i2) \in 1 .. N
    BY <2>1, GateParts
  <2> QED
    BY <1>2, <2>1, <2>2
<1> HIDE DEF N
<1>5. Mentioned(gs, us) \subseteq 1 .. N
  BY <1>1, <1>3, <1>4 DEF Mentioned
<1>6. Outputs(uaiger, gs) \subseteq Mentioned(gs, us) /\ Free(gs, us) = Mentioned(gs, us) \ Outputs(uaiger, gs)
  BY DEF Mentioned, Free, Outputs
<1>7. Known(uaiger, gs, a) = Mentioned(gs, us)
  BY <1>6 DEF Known
<1>8. ASSUME NEW n \in Free(gs, us) PROVE n \in LeafOf(ckt, uaiger) \cup {1}
  <2> SUFFICES ASSUME IsGate(uaiger, n) PROVE FALSE
    BY <1>1, <1>5, <1>6
  <2>1. PICK h \in 1 .. Len(uaiger.ands) : uaiger.ands[h].o = n
    BY DEF IsGate
  <2>2. n # 1
    BY <1>1, <1>5, <1>6
  <2>3. h \in gs
    <3>1. \/ \E l \in us : n = Abs(l)
          \/ \E g \in gs : n = uaiger.ands[g].o \/ n \in {Abs(uaiger.ands[g].i1), Abs(uaiger.ands[g].i2)}
      BY <1>6, <2>2 DEF Mentioned
    <3>2. CASE \E l \in us : n = Abs(l)
      BY <2>1, <3>2 DEF SolverOK, Covers
    <3>3. CASE \E g \in gs : n = uaiger.ands[g].o
      BY <1>6, <3>3 DEF Outputs
    <3>4. CASE \E g \in gs : n \in {Abs(uaiger.ands[g].i1), Abs(uaiger.ands[g].i2)}
      BY <2>1, <3>4 DEF SolverOK, Closed
    <3> QED
      BY <3>1, <3>2, <3>3, <3>4
  <2> QED
    BY <1>6, <2>1, <2>3 DEF Outputs
<1>9. 1 \in Free(gs, us)
  <2>1. 1 \in Mentioned(gs, us)
    BY DEF Mentioned
  <2>2. ASSUME NEW g \in gs PROVE uaiger.ands[g].o # 1
    <3>1. uaiger.ands[g].o \in 2 .. uaiger.nodes - 1
      BY <1>4, GateParts
    <3> QED
      BY <1>1, <3>1
  <2> QED
    BY <1>6, <2>1, <2>2 DEF Outputs
<1>10. Supports(ckt, uaiger, gs, a)
  <2>1. \A g \in gs : Abs(uaiger.ands[g].i1) \in Mentioned(gs, us) /\ Abs(uaiger.ands[g].i2) \in Mentioned(gs, us)
    BY DEF Mentioned
  <2>2. gs \subseteq 1 .. Len(uaiger.ands)
    BY <1>4
  <2> QED
    BY <1>5, <1>6, <1>7, <2>1, <2>2 DEF Supports, N
<1>11. \A l \in us : Abs(l) \in Known(uaiger, gs, a)
  BY <1>7 DEF Mentioned
<1> QED
  BY <1>3, <1>8, <1>9, <1>10, <1>11

LEMMA ModelsSound ==
  ASSUME IsCircuit(ckt), WellFormed(ckt, uaiger), NEW gs, NEW us, SolverOK(uaiger, gs, us),
         NEW a \in Models(gs, us), NEW val \in Valuation, Obeys(uaiger, val),
         \A n \in LeafOf(ckt, uaiger) \cap DOMAIN a : val[n] = a[n]
  PROVE  \A l \in us : Holds(val, l)
<1> DEFINE v == NodesOf(uaiger, gs, a)
<1>1. a \in [Free(gs, us) -> BOOLEAN] /\ \A l \in us : Holds(v, l)
  BY NodeValuesIs DEF Models
<1>2. /\ Supports(ckt, uaiger, gs, a) /\ Free(gs, us) \subseteq LeafOf(ckt, uaiger) \cup {1}
      /\ 1 \in Free(gs, us) /\ \A l \in us : Abs(l) \in Known(uaiger, gs, a) /\ l \in Int /\ l # 0
  BY <1>1, FreeSupports
<1>3. \A n \in DOMAIN a : v[n] = a[n]
  BY <1>2, NodesExact
<1>4. ~a[1]
  <2>1. Holds(v, -1) /\ -1 \in us
    BY <1>1 DEF SolverOK
  <2>2. ~v[1]
    BY <2>1 DEF Holds
  <2> QED
    BY <1>1, <1>2, <1>3, <2>2
<1>5. \A n \in DOMAIN a : val[n] = a[n]
  <2>1. val[1] = FALSE /\ a[1] = FALSE
    <3>1. val[1] \in BOOLEAN /\ a[1] \in BOOLEAN /\ ~val[1]
      BY <1>1, <1>2 DEF Valuation, Obeys
    <3> QED
      BY <1>4, <3>1
  <2> QED
    BY <1>1, <1>2, <2>1
<1>6. \A g \in gs : GateHolds(uaiger, val, g)
  BY <1>2 DEF Supports, Obeys
<1>7. \A n \in Known(uaiger, gs, a) : val[n] = v[n]
  BY <1>2, <1>5, <1>6, NodesAgree
<1> HIDE DEF v
<1> SUFFICES ASSUME NEW l \in us PROVE Holds(val, l)
  OBVIOUS
<1>8. Holds(val, l) = Holds(v, l)
  BY <1>2, <1>7, HoldsOne
<1> QED
  BY <1>1, <1>8

LEMMA ModelsComplete ==
  ASSUME IsCircuit(ckt), WellFormed(ckt, uaiger), NEW gs, NEW us, SolverOK(uaiger, gs, us),
         NEW val \in Valuation, Obeys(uaiger, val), \A l \in us : Holds(val, l)
  PROVE  Models(gs, us) # {}
<1> DEFINE a == [n \in Free(gs, us) |-> val[n]]
<1>1. \A n \in Free(gs, us) : val[n] \in BOOLEAN
  <2>1. [n \in Free(gs, us) |-> FALSE] \in [Free(gs, us) -> BOOLEAN]
    OBVIOUS
  <2>2. Free(gs, us) \subseteq LeafOf(ckt, uaiger) \cup {1}
    BY <2>1, FreeSupports
  <2>3. uaiger.nodes \in Nat /\ LeafOf(ckt, uaiger) \subseteq 2 .. uaiger.nodes - 1
    BY NodeKinds
  <2>4. \A n \in Free(gs, us) : n \in Nat
    BY <2>2, <2>3
  <2> QED
    BY <2>4 DEF Valuation
<1>2. a \in [Free(gs, us) -> BOOLEAN] /\ \A n \in DOMAIN a : val[n] = a[n]
  BY <1>1
<1> HIDE DEF a
<1> DEFINE v == NodesOf(uaiger, gs, a)
<1>3. /\ Supports(ckt, uaiger, gs, a)
      /\ \A l \in us : Abs(l) \in Known(uaiger, gs, a) /\ l \in Int /\ l # 0
  BY <1>2, FreeSupports
<1>4. \A g \in gs : GateHolds(uaiger, val, g)
  BY <1>3 DEF Supports, Obeys
<1>5. \A n \in Known(uaiger, gs, a) : val[n] = v[n]
  BY <1>2, <1>3, <1>4, NodesAgree
<1>6. \A l \in us : Holds(v, l)
  <2> HIDE DEF v
  <2> SUFFICES ASSUME NEW l \in us PROVE Holds(v, l)
    OBVIOUS
  <2>1. Holds(val, l) = Holds(v, l)
    BY <1>3, <1>5, HoldsOne
  <2> QED
    BY <2>1
<1>7. a \in Models(gs, us)
  BY <1>2, <1>6, NodeValuesIs DEF Models
<1> QED
  BY <1>7

-----------------------------------------------------------------------------
(* The run a valuation of the leaves stands for. *)
FirstOf(c, a) ==
  [j \in 1 .. c.num_latches |->
     IF LatchVar(c, j) \in c.init_state THEN TRUE
     ELSE IF -LatchVar(c, j) \in c.init_state THEN FALSE
     ELSE a[1 + j]]

InsOf(c, u, K, a) ==
  [k \in 1 .. K |-> [i \in 1 .. c.num_inputs |-> a[u.inputs[(k - 1) * c.num_inputs + i]]]]

LatchesOf(c, u, K, a, k) == Latches(c, FirstOf(c, a), InsOf(c, u, K, a), k)

FrameOf(c, u, K, a, k) == Frame(c, FirstOf(c, a), InsOf(c, u, K, a), k)

(* K frames are unfolded. *)
Shape(c, u, K) == WellFormed(c, u) /\ K \in Nat /\ Len(u.inputs) = K * c.num_inputs

LEMMA IndexInRange ==
  ASSUME NEW K \in Nat, NEW m \in Nat, NEW k \in 1 .. K, NEW i \in 1 .. m
  PROVE  (k - 1) * m + i \in 1 .. K * m
<1>1. (K - k) * m >= 0 /\ (k - 1) * m >= 0
  <2>1. K - k \in Nat /\ k - 1 \in Nat
    OBVIOUS
  <2>2. \A x, y \in Nat : x * y \in Nat
    OBVIOUS
  <2>3. (K - k) * m \in Nat /\ (k - 1) * m \in Nat
    BY <2>1, <2>2
  <2> QED
    BY <2>3
<1>2. (K - k) * m = K * m - k * m /\ (k - 1) * m = k * m - m
  OBVIOUS
<1>3. K * m \in Int /\ k * m \in Int /\ (k - 1) * m \in Int
  OBVIOUS
<1> QED
  BY <1>1, <1>2, <1>3

LEMMA RunType ==
  ASSUME NEW c, IsCircuit(c), NEW u, NEW K, Shape(c, u, K), NEW val \in Valuation
  PROVE  FirstOf(c, val) \in Bits(c.num_latches) /\ InputsOK(c, InsOf(c, u, K, val), K)
<1>1. c.num_inputs \in Nat /\ c.num_latches \in Nat
  BY CircuitNumbers
<1>2. FirstOf(c, val) \in Bits(c.num_latches)
  <2>1. \A j \in 1 .. c.num_latches : val[1 + j] \in BOOLEAN
    BY <1>1 DEF Valuation
  <2> QED
    BY <2>1 DEF FirstOf, Bits
<1>3. ASSUME NEW k \in 1 .. K PROVE InsOf(c, u, K, val)[k] \in Bits(c.num_inputs)
  <2>1. InsOf(c, u, K, val)[k] = [i \in 1 .. c.num_inputs |-> val[u.inputs[(k - 1) * c.num_inputs + i]]]
    BY DEF InsOf
  <2>2. ASSUME NEW i \in 1 .. c.num_inputs PROVE val[u.inputs[(k - 1) * c.num_inputs + i]] \in BOOLEAN
    <3>1. (k - 1) * c.num_inputs + i \in 1 .. Len(u.inputs)
      BY <1>1, IndexInRange DEF Shape
    <3>2. u.inputs[(k - 1) * c.num_inputs + i] \in Nat
      BY <3>1, UnfoldingType DEF Shape, WellFormed
    <3> QED
      BY <3>2 DEF Valuation
  <2> QED
    BY <2>1, <2>2 DEF Bits
<1> QED
  BY <1>2, <1>3 DEF InputsOK

(* Only the leaves matter. *)
LEMMA RunOfLeaves ==
  ASSUME NEW c, IsCircuit(c), NEW u, NEW K, Shape(c, u, K), NEW a, NEW b,
         \A n \in LeafOf(c, u) : a[n] = b[n]
  PROVE  FirstOf(c, a) = FirstOf(c, b) /\ InsOf(c, u, K, a) = InsOf(c, u, K, b)
<1>1. c.num_inputs \in Nat /\ c.num_latches \in Nat
  BY CircuitNumbers
<1>2. \A j \in 1 .. c.num_latches : a[1 + j] = b[1 + j]
  <2>1. \A j \in 1 .. c.num_latches : 1 + j \in 2 .. 1 + c.num_latches
    BY <1>1
  <2> QED
    BY <2>1 DEF LeafOf
<1>3. FirstOf(c, a) = FirstOf(c, b)
  BY <1>2 DEF FirstOf
<1>4. ASSUME NEW k \in 1 .. K, NEW i \in 1 .. c.num_inputs
      PROVE  a[u.inputs[(k - 1) * c.num_inputs + i]] = b[u.inputs[(k - 1) * c.num_inputs + i]]
  <2>1. (k - 1) * c.num_inputs + i \in 1 .. Len(u.inputs)
    BY <1>1, IndexInRange DEF Shape
  <2>2. u.inputs[(k - 1) * c.num_inputs + i] \in LeafOf(c, u)
    BY <2>1 DEF LeafOf
  <2> QED
    BY <2>2
<1>5. InsOf(c, u, K, a) = InsOf(c, u, K, b)
  BY <1>4 DEF InsOf
<1> QED
  BY <1>3, <1>5

(* The earlier frames are the same when a frame is added. *)
LEMMA FramesKept ==
  ASSUME NEW c, IsCircuit(c), NEW u, NEW K, Shape(c, u, K), NEW t, Shape(c, t, K + 1),
         \A n \in 1 .. Len(u.inputs) : t.inputs[n] = u.inputs[n], NEW val \in Valuation
  PROVE  /\ \A k \in 1 .. K : FrameOf(c, t, K + 1, val, k) = FrameOf(c, u, K, val, k)
         /\ LatchesOf(c, t, K + 1, val, K + 1) = LatchesOf(c, u, K, val, K + 1)
<1> DEFINE x == FirstOf(c, val)
<1> DEFINE ins == InsOf(c, u, K, val)
<1> DEFINE jns == InsOf(c, t, K + 1, val)
<1>1. /\ x \in Bits(c.num_latches) /\ InputsOK(c, ins, K) /\ InputsOK(c, jns, K + 1)
      /\ K \in Nat /\ c.num_inputs \in Nat
  BY RunType, CircuitNumbers DEF Shape
<1>2. ASSUME NEW k \in 1 .. K PROVE ins[k] = jns[k]
  <2>1. k \in 1 .. K + 1
    BY <1>1
  <2>2. ASSUME NEW i \in 1 .. c.num_inputs
        PROVE  t.inputs[(k - 1) * c.num_inputs + i] = u.inputs[(k - 1) * c.num_inputs + i]
    <3>1. (k - 1) * c.num_inputs + i \in 1 .. Len(u.inputs)
      BY <1>1, IndexInRange DEF Shape
    <3> QED
      BY <3>1
  <2> QED
    BY <2>1, <2>2 DEF InsOf
<1> HIDE DEF x, ins, jns
<1>3. ASSUME NEW k \in 1 .. K PROVE Frame(c, x, ins, k) = Frame(c, x, jns, k)
  <2>1. k \in Nat /\ k > 0 /\ InputsOK(c, ins, k) /\ InputsOK(c, jns, k) /\ \A n \in 1 .. k : ins[n] = jns[n]
    BY <1>1, <1>2 DEF InputsOK
  <2> QED
    BY <1>1, <2>1, FrameSame
<1>4. Latches(c, x, ins, K + 1) = Latches(c, x, jns, K + 1)
  <2>1. /\ K + 1 \in Nat /\ K + 1 > 0 /\ (K + 1) - 1 = K
        /\ InputsOK(c, ins, (K + 1) - 1) /\ InputsOK(c, jns, (K + 1) - 1)
        /\ \A n \in 1 .. (K + 1) - 1 : ins[n] = jns[n]
    BY <1>1, <1>2 DEF InputsOK
  <2> QED
    BY <1>1, <2>1, LatchesSame
<1> QED
  BY <1>3, <1>4 DEF FrameOf, LatchesOf, x, ins, jns
-----------------------------------------------------------------------------
(* unfold: the inputs of the new frame, then its gates.                    *)
Opened(c, u) ==
  [u EXCEPT !.nodes = u.nodes + c.num_inputs,
            !.inputs = @ \o [i \in 1 .. c.num_inputs |-> u.nodes + i - 1]]

IsOpened(c, u, t) ==
  /\ t \in UnfoldingRecord /\ t.nodes = u.nodes + c.num_inputs /\ t.ands = u.ands
  /\ Len(t.inputs) = Len(u.inputs) + c.num_inputs
  /\ \A n \in 1 .. Len(u.inputs) : t.inputs[n] = u.inputs[n]
  /\ \A i \in 1 .. c.num_inputs : t.inputs[Len(u.inputs) + i] = u.nodes + i - 1

LEMMA OpenedFields ==
  ASSUME NEW c, IsCircuit(c), NEW u \in UnfoldingRecord
  PROVE  IsOpened(c, u, Opened(c, u))
<1> DEFINE s == [i \in 1 .. c.num_inputs |-> u.nodes + i - 1]
<1> DEFINE t == Opened(c, u)
<1>1. u.nodes \in Nat /\ u.inputs \in Seq(Nat) /\ Len(u.inputs) \in Nat /\ c.num_inputs \in Nat
  BY UnfoldingType, CircuitNumbers
<1>2. s \in Seq(Nat) /\ Len(s) = c.num_inputs /\ \A i \in 1 .. c.num_inputs : s[i] = u.nodes + i - 1
  <2>1. s \in [1 .. c.num_inputs -> Nat]
    BY <1>1
  <2>2. s \in Seq(Nat)
    BY <1>1, <2>1
  <2>3. Len(s) = c.num_inputs
    BY <1>1, <2>1, <2>2, LenProperties
  <2> QED
    BY <2>2, <2>3
<1> HIDE DEF s
<1>3. /\ u.inputs \o s \in Seq(Nat) /\ Len(u.inputs \o s) = Len(u.inputs) + c.num_inputs
      /\ \A n \in 1 .. Len(u.inputs) + c.num_inputs :
           (u.inputs \o s)[n] = IF n <= Len(u.inputs) THEN u.inputs[n] ELSE s[n - Len(u.inputs)]
  <2> DEFINE r == u.inputs
  <2>1. r \in Seq(Nat) /\ s \in Seq(Nat)
    BY <1>1, <1>2
  <2> HIDE DEF r
  <2>2. /\ r \o s \in Seq(Nat) /\ Len(r \o s) = Len(r) + Len(s)
        /\ \A n \in 1 .. Len(r) + Len(s) : (r \o s)[n] = IF n <= Len(r) THEN r[n] ELSE s[n - Len(r)]
    BY <2>1, ConcatProperties
  <2> QED
    BY <1>2, <2>2 DEF r
<1>4. /\ t \in UnfoldingRecord /\ t.nodes = u.nodes + c.num_inputs /\ t.ands = u.ands
      /\ t.inputs = u.inputs \o s
  <2> DEFINE b == u.inputs \o s
  <2>1. u.nodes + c.num_inputs \in Nat /\ b \in Seq(Nat)
    BY <1>1, <1>3
  <2>2. t = [u EXCEPT !.nodes = u.nodes + c.num_inputs, !.inputs = b]
    BY DEF Opened, s
  <2> HIDE DEF b, t
  <2>3. t \in UnfoldingRecord /\ t.nodes = u.nodes + c.num_inputs /\ t.ands = u.ands /\ t.inputs = b
    BY <2>1, <2>2 DEF UnfoldingRecord
  <2> QED
    BY <2>3 DEF b
<1> HIDE DEF t
<1>5. \A n \in 1 .. Len(u.inputs) : t.inputs[n] = u.inputs[n]
  BY <1>1, <1>3, <1>4
<1>6. ASSUME NEW i \in 1 .. c.num_inputs PROVE t.inputs[Len(u.inputs) + i] = u.nodes + i - 1
  <2>1. /\ Len(u.inputs) + i \in 1 .. Len(u.inputs) + c.num_inputs
        /\ ~(Len(u.inputs) + i <= Len(u.inputs)) /\ (Len(u.inputs) + i) - Len(u.inputs) = i
    BY <1>1
  <2> QED
    BY <1>2, <1>3, <1>4, <2>1
<1> QED
  BY <1>3, <1>4, <1>5, <1>6 DEF t, IsOpened

LEMMA OpenedWellFormed ==
  ASSUME NEW c, IsCircuit(c), NEW u, NEW K, Shape(c, u, K)
  PROVE  Shape(c, Opened(c, u), K + 1) /\ Extends(Opened(c, u), u)
<1> DEFINE t == Opened(c, u)
<1>1. /\ u \in UnfoldingRecord /\ u.nodes \in Nat /\ Len(u.ands) \in Nat /\ Len(u.inputs) \in Nat
      /\ c.num_latches \in Nat /\ c.num_inputs \in Nat /\ WellFormed(c, u)
      /\ \A n \in 1 .. Len(u.inputs) : u.inputs[n] \in Nat
  BY UnfoldingType, CircuitNumbers DEF Shape, WellFormed
<1>2. /\ t \in UnfoldingRecord /\ t.nodes = u.nodes + c.num_inputs /\ t.ands = u.ands
      /\ Len(t.inputs) = Len(u.inputs) + c.num_inputs
      /\ \A n \in 1 .. Len(u.inputs) : t.inputs[n] = u.inputs[n]
      /\ \A i \in 1 .. c.num_inputs : t.inputs[Len(u.inputs) + i] = u.nodes + i - 1
  <2>1. IsOpened(c, u, t)
    BY <1>1, OpenedFields
  <2> QED
    BY <2>1 DEF IsOpened
<1> HIDE DEF t
<1>3. /\ u.nodes >= 2 + c.num_latches
      /\ \A g \in 1 .. Len(u.ands) :
           /\ u.ands[g].o \in Inner(c, u)
           /\ u.ands[g].i1 \in LitOf(u.ands[g].o - 1) /\ u.ands[g].i2 \in LitOf(u.ands[g].o - 1)
      /\ \A g, h \in 1 .. Len(u.ands) : g < h => u.ands[g].o < u.ands[h].o
      /\ \A n \in 1 .. Len(u.inputs) : u.inputs[n] \in Inner(c, u)
      /\ \A n \in Inner(c, u) : IsGate(u, n) <=> ~IsInput(u, n)
  BY <1>1 DEF WellFormed
<1>4. /\ Inner(c, u) \subseteq Inner(c, t)
      /\ \A n \in Inner(c, u) : n \in Nat /\ n < u.nodes
      /\ \A n \in Inner(c, t) : n \notin Inner(c, u) =>
           n >= u.nodes /\ n - u.nodes + 1 \in 1 .. c.num_inputs /\ u.nodes + (n - u.nodes + 1) - 1 = n
      /\ \A i \in 1 .. c.num_inputs : u.nodes + i - 1 \in Inner(c, t) /\ u.nodes + i - 1 >= u.nodes
  <2> DEFINE L == 2 + c.num_latches
  <2> DEFINE N == u.nodes
  <2> DEFINE m == c.num_inputs
  <2>1. L \in Nat /\ N \in Nat /\ m \in Nat /\ N >= L /\ Inner(c, t) = L .. N + m - 1 /\ Inner(c, u) = L .. N - 1
    <3>1. L \in Nat /\ N \in Nat /\ m \in Nat /\ N >= L
      BY <1>1, <1>3
    <3>2. t.nodes = N + m
      BY <1>2
    <3>3. Inner(c, t) = L .. t.nodes - 1 /\ Inner(c, u) = L .. N - 1
      BY DEF Inner
    <3>4. t.nodes - 1 = N + m - 1
      BY <3>1, <3>2
    <3> QED
      BY <3>1, <3>3, <3>4
  <2> HIDE DEF L, N, m
  <2>2. ASSUME NEW n \in L .. N - 1 PROVE n \in Nat /\ n < N /\ n \in L .. N + m - 1
    BY <2>1
  <2>3. ASSUME NEW n \in L .. N + m - 1, n \notin L .. N - 1
        PROVE  n >= N /\ n - N + 1 \in 1 .. m /\ N + (n - N + 1) - 1 = n
    BY <2>1, <2>3
  <2>4. ASSUME NEW i \in 1 .. m PROVE N + i - 1 \in L .. N + m - 1 /\ N + i - 1 >= N
    BY <2>1
  <2> QED
    BY <2>1, <2>2, <2>3, <2>4 DEF N, m
<1>5. \A n \in 1 .. Len(t.inputs) :
        \/ n \in 1 .. Len(u.inputs)
        \/ n - Len(u.inputs) \in 1 .. c.num_inputs /\ Len(u.inputs) + (n - Len(u.inputs)) = n
  <2>1. ASSUME NEW L \in Nat, NEW m \in Nat, NEW n \in 1 .. L + m
        PROVE  n \in 1 .. L \/ (n - L \in 1 .. m /\ L + (n - L) = n)
    OBVIOUS
  <2> QED
    BY <1>1, <1>2, <2>1
<1>6. /\ \A n \in 1 .. Len(u.inputs) : n \in 1 .. Len(t.inputs)
      /\ \A i \in 1 .. c.num_inputs : Len(u.inputs) + i \in 1 .. Len(t.inputs)
  BY <1>1, <1>2
<1>7. ASSUME NEW n \in 1 .. Len(t.inputs)
      PROVE  \/ n \in 1 .. Len(u.inputs) /\ t.inputs[n] = u.inputs[n]
             \/ \E i \in 1 .. c.num_inputs : t.inputs[n] = u.nodes + i - 1
  BY <1>2, <1>5
<1>8. \A n \in 1 .. Len(t.inputs) : t.inputs[n] \in Inner(c, t)
  BY <1>3, <1>4, <1>7
<1>9. ASSUME NEW n \in Inner(c, t) PROVE IsGate(t, n) <=> ~IsInput(t, n)
  <2>1. IsGate(t, n) <=> IsGate(u, n)
    BY <1>2 DEF IsGate
  <2>2. CASE n \in Inner(c, u)
    <3>1. n \in Nat /\ n < u.nodes
      BY <1>4, <2>2
    <3>2. \A i \in 1 .. c.num_inputs : n # u.nodes + i - 1
      BY <1>1, <3>1
    <3>3. IsInput(t, n) <=> IsInput(u, n)
      BY <1>2, <1>6, <1>7, <3>2 DEF IsInput
    <3> QED
      BY <1>3, <2>1, <2>2, <3>3
  <2>3. CASE n \notin Inner(c, u)
    <3>1. ~IsGate(u, n)
      BY <1>3, <2>3 DEF IsGate
    <3>2. n - u.nodes + 1 \in 1 .. c.num_inputs /\ u.nodes + (n - u.nodes + 1) - 1 = n
      BY <1>4, <2>3
    <3>3. t.inputs[Len(u.inputs) + (n - u.nodes + 1)] = n
      BY <1>2, <3>2
    <3>4. IsInput(t, n)
      BY <1>6, <3>2, <3>3 DEF IsInput
    <3> QED
      BY <2>1, <3>1, <3>4
  <2> QED
    BY <2>2, <2>3
<1>10. WellFormed(c, t)
  <2>1. t.nodes >= 2 + c.num_latches
    BY <1>1, <1>2, <1>3
  <2>2. \A g \in 1 .. Len(t.ands) :
          /\ t.ands[g].o \in Inner(c, t)
          /\ t.ands[g].i1 \in LitOf(t.ands[g].o - 1) /\ t.ands[g].i2 \in LitOf(t.ands[g].o - 1)
    BY <1>2, <1>3, <1>4
  <2>3. \A g, h \in 1 .. Len(t.ands) : g < h => t.ands[g].o < t.ands[h].o
    BY <1>2, <1>3
  <2> QED
    BY <1>2, <1>8, <1>9, <2>1, <2>2, <2>3 DEF WellFormed
<1>11. K + 1 \in Nat /\ Len(t.inputs) = (K + 1) * c.num_inputs
  <2>1. K \in Nat /\ Len(u.inputs) = K * c.num_inputs
    BY DEF Shape
  <2>2. (K + 1) * c.num_inputs = K * c.num_inputs + c.num_inputs
    <3>1. ASSUME NEW x \in Nat, NEW y \in Nat PROVE (x + 1) * y = x * y + y
      OBVIOUS
    <3> QED
      BY <1>1, <2>1, <3>1
  <2> QED
    BY <1>2, <2>1, <2>2
<1>12. Extends(t, u)
  <2>1. u.nodes <= t.nodes /\ Len(u.ands) <= Len(t.ands)
    BY <1>1, <1>2
  <2>2. \A g \in Len(u.ands) + 1 .. Len(t.ands) : t.ands[g].o >= u.nodes
    BY <1>1, <1>2
  <2> QED
    BY <1>2, <2>1, <2>2 DEF Extends
<1> QED
  BY <1>10, <1>11, <1>12 DEF Shape, t
LEMMA ValueHolds ==
  ASSUME NEW m \in Nat, NEW n \in Nat, NEW l \in LitOf(m), NEW vs, LitsUpTo(vs, m, n),
         NEW val \in Valuation, NEW w, \A k \in 1 .. m : w[k] = Holds(val, vs[k])
  PROVE  Holds(val, value(vs, l)) = Holds(w, l) /\ Holds(w, l) \in BOOLEAN
<1>1. \A k \in 1 .. m : vs[k] \in Int /\ vs[k] # 0
  BY DEF LitsUpTo, LitOf
<1>2. CASE l > 0
  <2>1. l \in 1 .. m /\ value(vs, l) = vs[l] /\ Holds(w, l) = w[l]
    BY <1>2, LitOfType DEF value, Holds
  <2>2. Holds(val, vs[l]) \in BOOLEAN
    BY <1>1, <2>1, HoldsNegated
  <2> QED
    BY <2>1, <2>2
<1>3. CASE ~(l > 0)
  <2>1. -l \in 1 .. m /\ value(vs, l) = -vs[-l] /\ Holds(w, l) = ~w[-l]
    BY <1>3, LitOfType DEF value, Holds
  <2>2. vs[-l] \in Int /\ vs[-l] # 0
    BY <1>1, <2>1
  <2>3. Holds(val, -vs[-l]) = ~Holds(val, vs[-l]) /\ Holds(val, vs[-l]) \in BOOLEAN
    BY <2>2, HoldsNegated
  <2> QED
    BY <2>1, <2>3
<1> QED
  BY <1>2, <1>3

(* The values of the latches are those they have in frame K + 1. *)
LatchesMean(c, u, K, vs, val) ==
  \A j \in 1 .. c.num_latches : Holds(val, vs[LatchVar(c, j)]) = LatchesOf(c, u, K, val, K + 1)[j]

ValuesBefore(c, u, K, vs) ==
  /\ vs \in [1 .. NumVars(c) -> Int] /\ vs[1] = 1
  /\ \A j \in 1 .. c.num_latches : vs[LatchVar(c, j)] \in LitOf(u.nodes - 1)
  /\ \A val \in Valuation : Obeys(u, val) => LatchesMean(c, u, K, vs, val)

OpenedValues(c, u, vs) ==
  [v \in DOMAIN vs |->
     IF v \in 2 .. c.num_inputs + 1 THEN [i \in 1 .. c.num_inputs |-> u.nodes + i - 1][v - 1] ELSE vs[v]]

Start(c, u, vs) == [values |-> OpenedValues(c, u, vs), u |-> Opened(c, u)]

LEMMA OpenedValuesAre ==
  ASSUME NEW c, IsCircuit(c), NEW u \in UnfoldingRecord, NEW vs \in [1 .. NumVars(c) -> Int]
  PROVE  LET s == OpenedValues(c, u, vs)
         IN /\ s \in [1 .. NumVars(c) -> Int] /\ s[1] = vs[1]
            /\ \A i \in 1 .. c.num_inputs : s[InputVar(c, i)] = u.nodes + i - 1
            /\ \A j \in 1 .. c.num_latches : s[LatchVar(c, j)] = vs[LatchVar(c, j)]
<1> DEFINE s == OpenedValues(c, u, vs)
<1>1. /\ u.nodes \in Nat /\ c.num_inputs \in Nat /\ c.num_latches \in Nat /\ NumVars(c) \in Nat
      /\ 1 \in 1 .. NumVars(c)
      /\ \A i \in 1 .. c.num_inputs : InputVar(c, i) \in 1 .. NumVars(c) /\ InputVar(c, i) = 1 + i
      /\ \A j \in 1 .. c.num_latches : LatchVar(c, j) \in 1 .. NumVars(c)
  BY UnfoldingType, CircuitNumbers
<1>2. \A v \in 1 .. NumVars(c) :
        s[v] = IF v \in 2 .. c.num_inputs + 1 THEN [i \in 1 .. c.num_inputs |-> u.nodes + i - 1][v - 1]
               ELSE vs[v]
  BY DEF OpenedValues
<1>3. \A v \in 2 .. c.num_inputs + 1 : v - 1 \in 1 .. c.num_inputs
  BY <1>1
<1>4. \A v \in 1 .. NumVars(c) :
        s[v] = IF v \in 2 .. c.num_inputs + 1 THEN u.nodes + (v - 1) - 1 ELSE vs[v]
  BY <1>2, <1>3
<1>5. DOMAIN s = 1 .. NumVars(c) /\ s = [v \in 1 .. NumVars(c) |-> s[v]]
  BY DEF OpenedValues
<1> HIDE DEF s
<1>6. s[1] = vs[1]
  BY <1>1, <1>4
<1>7. ASSUME NEW i \in 1 .. c.num_inputs PROVE s[InputVar(c, i)] = u.nodes + i - 1
  <2>1. InputVar(c, i) \in 2 .. c.num_inputs + 1 /\ InputVar(c, i) - 1 = i
    BY <1>1
  <2> QED
    BY <1>1, <1>4, <2>1
<1>8. ASSUME NEW j \in 1 .. c.num_latches PROVE s[LatchVar(c, j)] = vs[LatchVar(c, j)]
  <2>1. LatchVar(c, j) \notin 2 .. c.num_inputs + 1
    BY <1>1 DEF LatchVar
  <2> QED
    BY <1>1, <1>4, <2>1
<1>9. ASSUME NEW v \in 1 .. NumVars(c) PROVE s[v] \in Int
  <2>1. CASE v \in 2 .. c.num_inputs + 1
    BY <1>1, <1>4, <2>1
  <2>2. CASE v \notin 2 .. c.num_inputs + 1
    BY <1>4, <2>2
  <2> QED
    BY <2>1, <2>2
<1>10. s \in [1 .. NumVars(c) -> Int]
  BY <1>5, <1>9
<1> QED
  BY <1>6, <1>7, <1>8, <1>10 DEF s

LEMMA StartUnfolded ==
  ASSUME NEW c, IsCircuit(c), NEW u, NEW K, Shape(c, u, K), NEW vs, ValuesBefore(c, u, K, vs)
  PROVE  Unfolded(c, Start(c, u, vs), 0, Start(c, u, vs)) /\ Opened(c, u) \in UnfoldingRecord
<1> DEFINE s == OpenedValues(c, u, vs)
<1> DEFINE t == Opened(c, u)
<1>1. u \in UnfoldingRecord /\ vs \in [1 .. NumVars(c) -> Int] /\ vs[1] = 1
  BY DEF Shape, WellFormed, ValuesBefore
<1>2. /\ s \in [1 .. NumVars(c) -> Int] /\ s[1] = 1
      /\ \A i \in 1 .. c.num_inputs : s[InputVar(c, i)] = u.nodes + i - 1
      /\ \A j \in 1 .. c.num_latches : s[LatchVar(c, j)] = vs[LatchVar(c, j)]
  BY <1>1, OpenedValuesAre
<1>3. Shape(c, t, K + 1) /\ WellFormed(c, t) /\ t \in UnfoldingRecord
  BY OpenedWellFormed DEF Shape, WellFormed
<1>4. /\ u.nodes \in Nat /\ t.nodes \in Nat /\ t.nodes = u.nodes + c.num_inputs
      /\ c.num_inputs \in Nat /\ c.num_latches \in Nat /\ u.nodes >= 2
  <2>1. t.nodes = u.nodes + c.num_inputs
    BY <1>1, OpenedFields DEF IsOpened
  <2> QED
    BY <1>1, <1>3, <2>1, UnfoldingType, CircuitNumbers DEF Shape, WellFormed
<1>5. LitsUpTo(s, AndVar(c, 0), t.nodes - 1)
  <2>1. ASSUME NEW n \in 1 .. AndVar(c, 0) PROVE s[n] \in LitOf(t.nodes - 1)
    <3>1. /\ n = 1 \/ (\E i \in 1 .. c.num_inputs : n = InputVar(c, i))
                   \/ (\E j \in 1 .. c.num_latches : n = LatchVar(c, j))
      <4>1. n \in 1 .. 1 + c.num_inputs + c.num_latches
        BY <1>4 DEF AndVar
      <4>2. CASE n - 1 \in 1 .. c.num_inputs
        BY <4>1, <4>2 DEF InputVar
      <4>3. CASE n - 1 - c.num_inputs \in 1 .. c.num_latches
        <5>1. LatchVar(c, n - 1 - c.num_inputs) = n
          BY <1>4, <4>1 DEF LatchVar
        <5> QED
          BY <4>3, <5>1
      <4> QED
        BY <1>4, <4>1, <4>2, <4>3
    <3>2. CASE n = 1
      BY <1>2, <1>4, <3>2 DEF LitOf
    <3>3. ASSUME NEW i \in 1 .. c.num_inputs, n = InputVar(c, i) PROVE s[n] \in LitOf(t.nodes - 1)
      <4>1. s[n] = u.nodes + i - 1
        BY <1>2, <3>3
      <4>2. u.nodes + i - 1 \in 1 .. t.nodes - 1
        BY <1>4
      <4>3. \A N \in Nat : 1 .. N \subseteq LitOf(N)
        BY DEF LitOf
      <4>4. t.nodes - 1 \in Nat
        BY <1>4
      <4> QED
        BY <4>1, <4>2, <4>3, <4>4
    <3>4. ASSUME NEW j \in 1 .. c.num_latches, n = LatchVar(c, j) PROVE s[n] \in LitOf(t.nodes - 1)
      <4>1. s[n] \in LitOf(u.nodes - 1)
        BY <1>2, <3>4 DEF ValuesBefore
      <4>2. LitOf(u.nodes - 1) \subseteq LitOf(t.nodes - 1)
        BY <1>4, LitOfMonotone
      <4> QED
        BY <4>1, <4>2
    <3> QED
      BY <3>1, <3>2, <3>3, <3>4
  <2> QED
    BY <2>1 DEF LitsUpTo
<1>6. \A val : GatesExact(c, s, AndVar(c, 0), val)
  <2>1. \A i \in 1 .. Len(c.ands) : ~(AndVar(c, i) <= AndVar(c, 0))
    <3>1. Len(c.ands) \in Nat
      BY CircuitNumbers
    <3> QED
      BY <1>4, <3>1 DEF AndVar
  <2> QED
    BY <2>1 DEF GatesExact
<1>7. Extends(t, t)
  BY <1>3, ExtendsItself
<1>8. Start(c, u, vs) = [values |-> s, u |-> t] /\ Start(c, u, vs).values = s /\ Start(c, u, vs).u = t
  BY DEF Start
<1> HIDE DEF s, t
<1>9. Unfolded(c, Start(c, u, vs), 0, Start(c, u, vs))
  BY <1>2, <1>3, <1>5, <1>6, <1>7, <1>8 DEF Unfolded
<1> QED
  BY <1>3, <1>9 DEF t
(* Every variable has the value it has in frame K + 1. *)
FrameMeans(c, t, K, vs, val) ==
  \A n \in 1 .. NumVars(c) : Holds(val, vs[n]) = FrameOf(c, t, K, val, K)[n]

LEMMA FrameUnfolded ==
  ASSUME NEW c, IsCircuit(c), NEW u, NEW K, Shape(c, u, K), NEW vs, ValuesBefore(c, u, K, vs),
         NEW s, Unfolded(c, s, Len(c.ands), Start(c, u, vs))
  PROVE  /\ Shape(c, s.u, K + 1) /\ Extends(s.u, u)
         /\ \A n \in 1 .. Len(u.inputs) : s.u.inputs[n] = u.inputs[n]
         /\ s.values \in [1 .. NumVars(c) -> Int] /\ s.values[1] = 1
         /\ LitsUpTo(s.values, NumVars(c), s.u.nodes - 1)
         /\ \A val \in Valuation : Obeys(s.u, val) => FrameMeans(c, s.u, K + 1, s.values, val)
<1> DEFINE t == s.u
<1>1. /\ u \in UnfoldingRecord /\ K \in Nat /\ vs \in [1 .. NumVars(c) -> Int]
      /\ c.num_inputs \in Nat /\ c.num_latches \in Nat /\ Len(c.ands) \in Nat /\ NumVars(c) \in Nat
      /\ NumVars(c) = AndVar(c, Len(c.ands)) /\ Len(u.inputs) = K * c.num_inputs
  BY CircuitNumbers DEF Shape, WellFormed, ValuesBefore, NumVars, AndVar
<1>2. /\ Start(c, u, vs).values = OpenedValues(c, u, vs) /\ Start(c, u, vs).u = Opened(c, u)
      /\ Opened(c, u) \in UnfoldingRecord
  BY StartUnfolded DEF Start
<1>3. /\ s.values \in [1 .. NumVars(c) -> Int] /\ s.values[1] = 1
      /\ WellFormed(c, t) /\ LitsUpTo(s.values, NumVars(c), t.nodes - 1)
      /\ \A val \in Valuation : Obeys(t, val) => GatesExact(c, s.values, NumVars(c), val)
      /\ \A n \in 1 .. AndVar(c, 0) : s.values[n] = OpenedValues(c, u, vs)[n]
      /\ t.inputs = Opened(c, u).inputs /\ Extends(t, Opened(c, u))
  BY <1>1, <1>2 DEF Unfolded
<1> HIDE DEF t
<1>4. /\ t \in UnfoldingRecord /\ t.nodes - 1 \in Nat
  BY <1>1, <1>3, UnfoldingType DEF WellFormed
<1>5. IsOpened(c, u, Opened(c, u)) /\ Shape(c, Opened(c, u), K + 1) /\ Extends(Opened(c, u), u)
  BY <1>1, OpenedFields, OpenedWellFormed
<1>6. Shape(c, t, K + 1) /\ Extends(t, u)
  BY <1>1, <1>2, <1>3, <1>4, <1>5, ExtendsTransitive DEF Shape
<1>7. /\ \A n \in 1 .. Len(u.inputs) : t.inputs[n] = u.inputs[n]
      /\ \A i \in 1 .. c.num_inputs : t.inputs[Len(u.inputs) + i] = u.nodes + i - 1
  BY <1>3, <1>5 DEF IsOpened
<1>8. ASSUME NEW val \in Valuation, Obeys(t, val) PROVE FrameMeans(c, t, K + 1, s.values, val)
  <2> DEFINE w == [n \in 1 .. NumVars(c) |-> Holds(val, s.values[n])]
  <2> DEFINE x == LatchesOf(c, t, K + 1, val, K + 1)
  <2> DEFINE ins == InsOf(c, t, K + 1, val)
  <2> DEFINE i == ins[K + 1]
  <2>1. /\ FirstOf(c, val) \in Bits(c.num_latches) /\ InputsOK(c, ins, K + 1)
    BY <1>6, RunType
  <2>2. i \in Bits(c.num_inputs)
    BY <1>1, <2>1 DEF InputsOK
  <2>3. x \in Bits(c.num_latches)
    <3>1. K + 1 \in Nat /\ K + 1 > 0 /\ InputsOK(c, ins, (K + 1) - 1)
      BY <1>1, <2>1 DEF InputsOK
    <3> QED
      BY <2>1, <3>1, LatchesType DEF LatchesOf
  <2>4. \A j \in 1 .. c.num_inputs : i[j] = val[u.nodes + j - 1]
    <3>1. K + 1 \in 1 .. K + 1 /\ ((K + 1) - 1) * c.num_inputs = Len(u.inputs)
      BY <1>1
    <3>2. i = [j \in 1 .. c.num_inputs |-> val[t.inputs[((K + 1) - 1) * c.num_inputs + j]]]
      BY <3>1 DEF InsOf
    <3>3. ASSUME NEW j \in 1 .. c.num_inputs PROVE i[j] = val[t.inputs[Len(u.inputs) + j]]
      BY <3>1, <3>2
    <3> QED
      BY <1>7, <3>3
  <2>5. \A j \in 1 .. c.num_latches : Holds(val, vs[LatchVar(c, j)]) = x[j]
    <3>1. Obeys(u, val)
      BY <1>1, <1>4, <1>6, <1>8, ObeysExtended
    <3>2. LatchesMean(c, u, K, vs, val)
      BY <3>1 DEF ValuesBefore
    <3>3. x = LatchesOf(c, u, K, val, K + 1)
      BY <1>6, <1>7, FramesKept
    <3> QED
      BY <3>2, <3>3 DEF LatchesMean
  <2>6. /\ OpenedValues(c, u, vs)[1] = 1
        /\ \A j \in 1 .. c.num_inputs : OpenedValues(c, u, vs)[InputVar(c, j)] = u.nodes + j - 1
        /\ \A j \in 1 .. c.num_latches : OpenedValues(c, u, vs)[LatchVar(c, j)] = vs[LatchVar(c, j)]
    BY <1>1, OpenedValuesAre DEF ValuesBefore
  <2>7. \A n \in 1 .. NumVars(c) : w[n] = Holds(val, s.values[n])
    OBVIOUS
  <2> HIDE DEF w, x, i, ins
  <2>8. ASSUME NEW n \in 1 .. NumVars(c) PROVE w[n] = SettleAt(c, x, i, w, n)
    <3>1. CASE n = 1
      <4>1. Holds(val, 1) = val[1] /\ ~val[1] /\ val[1] \in BOOLEAN
        BY <1>8 DEF Holds, Obeys, Valuation
      <4> QED
        BY <1>3, <2>7, <3>1, <4>1 DEF SettleAt
    <3>2. CASE n > 1 /\ n <= InputVar(c, c.num_inputs) /\ n - 1 \in 1 .. c.num_inputs
      <4>1. SettleAt(c, x, i, w, n) = i[n - 1]
        <5>1. n # 1
          BY <3>2
        <5> QED
          BY <3>2, <5>1 DEF SettleAt
      <4>2. InputVar(c, n - 1) = n /\ n \in 1 .. AndVar(c, 0)
        BY <1>1, <3>2 DEF InputVar, AndVar
      <4>3. s.values[n] = u.nodes + (n - 1) - 1
        BY <1>3, <2>6, <3>2, <4>2
      <4>4. u.nodes + (n - 1) - 1 > 0
        BY <1>1, <3>2, UnfoldingType DEF Shape, WellFormed
      <4>5. Holds(val, s.values[n]) = val[u.nodes + (n - 1) - 1]
        BY <4>3, <4>4 DEF Holds
      <4> QED
        BY <2>4, <2>7, <3>2, <4>1, <4>5
    <3>3. CASE /\ n > 1 /\ n > InputVar(c, c.num_inputs) /\ n <= LatchVar(c, c.num_latches)
               /\ n - 1 - c.num_inputs \in 1 .. c.num_latches
      <4>1. SettleAt(c, x, i, w, n) = x[n - 1 - c.num_inputs]
        <5>1. n # 1 /\ ~(n <= InputVar(c, c.num_inputs))
          BY <1>1, <3>3 DEF InputVar
        <5> QED
          BY <3>3, <5>1 DEF SettleAt
      <4>2. LatchVar(c, n - 1 - c.num_inputs) = n /\ n \in 1 .. AndVar(c, 0)
        <5>1. LatchVar(c, n - 1 - c.num_inputs) = n
          BY <1>1 DEF LatchVar
        <5>2. n <= AndVar(c, 0) /\ AndVar(c, 0) \in Nat
          BY <1>1, <3>3 DEF LatchVar, AndVar
        <5> QED
          BY <1>1, <5>1, <5>2
      <4>3. s.values[n] = vs[LatchVar(c, n - 1 - c.num_inputs)]
        BY <1>3, <2>6, <3>3, <4>2
      <4>4. Holds(val, s.values[n]) = x[n - 1 - c.num_inputs]
        BY <2>5, <3>3, <4>3
      <4> QED
        BY <2>7, <4>1, <4>4
    <3>4. CASE /\ n > 1 /\ n > InputVar(c, c.num_inputs) /\ n > LatchVar(c, c.num_latches)
               /\ n - AndVar(c, 0) \in 1 .. Len(c.ands) /\ AndVar(c, n - AndVar(c, 0)) = n
      <4> DEFINE g == n - AndVar(c, 0)
      <4> DEFINE a == c.ands[g]
      <4>1. SettleAt(c, x, i, w, n) = (Holds(w, a.i1) /\ Holds(w, a.i2))
        <5>1. n # 1 /\ ~(n <= InputVar(c, c.num_inputs)) /\ ~(n <= LatchVar(c, c.num_latches))
          BY <1>1, <3>4 DEF InputVar, LatchVar
        <5> QED
          BY <5>1 DEF SettleAt
      <4>2. AndVar(c, g) - 1 \in Nat /\ a.i1 \in LitOf(NumVars(c)) /\ a.i2 \in LitOf(NumVars(c))
        <5>1. AndVar(c, g) - 1 \in Nat /\ a.i1 \in LitOf(AndVar(c, g) - 1) /\ a.i2 \in LitOf(AndVar(c, g) - 1)
          BY <3>4, FaninType
        <5>2. LitOf(AndVar(c, g) - 1) \subseteq LitOf(NumVars(c))
          BY <1>1, <3>4, <5>1, LitOfMonotone
        <5> QED
          BY <5>1, <5>2
      <4>3. /\ Holds(val, value(s.values, a.i1)) = Holds(w, a.i1) /\ Holds(w, a.i1) \in BOOLEAN
            /\ Holds(val, value(s.values, a.i2)) = Holds(w, a.i2) /\ Holds(w, a.i2) \in BOOLEAN
        <5>1. \A l \in LitOf(NumVars(c)) :
                Holds(val, value(s.values, l)) = Holds(w, l) /\ Holds(w, l) \in BOOLEAN
          <6> DEFINE V == NumVars(c)
          <6> DEFINE N == t.nodes - 1
          <6> DEFINE z == s.values
          <6>1. /\ V \in Nat /\ N \in Nat /\ LitsUpTo(z, V, N) /\ val \in Valuation
                /\ \A k \in 1 .. V : w[k] = Holds(val, z[k])
            BY <1>1, <1>3, <1>4, <2>7
          <6> HIDE DEF V, N, z
          <6>2. ASSUME NEW l \in LitOf(V)
                PROVE  Holds(val, value(z, l)) = Holds(w, l) /\ Holds(w, l) \in BOOLEAN
            BY <6>1, ValueHolds
          <6> QED
            BY <6>2 DEF V, z
        <5> QED
          BY <4>2, <5>1
      <4>4. Holds(val, s.values[n]) <=>
              Holds(val, value(s.values, a.i1)) /\ Holds(val, value(s.values, a.i2))
        <5>1. GatesExact(c, s.values, NumVars(c), val)
          BY <1>3, <1>8
        <5>2. g \in 1 .. Len(c.ands) /\ AndVar(c, g) = n /\ AndVar(c, g) <= NumVars(c)
          BY <1>1, <3>4
        <5> HIDE DEF g
        <5> QED
          BY <5>1, <5>2 DEF GatesExact
      <4>5. Holds(val, s.values[n]) \in BOOLEAN
        <5>1. s.values[n] \in Int /\ s.values[n] # 0
          BY <1>3 DEF LitsUpTo, LitOf
        <5> QED
          BY <5>1, HoldsNegated
      <4> QED
        BY <2>7, <4>1, <4>3, <4>4, <4>5
    <3> QED
      BY <3>1, <3>2, <3>3, <3>4, VariableKinds
  <2>9. \A n \in 1 .. NumVars(c) : Settle(c, x, i)[n] = w[n]
    BY <2>2, <2>3, <2>8, SettleUnique
  <2>10. FrameOf(c, t, K + 1, val, K + 1) = Settle(c, x, i)
    BY DEF FrameOf, Frame, x, i, ins, LatchesOf
  <2> QED
    BY <2>7, <2>9, <2>10 DEF FrameMeans
<1> QED
  BY <1>3, <1>6, <1>7, <1>8 DEF t
-----------------------------------------------------------------------------
(* The invariant.  Before unfold the literals held by the solver say that  *)
(* the frames so far are good ones; before solve_one_frame the last frame  *)
(* is unfolded as well, and its output and constraints mean what they      *)
(* mean in the circuit.                                                    *)
InFrameOf(c, u, K, a, k, l) == Holds(FrameOf(c, u, K, a, k), l)

AllIn(c, u, K, a, k) == \A l \in c.constraints : InFrameOf(c, u, K, a, k, l)

GoodFrame(c, u, K, a, k) == AllIn(c, u, K, a, k) /\ ~InFrameOf(c, u, K, a, k, c.bad)

AllHold(val, us) == \A l \in us : Holds(val, l)

UnitsMean(c, u, K, us, k) ==
  \A val \in Valuation : Obeys(u, val) =>
    (AllHold(val, us) <=> \A n \in 1 .. k : GoodFrame(c, u, K, val, n))

SolvedMeans(c, u, K, vs, val) ==
  /\ \A i \in 1 .. Len(c.ands) : Holds(val, vs[AndVar(c, i)]) = FrameOf(c, u, K, val, K)[AndVar(c, i)]
  /\ Holds(val, u.output) = InFrameOf(c, u, K, val, K, c.bad)
  /\ AllHold(val, u.constraints) <=> AllIn(c, u, K, val, K)

Solved(c, u, K, vs) ==
  /\ \A i \in 1 .. Len(c.ands) : vs[AndVar(c, i)] \in LitOf(u.nodes - 1)
  /\ u.output \in LitOf(u.nodes - 1) /\ u.constraints \subseteq LitOf(u.nodes - 1)
  /\ \A val \in Valuation : Obeys(u, val) => SolvedMeans(c, u, K, vs, val)

BeforeUnfold(c, u, K, vs, gs, us) ==
  /\ Shape(c, u, K) /\ ValuesBefore(c, u, K, vs)
  /\ SolverOK(u, gs, us) /\ UnitsMean(c, u, K, us, K)

BeforeSolve(c, u, K, vs, gs, us) ==
  /\ K >= 1 /\ Shape(c, u, K) /\ ValuesBefore(c, u, K, vs) /\ Solved(c, u, K, vs)
  /\ SolverOK(u, gs, us) /\ UnitsMean(c, u, K, us, K - 1)

(* The solver is not disturbed by the gates of a new frame. *)
LEMMA SolverKept ==
  ASSUME NEW c, IsCircuit(c), NEW u, WellFormed(c, u), NEW t, WellFormed(c, t), Extends(t, u),
         NEW gs, NEW us, SolverOK(u, gs, us)
  PROVE  SolverOK(t, gs, us)
<1>1. /\ u.nodes \in Nat /\ t.nodes \in Nat /\ Len(u.ands) \in Nat /\ Len(t.ands) \in Nat
      /\ u.nodes - 1 \in Nat
  BY UnfoldingType, CircuitNumbers DEF WellFormed
<1>2. /\ u.nodes <= t.nodes /\ Len(u.ands) <= Len(t.ands)
      /\ \A g \in 1 .. Len(u.ands) : t.ands[g] = u.ands[g]
      /\ \A g \in Len(u.ands) + 1 .. Len(t.ands) : t.ands[g].o >= u.nodes
  BY DEF Extends
<1>3. /\ gs \subseteq 1 .. Len(u.ands)
      /\ \A g \in gs, h \in 1 .. Len(u.ands) :
           u.ands[h].o \in {Abs(u.ands[g].i1), Abs(u.ands[g].i2)} => h \in gs
      /\ \A l \in us, h \in 1 .. Len(u.ands) : u.ands[h].o = Abs(l) => h \in gs
      /\ us \subseteq LitOf(u.nodes - 1) /\ -1 \in us
  BY DEF SolverOK, Closed, Covers
<1>4. \A h \in 1 .. Len(t.ands) : h \in 1 .. Len(u.ands) \/ h \in Len(u.ands) + 1 .. Len(t.ands)
  BY <1>1
<1>5. \A h \in 1 .. Len(t.ands) : t.ands[h].o \in Nat
  BY GateParts
<1>6. ASSUME NEW n \in 1 .. u.nodes - 1, NEW h \in 1 .. Len(t.ands), t.ands[h].o = n
      PROVE  h \in 1 .. Len(u.ands) /\ u.ands[h].o = n
  BY <1>1, <1>2, <1>4, <1>5, <1>6
<1>7. ASSUME NEW g \in gs, NEW h \in 1 .. Len(t.ands),
             t.ands[h].o \in {Abs(t.ands[g].i1), Abs(t.ands[g].i2)}
      PROVE  h \in gs
  <2>1. g \in 1 .. Len(u.ands) /\ t.ands[g] = u.ands[g]
    BY <1>2, <1>3
  <2>2. Abs(u.ands[g].i1) \in 1 .. u.nodes - 1 /\ Abs(u.ands[g].i2) \in 1 .. u.nodes - 1
    BY <2>1, GateParts
  <2>3. t.ands[h].o \in 1 .. u.nodes - 1
    BY <1>7, <2>1, <2>2
  <2>4. h \in 1 .. Len(u.ands) /\ u.ands[h].o = t.ands[h].o
    BY <1>6, <2>3
  <2> QED
    BY <1>3, <1>7, <2>1, <2>4
<1>8. ASSUME NEW l \in us, NEW h \in 1 .. Len(t.ands), t.ands[h].o = Abs(l) PROVE h \in gs
  <2>1. Abs(l) \in 1 .. u.nodes - 1
    BY <1>1, <1>3, LitOfType
  <2>2. h \in 1 .. Len(u.ands) /\ u.ands[h].o = Abs(l)
    BY <1>6, <1>8, <2>1
  <2> QED
    BY <1>3, <2>2
<1>9. gs \subseteq 1 .. Len(t.ands)
  BY <1>1, <1>2, <1>3
<1>10. us \subseteq LitOf(t.nodes - 1)
  <2>1. LitOf(u.nodes - 1) \subseteq LitOf(t.nodes - 1)
    BY <1>1, <1>2, LitOfMonotone
  <2> QED
    BY <1>3, <2>1
<1> QED
  BY <1>3, <1>7, <1>8, <1>9, <1>10 DEF SolverOK, Closed, Covers

LEMMA UnitsKept ==
  ASSUME NEW c, IsCircuit(c), NEW u, NEW K, Shape(c, u, K), NEW t, Shape(c, t, K + 1), Extends(t, u),
         \A n \in 1 .. Len(u.inputs) : t.inputs[n] = u.inputs[n], NEW us, UnitsMean(c, u, K, us, K)
  PROVE  UnitsMean(c, t, K + 1, us, K)
<1>1. ASSUME NEW val \in Valuation, Obeys(t, val)
      PROVE  AllHold(val, us) <=> \A n \in 1 .. K : GoodFrame(c, t, K + 1, val, n)
  <2>1. Obeys(u, val)
    BY <1>1, ObeysExtended DEF Shape, WellFormed
  <2>2. \A k \in 1 .. K : FrameOf(c, t, K + 1, val, k) = FrameOf(c, u, K, val, k)
    BY FramesKept
  <2>3. \A k \in 1 .. K : GoodFrame(c, t, K + 1, val, k) <=> GoodFrame(c, u, K, val, k)
    BY <2>2 DEF GoodFrame, AllIn, InFrameOf
  <2> QED
    BY <2>1, <2>3 DEF UnitsMean
<1> QED
  BY <1>1 DEF UnitsMean

(* Only the nodes, gates and inputs of the unfolding matter to it. *)
SameGates(t, u) == t.nodes = u.nodes /\ t.ands = u.ands /\ t.inputs = u.inputs

Alike(c, t, u) ==
  /\ \A val : Obeys(t, val) <=> Obeys(u, val)
  /\ \A K, a, k : FrameOf(c, t, K, a, k) = FrameOf(c, u, K, a, k)
  /\ t \in UnfoldingRecord /\ WellFormed(c, u) => WellFormed(c, t)
  /\ \A s : Extends(u, s) => Extends(t, s)

LEMMA SameGatesAlike ==
  ASSUME NEW c, NEW u, NEW t, SameGates(t, u)
  PROVE  Alike(c, t, u)
<1>1. \A val : Obeys(t, val) <=> Obeys(u, val)
  BY DEF Obeys, GateHolds, SameGates
<1>2. \A K, a : InsOf(c, t, K, a) = InsOf(c, u, K, a)
  BY DEF InsOf, SameGates
<1>3. t \in UnfoldingRecord /\ WellFormed(c, u) => WellFormed(c, t)
  BY DEF WellFormed, SameGates, Inner, IsGate, IsInput
<1>4. \A s : Extends(u, s) => Extends(t, s)
  BY DEF Extends, SameGates
<1> QED
  BY <1>1, <1>2, <1>3, <1>4 DEF FrameOf, Alike
LatchVars(c) == {LatchVar(c, j) : j \in 1 .. c.num_latches}

(* The unfolding when the frame is complete, and the values for the next. *)
ClosedFrame(c, s, t) ==
  /\ t \in UnfoldingRecord /\ SameGates(t, s.u)
  /\ t.constraints = {value(s.values, l) : l \in c.constraints} /\ t.output = value(s.values, c.bad)

NextValues(c, vs, s) ==
  [v \in DOMAIN vs |->
     IF v \in LatchVars(c) THEN value(s.values, c.nexts[v - LatchVar(c, 0)]) ELSE s.values[v]]

LEMMA NextValuesAre ==
  ASSUME NEW c, IsCircuit(c), NEW vs \in [1 .. NumVars(c) -> Int], NEW s,
         s.values \in [1 .. NumVars(c) -> Int]
  PROVE  LET z == NextValues(c, vs, s)
         IN /\ z \in [1 .. NumVars(c) -> Int] /\ z[1] = s.values[1]
            /\ \A j \in 1 .. c.num_latches : z[LatchVar(c, j)] = value(s.values, c.nexts[j])
            /\ \A i \in 1 .. Len(c.ands) : z[AndVar(c, i)] = s.values[AndVar(c, i)]
<1> DEFINE z == NextValues(c, vs, s)
<1>1. /\ c.num_inputs \in Nat /\ c.num_latches \in Nat /\ Len(c.ands) \in Nat /\ NumVars(c) \in Nat
      /\ 1 \in 1 .. NumVars(c)
      /\ \A j \in 1 .. c.num_latches : LatchVar(c, j) \in 1 .. NumVars(c)
      /\ \A i \in 1 .. Len(c.ands) : AndVar(c, i) \in 1 .. NumVars(c)
  BY CircuitNumbers
<1>2. \A v \in 1 .. NumVars(c) :
        z[v] = IF v \in LatchVars(c) THEN value(s.values, c.nexts[v - LatchVar(c, 0)]) ELSE s.values[v]
  BY DEF NextValues
<1>3. z = [v \in 1 .. NumVars(c) |-> z[v]]
  BY DEF NextValues
<1> HIDE DEF z
<1>4. ASSUME NEW j \in 1 .. c.num_latches
      PROVE  LatchVar(c, j) \in LatchVars(c) /\ LatchVar(c, j) - LatchVar(c, 0) = j
  BY <1>1 DEF LatchVars, LatchVar
<1>5. ASSUME NEW j \in 1 .. c.num_latches
      PROVE  z[LatchVar(c, j)] = value(s.values, c.nexts[j]) /\ value(s.values, c.nexts[j]) \in Int
  <2>1. z[LatchVar(c, j)] = value(s.values, c.nexts[j])
    BY <1>1, <1>2, <1>4
  <2>2. c.nexts[j] \in LitOf(NumVars(c))
    BY DEF IsCircuit
  <2>3. value(s.values, c.nexts[j]) \in Int
    BY <1>1, <2>2, ValueType
  <2> QED
    BY <2>1, <2>3
<1>6. 1 \notin LatchVars(c) /\ \A i \in 1 .. Len(c.ands) : AndVar(c, i) \notin LatchVars(c)
  <2>1. \A j \in 1 .. c.num_latches : LatchVar(c, j) # 1
    BY <1>1 DEF LatchVar
  <2>2. \A j \in 1 .. c.num_latches, i \in 1 .. Len(c.ands) : LatchVar(c, j) # AndVar(c, i)
    BY <1>1 DEF LatchVar, AndVar
  <2> QED
    BY <2>1, <2>2 DEF LatchVars
<1>7. ASSUME NEW v \in 1 .. NumVars(c) PROVE z[v] \in Int
  <2>1. CASE v \in LatchVars(c)
    <3>1. PICK j \in 1 .. c.num_latches : v = LatchVar(c, j)
      BY <2>1 DEF LatchVars
    <3> QED
      BY <1>5, <3>1
  <2>2. CASE v \notin LatchVars(c)
    BY <1>2, <2>2
  <2> QED
    BY <2>1, <2>2
<1>8. z \in [1 .. NumVars(c) -> Int]
  BY <1>3, <1>7
<1>9. z[1] = s.values[1] /\ \A i \in 1 .. Len(c.ands) : z[AndVar(c, i)] = s.values[AndVar(c, i)]
  BY <1>1, <1>2, <1>6
<1> QED
  BY <1>5, <1>8, <1>9 DEF z

LEMMA FrameClosed ==
  ASSUME NEW c, IsCircuit(c), NEW u, NEW K, NEW vs, NEW gs, NEW us, BeforeUnfold(c, u, K, vs, gs, us),
         NEW s, Unfolded(c, s, Len(c.ands), Start(c, u, vs)), NEW t, ClosedFrame(c, s, t)
  PROVE  BeforeSolve(c, t, K + 1, NextValues(c, vs, s), gs, us)
<1> DEFINE z == NextValues(c, vs, s)
<1> DEFINE V == NumVars(c)
<1> DEFINE w(val) == FrameOf(c, t, K + 1, val, K + 1)
<1>1. Shape(c, u, K) /\ ValuesBefore(c, u, K, vs) /\ SolverOK(u, gs, us) /\ UnitsMean(c, u, K, us, K)
  BY DEF BeforeUnfold
<1>2. /\ Shape(c, s.u, K + 1) /\ Extends(s.u, u)
      /\ \A n \in 1 .. Len(u.inputs) : s.u.inputs[n] = u.inputs[n]
      /\ s.values \in [1 .. V -> Int] /\ s.values[1] = 1
      /\ LitsUpTo(s.values, V, s.u.nodes - 1)
      /\ \A val \in Valuation : Obeys(s.u, val) => FrameMeans(c, s.u, K + 1, s.values, val)
  BY <1>1, FrameUnfolded
<1>3. /\ t \in UnfoldingRecord /\ t.nodes = s.u.nodes /\ t.inputs = s.u.inputs /\ SameGates(t, s.u)
      /\ t.constraints = {value(s.values, l) : l \in c.constraints} /\ t.output = value(s.values, c.bad)
  BY DEF ClosedFrame, SameGates
<1>4. /\ \A val : Obeys(t, val) <=> Obeys(s.u, val)
      /\ \A k, a : FrameOf(c, t, K + 1, a, k) = FrameOf(c, s.u, K + 1, a, k)
      /\ WellFormed(c, s.u) => WellFormed(c, t)
      /\ Extends(t, u)
  <2>1. Alike(c, t, s.u)
    BY <1>3, SameGatesAlike
  <2> QED
    BY <1>2, <1>3, <2>1 DEF Alike
<1>5. Shape(c, t, K + 1)
  BY <1>2, <1>3, <1>4 DEF Shape
<1>6. \A n \in 1 .. Len(u.inputs) : t.inputs[n] = u.inputs[n]
  BY <1>2, <1>3
<1>7. SolverOK(t, gs, us)
  <2>1. WellFormed(c, u) /\ WellFormed(c, t)
    BY <1>1, <1>5 DEF Shape
  <2> QED
    BY <1>1, <1>4, <2>1, SolverKept
<1>8. UnitsMean(c, t, K + 1, us, (K + 1) - 1)
  <2>1. UnitsMean(c, t, K + 1, us, K)
    BY <1>1, <1>4, <1>5, <1>6, UnitsKept
  <2>2. (K + 1) - 1 = K
    BY <1>1 DEF Shape
  <2> QED
    BY <2>1, <2>2
<1>9. /\ K \in Nat /\ V \in Nat /\ t.nodes - 1 \in Nat /\ LitsUpTo(s.values, V, t.nodes - 1)
      /\ c.constraints \subseteq LitOf(V) /\ c.bad \in LitOf(V)
      /\ \A j \in 1 .. c.num_latches : c.nexts[j] \in LitOf(V)
      /\ \A i \in 1 .. Len(c.ands) : AndVar(c, i) \in 1 .. V
  <2>1. t.nodes \in Nat /\ t.nodes >= 2 + c.num_latches /\ c.num_latches \in Nat
    BY <1>3, <1>5, UnfoldingType, CircuitNumbers DEF Shape, WellFormed
  <2>2. K \in Nat /\ V \in Nat /\ \A i \in 1 .. Len(c.ands) : AndVar(c, i) \in 1 .. V
    BY <1>1, CircuitNumbers DEF Shape
  <2>3. t.nodes - 1 \in Nat /\ LitsUpTo(s.values, V, t.nodes - 1)
    BY <1>2, <1>3, <2>1
  <2>4. /\ c.constraints \subseteq LitOf(V) /\ c.bad \in LitOf(V)
        /\ \A j \in 1 .. c.num_latches : c.nexts[j] \in LitOf(V)
    BY DEF IsCircuit
  <2> QED
    BY <2>2, <2>3, <2>4
<1>10. ASSUME NEW val \in Valuation, Obeys(t, val)
       PROVE  /\ \A n \in 1 .. V : w(val)[n] = Holds(val, s.values[n])
              /\ \A l \in LitOf(V) : Holds(val, value(s.values, l)) = Holds(w(val), l) /\ Holds(w(val), l) \in BOOLEAN
  <2>1. FrameMeans(c, s.u, K + 1, s.values, val)
    BY <1>2, <1>4, <1>10
  <2>2. \A n \in 1 .. V : w(val)[n] = Holds(val, s.values[n])
    BY <1>4, <2>1 DEF FrameMeans
  <2> DEFINE ww == w(val)
  <2> DEFINE r == s.values
  <2> DEFINE N == t.nodes - 1
  <2>3. V \in Nat /\ N \in Nat /\ LitsUpTo(r, V, N) /\ \A n \in 1 .. V : ww[n] = Holds(val, r[n])
    BY <1>9, <2>2
  <2> HIDE DEF ww, r, N, V
  <2>4. ASSUME NEW l \in LitOf(V) PROVE Holds(val, value(r, l)) = Holds(ww, l) /\ Holds(ww, l) \in BOOLEAN
    BY <2>3, ValueHolds
  <2> QED
    BY <2>2, <2>4 DEF ww, r
<1>11. \A l \in LitOf(V) : value(s.values, l) \in LitOf(t.nodes - 1)
  <2> DEFINE N == t.nodes - 1
  <2> DEFINE r == s.values
  <2>1. V \in Nat /\ N \in Nat /\ LitsUpTo(r, V, N)
    BY <1>9
  <2> HIDE DEF N, V, r
  <2>2. ASSUME NEW l \in LitOf(V) PROVE value(r, l) \in LitOf(N)
    BY <2>1, ValueLit
  <2> QED
    BY <2>2 DEF N, r
<1>12. /\ z \in [1 .. V -> Int] /\ z[1] = 1
       /\ \A j \in 1 .. c.num_latches : z[LatchVar(c, j)] = value(s.values, c.nexts[j])
       /\ \A i \in 1 .. Len(c.ands) : z[AndVar(c, i)] = s.values[AndVar(c, i)]
  BY <1>1, <1>2, NextValuesAre DEF ValuesBefore
<1> HIDE DEF z, w, V
<1>13. ASSUME NEW val \in Valuation, Obeys(t, val) PROVE LatchesMean(c, t, K + 1, z, val)
  <2>1. FirstOf(c, val) \in Bits(c.num_latches) /\ InputsOK(c, InsOf(c, t, K + 1, val), K + 1)
    BY <1>5, RunType
  <2>2. K + 1 \in Nat /\ K + 1 > 0
    BY <1>9
  <2>3. LatchesOf(c, t, K + 1, val, (K + 1) + 1) = [j \in 1 .. c.num_latches |-> Holds(w(val), c.nexts[j])]
    <3> DEFINE x == FirstOf(c, val)
    <3> DEFINE ins == InsOf(c, t, K + 1, val)
    <3> DEFINE k == K + 1
    <3>1. x \in Bits(c.num_latches) /\ InputsOK(c, ins, k) /\ k \in Nat /\ k > 0
      BY <2>1, <2>2
    <3> HIDE DEF x, ins, k
    <3>2. Latches(c, x, ins, k + 1) = NextLatches(c, Frame(c, x, ins, k))
      BY <3>1, LatchesNext
    <3> QED
      BY <3>2 DEF LatchesOf, w, FrameOf, x, ins, k, NextLatches
  <2>4. ASSUME NEW j \in 1 .. c.num_latches
        PROVE  Holds(val, z[LatchVar(c, j)]) = LatchesOf(c, t, K + 1, val, (K + 1) + 1)[j]
    BY <1>9, <1>10, <1>12, <1>13, <2>3
  <2> QED
    BY <2>4 DEF LatchesMean
<1>14. ValuesBefore(c, t, K + 1, z)
  BY <1>9, <1>11, <1>12, <1>13 DEF ValuesBefore, V
<1>15. ASSUME NEW val \in Valuation, Obeys(t, val) PROVE SolvedMeans(c, t, K + 1, z, val)
  <2>1. \A i \in 1 .. Len(c.ands) : Holds(val, z[AndVar(c, i)]) = w(val)[AndVar(c, i)]
    BY <1>9, <1>10, <1>12, <1>15
  <2>2. Holds(val, t.output) = Holds(w(val), c.bad)
    BY <1>3, <1>9, <1>10, <1>15
  <2>3. AllHold(val, t.constraints) <=> \A l \in c.constraints : Holds(w(val), l)
    BY <1>3, <1>9, <1>10, <1>15 DEF AllHold
  <2> QED
    BY <2>1, <2>2, <2>3 DEF SolvedMeans, InFrameOf, AllIn, w
<1>16. Solved(c, t, K + 1, z)
  <2>1. \A i \in 1 .. Len(c.ands) : z[AndVar(c, i)] \in LitOf(t.nodes - 1)
    BY <1>9, <1>12 DEF LitsUpTo
  <2>2. t.output \in LitOf(t.nodes - 1) /\ t.constraints \subseteq LitOf(t.nodes - 1)
    BY <1>3, <1>9, <1>11
  <2> QED
    BY <1>15, <2>1, <2>2 DEF Solved
<1>17. K + 1 >= 1
  BY <1>9
<1> QED
  BY <1>5, <1>7, <1>8, <1>14, <1>16, <1>17 DEF BeforeSolve, z
(* initialize. *)
Empty(c) == [nodes |-> 2 + c.num_latches, ands |-> << >>, inputs |-> << >>, constraints |-> {}, output |-> 0]

LEMMA EmptyShape ==
  ASSUME NEW c, IsCircuit(c)
  PROVE  Shape(c, Empty(c), 0) /\ Len(Empty(c).ands) = 0 /\ Empty(c).nodes = 2 + c.num_latches
<1> DEFINE u == Empty(c)
<1>1. c.num_latches \in Nat /\ c.num_inputs \in Nat
  BY CircuitNumbers
<1>2. << >> \in Seq(GateRecord)
  BY EmptySeq
<1>3. << >> \in Seq(Nat)
  BY EmptySeq
<1>4. /\ u.nodes = 2 + c.num_latches /\ u.ands = << >> /\ u.inputs = << >>
      /\ u.constraints = {} /\ u.output = 0
  BY DEF Empty
<1>5. Len(u.ands) = 0 /\ Len(u.inputs) = 0
  BY <1>4
<1>6. u \in UnfoldingRecord
  <2>1. 2 + c.num_latches \in Nat /\ {} \in SUBSET Int /\ 0 \in Int
    BY <1>1
  <2> QED
    BY <1>2, <1>3, <2>1 DEF Empty, UnfoldingRecord
<1> HIDE DEF u
<1>7. Inner(c, u) = {}
  BY <1>1, <1>4 DEF Inner
<1>8. WellFormed(c, u)
  BY <1>1, <1>4, <1>5, <1>6, <1>7 DEF WellFormed
<1>9. 0 * c.num_inputs = 0
  BY <1>1
<1> QED
  BY <1>4, <1>5, <1>8, <1>9 DEF Shape, u

LEMMA FirstValues ==
  ASSUME IsCircuit(ckt)
  PROVE  ValuesBefore(ckt, Empty(ckt), 0, [v \in 1 .. NumVars(ckt) |-> FirstValue(v)])
<1> DEFINE u == Empty(ckt)
<1> DEFINE vs == [v \in 1 .. NumVars(ckt) |-> FirstValue(v)]
<1>1. /\ ckt.num_latches \in Nat /\ ckt.num_inputs \in Nat /\ NumVars(ckt) \in Nat /\ 1 \in 1 .. NumVars(ckt)
      /\ \A j \in 1 .. ckt.num_latches : LatchVar(ckt, j) \in 1 .. NumVars(ckt)
  BY CircuitNumbers
<1>2. Shape(ckt, u, 0) /\ u.nodes = 2 + ckt.num_latches
  BY EmptyShape
<1>3. ASSUME NEW v \in 1 .. NumVars(ckt) PROVE FirstValue(v) \in Int
  BY <1>1 DEF FirstValue
<1>4. vs \in [1 .. NumVars(ckt) -> Int]
  BY <1>3
<1>5. vs[1] = 1
  BY <1>1 DEF FirstValue
<1>6. ASSUME NEW j \in 1 .. ckt.num_latches
      PROVE  \/ -LatchVar(ckt, j) \in ckt.init_state /\ vs[LatchVar(ckt, j)] = 1
             \/ /\ -LatchVar(ckt, j) \notin ckt.init_state /\ LatchVar(ckt, j) \in ckt.init_state
                /\ vs[LatchVar(ckt, j)] = -1
             \/ /\ -LatchVar(ckt, j) \notin ckt.init_state /\ LatchVar(ckt, j) \notin ckt.init_state
                /\ vs[LatchVar(ckt, j)] = 1 + j
  <2> DEFINE v == LatchVar(ckt, j)
  <2>1. v \in 1 .. NumVars(ckt) /\ v # 1 /\ v - ckt.num_inputs = 1 + j
    BY <1>1 DEF LatchVar
  <2>2. v \in Latch
    BY DEF Latch
  <2>3. vs[v] = FirstValue(v)
    BY <2>1
  <2> HIDE DEF v, vs
  <2>4. \/ -v \in ckt.init_state /\ vs[v] = 1
        \/ -v \notin ckt.init_state /\ v \in ckt.init_state /\ vs[v] = -1
        \/ -v \notin ckt.init_state /\ v \notin ckt.init_state /\ vs[v] = 1 + j
    BY <2>1, <2>2, <2>3 DEF FirstValue
  <2> QED
    BY <2>4 DEF v
<1> HIDE DEF vs, u
<1>7. ASSUME NEW j \in 1 .. ckt.num_latches PROVE vs[LatchVar(ckt, j)] \in LitOf(u.nodes - 1)
  <2>1. u.nodes - 1 = 1 + ckt.num_latches
    BY <1>1, <1>2
  <2>2. 1 \in LitOf(1 + ckt.num_latches) /\ -1 \in LitOf(1 + ckt.num_latches) /\ 1 + j \in LitOf(1 + ckt.num_latches)
    BY <1>1 DEF LitOf
  <2> QED
    BY <1>6, <2>1, <2>2
<1>8. ASSUME NEW val \in Valuation, Obeys(u, val) PROVE LatchesMean(ckt, u, 0, vs, val)
  <2>1. FirstOf(ckt, val) \in Bits(ckt.num_latches)
    BY <1>2, RunType
  <2>2. LatchesOf(ckt, u, 0, val, 0 + 1) = FirstOf(ckt, val)
    BY <2>1, LatchesFirst DEF LatchesOf
  <2>3. ~val[1] /\ val[1] \in BOOLEAN
    BY <1>8 DEF Obeys, Valuation
  <2>4. Holds(val, 1) = FALSE /\ Holds(val, -1) = TRUE
    BY <2>3 DEF Holds
  <2>5. ASSUME NEW j \in 1 .. ckt.num_latches
        PROVE  Holds(val, vs[LatchVar(ckt, j)]) = FirstOf(ckt, val)[j]
    <3> DEFINE v == LatchVar(ckt, j)
    <3>1. FirstOf(ckt, val)[j] = IF v \in ckt.init_state THEN TRUE
                                 ELSE IF -v \in ckt.init_state THEN FALSE ELSE val[1 + j]
      BY DEF FirstOf
    <3>2. v \in Int /\ -(-v) = v
      BY <1>1
    <3>3. -v \in ckt.init_state => v \notin ckt.init_state
      BY <3>2 DEF IsCircuit
    <3>4. Holds(val, 1 + j) = val[1 + j]
      BY DEF Holds
    <3> HIDE DEF v
    <3>5. \/ -v \in ckt.init_state /\ vs[v] = 1
          \/ -v \notin ckt.init_state /\ v \in ckt.init_state /\ vs[v] = -1
          \/ -v \notin ckt.init_state /\ v \notin ckt.init_state /\ vs[v] = 1 + j
      BY <1>6 DEF v
    <3>6. Holds(val, vs[v]) = FirstOf(ckt, val)[j]
      BY <2>4, <3>1, <3>3, <3>4, <3>5
    <3> QED
      BY <3>6 DEF v
  <2> QED
    BY <2>2, <2>5 DEF LatchesMean
<1>9. ValuesBefore(ckt, u, 0, vs)
  BY <1>4, <1>5, <1>7, <1>8 DEF ValuesBefore
<1> QED
  BY <1>9 DEF u, vs

LEMMA InitializeFrame ==
  ASSUME IsCircuit(ckt)
  PROVE  BeforeUnfold(ckt, Empty(ckt), 0, [v \in 1 .. NumVars(ckt) |-> FirstValue(v)], {}, {-1})
<1> DEFINE u == Empty(ckt)
<1>1. Shape(ckt, u, 0) /\ Len(u.ands) = 0 /\ u.nodes = 2 + ckt.num_latches
  BY EmptyShape
<1>2. ckt.num_latches \in Nat
  BY CircuitNumbers
<1> HIDE DEF u
<1>3. SolverOK(u, {}, {-1})
  <2>1. {-1} \subseteq LitOf(u.nodes - 1)
    BY <1>1, <1>2 DEF LitOf
  <2> QED
    BY <1>1, <2>1 DEF SolverOK, Closed, Covers
<1>4. UnitsMean(ckt, u, 0, {-1}, 0)
  <2>1. ASSUME NEW val \in Valuation, Obeys(u, val) PROVE AllHold(val, {-1})
    <3>1. Holds(val, -1) = ~val[1] /\ ~val[1]
      BY <2>1 DEF Holds, Obeys
    <3> QED
      BY <3>1 DEF AllHold
  <2> QED
    BY <2>1 DEF UnitsMean
<1> QED
  BY <1>1, <1>3, <1>4, FirstValues DEF BeforeUnfold, u

(* unfold. *)
LEMMA UnfoldFrame ==
  ASSUME IsCircuit(ckt), NEW k \in Nat, k >= 1, k = bmc_frame_k,
         BeforeUnfold(ckt, uaiger, k - 1, values, lit_has_insert, units), unfold
  PROVE  BeforeSolve(ckt, uaiger', k, values', lit_has_insert, units)
<1> DEFINE s0 == Start(ckt, uaiger, values)
<1> DEFINE f == CHOOSE f : f = [i \in 0 .. Len(ckt.ands) |-> IF i = 0 THEN s0 ELSE UnfoldAnd(f[i - 1], i)]
<1> DEFINE done == f[Len(ckt.ands)]
<1>1. /\ uaiger' = [done.u EXCEPT !.constraints = {value(done.values, l) : l \in ckt.constraints},
                                  !.output = value(done.values, ckt.bad)]
      /\ values' = [v \in DOMAIN values |->
           IF v \in Latch THEN value(done.values, ckt.nexts[v - LatchVar(ckt, 0)]) ELSE done.values[v]]
  BY DEF unfold, Start, OpenedValues, Opened
<1>2. values' = NextValues(ckt, values, done)
  BY <1>1 DEF NextValues, LatchVars, Latch
<1>3. Len(ckt.ands) \in Nat
  BY CircuitNumbers
<1>4. UnfoldTo(s0, Len(ckt.ands), f)
  <2>1. \E g : UnfoldTo(s0, Len(ckt.ands), g)
    BY <1>3, UnfoldDefined
  <2> QED
    BY <2>1 DEF UnfoldTo
<1> HIDE DEF f
<1>5. Shape(ckt, uaiger, k - 1) /\ ValuesBefore(ckt, uaiger, k - 1, values)
  BY DEF BeforeUnfold
<1>6. Unfolded(ckt, s0, 0, s0)
  BY <1>5, StartUnfolded
<1> HIDE DEF s0
<1>7. Unfolded(ckt, done, Len(ckt.ands), s0)
  BY <1>4, <1>6, UnfoldAll
<1> HIDE DEF done
<1>8. ClosedFrame(ckt, done, uaiger')
  <2> DEFINE cs == {value(done.values, l) : l \in ckt.constraints}
  <2> DEFINE o == value(done.values, ckt.bad)
  <2>1. done.u \in UnfoldingRecord /\ done.values \in [1 .. NumVars(ckt) -> Int] /\ NumVars(ckt) \in Nat
    BY <1>7, CircuitNumbers DEF Unfolded, WellFormed
  <2>2. \A l \in LitOf(NumVars(ckt)) : value(done.values, l) \in Int
    BY <2>1, ValueType
  <2>3. cs \subseteq Int /\ o \in Int
    BY <2>2 DEF IsCircuit
  <2>4. uaiger' = [done.u EXCEPT !.constraints = cs, !.output = o]
    BY <1>1
  <2> HIDE DEF cs, o
  <2>5. /\ uaiger' \in UnfoldingRecord /\ uaiger'.nodes = done.u.nodes /\ uaiger'.ands = done.u.ands
        /\ uaiger'.inputs = done.u.inputs /\ uaiger'.constraints = cs /\ uaiger'.output = o
    BY <2>1, <2>3, <2>4 DEF UnfoldingRecord
  <2> QED
    BY <2>5 DEF ClosedFrame, SameGates, cs, o
<1>9. BeforeSolve(ckt, uaiger', (k - 1) + 1, NextValues(ckt, values, done), lit_has_insert, units)
  BY <1>7, <1>8, FrameClosed DEF s0
<1>10. (k - 1) + 1 = k
  OBVIOUS
<1> QED
  BY <1>2, <1>9, <1>10
(* solve_one_frame: what the query asks of a run. *)
Asks(c, u, K, a) ==
  /\ \A n \in 1 .. K - 1 : GoodFrame(c, u, K, a, n)
  /\ AllIn(c, u, K, a, K) /\ InFrameOf(c, u, K, a, K, c.bad)

QueryMeans(c, u, K, us) ==
  \A val \in Valuation : Obeys(u, val) => (AllHold(val, us) <=> Asks(c, u, K, val))

LEMMA QueryMeaning ==
  ASSUME IsCircuit(ckt), NEW k, BeforeSolve(ckt, uaiger, k, values, lit_has_insert, units)
  PROVE  /\ SolverOK(uaiger, Inserted, Asserted \cup {uaiger.output})
         /\ QueryMeans(ckt, uaiger, k, Asserted \cup {uaiger.output})
         /\ SolverOK(uaiger, Inserted, Asserted \cup {-uaiger.output})
         /\ UnitsMean(ckt, uaiger, k, Asserted \cup {-uaiger.output}, k)
<1> DEFINE u == uaiger
<1>1. /\ k \in Nat /\ k >= 1 /\ WellFormed(ckt, u) /\ u.nodes - 1 \in Nat
      /\ SolverOK(u, lit_has_insert, units) /\ UnitsMean(ckt, u, k, units, k - 1)
      /\ u.output \in LitOf(u.nodes - 1) /\ u.constraints \subseteq LitOf(u.nodes - 1)
      /\ \A val \in Valuation : Obeys(u, val) => SolvedMeans(ckt, u, k, values, val)
  <2>1. WellFormed(ckt, u)
    BY DEF BeforeSolve, Shape
  <2>2. u.nodes - 1 \in Nat
    BY <2>1, UnfoldingType, CircuitNumbers DEF WellFormed
  <2> QED
    BY <2>1, <2>2 DEF BeforeSolve, Shape, Solved
<1>2. Closed(u, Inserted) /\ Covers(u, Inserted, u.constraints \cup {u.output})
  BY <1>1, InsertedClosed DEF SolverOK
<1>3. Covers(u, Inserted, units)
  BY <1>1 DEF SolverOK, Covers, Inserted
<1>4. /\ u.output \in Int /\ u.output # 0 /\ -u.output \in LitOf(u.nodes - 1)
      /\ Abs(-u.output) = Abs(u.output)
  BY <1>1, LitOfType
<1>5. Covers(u, Inserted, Asserted \cup {u.output}) /\ Covers(u, Inserted, Asserted \cup {-u.output})
  BY <1>2, <1>3, <1>4 DEF Covers, Asserted
<1>6. SolverOK(u, Inserted, Asserted \cup {u.output}) /\ SolverOK(u, Inserted, Asserted \cup {-u.output})
  BY <1>1, <1>2, <1>4, <1>5 DEF SolverOK, Asserted
<1>7. ASSUME NEW val \in Valuation, Obeys(u, val)
      PROVE  /\ AllHold(val, Asserted) <=> (\A n \in 1 .. k - 1 : GoodFrame(ckt, u, k, val, n)) /\ AllIn(ckt, u, k, val, k)
             /\ Holds(val, u.output) <=> InFrameOf(ckt, u, k, val, k, ckt.bad)
             /\ Holds(val, -u.output) <=> ~InFrameOf(ckt, u, k, val, k, ckt.bad)
  <2>1. AllHold(val, Asserted) <=> AllHold(val, units) /\ AllHold(val, u.constraints)
    BY DEF AllHold, Asserted
  <2>2. SolvedMeans(ckt, u, k, values, val)
    BY <1>1, <1>7
  <2>3. AllHold(val, units) <=> \A n \in 1 .. k - 1 : GoodFrame(ckt, u, k, val, n)
    BY <1>1, <1>7 DEF UnitsMean
  <2>4. Holds(val, -u.output) = ~Holds(val, u.output)
    BY <1>4, HoldsNegated
  <2> QED
    BY <2>1, <2>2, <2>3, <2>4 DEF SolvedMeans
<1>8. \A val \in Valuation : \A l : AllHold(val, Asserted \cup {l}) <=> AllHold(val, Asserted) /\ Holds(val, l)
  BY DEF AllHold
<1>9. QueryMeans(ckt, u, k, Asserted \cup {u.output})
  BY <1>7, <1>8 DEF QueryMeans, Asks
<1>10. UnitsMean(ckt, u, k, Asserted \cup {-u.output}, k)
  <2>1. ASSUME NEW val
        PROVE  (\A n \in 1 .. k : GoodFrame(ckt, u, k, val, n)) <=>
                 /\ \A n \in 1 .. k - 1 : GoodFrame(ckt, u, k, val, n)
                 /\ GoodFrame(ckt, u, k, val, k)
    <3>1. \A n \in 1 .. k : n \in 1 .. k - 1 \/ n = k
      BY <1>1
    <3>2. k \in 1 .. k /\ \A n \in 1 .. k - 1 : n \in 1 .. k
      BY <1>1
    <3> QED
      BY <3>1, <3>2
  <2>2. ASSUME NEW val \in Valuation, Obeys(u, val)
        PROVE  AllHold(val, Asserted \cup {-u.output}) <=> \A n \in 1 .. k : GoodFrame(ckt, u, k, val, n)
    BY <1>7, <1>8, <2>1, <2>2 DEF GoodFrame
  <2> QED
    BY <2>2 DEF UnitsMean
<1> QED
  BY <1>6, <1>9, <1>10

(* A run of the leaves asks what a valuation with the same leaves does. *)
LEMMA AsksOfLeaves ==
  ASSUME NEW c, IsCircuit(c), NEW u, NEW K, Shape(c, u, K), NEW a, NEW b,
         \A n \in LeafOf(c, u) : a[n] = b[n]
  PROVE  Asks(c, u, K, a) <=> Asks(c, u, K, b)
<1>1. FirstOf(c, a) = FirstOf(c, b) /\ InsOf(c, u, K, a) = InsOf(c, u, K, b)
  BY RunOfLeaves
<1>2. \A k : FrameOf(c, u, K, a, k) = FrameOf(c, u, K, b, k)
  BY <1>1 DEF FrameOf
<1> QED
  BY <1>2 DEF Asks, GoodFrame, AllIn, InFrameOf

RunsOf(c, u) == [LeafOf(c, u) -> BOOLEAN]

(* Every run that has the values of a model does what the query asks. *)
LEMMA ModelAsks ==
  ASSUME IsCircuit(ckt), NEW k, BeforeSolve(ckt, uaiger, k, values, lit_has_insert, units),
         NEW m \in Query, NEW a \in RunsOf(ckt, uaiger),
         \A n \in LeafOf(ckt, uaiger) \cap DOMAIN m : a[n] = m[n]
  PROVE  Asks(ckt, uaiger, k, a)
<1> DEFINE us == Asserted \cup {uaiger.output}
<1>1. Shape(ckt, uaiger, k) /\ WellFormed(ckt, uaiger)
  BY DEF BeforeSolve, Shape
<1>2. SolverOK(uaiger, Inserted, us) /\ QueryMeans(ckt, uaiger, k, us) /\ m \in Models(Inserted, us)
  BY QueryMeaning DEF Query
<1>3. \A n \in LeafOf(ckt, uaiger) : a[n] \in BOOLEAN
  BY DEF RunsOf
<1>4. PICK val \in Valuation : Obeys(uaiger, val) /\ \A n \in LeafOf(ckt, uaiger) : val[n] = a[n]
  BY <1>1, <1>3, LeavesRealized
<1> HIDE DEF us
<1>5. \A n \in LeafOf(ckt, uaiger) \cap DOMAIN m : val[n] = m[n]
  BY <1>4
<1>6. \A l \in us : Holds(val, l)
  BY <1>1, <1>2, <1>4, <1>5, ModelsSound
<1>7. Asks(ckt, uaiger, k, val)
  BY <1>2, <1>4, <1>6 DEF QueryMeans, AllHold
<1> QED
  BY <1>1, <1>4, <1>7, AsksOfLeaves

LEMMA AskedHasModel ==
  ASSUME IsCircuit(ckt), NEW k, BeforeSolve(ckt, uaiger, k, values, lit_has_insert, units),
         NEW a \in RunsOf(ckt, uaiger), Asks(ckt, uaiger, k, a)
  PROVE  Query # {}
<1> DEFINE us == Asserted \cup {uaiger.output}
<1>1. Shape(ckt, uaiger, k) /\ WellFormed(ckt, uaiger)
  BY DEF BeforeSolve, Shape
<1>2. SolverOK(uaiger, Inserted, us) /\ QueryMeans(ckt, uaiger, k, us) /\ Query = Models(Inserted, us)
  BY QueryMeaning DEF Query
<1>3. \A n \in LeafOf(ckt, uaiger) : a[n] \in BOOLEAN
  BY DEF RunsOf
<1>4. PICK val \in Valuation : Obeys(uaiger, val) /\ \A n \in LeafOf(ckt, uaiger) : val[n] = a[n]
  BY <1>1, <1>3, LeavesRealized
<1> HIDE DEF us
<1>5. Asks(ckt, uaiger, k, val)
  BY <1>1, <1>4, AsksOfLeaves
<1>6. \A l \in us : Holds(val, l)
  BY <1>2, <1>4, <1>5 DEF QueryMeans, AllHold
<1> QED
  BY <1>1, <1>2, <1>4, <1>6, ModelsComplete
WitnessAsks(c, u, K, w) ==
  \A a \in RunsOf(c, u) : (\A n \in DOMAIN w : a[n] = w[n]) => Asks(c, u, K, a)

(* The inductive invariant. *)
Inv ==
  /\ ckt \in Circuits
  /\ pc \in {"initialize", "unfold", "solve", "found", "done"}
  /\ pc \in {"unfold", "solve", "found"} => bmc_frame_k \in Nat /\ bmc_frame_k >= 1
  /\ pc = "unfold" => BeforeUnfold(ckt, uaiger, bmc_frame_k - 1, values, lit_has_insert, units)
  /\ pc = "solve" => BeforeSolve(ckt, uaiger, bmc_frame_k, values, lit_has_insert, units)
  /\ pc = "found" => Shape(ckt, uaiger, bmc_frame_k) /\ WitnessAsks(ckt, uaiger, bmc_frame_k, witness)

LEMMA InvInductive ==
  ASSUME Inv, [Next]_vars
  PROVE  Inv'
<1>1. IsCircuit(ckt) /\ ckt \in Circuits
  BY CircuitsAssumption DEF Inv
<1>2. CASE initialize
  <2>1. /\ ckt' = ckt /\ pc' = "unfold" /\ bmc_frame_k' = 1 /\ lit_has_insert' = {} /\ units' = {-1}
        /\ values' = [v \in 1 .. NumVars(ckt) |-> FirstValue(v)] /\ uaiger' = Empty(ckt)
    BY <1>2 DEF initialize, Empty
  <2>2. BeforeUnfold(ckt, uaiger', 0, values', lit_has_insert', units')
    BY <1>1, <2>1, InitializeFrame
  <2>3. BeforeUnfold(ckt', uaiger', bmc_frame_k' - 1, values', lit_has_insert', units')
    BY <2>1, <2>2
  <2> QED
    BY <1>1, <2>1, <2>3 DEF Inv
<1>3. CASE unfold
  <2>1. /\ pc = "unfold" /\ pc' = "solve" /\ ckt' = ckt /\ bmc_frame_k' = bmc_frame_k
        /\ lit_has_insert' = lit_has_insert /\ units' = units
    BY <1>3 DEF unfold
  <2>2. /\ bmc_frame_k \in Nat /\ bmc_frame_k >= 1
        /\ BeforeUnfold(ckt, uaiger, bmc_frame_k - 1, values, lit_has_insert, units)
    BY <2>1 DEF Inv
  <2>3. BeforeSolve(ckt, uaiger', bmc_frame_k, values', lit_has_insert, units)
    BY <1>1, <1>3, <2>2, UnfoldFrame
  <2>4. BeforeSolve(ckt', uaiger', bmc_frame_k', values', lit_has_insert', units')
    BY <2>1, <2>3
  <2> QED
    BY <1>1, <2>1, <2>2, <2>4 DEF Inv
<1>4. CASE NotAsserted
  <2>1. /\ pc = "solve" /\ pc' = "unfold" /\ ckt' = ckt /\ bmc_frame_k' = bmc_frame_k + 1
        /\ uaiger' = uaiger /\ values' = values
        /\ lit_has_insert' = Inserted /\ units' = Asserted \cup {-uaiger.output}
    BY <1>4 DEF NotAsserted
  <2>2. /\ bmc_frame_k \in Nat /\ bmc_frame_k >= 1
        /\ BeforeSolve(ckt, uaiger, bmc_frame_k, values, lit_has_insert, units)
    BY <2>1 DEF Inv
  <2>3. /\ SolverOK(uaiger, Inserted, Asserted \cup {-uaiger.output})
        /\ UnitsMean(ckt, uaiger, bmc_frame_k, Asserted \cup {-uaiger.output}, bmc_frame_k)
    BY <1>1, <2>2, QueryMeaning
  <2>4. BeforeUnfold(ckt, uaiger, bmc_frame_k, values, lit_has_insert', units')
    BY <2>1, <2>2, <2>3 DEF BeforeSolve, BeforeUnfold
  <2>5. bmc_frame_k' - 1 = bmc_frame_k /\ bmc_frame_k' \in Nat /\ bmc_frame_k' >= 1
    BY <2>1, <2>2
  <2>6. BeforeUnfold(ckt', uaiger', bmc_frame_k' - 1, values', lit_has_insert', units')
    BY <2>1, <2>4, <2>5
  <2> QED
    BY <1>1, <2>1, <2>5, <2>6 DEF Inv
<1>5. CASE AssertedInFrame
  <2>1. /\ pc = "solve" /\ pc' = "found" /\ ckt' = ckt /\ bmc_frame_k' = bmc_frame_k /\ uaiger' = uaiger
    BY <1>5 DEF AssertedInFrame
  <2>2. PICK m \in Query : witness' = [n \in Leaf \cap DOMAIN m |-> m[n]]
    BY <1>5 DEF AssertedInFrame
  <2>3. /\ bmc_frame_k \in Nat /\ bmc_frame_k >= 1
        /\ BeforeSolve(ckt, uaiger, bmc_frame_k, values, lit_has_insert, units)
        /\ Shape(ckt, uaiger, bmc_frame_k) /\ WellFormed(ckt, uaiger)
    BY <2>1 DEF Inv, BeforeSolve, Shape
  <2>4. Leaf = LeafOf(ckt, uaiger)
    BY <2>3, LeafIs
  <2>5. WitnessAsks(ckt, uaiger, bmc_frame_k, witness')
    <3>1. ASSUME NEW a \in RunsOf(ckt, uaiger), \A n \in DOMAIN witness' : a[n] = witness'[n]
          PROVE  Asks(ckt, uaiger, bmc_frame_k, a)
      <4>1. \A n \in LeafOf(ckt, uaiger) \cap DOMAIN m : a[n] = m[n]
        BY <2>2, <2>4, <3>1
      <4> QED
        BY <1>1, <2>3, <4>1, ModelAsks
    <3> QED
      BY <3>1 DEF WitnessAsks
  <2>6. WitnessAsks(ckt', uaiger', bmc_frame_k', witness') /\ Shape(ckt', uaiger', bmc_frame_k')
    BY <2>1, <2>3, <2>5
  <2> QED
    BY <1>1, <2>1, <2>3, <2>6 DEF Inv
<1>6. CASE Interrupted \/ LoopEnds
  <2>1. pc' = "done" /\ ckt' = ckt
    BY <1>6 DEF Interrupted, LoopEnds
  <2> QED
    BY <1>1, <2>1 DEF Inv
<1>7. CASE Finished \/ UNCHANGED vars
  <2>1. /\ ckt' = ckt /\ pc' = pc /\ bmc_frame_k' = bmc_frame_k /\ values' = values /\ uaiger' = uaiger
        /\ lit_has_insert' = lit_has_insert /\ units' = units /\ witness' = witness
    BY <1>7 DEF Finished, vars
  <2> QED
    BY <2>1 DEF Inv
<1> QED
  BY <1>2, <1>3, <1>4, <1>5, <1>6, <1>7 DEF Next, Engine

LEMMA InvHolds == Spec => []Inv
<1>1. Init => Inv
  BY DEF Init, Inv
<1>2. Inv /\ [Next]_vars => Inv'
  BY InvInductive
<1> QED
  BY <1>1, <1>2, PTL DEF Spec

-----------------------------------------------------------------------------
(* The properties. *)
LEMMA InFrameIs ==
  /\ \A a, k, l : InFrame(a, k, l) = InFrameOf(ckt, uaiger, bmc_frame_k, a, k, l)
  /\ \A a, k : Frame(ckt, FirstLatches(a), InputsOf(a), k) = FrameOf(ckt, uaiger, bmc_frame_k, a, k)
BY DEF InFrame, InFrameOf, FrameOf, FirstLatches, FirstOf, InputsOf, InsOf

(* What the query asks is what QueryExact and WitnessReal say. *)
LEMMA AsksIs ==
  ASSUME bmc_frame_k \in Nat, bmc_frame_k >= 1, NEW a
  PROVE  Asks(ckt, uaiger, bmc_frame_k, a) <=>
           /\ Constrained(a, bmc_frame_k) /\ InFrame(a, bmc_frame_k, ckt.bad)
           /\ \A k \in 1 .. bmc_frame_k - 1 : ~InFrame(a, k, ckt.bad)
<1> DEFINE K == bmc_frame_k
<1>1. \A n \in 1 .. K : n \in 1 .. K - 1 \/ n = K
  OBVIOUS
<1>2. K \in 1 .. K /\ \A n \in 1 .. K - 1 : n \in 1 .. K
  OBVIOUS
<1> HIDE DEF K
<1>3. Constrained(a, K) <=> (\A n \in 1 .. K - 1 : AllIn(ckt, uaiger, K, a, n)) /\ AllIn(ckt, uaiger, K, a, K)
  BY <1>1, <1>2, InFrameIs DEF Constrained, AllIn, K
<1>4. \A k : InFrame(a, k, ckt.bad) = InFrameOf(ckt, uaiger, K, a, k, ckt.bad)
  BY InFrameIs DEF K
<1>5. Asks(ckt, uaiger, K, a) <=>
        /\ Constrained(a, K) /\ InFrame(a, K, ckt.bad)
        /\ \A k \in 1 .. K - 1 : ~InFrame(a, k, ckt.bad)
  BY <1>3, <1>4 DEF Asks, GoodFrame
<1> QED
  BY <1>5 DEF K

(* The unfolding of a frame means what the circuit means: for every        *)
(* circuit, and every run of it, the node unfold leaves for a gate has the *)
(* gate's value in this frame, and the node of a latch its value in the    *)
(* next one, whatever Aig_And simplified and the hash table shared.        *)
THEOREM UnfoldingIsExact == Spec => []UnfoldingExact
<1>1. Inv => UnfoldingExact
  <2> SUFFICES ASSUME Inv, pc = "solve", NEW a \in Runs
               PROVE  LET node == NodeValues(1 .. Len(uaiger.ands),
                                             [n \in Leaf \cup {1} |-> IF n = 1 THEN FALSE ELSE a[n]])
                          var  == Frame(ckt, FirstLatches(a), InputsOf(a), bmc_frame_k)
                      IN /\ \A i \in 1 .. Len(ckt.ands) :
                              Holds(node, values[AndVar(ckt, i)]) = var[AndVar(ckt, i)]
                         /\ \A j \in 1 .. ckt.num_latches :
                              Holds(node, values[LatchVar(ckt, j)]) = Holds(var, ckt.nexts[j])
    BY DEF UnfoldingExact
  <2> DEFINE u == uaiger
  <2> DEFINE K == bmc_frame_k
  <2> DEFINE node == NodeValues(1 .. Len(u.ands), [n \in Leaf \cup {1} |-> IF n = 1 THEN FALSE ELSE a[n]])
  <2> DEFINE var == Frame(ckt, FirstLatches(a), InputsOf(a), K)
  <2>1. IsCircuit(ckt) /\ BeforeSolve(ckt, u, K, values, lit_has_insert, units)
    BY CircuitsAssumption DEF Inv
  <2>2. /\ Shape(ckt, u, K) /\ WellFormed(ckt, u) /\ K \in Nat /\ K >= 1
        /\ ValuesBefore(ckt, u, K, values) /\ Solved(ckt, u, K, values) /\ u.nodes - 1 \in Nat
    <3>1. /\ Shape(ckt, u, K) /\ WellFormed(ckt, u) /\ K \in Nat /\ K >= 1
          /\ ValuesBefore(ckt, u, K, values) /\ Solved(ckt, u, K, values)
      BY <2>1 DEF BeforeSolve, Shape
    <3>2. u.nodes - 1 \in Nat
      BY <2>1, <3>1, UnfoldingType, CircuitNumbers DEF WellFormed
    <3> QED
      BY <3>1, <3>2
  <2>3. Leaf = LeafOf(ckt, u)
    BY <2>2, LeafIs
  <2>4. node = NodesOf(u, 1 .. Len(u.ands), LeavesOf(ckt, u, a))
    BY <2>3, NodeValuesIs DEF LeavesOf
  <2>5. \A n \in LeafOf(ckt, u) : a[n] \in BOOLEAN
    BY <2>3 DEF Runs
  <2>6. PICK val \in Valuation :
          /\ Obeys(u, val) /\ \A n \in LeafOf(ckt, u) : val[n] = a[n]
          /\ \A n \in 1 .. u.nodes - 1 : val[n] = NodesOf(u, 1 .. Len(u.ands), LeavesOf(ckt, u, a))[n]
    BY <2>1, <2>2, <2>5, LeavesRealized
  <2>7. \A l \in LitOf(u.nodes - 1) : Holds(node, l) = Holds(val, l)
    <3> DEFINE N == u.nodes - 1
    <3>1. N \in Nat /\ \A n \in 1 .. N : node[n] = val[n]
      BY <2>2, <2>4, <2>6
    <3> HIDE DEF N, node
    <3>2. ASSUME NEW l \in LitOf(N) PROVE Holds(node, l) = Holds(val, l)
      BY <3>1, HoldsAgrees
    <3> QED
      BY <3>2 DEF N
  <2>8. FirstOf(ckt, a) = FirstOf(ckt, val) /\ InsOf(ckt, u, K, a) = InsOf(ckt, u, K, val)
    BY <2>1, <2>2, <2>6, RunOfLeaves
  <2>9. var = FrameOf(ckt, u, K, val, K)
    <3>1. var = FrameOf(ckt, u, K, a, K)
      BY InFrameIs
    <3> QED
      BY <2>8, <3>1 DEF FrameOf
  <2> HIDE DEF node, var
  <2>10. \A i \in 1 .. Len(ckt.ands) : Holds(node, values[AndVar(ckt, i)]) = var[AndVar(ckt, i)]
    BY <2>2, <2>6, <2>7, <2>9 DEF Solved, SolvedMeans
  <2>11. \A j \in 1 .. ckt.num_latches : Holds(node, values[LatchVar(ckt, j)]) = Holds(var, ckt.nexts[j])
    <3>1. LatchesMean(ckt, u, K, values, val)
      BY <2>2, <2>6 DEF ValuesBefore
    <3>2. FirstOf(ckt, val) \in Bits(ckt.num_latches) /\ InputsOK(ckt, InsOf(ckt, u, K, val), K)
      BY <2>1, <2>2, RunType
    <3>3. LatchesOf(ckt, u, K, val, K + 1) = NextLatches(ckt, var)
      <4> DEFINE x == FirstOf(ckt, val)
      <4> DEFINE ins == InsOf(ckt, u, K, val)
      <4>1. K > 0
        BY <2>2
      <4> HIDE DEF x, ins, K
      <4>2. Latches(ckt, x, ins, K + 1) = NextLatches(ckt, Frame(ckt, x, ins, K))
        BY <2>1, <2>2, <3>2, <4>1, LatchesNext DEF x, ins
      <4> QED
        BY <2>9, <4>2 DEF LatchesOf, FrameOf, x, ins
    <3>4. \A j \in 1 .. ckt.num_latches : Holds(val, values[LatchVar(ckt, j)]) = Holds(var, ckt.nexts[j])
      BY <3>1, <3>3 DEF LatchesMean, NextLatches
    <3> QED
      BY <2>2, <2>7, <3>4 DEF ValuesBefore
  <2> QED
    BY <2>10, <2>11 DEF node, var
<1> QED
  BY <1>1, InvHolds, PTL

(* The query of a frame is satisfiable exactly when bad can be asserted in *)
(* it for the first time by a run that meets the constraints so far: for   *)
(* every circuit and frame, whichever frames this thread skipped, although *)
(* only the new part of the cone is given to the solver.                   *)
THEOREM QueryIsExact == Spec => []QueryExact
<1>1. Inv => QueryExact
  <2> SUFFICES ASSUME Inv, pc = "solve"
               PROVE  Query # {} <=>
                        \E a \in Runs : /\ Constrained(a, bmc_frame_k)
                                        /\ InFrame(a, bmc_frame_k, ckt.bad)
                                        /\ \A k \in 1 .. bmc_frame_k - 1 : ~InFrame(a, k, ckt.bad)
    BY DEF QueryExact
  <2>1. /\ IsCircuit(ckt) /\ BeforeSolve(ckt, uaiger, bmc_frame_k, values, lit_has_insert, units)
        /\ bmc_frame_k \in Nat /\ bmc_frame_k >= 1 /\ WellFormed(ckt, uaiger)
    BY CircuitsAssumption DEF Inv, BeforeSolve, Shape
  <2>2. Runs = RunsOf(ckt, uaiger)
    BY <2>1, LeafIs DEF Runs, RunsOf
  <2>3. ASSUME NEW a
        PROVE  Asks(ckt, uaiger, bmc_frame_k, a) <=>
                 /\ Constrained(a, bmc_frame_k) /\ InFrame(a, bmc_frame_k, ckt.bad)
                 /\ \A k \in 1 .. bmc_frame_k - 1 : ~InFrame(a, k, ckt.bad)
    BY <2>1, AsksIs
  <2>4. ASSUME NEW m \in Query PROVE \E a \in RunsOf(ckt, uaiger) : Asks(ckt, uaiger, bmc_frame_k, a)
    <3> DEFINE a == [n \in LeafOf(ckt, uaiger) |-> IF n \in DOMAIN m THEN m[n] ELSE FALSE]
    <3>1. \A n \in DOMAIN m : m[n] \in BOOLEAN
      BY DEF Query, Models
    <3>2. a \in RunsOf(ckt, uaiger)
      BY <3>1 DEF RunsOf
    <3>3. \A n \in LeafOf(ckt, uaiger) \cap DOMAIN m : a[n] = m[n]
      OBVIOUS
    <3> HIDE DEF a
    <3>4. Asks(ckt, uaiger, bmc_frame_k, a)
      BY <2>1, <3>2, <3>3, ModelAsks
    <3> QED
      BY <3>2, <3>4
  <2>5. ASSUME NEW a \in RunsOf(ckt, uaiger), Asks(ckt, uaiger, bmc_frame_k, a) PROVE Query # {}
    BY <2>1, <2>5, AskedHasModel
  <2> QED
    BY <2>2, <2>3, <2>4, <2>5
<1> QED
  BY <1>1, InvHolds, PTL

(* The witness of BMC is a run: whatever value is chosen where an x is     *)
(* printed, the latches and inputs printed meet the constraints in every   *)
(* frame and lead to bad in the last one.                                  *)
THEOREM WitnessOfBMCIsReal == Spec => []WitnessReal
<1>1. Inv => WitnessReal
  <2> SUFFICES ASSUME Inv, pc = "found", NEW a \in Runs, \A n \in DOMAIN witness : a[n] = witness[n]
               PROVE  Constrained(a, bmc_frame_k) /\ InFrame(a, bmc_frame_k, ckt.bad)
    BY DEF WitnessReal
  <2>1. /\ Shape(ckt, uaiger, bmc_frame_k) /\ WitnessAsks(ckt, uaiger, bmc_frame_k, witness)
        /\ bmc_frame_k \in Nat /\ bmc_frame_k >= 1 /\ WellFormed(ckt, uaiger)
    BY DEF Inv, Shape
  <2>2. a \in RunsOf(ckt, uaiger)
    BY <2>1, LeafIs DEF Runs, RunsOf
  <2>3. Asks(ckt, uaiger, bmc_frame_k, a)
    BY <2>1, <2>2 DEF WitnessAsks
  <2> QED
    BY <2>1, <2>3, AsksIs
<1> QED
  BY <1>1, InvHolds, PTL
=============================================================================
