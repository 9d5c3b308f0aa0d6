---------------------------- MODULE GatesProofs ----------------------------
(***************************************************************************)
(* The meaning of a circuit of AND gates: Settle satisfies its equation,   *)
(* has values for all variables, and is the only such valuation.           *)
(***************************************************************************)
EXTENDS Gates, Induction

(* All assignments of values to nodes, and of values to variables. *)
Valuation == [Nat -> BOOLEAN]

-----------------------------------------------------------------------------
(* Literals. *)
LEMMA LitOfType ==
  ASSUME NEW n \in Nat, NEW l \in LitOf(n)
  PROVE  /\ l \in Int /\ l # 0 /\ -l \in LitOf(n) /\ -(-l) = l
         /\ Abs(l) \in 1 .. n /\ Abs(-l) = Abs(l) /\ Abs(l) \in Nat
         /\ l > 0 => l \in 1 .. n /\ Abs(l) = l
         /\ ~(l > 0) => -l \in 1 .. n /\ Abs(l) = -l /\ -l > 0
BY DEF LitOf, Abs

LEMMA LitOfMonotone ==
  ASSUME NEW n \in Int, NEW m \in Int, n <= m
  PROVE  LitOf(n) \subseteq LitOf(m)
BY DEF LitOf

LEMMA LitOfAbs ==
  ASSUME NEW l \in Int, NEW n \in Nat, Abs(l) \in 1 .. n
  PROVE  l \in LitOf(n)
BY DEF LitOf, Abs

LEMMA HoldsNegated ==
  ASSUME NEW v \in Valuation, NEW l \in Int, l # 0
  PROVE  Holds(v, -l) = ~Holds(v, l) /\ Holds(v, l) \in BOOLEAN
<1>1. CASE l > 0
  <2>1. v[l] \in BOOLEAN /\ ~(-l > 0) /\ -(-l) = l
    BY <1>1 DEF Valuation
  <2> QED
    BY <1>1, <2>1 DEF Holds
<1>2. CASE ~(l > 0)
  <2>1. v[-l] \in BOOLEAN /\ -l > 0
    BY <1>2 DEF Valuation
  <2> QED
    BY <1>2, <2>1 DEF Holds
<1> QED
  BY <1>1, <1>2

LEMMA HoldsAgrees ==
  ASSUME NEW v, NEW w, NEW n \in Nat, NEW l \in LitOf(n), \A m \in 1 .. n : v[m] = w[m]
  PROVE  Holds(v, l) = Holds(w, l)
BY LitOfType DEF Holds

LEMMA HoldsType ==
  ASSUME NEW v, NEW n \in Nat, NEW l \in LitOf(n), \A m \in 1 .. n : v[m] \in BOOLEAN
  PROVE  Holds(v, l) \in BOOLEAN
BY LitOfType DEF Holds

LEMMA CircuitNumbers ==
  ASSUME NEW c, IsCircuit(c)
  PROVE  /\ c.num_inputs \in Nat /\ c.num_latches \in Nat /\ Len(c.ands) \in Nat /\ NumVars(c) \in Nat
         /\ 1 \in 1 .. NumVars(c)
         /\ \A i \in 1 .. c.num_inputs : InputVar(c, i) \in 1 .. NumVars(c) /\ InputVar(c, i) = 1 + i
         /\ \A j \in 1 .. c.num_latches : LatchVar(c, j) \in 1 .. NumVars(c)
         /\ \A i \in 1 .. Len(c.ands) : AndVar(c, i) \in 1 .. NumVars(c)
<1>1. c.num_inputs \in Nat /\ c.num_latches \in Nat /\ Len(c.ands) \in Nat
  BY DEF IsCircuit
<1> DEFINE ni == c.num_inputs
<1> DEFINE nl == c.num_latches
<1> DEFINE na == Len(c.ands)
<1>2. ni \in Nat /\ nl \in Nat /\ na \in Nat
  BY <1>1
<1>3. /\ NumVars(c) = 1 + ni + nl + na /\ \A i : InputVar(c, i) = 1 + i
      /\ \A i : LatchVar(c, i) = 1 + ni + i
      /\ \A i : AndVar(c, i) = 1 + ni + nl + i
  BY DEF NumVars, InputVar, LatchVar, AndVar
<1> HIDE DEF ni, nl, na
<1>4. /\ NumVars(c) \in Nat /\ 1 \in 1 .. NumVars(c)
      /\ \A i \in 1 .. ni : InputVar(c, i) \in 1 .. NumVars(c)
      /\ \A j \in 1 .. nl : LatchVar(c, j) \in 1 .. NumVars(c)
      /\ \A i \in 1 .. na : AndVar(c, i) \in 1 .. NumVars(c)
  BY <1>2, <1>3
<1> QED
  BY <1>1, <1>3, <1>4 DEF ni, nl, na

LEMMA VariableKinds ==
  ASSUME NEW c, IsCircuit(c), NEW n \in 1 .. NumVars(c)
  PROVE  \/ n = 1
         \/ n > 1 /\ n <= InputVar(c, c.num_inputs) /\ n - 1 \in 1 .. c.num_inputs
         \/ /\ n > 1 /\ n > InputVar(c, c.num_inputs) /\ n <= LatchVar(c, c.num_latches)
            /\ n - 1 - c.num_inputs \in 1 .. c.num_latches
         \/ /\ n > 1 /\ n > InputVar(c, c.num_inputs) /\ n > LatchVar(c, c.num_latches)
            /\ n - AndVar(c, 0) \in 1 .. Len(c.ands) /\ AndVar(c, n - AndVar(c, 0)) = n
<1> DEFINE p == c.num_inputs
<1> DEFINE q == c.num_latches
<1> DEFINE r == Len(c.ands)
<1>1. p \in Nat /\ q \in Nat /\ r \in Nat
  BY CircuitNumbers
<1>2. /\ n \in 1 .. 1 + p + q + r /\ InputVar(c, p) = 1 + p /\ LatchVar(c, q) = 1 + p + q
      /\ AndVar(c, 0) = 1 + p + q + 0 /\ AndVar(c, n - AndVar(c, 0)) = 1 + p + q + (n - AndVar(c, 0))
  BY DEF NumVars, InputVar, LatchVar, AndVar
<1> HIDE DEF p, q, r
<1>3. \/ n = 1
      \/ n > 1 /\ n <= 1 + p /\ n - 1 \in 1 .. p
      \/ n > 1 /\ n > 1 + p /\ n <= 1 + p + q /\ n - 1 - p \in 1 .. q
      \/ n > 1 /\ n > 1 + p /\ n > 1 + p + q
  BY <1>1, <1>2
<1>4. AndVar(c, 0) = 1 + p + q /\ AndVar(c, n - AndVar(c, 0)) = n
  BY <1>1, <1>2
<1>5. n > 1 + p + q => n - AndVar(c, 0) \in 1 .. r
  BY <1>1, <1>2, <1>4
<1> QED
  BY <1>2, <1>3, <1>4, <1>5 DEF p, q, r

LEMMA FaninType ==
  ASSUME NEW c, IsCircuit(c), NEW i \in 1 .. Len(c.ands)
  PROVE  /\ AndVar(c, i) - 1 \in Nat
         /\ c.ands[i].i1 \in LitOf(AndVar(c, i) - 1) /\ c.ands[i].i2 \in LitOf(AndVar(c, i) - 1)
<1>1. c.num_inputs \in Nat /\ c.num_latches \in Nat /\ i \in Nat /\ i > 0
  BY CircuitNumbers
<1>2. AndVar(c, i) - 1 \in Nat
  BY <1>1 DEF AndVar
<1>3. c.ands[i].i1 \in LitOf(AndVar(c, i) - 1) /\ c.ands[i].i2 \in LitOf(AndVar(c, i) - 1)
  BY DEF IsCircuit
<1> QED
  BY <1>2, <1>3

-----------------------------------------------------------------------------
(* Settle: its equation, its type, and that it is the only solution.       *)
SettleAt(c, x, i, v, n) ==
  IF n = 1 THEN FALSE
  ELSE IF n <= InputVar(c, c.num_inputs) THEN i[n - 1]
  ELSE IF n <= LatchVar(c, c.num_latches) THEN x[n - 1 - c.num_inputs]
  ELSE LET a == c.ands[n - AndVar(c, 0)] IN Holds(v, a.i1) /\ Holds(v, a.i2)

Bits(n) == [1 .. n -> BOOLEAN]

LEMMA SettleLocal ==
  ASSUME NEW c, IsCircuit(c), NEW x, NEW i, NEW v, NEW w, NEW n \in 1 .. NumVars(c),
         \A m \in 1 .. n - 1 : v[m] = w[m]
  PROVE  SettleAt(c, x, i, v, n) = SettleAt(c, x, i, w, n)
<1>1. CASE n > 1 /\ n > InputVar(c, c.num_inputs) /\ n > LatchVar(c, c.num_latches)
  <2>0. n - AndVar(c, 0) \in 1 .. Len(c.ands) /\ AndVar(c, n - AndVar(c, 0)) = n
    BY <1>1, VariableKinds, CircuitNumbers DEF InputVar, LatchVar, AndVar, NumVars
  <2> DEFINE a == c.ands[n - AndVar(c, 0)]
  <2>1. n - 1 \in Nat /\ a.i1 \in LitOf(n - 1) /\ a.i2 \in LitOf(n - 1)
    BY <2>0, FaninType
  <2>2. Holds(v, a.i1) = Holds(w, a.i1) /\ Holds(v, a.i2) = Holds(w, a.i2)
    BY <2>1, HoldsAgrees
  <2> QED
    BY <2>2 DEF SettleAt
<1>2. CASE ~(n > 1 /\ n > InputVar(c, c.num_inputs) /\ n > LatchVar(c, c.num_latches))
  <2>1. n = 1 \/ n <= InputVar(c, c.num_inputs) \/ n <= LatchVar(c, c.num_latches)
    BY <1>2, CircuitNumbers DEF InputVar, LatchVar
  <2> QED
    BY <2>1 DEF SettleAt
<1> QED
  BY <1>1, <1>2

LEMMA SettleAtType ==
  ASSUME NEW c, IsCircuit(c), NEW x \in Bits(c.num_latches), NEW i \in Bits(c.num_inputs),
         NEW n \in 1 .. NumVars(c), NEW v, \A m \in 1 .. n - 1 : v[m] \in BOOLEAN
  PROVE  SettleAt(c, x, i, v, n) \in BOOLEAN
<1>0. NumVars(c) \in Nat /\ InputVar(c, c.num_inputs) \in Nat /\ LatchVar(c, c.num_latches) \in Nat
  BY CircuitNumbers DEF InputVar, LatchVar
<1>1. CASE n = 1
  BY <1>1 DEF SettleAt
<1>2. CASE n > 1 /\ n <= InputVar(c, c.num_inputs) /\ n - 1 \in 1 .. c.num_inputs
  BY <1>2 DEF SettleAt, Bits
<1>3. CASE /\ n > 1 /\ n > InputVar(c, c.num_inputs) /\ n <= LatchVar(c, c.num_latches)
           /\ n - 1 - c.num_inputs \in 1 .. c.num_latches
  <2>1. n # 1 /\ ~(n <= InputVar(c, c.num_inputs))
    BY <1>0, <1>3
  <2>2. x[n - 1 - c.num_inputs] \in BOOLEAN
    BY <1>3 DEF Bits
  <2> QED
    BY <1>3, <2>1, <2>2 DEF SettleAt
<1>4. CASE n > 1 /\ n > InputVar(c, c.num_inputs) /\ n > LatchVar(c, c.num_latches)
  <2>1. n # 1 /\ ~(n <= InputVar(c, c.num_inputs)) /\ ~(n <= LatchVar(c, c.num_latches))
    BY <1>0, <1>4
  <2> QED
    BY <2>1 DEF SettleAt
<1> QED
  BY <1>1, <1>2, <1>3, <1>4, VariableKinds

LEMMA SettleDefined ==
  ASSUME NEW c, IsCircuit(c), NEW x \in Bits(c.num_latches), NEW i \in Bits(c.num_inputs)
  PROVE  Settle(c, x, i) = [n \in 1 .. NumVars(c) |-> SettleAt(c, x, i, Settle(c, x, i), n)]
<1> DEFINE D == 1 .. NumVars(c)
<1> DEFINE r == [n \in D |-> n]
<1> DEFINE b == [p \in [D -> BOOLEAN] \X D |-> SettleAt(c, x, i, p[1], p[2])]
<1>1. NumVars(c) \in Nat /\ r \in [D -> 0 .. NumVars(c)] /\ FALSE \in BOOLEAN
  BY CircuitNumbers
<1>2. ASSUME NEW f \in [D -> BOOLEAN], NEW n \in D
      PROVE  SettleAt(c, x, i, f, n) \in BOOLEAN
  <2>1. \A m \in 1 .. n - 1 : f[m] \in BOOLEAN
    BY <1>1
  <2> QED
    BY <2>1, SettleAtType
<1>3. b \in [[D -> BOOLEAN] \X D -> BOOLEAN]
  BY <1>2
<1>4. \A f \in [D -> BOOLEAN], n \in D : b[<<f, n>>] = SettleAt(c, x, i, f, n)
  OBVIOUS
<1>5. ASSUME NEW n \in D, NEW f \in [D -> BOOLEAN], NEW g \in [D -> BOOLEAN],
             \A m \in D : r[m] < r[n] => f[m] = g[m]
      PROVE  b[<<f, n>>] = b[<<g, n>>]
  <2>1. \A m \in 1 .. n - 1 : f[m] = g[m]
    BY <1>1, <1>5
  <2>2. SettleAt(c, x, i, f, n) = SettleAt(c, x, i, g, n)
    BY <2>1, SettleLocal
  <2> HIDE DEF b, D
  <2> QED
    BY <1>4, <2>2
<1> DEFINE V == BOOLEAN
<1> DEFINE e == FALSE
<1> HIDE DEF b, r, D, V, e
<1>a. e \in V /\ b \in [[D -> V] \X D -> V] /\ r \in [D -> 0 .. NumVars(c)] /\ NumVars(c) \in Nat
  BY <1>1, <1>3 DEF V, e
<1>b. ByRank(D, V, r, b)
  BY <1>5 DEF V, ByRank
<1>c. \E f : Fixpoint(D, V, b, f)
  BY <1>a, <1>b, RecursiveFunction
<1>6. \E f \in [D -> BOOLEAN] : \A n \in D : f[n] = b[<<f, n>>]
  BY <1>c DEF V, Fixpoint
<1>7. PICK f \in [D -> BOOLEAN] : \A n \in D : f[n] = SettleAt(c, x, i, f, n)
  BY <1>4, <1>6
<1>8. f = [n \in D |-> SettleAt(c, x, i, f, n)]
  BY <1>7
<1> QED
  BY <1>8 DEF Settle, SettleAt, D

LEMMA SettleUnique ==
  ASSUME NEW c, IsCircuit(c), NEW x \in Bits(c.num_latches), NEW i \in Bits(c.num_inputs), NEW w,
         \A n \in 1 .. NumVars(c) : w[n] = SettleAt(c, x, i, w, n)
  PROVE  \A n \in 1 .. NumVars(c) : Settle(c, x, i)[n] = w[n]
<1> DEFINE s == Settle(c, x, i)
<1> DEFINE D == 1 .. NumVars(c)
<1> DEFINE S == {n \in D : s[n] = w[n]}
<1> DEFINE r == [n \in D |-> n]
<1>1. \A n \in D : s[n] = SettleAt(c, x, i, s, n)
  BY SettleDefined
<1> HIDE DEF s
<1>2. \A n \in D : r[n] \in Nat
  BY CircuitNumbers
<1>3. ASSUME NEW n \in D, \A m \in D : r[m] < r[n] => m \in S PROVE n \in S
  <2>1. \A m \in 1 .. n - 1 : s[m] = w[m]
    BY <1>3, CircuitNumbers
  <2>2. SettleAt(c, x, i, s, n) = SettleAt(c, x, i, w, n)
    BY <2>1, SettleLocal
  <2> QED
    BY <1>1, <2>2
<1> HIDE DEF S, r, D
<1>4. \A n \in D : n \in S
  BY <1>2, <1>3, RankInduction
<1> QED
  BY <1>4 DEF S, D, s

LEMMA SettleType ==
  ASSUME NEW c, IsCircuit(c), NEW x \in Bits(c.num_latches), NEW i \in Bits(c.num_inputs)
  PROVE  \A n \in 1 .. NumVars(c) : Settle(c, x, i)[n] \in BOOLEAN
<1> DEFINE s == Settle(c, x, i)
<1> DEFINE D == 1 .. NumVars(c)
<1> DEFINE S == {n \in D : s[n] \in BOOLEAN}
<1> DEFINE r == [n \in D |-> n]
<1>1. \A n \in D : s[n] = SettleAt(c, x, i, s, n)
  BY SettleDefined
<1> HIDE DEF s
<1>2. \A n \in D : r[n] \in Nat
  BY CircuitNumbers
<1>3. ASSUME NEW n \in D, \A m \in D : r[m] < r[n] => m \in S PROVE n \in S
  <2>1. \A m \in 1 .. n - 1 : s[m] \in BOOLEAN
    BY <1>3, CircuitNumbers
  <2>2. SettleAt(c, x, i, s, n) \in BOOLEAN
    BY <2>1, SettleAtType
  <2> QED
    BY <1>1, <2>2
<1> HIDE DEF S, r, D
<1>4. \A n \in D : n \in S
  BY <1>2, <1>3, RankInduction
<1> QED
  BY <1>4 DEF S, D, s

-----------------------------------------------------------------------------
(* A circuit with more gates gives the variables of the first the same     *)
(* values, and a gate the conjunction of its fan-ins.                      *)
MoreGates(c, d) ==
  /\ d.num_inputs = c.num_inputs /\ d.num_latches = c.num_latches /\ Len(c.ands) <= Len(d.ands)
  /\ \A k \in 1 .. Len(c.ands) : d.ands[k] = c.ands[k]

LEMMA SettleExtends ==
  ASSUME NEW c, NEW d, IsCircuit(c), IsCircuit(d), MoreGates(c, d),
         NEW x \in Bits(c.num_latches), NEW i \in Bits(c.num_inputs)
  PROVE  \A n \in 1 .. NumVars(c) : Settle(d, x, i)[n] = Settle(c, x, i)[n]
<1> DEFINE w == Settle(d, x, i)
<1>1. x \in Bits(d.num_latches) /\ i \in Bits(d.num_inputs)
  BY DEF MoreGates
<1>2. NumVars(c) \in Nat /\ NumVars(d) \in Nat /\ NumVars(c) <= NumVars(d)
  BY CircuitNumbers DEF NumVars, MoreGates
<1>3. ASSUME NEW n \in 1 .. NumVars(c) PROVE w[n] = SettleAt(c, x, i, w, n)
  <2>1. n \in 1 .. NumVars(d)
    BY <1>2
  <2>2. w[n] = SettleAt(d, x, i, w, n)
    BY <1>1, <2>1, SettleDefined
  <2>3. /\ InputVar(d, d.num_inputs) = InputVar(c, c.num_inputs)
        /\ LatchVar(d, d.num_latches) = LatchVar(c, c.num_latches) /\ AndVar(d, 0) = AndVar(c, 0)
    BY DEF MoreGates, InputVar, LatchVar, AndVar
  <2>4. CASE n > 1 /\ n > InputVar(c, c.num_inputs) /\ n > LatchVar(c, c.num_latches)
    <3>1. n - AndVar(c, 0) \in 1 .. Len(c.ands)
      BY <2>4, VariableKinds, CircuitNumbers DEF InputVar, LatchVar, AndVar, NumVars
    <3>2. d.ands[n - AndVar(c, 0)] = c.ands[n - AndVar(c, 0)]
      BY <3>1 DEF MoreGates
    <3> QED
      BY <2>2, <2>3, <3>2 DEF SettleAt, MoreGates
  <2>5. CASE ~(n > 1 /\ n > InputVar(c, c.num_inputs) /\ n > LatchVar(c, c.num_latches))
    <3>1. n = 1 \/ n <= InputVar(c, c.num_inputs) \/ n <= LatchVar(c, c.num_latches)
      BY <2>5, CircuitNumbers DEF InputVar, LatchVar
    <3> QED
      BY <2>2, <2>3, <3>1 DEF SettleAt, MoreGates
  <2> QED
    BY <2>4, <2>5
<1> HIDE DEF w
<1>4. \A n \in 1 .. NumVars(c) : Settle(c, x, i)[n] = w[n]
  BY <1>3, SettleUnique
<1> QED
  BY <1>4 DEF w

LEMMA SettleGate ==
  ASSUME NEW c, IsCircuit(c), NEW x \in Bits(c.num_latches), NEW i \in Bits(c.num_inputs),
         NEW k \in 1 .. Len(c.ands)
  PROVE  Settle(c, x, i)[AndVar(c, k)]
           = (Holds(Settle(c, x, i), c.ands[k].i1) /\ Holds(Settle(c, x, i), c.ands[k].i2))
<1> DEFINE n == AndVar(c, k)
<1> DEFINE ni == c.num_inputs
<1> DEFINE nl == c.num_latches
<1>1. ni \in Nat /\ nl \in Nat /\ k \in Nat /\ k > 0 /\ n \in 1 .. NumVars(c)
  BY CircuitNumbers
<1>2. /\ n = 1 + ni + nl + k /\ AndVar(c, 0) = 1 + ni + nl + 0
      /\ InputVar(c, ni) = 1 + ni /\ LatchVar(c, nl) = 1 + ni + nl
  BY DEF AndVar, InputVar, LatchVar
<1>3. Settle(c, x, i)[n] = SettleAt(c, x, i, Settle(c, x, i), n)
  BY <1>1, SettleDefined
<1> HIDE DEF n, ni, nl
<1>4. n # 1 /\ ~(n <= InputVar(c, ni)) /\ ~(n <= LatchVar(c, nl)) /\ n - AndVar(c, 0) = k
  BY <1>1, <1>2
<1> QED
  BY <1>3, <1>4 DEF SettleAt, n, ni, nl
=============================================================================
