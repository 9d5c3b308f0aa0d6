------------------------- MODULE CertificateProofs -------------------------
(***************************************************************************)
(* The files, for all circuits and all sets of cubes. The gates propagate  *)
(* adds for a certificate mean the invariant; the reader takes a file      *)
(* without justice and fairness for the circuit it lists, in both formats; *)
(* and it takes the certificate for the circuit that was written.          *)
(***************************************************************************)
EXTENDS Certificate, GatesProofs, FiniteSetTheorems, SequenceTheorems

Gate == [i1 : Int, i2 : Int]

(* The number of variables once the gates gs are there, and the literals   *)
(* over them.                                                              *)
Size(c, gs) == 1 + c.num_inputs + c.num_latches + Len(gs)

(* Gates that extend those of the circuit, each over earlier variables.    *)
GatesOK(c, gs) ==
  /\ gs \in Seq(Gate) /\ Len(c.ands) <= Len(gs)
  /\ \A k \in 1 .. Len(c.ands) : gs[k] = c.ands[k]
  /\ \A k \in 1 .. Len(gs) : gs[k].i1 \in LitOf(AndVar(c, k) - 1) /\ gs[k].i2 \in LitOf(AndVar(c, k) - 1)

(* The circuit with other gates and another bad literal.                   *)
With(c, gs, b) ==
  [num_inputs |-> c.num_inputs, num_latches |-> c.num_latches, ands |-> gs, nexts |-> c.nexts,
   init_state |-> c.init_state, constraints |-> c.constraints, bad |-> b]

LEMMA SizeType ==
  ASSUME NEW c, IsCircuit(c), NEW gs, GatesOK(c, gs)
  PROVE  Size(c, gs) \in Nat /\ NumVars(c) \in Nat /\ NumVars(c) <= Size(c, gs) /\ 1 <= NumVars(c)
<1> DEFINE ni == c.num_inputs
<1> DEFINE nl == c.num_latches
<1> DEFINE na == Len(c.ands)
<1> DEFINE nb == Len(gs)
<1>1. ni \in Nat /\ nl \in Nat /\ na \in Nat /\ nb \in Nat /\ na <= nb
  BY CircuitNumbers, LenProperties DEF GatesOK
<1>2. Size(c, gs) = 1 + ni + nl + nb /\ NumVars(c) = 1 + ni + nl + na
  BY DEF Size, NumVars
<1> HIDE DEF ni, nl, na, nb
<1> QED
  BY <1>1, <1>2

LEMMA WithCircuit ==
  ASSUME NEW c, IsCircuit(c), NEW gs, GatesOK(c, gs), NEW b \in LitOf(Size(c, gs))
  PROVE  /\ IsCircuit(With(c, gs, b)) /\ NumVars(With(c, gs, b)) = Size(c, gs)
         /\ MoreGates(c, With(c, gs, b))
<1> DEFINE d == With(c, gs, b)
<1>1. /\ d.num_inputs = c.num_inputs /\ d.num_latches = c.num_latches /\ d.ands = gs
      /\ d.nexts = c.nexts /\ d.init_state = c.init_state /\ d.constraints = c.constraints /\ d.bad = b
  BY DEF With
<1> HIDE DEF d
<1>2. NumVars(d) = Size(c, gs) /\ \A k : AndVar(d, k) = AndVar(c, k) /\ LatchVar(d, k) = LatchVar(c, k)
  BY <1>1 DEF NumVars, Size, AndVar, LatchVar
<1>3. LitOf(NumVars(c)) \subseteq LitOf(NumVars(d))
  <2>1. Size(c, gs) \in Int /\ NumVars(c) \in Int /\ NumVars(c) <= Size(c, gs)
    BY SizeType
  <2>2. LitOf(NumVars(c)) \subseteq LitOf(Size(c, gs))
    BY <2>1, LitOfMonotone
  <2> QED
    BY <1>2, <2>2
<1>4. /\ c.num_inputs \in Nat /\ c.num_latches \in Nat
      /\ d.ands \in Seq([i1 : Int, i2 : Int]) /\ Len(d.ands) \in Nat
  BY <1>1, CircuitNumbers, LenProperties DEF GatesOK, Gate
<1>5. d.nexts \in [1 .. d.num_latches -> LitOf(NumVars(d))]
  <2>1. c.nexts \in [1 .. c.num_latches -> LitOf(NumVars(c))]
    BY DEF IsCircuit
  <2> QED
    BY <1>1, <1>3, <2>1
<1>6. /\ d.init_state \subseteq
          {l \in LitOf(NumVars(d)) : \E j \in 1 .. d.num_latches : l = LatchVar(d, j) \/ l = -LatchVar(d, j)}
      /\ \A l \in d.init_state : -l \notin d.init_state
  <2>1. /\ c.init_state \subseteq
            {l \in LitOf(NumVars(c)) : \E j \in 1 .. c.num_latches : l = LatchVar(c, j) \/ l = -LatchVar(c, j)}
        /\ \A l \in c.init_state : -l \notin c.init_state
    BY DEF IsCircuit
  <2> QED
    BY <1>1, <1>2, <1>3, <2>1
<1>7. d.constraints \subseteq LitOf(NumVars(d)) /\ d.bad \in LitOf(NumVars(d))
  <2>1. c.constraints \subseteq LitOf(NumVars(c))
    BY DEF IsCircuit
  <2> QED
    BY <1>1, <1>2, <1>3, <2>1
<1>8. \A k \in 1 .. Len(d.ands) :
        d.ands[k].i1 \in LitOf(AndVar(d, k) - 1) /\ d.ands[k].i2 \in LitOf(AndVar(d, k) - 1)
  BY <1>1, <1>2 DEF GatesOK
<1>9. IsCircuit(d)
  BY <1>1, <1>4, <1>5, <1>6, <1>7, <1>8 DEF IsCircuit
<1>10. MoreGates(c, d)
  BY <1>1 DEF MoreGates, GatesOK
<1> QED
  BY <1>2, <1>9, <1>10 DEF d

(* One more gate.                                                          *)
LEMMA GateAppended ==
  ASSUME NEW c, IsCircuit(c), NEW gs, GatesOK(c, gs),
         NEW l \in LitOf(Size(c, gs)), NEW m \in LitOf(Size(c, gs))
  PROVE  LET bs == Append(gs, GateOver(l, m)) IN
         /\ GatesOK(c, bs) /\ Size(c, bs) = Size(c, gs) + 1
         /\ Len(bs) = Len(gs) + 1 /\ bs[Len(bs)] = GateOver(l, m)
         /\ \A k \in 1 .. Len(gs) : bs[k] = gs[k]
<1> DEFINE g == GateOver(l, m)
<1> DEFINE bs == Append(gs, g)
<1>1. g \in Gate /\ g.i1 \in LitOf(Size(c, gs)) /\ g.i2 \in LitOf(Size(c, gs))
  <2>1. l \in Int /\ m \in Int
    BY DEF LitOf
  <2> QED
    BY <2>1 DEF GateOver, Gate
<1> HIDE DEF g
<1>2. gs \in Seq(Gate) /\ Len(gs) \in Nat
  BY LenProperties DEF GatesOK
<1>3. /\ Append(gs, g) \in Seq(Gate) /\ Len(Append(gs, g)) = Len(gs) + 1
      /\ Append(gs, g)[Len(gs) + 1] = g
      /\ \A k \in 1 .. Len(gs) : Append(gs, g)[k] = gs[k]
  BY <1>1, <1>2, AppendProperties
<1> DEFINE N == Len(gs)
<1> DEFINE M == Len(c.ands)
<1> DEFINE ni == c.num_inputs
<1> DEFINE nl == c.num_latches
<1>a. /\ N \in Nat /\ M \in Nat /\ M <= N /\ ni \in Nat /\ nl \in Nat
      /\ \A k \in 1 .. M : gs[k] = c.ands[k]
      /\ \A k \in 1 .. N : gs[k].i1 \in LitOf(AndVar(c, k) - 1) /\ gs[k].i2 \in LitOf(AndVar(c, k) - 1)
  BY <1>2, CircuitNumbers DEF GatesOK
<1>b. bs \in Seq(Gate) /\ Len(bs) = N + 1 /\ bs[N + 1] = g /\ \A k \in 1 .. N : bs[k] = gs[k]
  BY <1>3
<1>c. /\ Size(c, bs) = 1 + ni + nl + Len(bs) /\ Size(c, gs) = 1 + ni + nl + N
      /\ AndVar(c, N + 1) = 1 + ni + nl + (N + 1)
  BY DEF Size, AndVar
<1> HIDE DEF bs, N, M, ni, nl
<1>4. Size(c, bs) = Size(c, gs) + 1 /\ AndVar(c, N + 1) - 1 = Size(c, gs)
  BY <1>a, <1>b, <1>c
<1>5. \A k : k \in 1 .. N + 1 <=> k \in 1 .. N \/ k = N + 1
  BY <1>a
<1>6. \A k \in 1 .. M : k \in 1 .. N
  BY <1>a
<1>7. ASSUME NEW k \in 1 .. Len(bs)
      PROVE  bs[k].i1 \in LitOf(AndVar(c, k) - 1) /\ bs[k].i2 \in LitOf(AndVar(c, k) - 1)
  <2>1. CASE k = N + 1
    BY <1>1, <1>b, <1>4, <2>1
  <2>2. CASE k \in 1 .. N
    BY <1>a, <1>b, <2>2
  <2> QED
    BY <1>b, <1>5, <2>1, <2>2
<1>8. M <= Len(bs) /\ \A k \in 1 .. M : bs[k] = c.ands[k]
  <2>1. M <= N + 1
    BY <1>a
  <2> QED
    BY <1>a, <1>b, <1>6, <2>1
<1>9. GatesOK(c, bs)
  BY <1>b, <1>7, <1>8 DEF GatesOK, M
<1> QED
  BY <1>b, <1>4, <1>9 DEF bs, g, N
-----------------------------------------------------------------------------
(* The values of the variables with the gates gs.                          *)
Val(c, gs, x, i) == Settle(With(c, gs, c.bad), x, i)

LEMMA WithOwnBad ==
  ASSUME NEW c, IsCircuit(c), NEW gs, GatesOK(c, gs)
  PROVE  /\ IsCircuit(With(c, gs, c.bad)) /\ NumVars(With(c, gs, c.bad)) = Size(c, gs)
         /\ MoreGates(c, With(c, gs, c.bad)) /\ With(c, gs, c.bad).ands = gs
         /\ With(c, gs, c.bad).num_inputs = c.num_inputs /\ With(c, gs, c.bad).num_latches = c.num_latches
<1>1. Size(c, gs) \in Int /\ NumVars(c) \in Int /\ NumVars(c) <= Size(c, gs)
  BY SizeType
<1>2. c.bad \in LitOf(Size(c, gs))
  BY <1>1, LitOfMonotone DEF IsCircuit
<1>3. /\ With(c, gs, c.bad).ands = gs
      /\ With(c, gs, c.bad).num_inputs = c.num_inputs /\ With(c, gs, c.bad).num_latches = c.num_latches
  BY DEF With
<1> QED
  BY <1>2, <1>3, WithCircuit

LEMMA ValOrig ==
  ASSUME NEW c, IsCircuit(c), NEW gs, GatesOK(c, gs),
         NEW x \in Bits(c.num_latches), NEW i \in Bits(c.num_inputs)
  PROVE  /\ \A n \in 1 .. NumVars(c) : Val(c, gs, x, i)[n] = Settle(c, x, i)[n]
         /\ \A l \in LitOf(NumVars(c)) : Holds(Val(c, gs, x, i), l) = Holds(Settle(c, x, i), l)
<1>1. NumVars(c) \in Nat
  BY CircuitNumbers
<1>2. \A n \in 1 .. NumVars(c) : Val(c, gs, x, i)[n] = Settle(c, x, i)[n]
  BY WithOwnBad, SettleExtends DEF Val
<1> QED
  BY <1>1, <1>2, HoldsAgrees

LEMMA ValType ==
  ASSUME NEW c, IsCircuit(c), NEW gs, GatesOK(c, gs),
         NEW x \in Bits(c.num_latches), NEW i \in Bits(c.num_inputs), NEW l \in LitOf(Size(c, gs))
  PROVE  /\ Holds(Val(c, gs, x, i), l) \in BOOLEAN
         /\ Holds(Val(c, gs, x, i), -l) = ~Holds(Val(c, gs, x, i), l)
<1> DEFINE w == Val(c, gs, x, i)
<1>1. \A n \in 1 .. Size(c, gs) : w[n] \in BOOLEAN
  BY WithOwnBad, SettleType DEF Val
<1> HIDE DEF w
<1>2. Size(c, gs) \in Nat
  BY SizeType
<1>3. Holds(w, l) \in BOOLEAN
  BY <1>1, <1>2, HoldsType
<1>4. Holds(w, -l) = ~Holds(w, l)
  <2>1. l \in Int /\ l # 0 /\ -(-l) = l
    BY <1>2, LitOfType
  <2>2. CASE l > 0
    <3>1. ~(-l > 0) /\ w[l] \in BOOLEAN
      BY <1>1, <1>2, <2>2, LitOfType
    <3> QED
      BY <2>1, <2>2, <3>1 DEF Holds
  <2>3. CASE ~(l > 0)
    <3>1. -l > 0 /\ w[-l] \in BOOLEAN
      BY <1>1, <1>2, <2>3, LitOfType
    <3> QED
      BY <2>1, <2>3, <3>1 DEF Holds
  <2> QED
    BY <2>2, <2>3
<1> QED
  BY <1>3, <1>4 DEF w

(* A new gate keeps all values, and is the conjunction of its fan-ins.     *)
LEMMA ValAppend ==
  ASSUME NEW c, IsCircuit(c), NEW gs, GatesOK(c, gs),
         NEW x \in Bits(c.num_latches), NEW i \in Bits(c.num_inputs),
         NEW l \in LitOf(Size(c, gs)), NEW m \in LitOf(Size(c, gs))
  PROVE  LET w == Val(c, gs, x, i)
             u == Val(c, Append(gs, GateOver(l, m)), x, i)
         IN /\ \A k \in LitOf(Size(c, gs)) : Holds(u, k) = Holds(w, k)
            /\ Holds(u, Size(c, gs) + 1) = (Holds(w, l) /\ Holds(w, m))
<1> DEFINE g == GateOver(l, m)
<1> DEFINE bs == Append(gs, g)
<1> DEFINE d == With(c, gs, c.bad)
<1> DEFINE e == With(c, bs, c.bad)
<1> DEFINE w == Settle(d, x, i)
<1> DEFINE u == Settle(e, x, i)
<1>1. /\ GatesOK(c, bs) /\ Len(bs) = Len(gs) + 1 /\ bs[Len(bs)] = g
      /\ \A k \in 1 .. Len(gs) : bs[k] = gs[k]
  BY GateAppended
<1>2. (g.i1 = l /\ g.i2 = m) \/ (g.i1 = m /\ g.i2 = l)
  BY DEF GateOver
<1>3. Size(c, gs) \in Nat /\ Len(gs) \in Nat
  BY SizeType, LenProperties DEF GatesOK
<1> HIDE DEF g, bs
<1>4. /\ IsCircuit(d) /\ NumVars(d) = Size(c, gs) /\ d.ands = gs
      /\ d.num_inputs = c.num_inputs /\ d.num_latches = c.num_latches
  BY WithOwnBad
<1>5. /\ IsCircuit(e) /\ e.ands = bs
      /\ e.num_inputs = c.num_inputs /\ e.num_latches = c.num_latches
  BY <1>1, WithOwnBad
<1> HIDE DEF d, e
<1>6. MoreGates(d, e)
  <2>1. Len(gs) <= Len(gs) + 1
    BY <1>3
  <2> QED
    BY <1>1, <1>4, <1>5, <2>1 DEF MoreGates
<1>7. \A n \in 1 .. Size(c, gs) : u[n] = w[n]
  BY <1>4, <1>5, <1>6, SettleExtends
<1>8. AndVar(e, Len(bs)) = Size(c, gs) + 1 /\ Len(bs) \in 1 .. Len(bs)
  <2> DEFINE N == Len(gs)
  <2> DEFINE ni == c.num_inputs
  <2> DEFINE nl == c.num_latches
  <2>1. N \in Nat /\ ni \in Nat /\ nl \in Nat /\ Len(bs) = N + 1
    BY <1>1, <1>3, CircuitNumbers
  <2>2. AndVar(e, N + 1) = 1 + ni + nl + (N + 1) /\ Size(c, gs) = 1 + ni + nl + N
    BY <1>5 DEF AndVar, Size
  <2> HIDE DEF N, ni, nl
  <2>3. AndVar(e, N + 1) = Size(c, gs) + 1 /\ N + 1 \in 1 .. N + 1
    BY <2>1, <2>2
  <2> QED
    BY <2>1, <2>3
<1>9. u[Size(c, gs) + 1] = (Holds(u, g.i1) /\ Holds(u, g.i2))
  <2>1. u[AndVar(e, Len(bs))] = (Holds(u, e.ands[Len(bs)].i1) /\ Holds(u, e.ands[Len(bs)].i2))
    BY <1>5, <1>8, SettleGate
  <2> QED
    BY <1>1, <1>5, <1>8, <2>1
<1> HIDE DEF u, w
<1>10. \A k \in LitOf(Size(c, gs)) : Holds(u, k) = Holds(w, k)
  BY <1>3, <1>7, HoldsAgrees
<1>11. Holds(u, Size(c, gs) + 1) = u[Size(c, gs) + 1]
  BY <1>3 DEF Holds
<1>12. Holds(u, Size(c, gs) + 1) = (Holds(w, l) /\ Holds(w, m))
  BY <1>2, <1>9, <1>10, <1>11
<1> QED
  BY <1>10, <1>12 DEF Val, u, w, d, e, bs, g

(* The cubes of a certificate are over the circuit's variables; the empty  *)
(* cube and the literal true, which stands for it, both always hold.       *)
LEMMA CubesAreOver ==
  ASSUME NEW c \in Circuits, NEW cs \in CubeSets, NEW d \in WithBad(c, cs)
  PROVE  d \subseteq LitOf(NumVars(c)) /\ Literals(d) \subseteq LitOf(NumVars(c)) /\ Literals(d) # {}
<1>1. IsCircuit(c) /\ NumVars(c) \in Nat /\ 1 \in 1 .. NumVars(c)
  BY CircuitsAssumption, CircuitNumbers
<1>2. c.bad \in LitOf(NumVars(c)) /\ \A l \in c.constraints : l \in LitOf(NumVars(c)) /\ -l \in LitOf(NumVars(c))
  <2>1. c.bad \in LitOf(NumVars(c)) /\ c.constraints \subseteq LitOf(NumVars(c))
    BY <1>1 DEF IsCircuit
  <2> QED
    BY <1>1, <2>1, LitOfType
<1>3. d \subseteq LitOf(NumVars(c))
  BY <1>2, CubesAssumption DEF WithBad
<1>4. -1 \in LitOf(NumVars(c))
  BY <1>1 DEF LitOf
<1> QED
  BY <1>3, <1>4 DEF Literals

LEMMA LiteralsMeanCube ==
  ASSUME NEW c, IsCircuit(c), NEW x \in Bits(c.num_latches), NEW i \in Bits(c.num_inputs), NEW d
  PROVE  In(Settle(c, x, i), d) <=> \A l \in Literals(d) : Holds(Settle(c, x, i), l)
<1>1. Settle(c, x, i)[1] = FALSE
  <2>1. Settle(c, x, i)[1] = SettleAt(c, x, i, Settle(c, x, i), 1)
    BY SettleDefined, CircuitNumbers
  <2> QED
    BY <2>1 DEF SettleAt
<1>2. Holds(Settle(c, x, i), -1) = TRUE
  BY <1>1 DEF Holds
<1> QED
  BY <1>2 DEF In, Literals
-----------------------------------------------------------------------------
(* The inductive invariant.  Where propagate is: a cube is in work until   *)
(* its last gate is there; invariant is set once a cube is complete.       *)
Lits == LitOf(Size(orig, ands))

Typed ==
  /\ orig \in Circuits /\ cubes \in CubeSets /\ GatesOK(orig, ands)
  /\ work \subseteq WithBad(orig, cubes)
  /\ out \in Lits \cup {0} /\ inv \in Lits \cup {0}

Progress ==
  /\ rest # {} \/ out # 0 => cc \in work
  /\ rest \subseteq Literals(cc) \/ rest = {}
  /\ out = 0 /\ rest # {} => rest = Literals(cc)
  /\ inv = 0 <=> Complete = {}

(* What out and invariant mean under values x and i of latches and inputs: *)
(* the literals of the cube so far, and the complete cubes.                *)
OutMeans(x, i) ==
  out # 0 => (Holds(Val(orig, ands, x, i), out)
                <=> \A l \in Literals(cc) \ rest : Holds(Settle(orig, x, i), l))

InvMeans(x, i) ==
  inv # 0 => (Holds(Val(orig, ands, x, i), inv)
                <=> \A c \in Complete : ~In(Settle(orig, x, i), c))

Means == \A x \in Bits(orig.num_latches), i \in Bits(orig.num_inputs) : OutMeans(x, i) /\ InvMeans(x, i)

Inv == Certifying => Typed /\ Progress /\ Means

LEMMA TypedFacts ==
  ASSUME Typed
  PROVE  /\ IsCircuit(orig) /\ Size(orig, ands) \in Nat /\ NewGate(ands) = Size(orig, ands) + 1
         /\ LitOf(NumVars(orig)) \subseteq Lits
         /\ \A l \in Lits : l # 0 /\ -l # 0 /\ -l \in Lits /\ -(-l) = l
<1>1. IsCircuit(orig) /\ GatesOK(orig, ands)
  BY CircuitsAssumption DEF Typed
<1>2. Size(orig, ands) \in Nat /\ NumVars(orig) \in Nat /\ NumVars(orig) <= Size(orig, ands)
  BY <1>1, SizeType
<1>3. NewGate(ands) = Size(orig, ands) + 1
  BY DEF NewGate, Size
<1>4. \A l \in LitOf(Size(orig, ands)) : l \in Int /\ l # 0 /\ -l \in LitOf(Size(orig, ands)) /\ -(-l) = l
  BY <1>2, LitOfType
<1>5. \A l \in LitOf(Size(orig, ands)) : -l # 0
  BY <1>4
<1> QED
  BY <1>1, <1>2, <1>3, <1>4, <1>5, LitOfMonotone DEF Lits

LEMMA SameCertificate ==
  ASSUME Inv, UNCHANGED certVars
  PROVE  Inv'
<1>1. /\ orig' = orig /\ cubes' = cubes /\ work' = work /\ cc' = cc /\ rest' = rest
      /\ out' = out /\ ands' = ands /\ inv' = inv
  BY DEF certVars
<1>2. Lits' = Lits /\ Complete' = Complete /\ (Certifying' <=> Certifying)
  BY <1>1 DEF Lits, Complete, Certifying
<1>3. Typed => Typed'
  BY <1>1, <1>2 DEF Typed
<1>4. Progress => Progress'
  BY <1>1, <1>2 DEF Progress
<1>5. Means => Means'
  BY <1>1, <1>2 DEF Means, OutMeans, InvMeans
<1> QED
  BY <1>2, <1>3, <1>4, <1>5 DEF Inv

LEMMA InvNextCube ==
  ASSUME Typed, Progress, Means, NextCube
  PROVE  Typed' /\ Progress' /\ Means'
<1>1. /\ orig' = orig /\ cubes' = cubes /\ work' = work /\ ands' = ands /\ inv' = inv /\ out' = out
      /\ out = 0 /\ cc' \in work /\ rest' = Literals(cc')
  BY DEF NextCube
<1>2. Lits' = Lits /\ Complete' = Complete
  BY <1>1 DEF Lits, Complete
<1>3. Typed'
  BY <1>1, <1>2 DEF Typed
<1>4. Progress'
  BY <1>1, <1>2 DEF Progress
<1>5. Means'
  BY <1>1, <1>2 DEF Means, OutMeans, InvMeans
<1> QED
  BY <1>3, <1>4, <1>5
(* One more gate in the certificate.                                       *)
LEMMA GateStep ==
  ASSUME Typed, NEW l \in Lits, NEW m \in Lits, orig' = orig, ands' = Append(ands, GateOver(l, m))
  PROVE  /\ GatesOK(orig, ands') /\ Lits \subseteq Lits' /\ NewGate(ands) \in Lits' /\ NewGate(ands) # 0
         /\ \A x \in Bits(orig.num_latches), i \in Bits(orig.num_inputs) :
              /\ \A k \in Lits : Holds(Val(orig, ands', x, i), k) = Holds(Val(orig, ands, x, i), k)
              /\ Holds(Val(orig, ands', x, i), NewGate(ands))
                   = (Holds(Val(orig, ands, x, i), l) /\ Holds(Val(orig, ands, x, i), m))
<1> DEFINE N == Size(orig, ands)
<1>1. IsCircuit(orig) /\ GatesOK(orig, ands) /\ N \in Nat /\ NewGate(ands) = N + 1 /\ Lits = LitOf(N)
  BY TypedFacts DEF Typed, Lits
<1>2. GatesOK(orig, ands') /\ Size(orig, ands') = N + 1
  BY <1>1, GateAppended
<1>3. Lits' = LitOf(N + 1)
  BY <1>2 DEF Lits
<1>4. ASSUME NEW x \in Bits(orig.num_latches), NEW i \in Bits(orig.num_inputs)
      PROVE  /\ \A k \in Lits : Holds(Val(orig, ands', x, i), k) = Holds(Val(orig, ands, x, i), k)
             /\ Holds(Val(orig, ands', x, i), NewGate(ands))
                  = (Holds(Val(orig, ands, x, i), l) /\ Holds(Val(orig, ands, x, i), m))
  BY <1>1, ValAppend
<1> HIDE DEF N
<1>5. LitOf(N) \subseteq LitOf(N + 1) /\ N + 1 \in LitOf(N + 1) /\ N + 1 # 0
  BY <1>1 DEF LitOf
<1> QED
  BY <1>1, <1>2, <1>3, <1>4, <1>5

LEMMA InvAddLiteral ==
  ASSUME Typed, Progress, Means, AddLiteral
  PROVE  Typed' /\ Progress' /\ Means'
<1>1. PICK l \in rest :
        /\ rest' = rest \ {l}
        /\ IF out = 0
           THEN out' = l /\ ands' = ands
           ELSE out' = NewGate(ands) /\ ands' = Append(ands, GateOver(out, l))
  BY DEF AddLiteral
<1>2. orig' = orig /\ cubes' = cubes /\ work' = work /\ cc' = cc /\ inv' = inv
  BY DEF AddLiteral
<1>3. cc \in work /\ rest \subseteq Literals(cc) /\ (out = 0 => rest = Literals(cc))
  BY DEF Progress
<1>4. IsCircuit(orig) /\ l \in LitOf(NumVars(orig)) /\ l \in Lits /\ l # 0
  <2>1. Literals(cc) \subseteq LitOf(NumVars(orig))
    BY <1>3, CubesAreOver DEF Typed
  <2> QED
    BY <1>3, <2>1, TypedFacts
<1>5. Complete' = Complete
  BY <1>2 DEF Complete
<1>6. CASE out = 0
  <2>1. out' = l /\ ands' = ands /\ Lits' = Lits /\ Literals(cc) \ rest' = {l}
    BY <1>1, <1>2, <1>3, <1>6 DEF Lits
  <2>2. Typed'
    BY <1>2, <1>4, <2>1 DEF Typed
  <2>3. Progress'
    BY <1>1, <1>2, <1>3, <1>4, <1>5, <2>1 DEF Progress
  <2>4. ASSUME NEW x \in Bits(orig.num_latches), NEW i \in Bits(orig.num_inputs)
        PROVE  Holds(Val(orig, ands, x, i), l) = Holds(Settle(orig, x, i), l)
    BY <1>4, ValOrig DEF Typed
  <2>5. Means'
    BY <1>2, <1>5, <2>1, <2>4 DEF Means, OutMeans, InvMeans
  <2> QED
    BY <2>2, <2>3, <2>5
<1>7. CASE out # 0
  <2>1. out' = NewGate(ands) /\ ands' = Append(ands, GateOver(out, l)) /\ out \in Lits
    BY <1>1, <1>7 DEF Typed
  <2>2. /\ GatesOK(orig, ands') /\ Lits \subseteq Lits' /\ out' \in Lits' /\ out' # 0
        /\ \A x \in Bits(orig.num_latches), i \in Bits(orig.num_inputs) :
             /\ \A k \in Lits : Holds(Val(orig, ands', x, i), k) = Holds(Val(orig, ands, x, i), k)
             /\ Holds(Val(orig, ands', x, i), out')
                  = (Holds(Val(orig, ands, x, i), out) /\ Holds(Val(orig, ands, x, i), l))
    BY <1>2, <1>4, <2>1, GateStep
  <2>3. Typed'
    BY <1>2, <2>2 DEF Typed
  <2>4. Progress'
    BY <1>1, <1>2, <1>3, <1>5, <2>2 DEF Progress
  <2>5. ASSUME NEW x \in Bits(orig.num_latches), NEW i \in Bits(orig.num_inputs)
        PROVE  OutMeans(x, i)' /\ InvMeans(x, i)'
    <3> DEFINE v == Settle(orig, x, i)
    <3>1. Holds(Val(orig, ands, x, i), out) <=> \A k \in Literals(cc) \ rest : Holds(v, k)
      BY <1>7 DEF Means, OutMeans
    <3>2. Holds(Val(orig, ands, x, i), l) = Holds(v, l)
      BY <1>4, ValOrig DEF Typed
    <3>3. Literals(cc) \ rest' = (Literals(cc) \ rest) \cup {l}
      BY <1>1, <1>3
    <3>4. Holds(Val(orig, ands', x, i), out') <=> \A k \in Literals(cc) \ rest' : Holds(v, k)
      BY <2>2, <3>1, <3>2, <3>3
    <3>5. inv # 0 => Holds(Val(orig, ands', x, i), inv) = Holds(Val(orig, ands, x, i), inv)
      BY <2>2 DEF Typed
    <3>6. OutMeans(x, i)'
      BY <1>2, <3>4 DEF OutMeans
    <3>7. InvMeans(x, i)'
      BY <1>2, <1>5, <3>5 DEF Means, InvMeans
    <3> QED
      BY <3>6, <3>7
  <2> QED
    BY <1>2, <2>3, <2>4, <2>5 DEF Means
<1> QED
  BY <1>6, <1>7

LEMMA InvEndCube ==
  ASSUME Typed, Progress, Means, EndCube
  PROVE  Typed' /\ Progress' /\ Means'
<1>1. /\ orig' = orig /\ cubes' = cubes /\ cc' = cc /\ rest' = rest /\ rest = {} /\ out # 0
      /\ work' = work \ {cc} /\ out' = 0
      /\ IF inv = 0
         THEN inv' = -out /\ ands' = ands
         ELSE inv' = NewGate(ands) /\ ands' = Append(ands, GateOver(-out, inv))
  BY DEF EndCube
<1>2. /\ IsCircuit(orig) /\ GatesOK(orig, ands) /\ out \in Lits /\ -out \in Lits /\ -out # 0
      /\ Lits = LitOf(Size(orig, ands))
  BY <1>1, TypedFacts DEF Typed, Lits
<1>3. cc \in work /\ cc \in WithBad(orig, cubes)
  BY <1>1 DEF Progress, Typed
<1>4. Complete' = Complete \cup {cc}
  BY <1>1, <1>3 DEF Complete
<1>5. ASSUME NEW x \in Bits(orig.num_latches), NEW i \in Bits(orig.num_inputs)
      PROVE  Holds(Val(orig, ands, x, i), -out) <=> ~In(Settle(orig, x, i), cc)
  <2>1. Holds(Val(orig, ands, x, i), out) <=> \A k \in Literals(cc) \ rest : Holds(Settle(orig, x, i), k)
    BY <1>1 DEF Means, OutMeans
  <2>2. Literals(cc) \ rest = Literals(cc)
    BY <1>1
  <2>3. Holds(Val(orig, ands, x, i), out) <=> In(Settle(orig, x, i), cc)
    BY <1>2, <2>1, <2>2, LiteralsMeanCube
  <2>4. Holds(Val(orig, ands, x, i), -out) = ~Holds(Val(orig, ands, x, i), out)
    BY <1>2, ValType
  <2> QED
    BY <2>3, <2>4
<1>6. CASE inv = 0
  <2>1. inv' = -out /\ ands' = ands /\ Complete' = {cc}
    BY <1>1, <1>4, <1>6 DEF Progress
  <2>2. Lits' = Lits
    BY <1>1, <2>1 DEF Lits
  <2>3. Typed'
    BY <1>1, <1>2, <2>1, <2>2 DEF Typed
  <2>4. Progress'
    BY <1>1, <1>2, <2>1 DEF Progress
  <2>5. Means'
    BY <1>1, <1>5, <2>1 DEF Means, OutMeans, InvMeans
  <2> QED
    BY <2>3, <2>4, <2>5
<1>7. CASE inv # 0
  <2>1. inv' = NewGate(ands) /\ ands' = Append(ands, GateOver(-out, inv)) /\ inv \in Lits
    BY <1>1, <1>7 DEF Typed
  <2>2. /\ GatesOK(orig, ands') /\ inv' \in Lits' /\ inv' # 0
        /\ \A x \in Bits(orig.num_latches), i \in Bits(orig.num_inputs) :
             Holds(Val(orig, ands', x, i), inv')
               = (Holds(Val(orig, ands, x, i), -out) /\ Holds(Val(orig, ands, x, i), inv))
    BY <1>1, <1>2, <2>1, GateStep
  <2>3. Typed'
    BY <1>1, <2>2 DEF Typed
  <2>4. Progress'
    BY <1>1, <1>4, <2>2 DEF Progress
  <2>5. ASSUME NEW x \in Bits(orig.num_latches), NEW i \in Bits(orig.num_inputs)
        PROVE  OutMeans(x, i)' /\ InvMeans(x, i)'
    <3>1. Holds(Val(orig, ands, x, i), inv) <=> \A c \in Complete : ~In(Settle(orig, x, i), c)
      BY <1>7 DEF Means, InvMeans
    <3>2. Holds(Val(orig, ands', x, i), inv') <=> \A c \in Complete' : ~In(Settle(orig, x, i), c)
      BY <1>4, <1>5, <2>2, <3>1
    <3> QED
      BY <1>1, <3>2 DEF OutMeans, InvMeans
  <2> QED
    BY <1>1, <2>3, <2>4, <2>5 DEF Means
<1> QED
  BY <1>6, <1>7
LEMMA InvNext == Inv /\ [CertNext]_<<vars, certVars>> => Inv'
<1> SUFFICES ASSUME Inv, [CertNext]_<<vars, certVars>> PROVE Inv'
  OBVIOUS
<1>1. CASE UNCHANGED certVars
  BY <1>1, SameCertificate
<1>2. CASE NextCube \/ AddLiteral \/ EndCube
  <2>1. orig' = orig
    BY <1>2 DEF NextCube, AddLiteral, EndCube
  <2>2. Certifying' <=> Certifying
    BY <2>1 DEF Certifying
  <2>3. Typed /\ Progress /\ Means => Typed' /\ Progress' /\ Means'
    BY <1>2, InvNextCube, InvAddLiteral, InvEndCube
  <2> QED
    BY <2>2, <2>3 DEF Inv
<1> QED
  BY <1>1, <1>2 DEF CertNext, ShowAag

LEMMA InvInit == LoadInit \/ CertInit => Inv
<1>1. LoadInit => Inv
  BY DEF LoadInit, Inv, Certifying
<1>2. ASSUME CertInit PROVE Inv
  <2>1. /\ orig \in Circuits /\ cubes \in CubeSets /\ work = WithBad(orig, cubes)
        /\ cc = {} /\ rest = {} /\ out = 0 /\ ands = orig.ands /\ inv = 0
    BY <1>2 DEF CertInit
  <2>2. IsCircuit(orig)
    BY <2>1, CircuitsAssumption
  <2>3. GatesOK(orig, ands)
    <3>1. ands \in Seq(Gate) /\ Len(orig.ands) \in Nat
      BY <2>1, <2>2 DEF IsCircuit, Gate
    <3>2. Len(orig.ands) <= Len(ands)
      BY <2>1, <3>1
    <3>3. \A k \in 1 .. Len(ands) :
            ands[k].i1 \in LitOf(AndVar(orig, k) - 1) /\ ands[k].i2 \in LitOf(AndVar(orig, k) - 1)
      BY <2>1, <2>2 DEF IsCircuit
    <3> QED
      BY <2>1, <3>1, <3>2, <3>3 DEF GatesOK
  <2>4. Typed
    BY <2>1, <2>3 DEF Typed
  <2>5. Complete = {}
    BY <2>1 DEF Complete
  <2>6. Progress
    BY <2>1, <2>5 DEF Progress
  <2>7. Means
    BY <2>1 DEF Means, OutMeans, InvMeans
  <2> QED
    BY <2>4, <2>6, <2>7 DEF Inv
<1> QED
  BY <1>1, <1>2

LEMMA InvMeansCertificate == Inv => GatesMeanInvariant
<1> SUFFICES ASSUME Typed, Progress, Means
             PROVE  /\ IsCircuit(Grown) /\ (inv = 0 <=> Complete = {})
                    /\ \A x \in Bits(orig.num_latches), i \in Bits(orig.num_inputs) :
                         /\ \A n \in 1 .. NumVars(orig) : Settle(Grown, x, i)[n] = Settle(orig, x, i)[n]
                         /\ inv # 0 => (Holds(Settle(Grown, x, i), Grown.bad)
                                          <=> \E c \in Complete : In(Settle(orig, x, i), c))
  BY DEF Inv, GatesMeanInvariant, Bits
<1> DEFINE b == IF inv = 0 THEN orig.bad ELSE -inv
<1> DEFINE d == With(orig, ands, orig.bad)
<1>1. IsCircuit(orig) /\ GatesOK(orig, ands) /\ Lits = LitOf(Size(orig, ands))
  BY TypedFacts DEF Typed, Lits
<1>2. b \in Lits /\ (inv # 0 => b = -inv /\ inv \in Lits)
  <2>1. orig.bad \in Lits
    BY <1>1, TypedFacts DEF IsCircuit
  <2>2. inv # 0 => inv \in Lits /\ -inv \in Lits
    BY TypedFacts DEF Typed
  <2> QED
    BY <2>1, <2>2
<1>3. Grown = With(orig, ands, b)
  BY DEF Grown, With
<1>4. /\ Grown.ands = ands /\ Grown.num_inputs = orig.num_inputs /\ Grown.num_latches = orig.num_latches
      /\ Grown.bad = b
  BY DEF Grown
<1> HIDE DEF b
<1>5. IsCircuit(Grown) /\ NumVars(Grown) = Size(orig, ands) /\ MoreGates(orig, Grown)
  BY <1>1, <1>2, <1>3, WithCircuit
<1>6. /\ IsCircuit(d) /\ NumVars(d) = Size(orig, ands) /\ d.ands = ands
      /\ d.num_inputs = orig.num_inputs /\ d.num_latches = orig.num_latches
  BY <1>1, WithOwnBad
<1> HIDE DEF d
<1>7. MoreGates(d, Grown)
  <2>1. Len(ands) <= Len(ands)
    BY <1>1, LenProperties DEF GatesOK
  <2> QED
    BY <1>4, <1>6, <2>1 DEF MoreGates
<1>8. ASSUME NEW x \in Bits(orig.num_latches), NEW i \in Bits(orig.num_inputs)
      PROVE  /\ \A n \in 1 .. NumVars(orig) : Settle(Grown, x, i)[n] = Settle(orig, x, i)[n]
             /\ inv # 0 => (Holds(Settle(Grown, x, i), Grown.bad)
                              <=> \E c \in Complete : In(Settle(orig, x, i), c))
  <2>1. \A n \in 1 .. NumVars(orig) : Settle(Grown, x, i)[n] = Settle(orig, x, i)[n]
    BY <1>1, <1>5, SettleExtends
  <2>2. \A n \in 1 .. Size(orig, ands) : Settle(Grown, x, i)[n] = Val(orig, ands, x, i)[n]
    BY <1>5, <1>6, <1>7, SettleExtends DEF Val, d
  <2>3. Size(orig, ands) \in Nat
    BY TypedFacts
  <2>4. Holds(Settle(Grown, x, i), b) = Holds(Val(orig, ands, x, i), b)
    BY <1>1, <1>2, <2>2, <2>3, HoldsAgrees
  <2>5. ASSUME inv # 0
        PROVE  Holds(Settle(Grown, x, i), Grown.bad) <=> \E c \in Complete : In(Settle(orig, x, i), c)
    <3>1. Holds(Val(orig, ands, x, i), b) = ~Holds(Val(orig, ands, x, i), inv)
      BY <1>1, <1>2, <2>5, ValType
    <3>2. Holds(Val(orig, ands, x, i), inv) <=> \A c \in Complete : ~In(Settle(orig, x, i), c)
      BY <2>5 DEF Means, InvMeans
    <3> QED
      BY <1>4, <2>4, <3>1, <3>2
  <2> QED
    BY <2>1, <2>5
<1> QED
  BY <1>5, <1>8 DEF Progress

(* For every circuit and every set of cubes over its variables, the gates  *)
(* propagate appends are in order, leave the circuit as it is and make the *)
(* bad literal of the certificate the disjunction of the cubes handled so  *)
(* far; when show_aag is called these are all of them.                     *)
THEOREM CertificateMeansCubes == FilesSpec => []GatesMeanInvariant
<1>1. FilesSpec => []Inv
  BY InvInit, InvNext, PTL DEF FilesSpec
<1> QED
  BY <1>1, InvMeansCertificate, PTL

----------------------------------------------------------------------------
(***************************************************************************)
(* The reader: what each helper of read_aiger takes from a text, where the *)
(* lines of a listed circuit are (Layout), and the invariant ReaderInv: the*)
(* numbers read so far are those of the circuit, the cursor is at the next.*)
(***************************************************************************)

(* The text t is in f at q. *)
At(f, q, t) == \A j \in 1 .. Len(t) : f[q + (j - 1)] = t[j]

LEMMA AtConcat ==
  ASSUME NEW f, NEW q \in Int, NEW s \in Seq(Int), NEW t \in Seq(Int), At(f, q, s \o t)
  PROVE  At(f, q, s) /\ At(f, q + Len(s), t)
<1>1. Len(s) \in Nat /\ Len(t) \in Nat /\ Len(s \o t) = Len(s) + Len(t)
  BY ConcatProperties, LenProperties
<1>2. ASSUME NEW j \in 1 .. Len(s) PROVE f[q + (j - 1)] = s[j]
  <2>1. j \in 1 .. Len(s \o t) /\ (s \o t)[j] = s[j]
    BY <1>1, ConcatProperties
  <2> QED
    BY <2>1 DEF At
<1>3. ASSUME NEW j \in 1 .. Len(t) PROVE f[(q + Len(s)) + (j - 1)] = t[j]
  <2>1. Len(s) + j \in 1 .. Len(s \o t) /\ (s \o t)[Len(s) + j] = t[j]
    BY <1>1, ConcatProperties
  <2>2. q + ((Len(s) + j) - 1) = (q + Len(s)) + (j - 1)
    BY <1>1
  <2> QED
    BY <2>1, <2>2 DEF At
<1> QED
  BY <1>2, <1>3 DEF At

LEMMA FlattenIs ==
  ASSUME NEW bs \in Seq(Seq(Int))
  PROVE  \E g \in [0 .. Len(bs) -> Seq(Int)] :
           /\ g[0] = <<>> /\ \A k \in 1 .. Len(bs) : g[k] = g[k - 1] \o bs[k]
           /\ FlattenSeq(bs) = g[Len(bs)]
<1> DEFINE K == Len(bs)
<1> DEFINE V == Seq(Int)
<1> DEFINE s == [e \in (1 .. K) \X V |-> e[2] \o bs[e[1]]]
<1>1. K \in Nat /\ \A k \in 1 .. K : bs[k] \in V
  BY LenProperties, ElementOfSeq
<1>2. s \in [(1 .. K) \X V -> V]
  BY <1>1, ConcatProperties
<1>3. <<>> \in V
  OBVIOUS
<1>3a. \A e \in (1 .. K) \X V : s[e] = e[2] \o bs[e[1]]
  OBVIOUS
<1> HIDE DEF s
<1>4. PICK g : Recursive(K, V, <<>>, s, g)
  <2> HIDE DEF V, K
  <2> QED
    BY <1>1, <1>2, <1>3, Recursion
<1>5. /\ g \in [0 .. K -> V] /\ g[0] = <<>> /\ \A k \in 1 .. K : g[k] = g[k - 1] \o bs[k]
  <2>1. g \in [0 .. K -> V] /\ \A k \in 0 .. K : g[k] = IF k = 0 THEN <<>> ELSE s[<<k, g[k - 1]>>]
    BY <1>4 DEF Recursive
  <2>2. 0 \in 0 .. K
    BY <1>1
  <2>3. ASSUME NEW k \in 1 .. K PROVE g[k] = g[k - 1] \o bs[k]
    <3>1. k \in 0 .. K /\ k # 0 /\ k - 1 \in 0 .. K
      BY <1>1
    <3>2. g[k - 1] \in V
      BY <2>1, <3>1
    <3> QED
      BY <2>1, <3>1, <3>2, <1>3a
  <2> QED
    BY <2>1, <2>2, <2>3
<1>6. CASE K = 0
  <2>1. bs = <<>>
    BY <1>6, EmptySeq
  <2>2. FlattenSeq(bs) = bs
    BY <1>6 DEF FlattenSeq
  <2> QED
    BY <1>5, <1>6, <2>1, <2>2
<1>7. CASE K # 0
  <2> DEFINE D == 1 .. K
  <2> DEFINE body(h) == [i \in D |-> IF i = 1 THEN bs[i] ELSE h[i - 1] \o bs[i]]
  <2> DEFINE h == CHOOSE h : h = body(h)
  <2> DEFINE w == [i \in D |-> g[i]]
  <2>1. w = body(w)
    <3>1. ASSUME NEW i \in D PROVE g[i] = IF i = 1 THEN bs[i] ELSE w[i - 1] \o bs[i]
      <4>1. CASE i = 1
        <5>0. 1 \in 1 .. K /\ 1 - 1 = 0
          BY <4>1
        <5>1. g[1] = <<>> \o bs[1] /\ bs[1] \in Seq(Int)
          BY <1>1, <1>5, <5>0
        <5> QED
          BY <4>1, <5>1, ConcatEmptySeq
      <4>2. CASE i # 1
        <5>1. i - 1 \in D
          BY <1>1, <4>2
        <5> QED
          BY <1>5, <4>2, <5>1
      <4> QED
        BY <4>1, <4>2
    <3> QED
      BY <3>1
  <2>2. h = body(h)
    <3> HIDE DEF body, w
    <3> QED
      BY <2>1
  <2>3. FlattenSeq(bs) = h[K]
    BY <1>7 DEF FlattenSeq
  <2> HIDE DEF h
  <2> DEFINE S == {n \in Nat : n + 1 \in D => h[n + 1] = g[n + 1]}
  <2>4. 0 \in S
    <3>1. 1 \in D /\ h[1] = bs[1]
      BY <1>1, <1>7, <2>2
    <3>2. w[1] = bs[1]
      BY <2>1, <3>1
    <3> QED
      BY <3>1, <3>2
  <2>5. ASSUME NEW n \in Nat, n \in S PROVE n + 1 \in S
    <3>1. SUFFICES ASSUME (n + 1) + 1 \in D PROVE h[(n + 1) + 1] = g[(n + 1) + 1]
      OBVIOUS
    <3>2. n + 1 \in D /\ ((n + 1) + 1) - 1 = n + 1 /\ (n + 1) + 1 # 1
      BY <1>1, <3>1
    <3>3. h[(n + 1) + 1] = h[n + 1] \o bs[(n + 1) + 1]
      BY <2>2, <3>1, <3>2
    <3>4. g[(n + 1) + 1] = g[n + 1] \o bs[(n + 1) + 1]
      BY <1>5, <3>1, <3>2
    <3> QED
      BY <2>5, <3>2, <3>3, <3>4
  <2> HIDE DEF S
  <2>6. \A n \in Nat : n \in S
    BY <2>4, <2>5, SetInduction
  <2>7. K - 1 \in Nat /\ (K - 1) + 1 = K /\ K \in D
    BY <1>1, <1>7
  <2>8. h[K] = g[K]
    BY <2>6, <2>7 DEF S
  <2> QED
    BY <1>5, <2>3, <2>8
<1> QED
  BY <1>6, <1>7

(* The blocks bs follow each other in f from q on, block k at o[k - 1]. *)
Placed(f, q, bs, o) ==
  /\ o \in [0 .. Len(bs) -> Nat] /\ o[0] = q
  /\ \A k \in 1 .. Len(bs) : o[k] = o[k - 1] + Len(bs[k]) /\ At(f, o[k - 1], bs[k])

LEMMA FlattenPlaced ==
  ASSUME NEW f, NEW q \in Nat, NEW bs \in Seq(Seq(Int)), At(f, q, FlattenSeq(bs))
  PROVE  /\ FlattenSeq(bs) \in Seq(Int)
         /\ \E o : Placed(f, q, bs, o) /\ o[Len(bs)] = q + Len(FlattenSeq(bs))
<1> DEFINE K == Len(bs)
<1>1. K \in Nat /\ \A k \in 1 .. K : bs[k] \in Seq(Int)
  BY LenProperties, ElementOfSeq
<1>2. PICK g \in [0 .. K -> Seq(Int)] :
        /\ g[0] = <<>> /\ \A k \in 1 .. K : g[k] = g[k - 1] \o bs[k]
        /\ FlattenSeq(bs) = g[K]
  BY FlattenIs
<1> DEFINE o == [k \in 0 .. K |-> q + Len(g[k])]
<1>3. \A k \in 0 .. K : g[k] \in Seq(Int) /\ Len(g[k]) \in Nat
  BY <1>2, LenProperties
<1>4. o \in [0 .. K -> Nat] /\ o[0] = q /\ o[K] = q + Len(FlattenSeq(bs))
  <2>1. Len(g[0]) = 0 /\ 0 \in 0 .. K /\ K \in 0 .. K
    BY <1>1, <1>2
  <2> QED
    BY <1>1, <1>2, <1>3, <2>1
<1> DEFINE S == {n \in Nat : K - n \in 0 .. K => At(f, q, g[K - n])}
<1>5. 0 \in S
  BY <1>1, <1>2
<1>6. ASSUME NEW n \in Nat, n \in S PROVE n + 1 \in S
  <2>1. SUFFICES ASSUME K - (n + 1) \in 0 .. K PROVE At(f, q, g[K - (n + 1)])
    OBVIOUS
  <2> DEFINE k == K - n
  <2>2. k \in 1 .. K /\ k \in 0 .. K /\ k - 1 = K - (n + 1) /\ k - 1 \in 0 .. K
    BY <1>1, <2>1
  <2>3. At(f, q, g[k])
    BY <1>6, <2>2
  <2> HIDE DEF k
  <2>4. g[k] = g[k - 1] \o bs[k]
    BY <1>2, <2>2
  <2>5. g[k - 1] \in Seq(Int) /\ bs[k] \in Seq(Int)
    BY <1>1, <1>3, <2>2
  <2>6. At(f, q, g[k - 1])
    BY <2>3, <2>4, <2>5, AtConcat
  <2> QED
    BY <2>2, <2>6
<1> HIDE DEF S
<1>7. \A n \in Nat : n \in S
  BY <1>5, <1>6, SetInduction
<1>8. ASSUME NEW k \in 1 .. K PROVE o[k] = o[k - 1] + Len(bs[k]) /\ At(f, o[k - 1], bs[k])
  <2>1. k \in 0 .. K /\ k - 1 \in 0 .. K /\ K - k \in Nat /\ K - (K - k) = k
    BY <1>1
  <2>2. At(f, q, g[k])
    BY <1>7, <2>1 DEF S
  <2>3. g[k] = g[k - 1] \o bs[k] /\ g[k - 1] \in Seq(Int) /\ bs[k] \in Seq(Int)
    BY <1>1, <1>2, <1>3, <2>1
  <2>4. At(f, q + Len(g[k - 1]), bs[k])
    <3> DEFINE a == g[k - 1]
    <3> DEFINE b == bs[k]
    <3>1. a \in Seq(Int) /\ b \in Seq(Int) /\ At(f, q, a \o b) /\ q \in Int
      BY <2>2, <2>3
    <3> HIDE DEF a, b
    <3>2. At(f, q + Len(a), b)
      BY <3>1, AtConcat
    <3> QED
      BY <3>2 DEF a, b
  <2>5. Len(g[k]) = Len(g[k - 1]) + Len(bs[k]) /\ Len(g[k - 1]) \in Nat /\ Len(bs[k]) \in Nat
    BY <2>3, ConcatProperties, LenProperties
  <2>6. o[k] = q + Len(g[k]) /\ o[k - 1] = q + Len(g[k - 1])
    BY <2>1
  <2> HIDE DEF o
  <2>7. o[k] = o[k - 1] + Len(bs[k])
    <3> DEFINE a == Len(g[k - 1])
    <3> DEFINE b == Len(bs[k])
    <3>1. a \in Nat /\ b \in Nat /\ o[k] = q + (a + b) /\ o[k - 1] = q + a
      BY <2>5, <2>6
    <3> HIDE DEF a, b
    <3>2. q + (a + b) = (q + a) + b
      BY <3>1
    <3>3. o[k] = o[k - 1] + b
      BY <3>1, <3>2
    <3> QED
      BY <3>3 DEF b
  <2> QED
    BY <2>4, <2>6, <2>7
<1>9. FlattenSeq(bs) \in Seq(Int)
  BY <1>1, <1>2, <1>3
<1> HIDE DEF o
<1>10. Placed(f, q, bs, o)
  BY <1>4, <1>8 DEF Placed
<1> QED
  BY <1>4, <1>9, <1>10
-----------------------------------------------------------------------------
(* The blocks of a file, section by section. *)
InputBlocks(s, bin) == IF bin THEN <<>> ELSE [i \in 1 .. s.inputs |-> Line(<<2 * i>>)]
LatchBlocks(s, bin) == [i \in 1 .. Len(s.latches) |-> Line(LatchLine(s, bin, i))]
LiteralBlocks(t) == [i \in 1 .. Len(t) |-> Line(<<t[i]>>)]
GateBlocks(s, bin) == [i \in 1 .. Len(s.ands) |-> GateText(s, bin, IF bin THEN i ELSE s.order[i])]

(* Where they are. *)
Layout(s, bin, f, o) ==
  /\ f \in Seq(Int) /\ Header(s) \in Seq(Int) /\ At(f, 1, Header(s))
  /\ Placed(f, 1 + Len(Header(s)), InputBlocks(s, bin), o.inputs)
  /\ Placed(f, o.inputs[Len(InputBlocks(s, bin))], LatchBlocks(s, bin), o.latches)
  /\ Placed(f, o.latches[Len(s.latches)], LiteralBlocks(s.outputs), o.outputs)
  /\ Placed(f, o.outputs[Len(s.outputs)], LiteralBlocks(s.bads), o.bads)
  /\ Placed(f, o.bads[Len(s.bads)], LiteralBlocks(s.constraints), o.constraints)
  /\ Placed(f, o.constraints[Len(s.constraints)], GateBlocks(s, bin), o.ands)
  /\ o.ands[Len(s.ands)] = Len(f) + 1

(* A source the reader reads completely: without justice and fairness.     *)
Plain(s) == IsSource(s) /\ SafetyOnly(s)

LEMMA SourceFacts ==
  ASSUME NEW s, Plain(s)
  PROVE  /\ s.inputs \in Nat /\ Len(s.latches) \in Nat /\ Len(s.ands) \in Nat
         /\ Len(s.outputs) \in Nat /\ Len(s.bads) \in Nat /\ Len(s.constraints) \in Nat
         /\ \A k \in 1 .. Len(s.latches) : s.latches[k][1] \in Nat /\ s.latches[k][2] \in Nat
         /\ \A k \in 1 .. Len(s.ands) : /\ s.ands[k] = <<s.ands[k][1], s.ands[k][2]>>
                                       /\ s.ands[k][1] \in Nat /\ s.ands[k][2] \in Nat
         /\ \A k \in 1 .. Len(s.outputs) : s.outputs[k] \in Nat
         /\ \A k \in 1 .. Len(s.bads) : s.bads[k] \in Nat
         /\ \A k \in 1 .. Len(s.constraints) : s.constraints[k] \in Nat
         /\ \A k \in 1 .. Len(s.ands) : s.order[k] \in 1 .. Len(s.ands)
<1>1. /\ s.inputs \in Nat /\ s.latches \in Seq(Nat \X Nat) /\ s.ands \in Seq(Nat \X Nat)
      /\ s.outputs \in Seq(Nat) /\ s.bads \in Seq(Nat) /\ s.constraints \in Seq(Nat)
      /\ s.order \in [1 .. Len(s.ands) -> 1 .. Len(s.ands)]
  BY DEF Plain, IsSource
<1>2. /\ Len(s.latches) \in Nat /\ Len(s.ands) \in Nat
      /\ Len(s.outputs) \in Nat /\ Len(s.bads) \in Nat /\ Len(s.constraints) \in Nat
  BY <1>1, LenProperties
<1>3. \A k \in 1 .. Len(s.latches) : s.latches[k] \in Nat \X Nat
  BY <1>1, ElementOfSeq
<1>4. \A k \in 1 .. Len(s.ands) : s.ands[k] \in Nat \X Nat
  BY <1>1, ElementOfSeq
<1>5. /\ \A k \in 1 .. Len(s.outputs) : s.outputs[k] \in Nat
      /\ \A k \in 1 .. Len(s.bads) : s.bads[k] \in Nat
      /\ \A k \in 1 .. Len(s.constraints) : s.constraints[k] \in Nat
  BY <1>1, ElementOfSeq
<1>6. \A e \in Nat \X Nat : e = <<e[1], e[2]>> /\ e[1] \in Nat /\ e[2] \in Nat
  OBVIOUS
<1> QED
  BY <1>1, <1>2, <1>3, <1>4, <1>5, <1>6

LEMMA OneMore ==
  ASSUME NEW t \in Seq(Int), NEW a \in Int
  PROVE  /\ t \o <<a>> \in Seq(Int) /\ Len(t) \in Nat /\ Len(t \o <<a>>) = Len(t) + 1
         /\ (t \o <<a>>)[Len(t) + 1] = a /\ \A j \in 1 .. Len(t) : (t \o <<a>>)[j] = t[j]
<1>1. <<a>> \in Seq(Int) /\ Len(<<a>>) = 1 /\ <<a>>[1] = a
  OBVIOUS
<1>2. Len(t) \in Nat
  BY LenProperties
<1> QED
  BY <1>1, <1>2, ConcatProperties

LEMMA OneBefore ==
  ASSUME NEW t \in Seq(Int), NEW a \in Int
  PROVE  /\ <<a>> \o t \in Seq(Int) /\ Len(t) \in Nat /\ Len(<<a>> \o t) = Len(t) + 1
         /\ (<<a>> \o t)[1] = a /\ \A j \in 1 .. Len(t) : (<<a>> \o t)[j + 1] = t[j]
<1> DEFINE u == <<a>>
<1> DEFINE N == Len(t)
<1>1. u \in Seq(Int) /\ Len(u) = 1 /\ u[1] = a
  OBVIOUS
<1> HIDE DEF u
<1>2. N \in Nat
  BY LenProperties
<1>3. /\ u \o t \in Seq(Int) /\ Len(u \o t) = Len(u) + N
      /\ \A i \in 1 .. Len(u) + N : (u \o t)[i] = IF i <= Len(u) THEN u[i] ELSE t[i - Len(u)]
  BY <1>1, ConcatProperties
<1> HIDE DEF N
<1>4. Len(u) + N = N + 1 /\ 1 \in 1 .. 1 + N
  BY <1>1, <1>2
<1>5. (u \o t)[1] = a
  BY <1>1, <1>3, <1>4
<1>6. ASSUME NEW j \in 1 .. N PROVE (u \o t)[j + 1] = t[j]
  <2>1. j + 1 \in 1 .. 1 + N /\ ~(j + 1 <= 1) /\ (j + 1) - 1 = j
    BY <1>2
  <2> QED
    BY <1>1, <1>3, <2>1
<1> QED
  BY <1>2, <1>3, <1>4, <1>5, <1>6 DEF u, N

LEMMA LineIs ==
  ASSUME NEW t \in Seq(Int)
  PROVE  /\ Line(t) \in Seq(Int) /\ Len(t) \in Nat /\ Len(Line(t)) = Len(t) + 1
         /\ Line(t)[Len(t) + 1] = NL /\ \A j \in 1 .. Len(t) : Line(t)[j] = t[j]
<1>1. NL \in Int
  BY DEF NL
<1> QED
  BY <1>1, OneMore DEF Line

LEMMA LinesIs ==
  ASSUME NEW n \in Nat, NEW t, DOMAIN t = 1 .. n, Len(t) = n
  PROVE  Lines(t) = FlattenSeq([i \in 1 .. n |-> Line(t[i])])
BY DEF Lines

LEMMA TwoTokens ==
  ASSUME NEW a \in Int
  PROVE  /\ <<a>> \in Seq(Int) /\ Len(<<a>>) = 1
         /\ Line(<<a>>) \in Seq(Int) /\ Len(Line(<<a>>)) = 2
         /\ Line(<<a>>)[1] = a /\ Line(<<a>>)[2] = NL
<1> DEFINE t == <<a>>
<1>1. t \in Seq(Int) /\ Len(t) = 1 /\ t[1] = a /\ 1 \in 1 .. 1 /\ 1 + 1 = 2
  OBVIOUS
<1> HIDE DEF t
<1>2. /\ Line(t) \in Seq(Int) /\ Len(Line(t)) = Len(t) + 1 /\ Line(t)[Len(t) + 1] = NL
      /\ \A j \in 1 .. Len(t) : Line(t)[j] = t[j]
  BY <1>1, LineIs
<1>3. Line(t) \in Seq(Int) /\ Len(Line(t)) = 2 /\ Line(t)[1] = a /\ Line(t)[2] = NL
  BY <1>1, <1>2
<1> QED
  BY <1>1, <1>3 DEF t

(* The tokens of a latch: its literal, in a text file, its next literal and *)
(* its reset value, unless that is 0.                                       *)
LEMMA LatchTokens ==
  ASSUME NEW s, Plain(s), NEW bin \in BOOLEAN, NEW i \in 1 .. Len(s.latches)
  PROVE  LET h == IF bin THEN 0 ELSE 1
             t == Line(LatchLine(s, bin, i))
             r == s.latches[i][2]
             n == h + (IF r = 0 THEN 1 ELSE 2)
         IN /\ t \in Seq(Int) /\ Len(t) = n + 1 /\ t[n + 1] = NL
            /\ ~bin => t[1] = FirstLatch(s) + 2 * (i - 1)
            /\ t[h + 1] = s.latches[i][1]
            /\ r # 0 => t[h + 2] = r
<1> DEFINE l == FirstLatch(s) + 2 * (i - 1)
<1> DEFINE x == s.latches[i][1]
<1> DEFINE r == s.latches[i][2]
<1>1. x \in Int /\ r \in Int /\ l \in Int
  BY SourceFacts DEF FirstLatch
<1>2. LatchLine(s, bin, i) = (IF bin THEN <<>> ELSE <<l>>) \o <<x>> \o (IF r = 0 THEN <<>> ELSE <<r>>)
  BY DEF LatchLine
<1> HIDE DEF l, x, r
<1> DEFINE t == LatchLine(s, bin, i)
<1> DEFINE h == IF bin THEN 0 ELSE 1
<1> DEFINE n == h + (IF r = 0 THEN 1 ELSE 2)
<1>3. <<x>> \in Seq(Int) /\ <<l>> \in Seq(Int) /\ <<r>> \in Seq(Int) /\ <<>> \in Seq(Int)
  BY <1>1
<1>4. /\ t \in Seq(Int) /\ Len(t) = n /\ (~bin => t[1] = l) /\ t[h + 1] = x /\ (r # 0 => t[h + 2] = r)
  <2>1. CASE bin /\ r = 0
    <3>1. t = <<>> \o <<x>> \o <<>>
      BY <1>2, <2>1
    <3>2. /\ (<<>> \o <<x>>) \in Seq(Int) /\ Len(<<>> \o <<x>>) = 1
          /\ (<<>> \o <<x>>)[1] = x
      BY <1>1
    <3> DEFINE u == <<>> \o <<x>>
    <3>3. h = 0 /\ n = 1
      BY <2>1
    <3> HIDE DEF t, h, n, u
    <3>4. t \in Seq(Int) /\ Len(t) = 1 /\ t[1] = x
      BY <1>1, <3>1, <3>2 DEF u
    <3> QED
      BY <2>1, <3>3, <3>4
  <2>2. CASE bin /\ r # 0
    <3>1. t = <<>> \o <<x>> \o <<r>>
      BY <1>2, <2>2
    <3>2. /\ (<<>> \o <<x>>) \in Seq(Int) /\ Len(<<>> \o <<x>>) = 1
          /\ (<<>> \o <<x>>)[1] = x
      BY <1>1
    <3> DEFINE u == <<>> \o <<x>>
    <3>3. h = 0 /\ n = 2
      BY <2>2
    <3> HIDE DEF t, h, n, u
    <3>4. t \in Seq(Int) /\ Len(t) = 2 /\ t[1] = x /\ t[2] = r
      BY <1>1, <3>1, <3>2 DEF u
    <3> QED
      BY <2>2, <3>3, <3>4
  <2>3. CASE ~bin /\ r = 0
    <3>1. t = <<l>> \o <<x>> \o <<>>
      BY <1>2, <2>3
    <3>2. /\ (<<l>> \o <<x>>) \in Seq(Int) /\ Len(<<l>> \o <<x>>) = 2
          /\ (<<l>> \o <<x>>)[1] = l /\ (<<l>> \o <<x>>)[2] = x
      BY <1>1
    <3> DEFINE u == <<l>> \o <<x>>
    <3>3. h = 1 /\ n = 2
      BY <2>3
    <3> HIDE DEF t, h, n, u
    <3>4. t \in Seq(Int) /\ Len(t) = 2 /\ t[1] = l /\ t[2] = x
      BY <1>1, <3>1, <3>2 DEF u
    <3> QED
      BY <2>3, <3>3, <3>4
  <2>4. CASE ~bin /\ r # 0
    <3> DEFINE u == <<l>> \o <<x>>
    <3>1. t = u \o <<r>>
      BY <1>2, <2>4
    <3>2. u \in Seq(Int) /\ Len(u) = 2 /\ u[1] = l /\ u[2] = x
      BY <1>1
    <3>3. h = 1 /\ n = 3
      BY <2>4
    <3> HIDE DEF t, h, n, u
    <3>5. /\ t \in Seq(Int) /\ Len(t) = Len(u) + 1 /\ t[Len(u) + 1] = r
          /\ \A j \in 1 .. Len(u) : t[j] = u[j]
      BY <1>1, <3>1, <3>2, OneMore
    <3>4. t \in Seq(Int) /\ Len(t) = 3 /\ t[1] = l /\ t[2] = x /\ t[3] = r
      BY <3>2, <3>5
    <3> QED
      BY <2>4, <3>3, <3>4
  <2> QED
    BY <2>1, <2>2, <2>3, <2>4
<1>5. /\ n \in Nat /\ h + 1 \in 1 .. n /\ (~bin => 1 \in 1 .. n) /\ (r # 0 => h + 2 \in 1 .. n)
  OBVIOUS
<1> HIDE DEF t, n, h
<1>6. /\ Line(t) \in Seq(Int) /\ Len(Line(t)) = n + 1 /\ Line(t)[n + 1] = NL
      /\ \A j \in 1 .. n : Line(t)[j] = t[j]
  BY <1>4, LineIs
<1>7. (~bin => Line(t)[1] = l) /\ Line(t)[h + 1] = x /\ (r # 0 => Line(t)[h + 2] = r)
  BY <1>4, <1>5, <1>6
<1> QED
  BY <1>6, <1>7 DEF t, n, h, l, x, r

LEMMA GateTokens ==
  ASSUME NEW s, Plain(s), NEW i \in 1 .. Len(s.ands)
  PROVE  LET t == GateText(s, FALSE, i)
         IN /\ t \in Seq(Int) /\ Len(t) = 4 /\ t[1] = FirstGate(s) + 2 * (i - 1)
            /\ t[2] = s.ands[i][1] /\ t[3] = s.ands[i][2] /\ t[4] = NL
<1> DEFINE o == FirstGate(s) + 2 * (i - 1)
<1> DEFINE a == s.ands[i][1]
<1> DEFINE b == s.ands[i][2]
<1>1. a \in Int /\ b \in Int /\ o \in Int /\ s.ands[i] = <<a, b>>
  BY SourceFacts DEF FirstGate, FirstLatch
<1>2. GateText(s, FALSE, i) = Line(<<o>> \o <<a, b>>)
  BY <1>1 DEF GateText
<1> HIDE DEF o, a, b
<1> DEFINE t == <<o>> \o <<a, b>>
<1>3. t \in Seq(Int) /\ Len(t) = 3 /\ t[1] = o /\ t[2] = a /\ t[3] = b
  BY <1>1
<1> HIDE DEF t
<1>a. /\ Line(t) \in Seq(Int) /\ Len(Line(t)) = Len(t) + 1 /\ Line(t)[Len(t) + 1] = NL
      /\ \A j \in 1 .. Len(t) : Line(t)[j] = t[j]
  BY <1>3, LineIs
<1>b. 3 + 1 = 4 /\ 1 \in 1 .. 3 /\ 2 \in 1 .. 3 /\ 3 \in 1 .. 3
  OBVIOUS
<1>4. /\ Line(t) \in Seq(Int) /\ Len(Line(t)) = 4 /\ Line(t)[1] = o /\ Line(t)[2] = a
      /\ Line(t)[3] = b /\ Line(t)[4] = NL
  BY <1>3, <1>a, <1>b
<1> QED
  BY <1>2, <1>4 DEF t, o, a, b

-----------------------------------------------------------------------------
LEMMA DivMod ==
  ASSUME NEW g \in Nat, g > 1, NEW y \in Nat
  PROVE  /\ y % g \in 0 .. g - 1 /\ y \div g \in Nat /\ y = (y % g) + g * (y \div g)
         /\ y < g => y % g = y
         /\ y >= g => y \div g < y
<1>1. y % g \in 0 .. g - 1 /\ y \div g \in Int /\ y = g * (y \div g) + (y % g)
  OBVIOUS
<1> DEFINE d == y \div g
<1> DEFINE m == y % g
<1>2. d \in Int /\ m \in 0 .. g - 1 /\ y = g * d + m
  BY <1>1
<1> HIDE DEF d, m
<1>3. d >= 0
  <2> SUFFICES ASSUME d <= -1 PROVE FALSE
    BY <1>2
  <2>1. g * d <= g * (-1)
    BY <1>2
  <2> QED
    BY <1>2, <2>1
<1>4. y < g => d = 0
  <2> SUFFICES ASSUME y < g, d >= 1 PROVE FALSE
    BY <1>2, <1>3
  <2>1. g * d >= g * 1
    BY <1>2
  <2> QED
    BY <1>2, <2>1
<1>5. y < g => m = y
  BY <1>2, <1>4
<1>6. y >= g => d < y
  <2> SUFFICES ASSUME y >= g, d >= y PROVE FALSE
    BY <1>2
  <2>1. g * d >= 2 * d
    BY <1>2, <1>3
  <2> QED
    BY <1>2, <2>1
<1> QED
  BY <1>2, <1>3, <1>5, <1>6 DEF d, m

LEMMA ModUnique ==
  ASSUME NEW g \in Nat, g > 1, NEW m \in 0 .. g - 1
  PROVE  (g + m) % g = m
<1> DEFINE y == g + m
<1>1. y \in Nat
  OBVIOUS
<1>2. y % g \in 0 .. g - 1 /\ y \div g \in Nat /\ y = (y % g) + g * (y \div g)
  BY <1>1, DivMod
<1> DEFINE d == y \div g
<1> DEFINE r == y % g
<1>3. d \in Nat /\ r \in 0 .. g - 1 /\ g + m = r + g * d
  BY <1>2
<1> HIDE DEF d, r
<1>4. d = 1
  <2>1. d >= 2 => g * d >= g * 2
    BY <1>3
  <2>2. d = 0 => g * d = 0
    BY <1>3
  <2> QED
    BY <1>3, <2>1, <2>2
<1>5. r = m
  BY <1>3, <1>4
<1> QED
  BY <1>5 DEF r

LEMMA SmallMod ==
  ASSUME NEW g \in Nat, NEW y \in Nat, y < g
  PROVE  y % g = y
<1>1. CASE g > 1
  BY <1>1, DivMod
<1>2. CASE g = 1
  <2>1. y = 0 /\ 0 % 1 = 0
    BY <1>2
  <2> QED
    BY <1>2, <2>1
<1>3. g > 1 \/ g = 1
  OBVIOUS
<1> QED
  BY <1>1, <1>2, <1>3

LEMMA GroupFacts == Group \in Nat /\ Group > 1 /\ 2 ^ Width \in Nat
BY BitsAssumption DEF Group

(* The values of the groups of t from the j-th on. *)
Digits(t, h) ==
  /\ h \in [1 .. Len(t) -> Nat]
  /\ \A j \in 1 .. Len(t) : h[j] = (t[j] % Group) + (IF j = Len(t) THEN 0 ELSE Group * h[j + 1])

(* The groups t are a number's code, the last one without the mark.        *)
Codes(t, y) ==
  /\ t \in Seq(Int) /\ Len(t) \in Nat /\ Len(t) >= 1
  /\ t[Len(t)] < Group /\ \A j \in 1 .. Len(t) - 1 : t[j] >= Group
  /\ \E h : Digits(t, h) /\ h[1] = y

LEMMA CodesOne ==
  ASSUME NEW y \in Nat, y < Group
  PROVE  Codes(<<y>>, y)
<1> DEFINE t == <<y>>
<1> DEFINE h == [j \in 1 .. 1 |-> y]
<1>1. t \in Seq(Int) /\ Len(t) = 1 /\ t[1] = y
  OBVIOUS
<1>2. y % Group = y
  BY GroupFacts, DivMod
<1>3. h \in [1 .. 1 -> Nat] /\ h[1] = y
  OBVIOUS
<1> HIDE DEF t, h
<1>4. Digits(t, h)
  <2>1. ASSUME NEW j \in 1 .. 1 PROVE j = 1
    OBVIOUS
  <2>2. h[1] = (t[1] % Group) + 0
    BY <1>1, <1>2, <1>3
  <2> QED
    BY <1>1, <1>3, <2>1, <2>2 DEF Digits
<1>5. \A j \in 1 .. Len(t) - 1 : t[j] >= Group
  BY <1>1
<1>6. Codes(t, y)
  BY <1>1, <1>3, <1>4, <1>5 DEF Codes
<1> QED
  BY <1>6 DEF t

LEMMA CodesMore ==
  ASSUME NEW y \in Nat, y >= Group, NEW u, Codes(u, y \div Group)
  PROVE  Codes(<<Group + (y % Group)>> \o u, y)
<1> DEFINE g == Group
<1> DEFINE m == y % g
<1> DEFINE d == y \div g
<1>1. g \in Nat /\ g > 1 /\ m \in 0 .. g - 1 /\ d \in Nat /\ y = m + g * d
  BY GroupFacts, DivMod
<1>2. (g + m) % g = m
  BY <1>1, ModUnique
<1>3. PICK h : Digits(u, h) /\ h[1] = d
  BY DEF Codes
<1> HIDE DEF g, m, d
<1> DEFINE N == Len(u)
<1> DEFINE t == <<g + m>> \o u
<1>4. /\ u \in Seq(Int) /\ N \in Nat /\ N >= 1 /\ u[N] < g /\ \A j \in 1 .. N - 1 : u[j] >= g
  BY DEF Codes, g
<1>5. /\ t \in Seq(Int) /\ Len(t) = N + 1 /\ t[1] = g + m /\ \A j \in 1 .. N : t[j + 1] = u[j]
  <2>1. g + m \in Int
    BY <1>1
  <2> QED
    BY <1>4, <2>1, OneBefore
<1> DEFINE k == [j \in 1 .. N + 1 |-> IF j = 1 THEN y ELSE h[j - 1]]
<1>6. /\ h \in [1 .. N -> Nat]
      /\ \A j \in 1 .. N : h[j] = (u[j] % g) + (IF j = N THEN 0 ELSE g * h[j + 1])
  BY <1>3 DEF Digits, g
<1>7. k \in [1 .. N + 1 -> Nat] /\ k[1] = y /\ \A j \in 1 .. N : k[j + 1] = h[j]
  BY <1>4, <1>6
<1> HIDE DEF t, k, N
<1>8. ASSUME NEW j \in 1 .. N + 1
      PROVE  k[j] = (t[j] % g) + (IF j = N + 1 THEN 0 ELSE g * k[j + 1])
  <2>1. CASE j = 1
    <3>1. 1 \in 1 .. N /\ 1 # N + 1 /\ 1 + 1 = 2
      BY <1>4
    <3>2. k[1 + 1] = d
      BY <1>3, <1>7, <3>1
    <3>3. k[1] = m + g * d /\ t[1] % g = m
      BY <1>1, <1>2, <1>5, <1>7
    <3> QED
      BY <2>1, <3>1, <3>2, <3>3
  <2>2. CASE j # 1
    <3> DEFINE i == j - 1
    <3>1. i \in 1 .. N /\ i + 1 = j /\ (i = N <=> j = N + 1) /\ (i # N => i + 1 \in 1 .. N)
      BY <1>4, <2>2
    <3> HIDE DEF i
    <3>2. k[j] = h[i] /\ t[j] = u[i] /\ (i # N => k[j + 1] = h[i + 1])
      BY <1>5, <1>7, <3>1
    <3>3. h[i] = (u[i] % g) + (IF i = N THEN 0 ELSE g * h[i + 1])
      BY <1>6, <3>1
    <3> QED
      BY <3>1, <3>2, <3>3
  <2> QED
    BY <2>1, <2>2
<1>9. Digits(t, k)
  BY <1>5, <1>7, <1>8 DEF Digits, g
<1>10. t[N + 1] < g /\ \A j \in 1 .. (N + 1) - 1 : t[j] >= g
  <2>1. t[N + 1] = u[N]
    BY <1>4, <1>5
  <2>2. ASSUME NEW j \in 1 .. N PROVE t[j] >= g
    <3>1. CASE j = 1
      BY <1>1, <1>5, <3>1
    <3>2. CASE j # 1
      <4>1. j - 1 \in 1 .. N - 1 /\ j - 1 \in 1 .. N /\ (j - 1) + 1 = j
        BY <1>4, <3>2
      <4> QED
        BY <1>4, <1>5, <4>1
    <3> QED
      BY <3>1, <3>2
  <2>3. (N + 1) - 1 = N
    BY <1>4
  <2> QED
    BY <1>4, <2>1, <2>2, <2>3
<1>11. N + 1 \in Nat /\ N + 1 >= 1
  BY <1>4
<1>12. Codes(t, y)
  BY <1>5, <1>7, <1>9, <1>10, <1>11 DEF Codes, g
<1> QED
  BY <1>12 DEF t, g, m

LEMMA EncodeCodes ==
  ASSUME NEW x \in Nat
  PROVE  Codes(encode(x), x)
<1> DEFINE D == 0 .. x
<1> DEFINE V == Seq(Int)
<1> DEFINE body(e, y) == IF y < Group THEN <<y>> ELSE <<Group + (y % Group)>> \o e[y \div Group]
<1> DEFINE b == [a \in [D -> V] \X D |-> body(a[1], a[2])]
<1> DEFINE r == [y \in D |-> y]
<1>1. ASSUME NEW y \in D
      PROVE  /\ y \in Nat /\ y % Group \in Nat /\ <<y>> \in V /\ <<Group + (y % Group)>> \in V
             /\ ~(y < Group) => y \div Group \in D /\ y \div Group < y /\ y >= Group
  <2>1. y \in Nat /\ y <= x
    OBVIOUS
  <2>2. y % Group \in 0 .. Group - 1 /\ y \div Group \in Nat /\ (y >= Group => y \div Group < y)
    BY <2>1, GroupFacts, DivMod
  <2>3. y % Group \in Nat /\ Group + (y % Group) \in Int
    BY <2>2, GroupFacts
  <2> QED
    BY <2>1, <2>2, <2>3, GroupFacts
<1>2. ASSUME NEW e \in [D -> V], NEW y \in D PROVE body(e, y) \in V
  <2>1. CASE y < Group
    BY <1>1, <2>1
  <2>2. CASE ~(y < Group)
    <3>1. e[y \div Group] \in V /\ <<Group + (y % Group)>> \in V
      BY <1>1, <2>2
    <3> QED
      BY <2>2, <3>1, ConcatProperties
  <2> QED
    BY <2>1, <2>2
<1>3. b \in [[D -> V] \X D -> V]
  <2> HIDE DEF body, V
  <2> QED
    BY <1>2
<1>4. r \in [D -> 0 .. x] /\ \A y \in D : r[y] = y
  OBVIOUS
<1>4a. \A e \in [D -> V], y \in D : b[<<e, y>>] = body(e, y)
  OBVIOUS
<1> HIDE DEF b, r
<1>5. ByRank(D, V, r, b)
  <2> SUFFICES ASSUME NEW y \in D, NEW e \in [D -> V], NEW f \in [D -> V],
                      \A m \in D : r[m] < r[y] => e[m] = f[m]
               PROVE  b[<<e, y>>] = b[<<f, y>>]
    BY DEF ByRank
  <2>1. ~(y < Group) => e[y \div Group] = f[y \div Group]
    BY <1>1, <1>4
  <2>2. body(e, y) = body(f, y)
    BY <2>1
  <2> QED
    BY <1>4a, <2>2
<1>6. PICK e : Fixpoint(D, V, b, e)
  <2> HIDE DEF D, V
  <2>1. <<>> \in V
    BY DEF V
  <2>2. r \in [D -> 0 .. x] /\ x \in Nat
    BY <1>4
  <2> QED
    BY <1>3, <1>5, <2>1, <2>2, RecursiveFunction
<1>7. e = [y \in D |-> body(e, y)]
  <2>1. e \in [D -> V] /\ \A y \in D : e[y] = b[<<e, y>>]
    BY <1>6 DEF Fixpoint
  <2>2. \A y \in D : e[y] = body(e, y)
    BY <1>4a, <2>1
  <2> HIDE DEF body
  <2> QED
    BY <2>1, <2>2
<1> DEFINE w == CHOOSE w : w = [y \in D |-> body(w, y)]
<1>8. w = [y \in D |-> body(w, y)]
  <2> DEFINE F(z) == [y \in D |-> body(z, y)]
  <2>1. e = F(e)
    BY <1>7
  <2> HIDE DEF F
  <2>2. (CHOOSE z : z = F(z)) = F(CHOOSE z : z = F(z))
    BY <2>1
  <2> QED
    BY <2>2 DEF F
<1>9. encode(x) = w[x]
  BY DEF encode
<1> HIDE DEF w
<1>10. \A y \in D : w[y] = body(w, y)
  <2> HIDE DEF body
  <2> QED
    BY <1>8
<1> DEFINE S == {y \in Nat : y \in D => Codes(w[y], y)}
<1>11. ASSUME NEW y \in Nat, \A m \in 0 .. y - 1 : m \in S PROVE y \in S
  <2>1. SUFFICES ASSUME y \in D PROVE Codes(w[y], y)
    OBVIOUS
  <2>2. CASE y < Group
    BY <1>10, <2>1, <2>2, CodesOne
  <2>3. CASE ~(y < Group)
    <3> DEFINE d == y \div Group
    <3>1. d \in D /\ d \in 0 .. y - 1 /\ y >= Group /\ d \in Nat
      BY <1>1, <2>1, <2>3
    <3>2. Codes(w[d], d)
      <4>1. d \in S
        BY <1>11, <3>1
      <4> HIDE DEF d
      <4> QED
        BY <3>1, <4>1
    <3>3. w[y] = <<Group + (y % Group)>> \o w[d]
      BY <1>10, <2>1, <2>3
    <3>4. Codes(<<Group + (y % Group)>> \o w[d], y)
      BY <3>1, <3>2, CodesMore
    <3> QED
      BY <3>3, <3>4
  <2> QED
    BY <2>2, <2>3
<1> HIDE DEF S
<1>12. \A y \in Nat : y \in S
  BY <1>11, SetStrongInduction
<1>13. x \in D
  OBVIOUS
<1> QED
  BY <1>9, <1>12, <1>13 DEF S

LEMMA DecodeIs ==
  ASSUME NEW f \in Seq(Int), NEW q \in Nat, NEW x \in Nat, x < 2 ^ Width, NEW t, Codes(t, x),
         At(f, q, t), q + Len(t) - 1 <= Len(f), q >= 1
  PROVE  decode(f, q).val = x /\ decode(f, q).pos = q + Len(t)
<1> DEFINE N == Len(t)
<1> DEFINE n == N - 1
<1> DEFINE P(i) == f[q + i] < Group /\ \A j \in 0 .. i - 1 : f[q + j] >= Group
<1>1. /\ t \in Seq(Int) /\ N \in Nat /\ N >= 1 /\ t[N] < Group
      /\ \A j \in 1 .. N - 1 : t[j] >= Group
  BY DEF Codes
<1>2. PICK h : Digits(t, h) /\ h[1] = x
  BY DEF Codes
<1>3. ASSUME NEW i \in 0 .. n PROVE f[q + i] = t[i + 1] /\ i + 1 \in 1 .. N
  <2>1. i + 1 \in 1 .. N /\ (i + 1) - 1 = i
    BY <1>1
  <2> QED
    BY <2>1 DEF At
<1>4. Len(f) \in Nat /\ n \in Nat /\ n \in 0 .. Len(f) /\ n + 1 = N
  <2>1. Len(f) \in Nat
    BY LenProperties
  <2> QED
    BY <1>1, <2>1
<1>5. P(n)
  <2>1. f[q + n] < Group
    <3>1. n \in 0 .. n
      BY <1>4
    <3>2. f[q + n] = t[n + 1]
      BY <1>3, <3>1
    <3> QED
      BY <1>1, <1>4, <3>2
  <2>2. ASSUME NEW j \in 0 .. n - 1 PROVE f[q + j] >= Group
    <3>1. j \in 0 .. n /\ j + 1 \in 1 .. N - 1
      BY <1>4
    <3> QED
      BY <1>1, <1>3, <3>1
  <2> QED
    BY <2>1, <2>2
<1>6. ASSUME NEW i \in 0 .. Len(f), P(i) PROVE i = n
  <2>1. i \in Int /\ i >= 0 /\ n \in Int
    BY <1>4
  <2>2. ~(i < n)
    <3> SUFFICES ASSUME i < n PROVE FALSE
      OBVIOUS
    <3>1. i \in 0 .. n - 1 /\ i \in 0 .. n
      BY <2>1
    <3>2. f[q + i] >= Group /\ f[q + i] < Group /\ f[q + i] \in Int
      BY <1>1, <1>3, <1>5, <1>6, <3>1, ElementOfSeq
    <3> QED
      BY <3>2, GroupFacts
  <2>3. ~(n < i)
    <3> SUFFICES ASSUME n < i PROVE FALSE
      OBVIOUS
    <3>1. n \in 0 .. i - 1 /\ n \in 0 .. n
      BY <1>4, <2>1
    <3>2. f[q + n] >= Group /\ f[q + n] < Group /\ f[q + n] \in Int
      BY <1>1, <1>3, <1>5, <1>6, <3>1, ElementOfSeq
    <3> QED
      BY <3>2, GroupFacts
  <2> QED
    BY <2>1, <2>2, <2>3
<1> DEFINE c == CHOOSE i \in 0 .. Len(f) : f[q + i] < Group /\ \A j \in 0 .. i - 1 : f[q + j] >= Group
<1>7. c = n
  <2>1. c \in 0 .. Len(f) /\ P(c)
    BY <1>4, <1>5
  <2> QED
    BY <1>6, <2>1
<1> DEFINE body(w) == [i \in 0 .. n |-> (f[q + i] % Group) + (IF i = n THEN 0 ELSE Group * w[i + 1])]
<1> DEFINE w == CHOOSE w : w = body(w)
<1>8. decode(f, q) = [val |-> w[0] % 2 ^ Width, pos |-> q + n + 1]
  <2> HIDE DEF n
  <2>1. decode(f, q) =
          LET v[i \in 0 .. c] == (f[q + i] % Group) + (IF i = c THEN 0 ELSE Group * v[i + 1])
          IN [val |-> v[0] % 2 ^ Width, pos |-> q + c + 1]
    BY DEF decode
  <2> HIDE DEF c
  <2> QED
    BY <1>7, <2>1
<1> DEFINE z == [i \in 0 .. n |-> h[i + 1]]
<1>9. /\ h \in [1 .. N -> Nat]
      /\ \A j \in 1 .. N : h[j] = (t[j] % Group) + (IF j = N THEN 0 ELSE Group * h[j + 1])
  BY <1>2 DEF Digits
<1>10. z = body(z)
  <2> SUFFICES ASSUME NEW i \in 0 .. n
               PROVE  h[i + 1] = (f[q + i] % Group) + (IF i = n THEN 0 ELSE Group * z[i + 1])
    OBVIOUS
  <2>1. f[q + i] = t[i + 1] /\ i + 1 \in 1 .. N /\ (i = n <=> i + 1 = N)
    BY <1>3, <1>4
  <2>2. i # n => z[i + 1] = h[(i + 1) + 1]
    <3> HIDE DEF n
    <3>1. i # n => i + 1 \in 0 .. n
      BY <1>4
    <3> QED
      BY <3>1
  <2> QED
    BY <1>9, <2>1, <2>2
<1>11. w = body(w)
  <2> HIDE DEF body, z
  <2> QED
    BY <1>10
<1>12. \A i \in 0 .. n : w[i] = (f[q + i] % Group) + (IF i = n THEN 0 ELSE Group * w[i + 1])
  <2> HIDE DEF w, n
  <2> QED
    BY <1>11
<1>13. \A i \in 0 .. n : z[i] = (f[q + i] % Group) + (IF i = n THEN 0 ELSE Group * z[i + 1])
  <2> HIDE DEF z, n
  <2> QED
    BY <1>10
<1>14. z[0] = x
  BY <1>2, <1>4
<1> HIDE DEF w, z, n
<1> DEFINE S == {m \in Nat : n - m \in 0 .. n => w[n - m] = z[n - m]}
<1>15. 0 \in S
  <2>1. n - 0 = n /\ n \in 0 .. n
    BY <1>4
  <2>2. w[n] = z[n]
    BY <1>12, <1>13, <2>1
  <2> QED
    BY <2>1, <2>2
<1>16. ASSUME NEW m \in Nat, m \in S PROVE m + 1 \in S
  <2>1. SUFFICES ASSUME n - (m + 1) \in 0 .. n PROVE w[n - (m + 1)] = z[n - (m + 1)]
    OBVIOUS
  <2> DEFINE i == n - (m + 1)
  <2>2. i \in 0 .. n /\ i + 1 = n - m /\ i # n /\ n - m \in 0 .. n
    BY <1>4, <2>1
  <2>3. w[n - m] = z[n - m]
    BY <1>16, <2>2
  <2> HIDE DEF i
  <2>4. w[i] = z[i]
    BY <1>12, <1>13, <2>2, <2>3
  <2> QED
    BY <2>4 DEF i
<1> HIDE DEF S
<1>17. \A m \in Nat : m \in S
  BY <1>15, <1>16, SetInduction
<1>18. n - n = 0 /\ 0 \in 0 .. n
  BY <1>4
<1>19. w[0] = z[0]
  BY <1>4, <1>17, <1>18 DEF S
<1>20. x % 2 ^ Width = x
  <2> DEFINE g == 2 ^ Width
  <2>1. g \in Nat /\ x < g
    BY GroupFacts
  <2> HIDE DEF g
  <2>2. x % g = x
    BY <2>1, SmallMod
  <2> QED
    BY <2>2 DEF g
<1>21. q + n + 1 = q + N
  <2> HIDE DEF N
  <2>1. q + n + 1 = q + (n + 1)
    BY <1>4
  <2> QED
    BY <1>4, <2>1
<1> QED
  BY <1>8, <1>14, <1>19, <1>20, <1>21

-----------------------------------------------------------------------------
LEMMA BinaryGate ==
  ASSUME NEW s, Plain(s), IsBinary(s), NEW i \in 1 .. Len(s.ands)
  PROVE  LET o == FirstGate(s) + 2 * (i - 1)
             x == o - s.ands[i][1]
             y == s.ands[i][1] - s.ands[i][2]
         IN /\ x \in Nat /\ y \in Nat /\ x < 2 ^ Width /\ y < 2 ^ Width
            /\ Codes(encode(x), x) /\ Codes(encode(y), y)
            /\ GateText(s, TRUE, i) = encode(x) \o encode(y)
<1> DEFINE o == FirstGate(s) + 2 * (i - 1)
<1> DEFINE a == s.ands[i][1]
<1> DEFINE b == s.ands[i][2]
<1> DEFINE e == EndGates(s)
<1>1. a \in Nat /\ b \in Nat
  BY SourceFacts
<1>2. a < o /\ b < o /\ b <= a
  <2>1. 1 \in 1 .. 2 /\ 2 \in 1 .. 2
    OBVIOUS
  <2>2. \A k \in 1 .. Len(s.ands), j \in 1 .. 2 : s.ands[k][j] < FirstGate(s) + 2 * (k - 1)
    BY DEF IsBinary, FaninsFirst
  <2>3. b <= a
    BY DEF IsBinary
  <2> QED
    BY <2>1, <2>2, <2>3
<1>3. o \in Nat /\ e \in Nat /\ o < e
  <2> DEFINE l == Len(s.latches)
  <2> DEFINE n == Len(s.ands)
  <2> DEFINE k == s.inputs
  <2>1. l \in Nat /\ n \in Nat /\ k \in Nat /\ i \in 1 .. n
    BY SourceFacts
  <2>2. o = 2 * (k + 1) + 2 * l + 2 * (i - 1) /\ e = 2 * (k + 1) + 2 * l + 2 * n
    BY DEF FirstGate, FirstLatch, EndGates
  <2> HIDE DEF l, n, k, o, e
  <2> QED
    BY <2>1, <2>2
<1>4. e <= 2 ^ Width /\ 2 ^ Width \in Nat
  BY GroupFacts DEF IsBinary
<1>5. GateText(s, TRUE, i) = encode(o - a) \o encode(a - b)
  BY DEF GateText
<1> DEFINE W == 2 ^ Width
<1> HIDE DEF o, a, b, e, W
<1>6. o - a \in Nat /\ a - b \in Nat /\ o - a < W /\ a - b < W
  BY <1>1, <1>2, <1>3, <1>4 DEF W
<1>7. Codes(encode(o - a), o - a) /\ Codes(encode(a - b), a - b)
  BY <1>6, EncodeCodes
<1> QED
  BY <1>5, <1>6, <1>7 DEF o, a, b, W

LEMMA GateTextType ==
  ASSUME NEW s, Plain(s), NEW bin \in BOOLEAN, bin => IsBinary(s), NEW i \in 1 .. Len(s.ands)
  PROVE  GateText(s, bin, i) \in Seq(Int)
<1>1. CASE bin = TRUE
  <2> DEFINE a == encode((FirstGate(s) + 2 * (i - 1)) - s.ands[i][1])
  <2> DEFINE b == encode(s.ands[i][1] - s.ands[i][2])
  <2>1. GateText(s, TRUE, i) = a \o b /\ a \in Seq(Int) /\ b \in Seq(Int)
    BY <1>1, BinaryGate DEF Codes
  <2> HIDE DEF a, b
  <2> QED
    BY <1>1, <2>1, ConcatProperties
<1>2. CASE bin = FALSE
  BY <1>2, GateTokens
<1> QED
  BY <1>1, <1>2

LEMMA BlocksType ==
  ASSUME NEW s, Plain(s), NEW bin \in BOOLEAN, bin => IsBinary(s)
  PROVE  /\ InputBlocks(s, bin) \in Seq(Seq(Int)) /\ Len(InputBlocks(s, bin)) = (IF bin THEN 0 ELSE s.inputs)
         /\ LatchBlocks(s, bin) \in Seq(Seq(Int)) /\ Len(LatchBlocks(s, bin)) = Len(s.latches)
         /\ GateBlocks(s, bin) \in Seq(Seq(Int)) /\ Len(GateBlocks(s, bin)) = Len(s.ands)
<1>1. InputBlocks(s, bin) \in Seq(Seq(Int)) /\ Len(InputBlocks(s, bin)) = (IF bin THEN 0 ELSE s.inputs)
  <2>1. CASE bin
    BY <2>1 DEF InputBlocks
  <2>2. CASE ~bin
    <3> DEFINE e(i) == Line(<<2 * i>>)
    <3>1. s.inputs \in Nat
      BY SourceFacts
    <3>2. \A i \in 1 .. s.inputs : e(i) \in Seq(Int)
      <4> SUFFICES ASSUME NEW i \in 1 .. s.inputs PROVE e(i) \in Seq(Int)
        OBVIOUS
      <4>1. 2 * i \in Int
        BY <3>1
      <4> QED
        BY <4>1, TwoTokens
    <3>3. InputBlocks(s, bin) = [i \in 1 .. s.inputs |-> e(i)]
      BY <2>2 DEF InputBlocks
    <3> HIDE DEF e
    <3> QED
      BY <2>2, <3>1, <3>2, <3>3
  <2> QED
    BY <2>1, <2>2
<1>2. LatchBlocks(s, bin) \in Seq(Seq(Int)) /\ Len(LatchBlocks(s, bin)) = Len(s.latches)
  <2> DEFINE n == Len(s.latches)
  <2> DEFINE e(i) == Line(LatchLine(s, bin, i))
  <2>1. n \in Nat /\ \A i \in 1 .. n : e(i) \in Seq(Int)
    BY SourceFacts, LatchTokens
  <2>2. LatchBlocks(s, bin) = [i \in 1 .. n |-> e(i)]
    BY DEF LatchBlocks
  <2> HIDE DEF e, n
  <2>3. [i \in 1 .. n |-> e(i)] \in Seq(Seq(Int)) /\ Len([i \in 1 .. n |-> e(i)]) = n
    BY <2>1
  <2> QED
    BY <2>2, <2>3 DEF n
<1>3. GateBlocks(s, bin) \in Seq(Seq(Int)) /\ Len(GateBlocks(s, bin)) = Len(s.ands)
  <2> DEFINE n == Len(s.ands)
  <2> DEFINE e(i) == GateText(s, bin, IF bin THEN i ELSE s.order[i])
  <2>1. n \in Nat /\ \A i \in 1 .. n : s.order[i] \in 1 .. n
    BY SourceFacts
  <2>2. ASSUME NEW i \in 1 .. n PROVE e(i) \in Seq(Int)
    BY <2>1, GateTextType
  <2>3. GateBlocks(s, bin) = [i \in 1 .. n |-> e(i)]
    BY DEF GateBlocks
  <2> HIDE DEF e, n
  <2>4. [i \in 1 .. n |-> e(i)] \in Seq(Seq(Int)) /\ Len([i \in 1 .. n |-> e(i)]) = n
    BY <2>1, <2>2
  <2> QED
    BY <2>3, <2>4 DEF n
<1> QED
  BY <1>1, <1>2, <1>3

LEMMA LiteralBlocksType ==
  ASSUME NEW t \in Seq(Nat)
  PROVE  /\ LiteralBlocks(t) \in Seq(Seq(Int)) /\ Len(LiteralBlocks(t)) = Len(t)
         /\ Lines(Singles(t)) = FlattenSeq(LiteralBlocks(t))
<1> DEFINE n == Len(t)
<1> DEFINE e(i) == Line(<<t[i]>>)
<1>1. n \in Nat /\ \A i \in 1 .. n : t[i] \in Int
  BY LenProperties, ElementOfSeq
<1>2. \A i \in 1 .. n : e(i) \in Seq(Int)
  BY <1>1, TwoTokens
<1>3. LiteralBlocks(t) = [i \in 1 .. n |-> e(i)]
  BY DEF LiteralBlocks
<1>4. Lines(Singles(t)) = FlattenSeq([i \in 1 .. n |-> e(i)])
  <2> DEFINE u == [i \in 1 .. n |-> <<t[i]>>]
  <2>1. Singles(t) = u /\ \A i \in 1 .. n : u[i] = <<t[i]>>
    BY DEF Singles
  <2>2. Len(u) = n /\ DOMAIN u = 1 .. n
    <3> HIDE DEF n
    <3> QED
      BY <1>1
  <2> HIDE DEF u
  <2>3. Lines(u) = FlattenSeq([i \in 1 .. n |-> Line(u[i])])
    BY <1>1, <2>2, LinesIs
  <2>4. [i \in 1 .. n |-> Line(u[i])] = [i \in 1 .. n |-> e(i)]
    BY <2>1
  <2> QED
    BY <2>1, <2>3, <2>4
<1> HIDE DEF e, n
<1>5. [i \in 1 .. n |-> e(i)] \in Seq(Seq(Int)) /\ Len([i \in 1 .. n |-> e(i)]) = n
  BY <1>1, <1>2
<1> QED
  BY <1>3, <1>4, <1>5 DEF n

(* The tokens of the header: the five counts, and two more unless they are 0. *)
HeaderTokens(s) ==
  LET t == Header(s)
      l == Len(s.latches)
      b == Len(s.bads)
      c == Len(s.constraints)
      n == IF c # 0 THEN 7 ELSE IF b # 0 THEN 6 ELSE 5
  IN /\ t \in Seq(Int) /\ Len(t) = n + 1 /\ t[n + 1] = NL
     /\ t[1] = s.inputs + l + Len(s.ands) /\ t[2] = s.inputs /\ t[3] = l
     /\ t[4] = Len(s.outputs) /\ t[5] = Len(s.ands)
     /\ n >= 6 => t[6] = b
     /\ n = 7 => t[7] = c

LEMMA HeaderIs ==
  ASSUME NEW s, Plain(s)
  PROVE  HeaderTokens(s)
<1> DEFINE i == s.inputs
<1> DEFINE l == Len(s.latches)
<1> DEFINE o == Len(s.outputs)
<1> DEFINE a == Len(s.ands)
<1> DEFINE b == Len(s.bads)
<1> DEFINE c == Len(s.constraints)
<1> DEFINE u == <<i + l + a, i, l, o, a>>
<1> DEFINE n == IF c # 0 THEN 7 ELSE IF b # 0 THEN 6 ELSE 5
<1>1. /\ i \in Nat /\ l \in Nat /\ o \in Nat /\ a \in Nat /\ b \in Nat /\ c \in Nat
      /\ b \in Int /\ c \in Int
  BY SourceFacts
<1>2. (s.constraints # <<>> <=> c # 0) /\ (s.bads # <<>> <=> b # 0)
  <2>1. s.constraints \in Seq(Nat) /\ s.bads \in Seq(Nat)
    BY DEF Plain, IsSource
  <2> QED
    BY <2>1, EmptySeq
<1> DEFINE opt == IF c # 0 THEN <<b, c>> ELSE IF b # 0 THEN <<b>> ELSE <<>>
<1>3. Header(s) = Line(u \o opt)
  BY <1>2 DEF Header, Plain, SafetyOnly
<1> HIDE DEF i, l, o, a, b, c
<1>4. u \in Seq(Int) /\ Len(u) = 5 /\ u[1] = i + l + a /\ u[2] = i /\ u[3] = l /\ u[4] = o /\ u[5] = a
  BY <1>1
<1> HIDE DEF u
<1> DEFINE t == u \o opt
<1>5. /\ t \in Seq(Int) /\ Len(t) = n /\ t[1] = i + l + a /\ t[2] = i /\ t[3] = l /\ t[4] = o /\ t[5] = a
      /\ (n >= 6 => t[6] = b) /\ (n = 7 => t[7] = c)
  <2>1. CASE c # 0
    <3> DEFINE v == u \o <<b>>
    <3>0. /\ v \in Seq(Int) /\ Len(v) = Len(u) + 1 /\ v[Len(u) + 1] = b
          /\ \A j \in 1 .. Len(u) : v[j] = u[j]
      BY <1>1, <1>4, OneMore
    <3>1. v \in Seq(Int) /\ Len(v) = 5 + 1 /\ v[5 + 1] = b /\ \A j \in 1 .. 5 : v[j] = u[j]
      BY <1>4, <3>0
    <3>1a. v \in Seq(Int) /\ Len(v) = 6 /\ v[6] = b /\ \A j \in 1 .. 5 : v[j] = u[j]
      BY <3>1
    <3>2. t = v \o <<c>>
      <4>a. <<b>> \in Seq(Int) /\ <<c>> \in Seq(Int)
        BY <1>1
      <4>b. <<b, c>> \in Seq(Int) /\ Len(<<b, c>>) = 2 /\ <<b, c>>[1] = b /\ <<b, c>>[2] = c
        BY <1>1
      <4>c. /\ <<b>> \o <<c>> \in Seq(Int) /\ Len(<<b>> \o <<c>>) = 2
            /\ (<<b>> \o <<c>>)[1] = b /\ (<<b>> \o <<c>>)[2] = c
        BY <1>1
      <4>d. \A j \in 1 .. 2 : j = 1 \/ j = 2
        OBVIOUS
      <4>1. <<b>> \in Seq(Int) /\ <<c>> \in Seq(Int) /\ <<b>> \o <<c>> = <<b, c>>
        BY <4>a, <4>b, <4>c, <4>d, SeqEqual
      <4>2. (u \o <<b>>) \o <<c>> = u \o (<<b>> \o <<c>>)
        BY <1>4, <4>1, ConcatAssociative
      <4> QED
        BY <2>1, <4>1, <4>2
    <3>3. n = 7
      BY <2>1
    <3> HIDE DEF v, t, n
    <3>4a. /\ t \in Seq(Int) /\ Len(t) = Len(v) + 1 /\ t[Len(v) + 1] = c
           /\ \A j \in 1 .. Len(v) : t[j] = v[j]
      BY <1>1, <3>1a, <3>2, OneMore
    <3>4. t \in Seq(Int) /\ Len(t) = 6 + 1 /\ t[6 + 1] = c /\ \A j \in 1 .. 6 : t[j] = v[j]
      BY <3>1a, <3>4a
    <3> QED
      BY <1>4, <3>1a, <3>3, <3>4
  <2>2. CASE c = 0 /\ b # 0
    <3>1. t = u \o <<b>> /\ n = 6
      BY <2>2
    <3> HIDE DEF t, n
    <3>2. /\ t \in Seq(Int) /\ Len(t) = Len(u) + 1 /\ t[Len(u) + 1] = b
          /\ \A j \in 1 .. Len(u) : t[j] = u[j]
      BY <1>1, <1>4, <3>1, OneMore
    <3>4. t \in Seq(Int) /\ Len(t) = 5 + 1 /\ t[5 + 1] = b /\ \A j \in 1 .. 5 : t[j] = u[j]
      BY <1>4, <3>2
    <3> QED
      BY <1>4, <3>1, <3>4
  <2>3. CASE c = 0 /\ b = 0
    <3>1. t = u /\ n = 5
      BY <1>4, <2>3, ConcatEmptySeq
    <3> HIDE DEF t, n
    <3> QED
      BY <1>4, <3>1
  <2> QED
    BY <2>1, <2>2, <2>3
<1>6. n \in 5 .. 7
  OBVIOUS
<1> HIDE DEF t, n
<1>7. /\ Line(t) \in Seq(Int) /\ Len(Line(t)) = n + 1 /\ Line(t)[n + 1] = NL
      /\ \A j \in 1 .. n : Line(t)[j] = t[j]
  BY <1>5, LineIs
<1>8. 1 \in 1 .. n /\ 2 \in 1 .. n /\ 3 \in 1 .. n /\ 4 \in 1 .. n /\ 5 \in 1 .. n
      /\ (n >= 6 => 6 \in 1 .. n) /\ (n = 7 => 7 \in 1 .. n)
  BY <1>6
<1> QED
  BY <1>3, <1>5, <1>7, <1>8 DEF HeaderTokens, t, n, i, l, o, a, b, c

LEMMA FlattenType ==
  ASSUME NEW bs \in Seq(Seq(Int))
  PROVE  FlattenSeq(bs) \in Seq(Int)
<1>1. PICK g \in [0 .. Len(bs) -> Seq(Int)] : FlattenSeq(bs) = g[Len(bs)]
  BY FlattenIs
<1>2. Len(bs) \in 0 .. Len(bs)
  BY LenProperties
<1> QED
  BY <1>1, <1>2

LEMMA NoLines ==
  Lines(Singles(<<>>)) = <<>> /\ FlattenSeq(<<>>) = <<>>
<1>1. FlattenSeq(<<>>) = <<>>
  BY DEF FlattenSeq
<1>2. Singles(<<>>) = <<>>
  BY DEF Singles
<1>3. [i \in 1 .. Len(<<>>) |-> Line(<<>>[i])] = <<>>
  OBVIOUS
<1> QED
  BY <1>1, <1>2, <1>3 DEF Lines

LEMMA ConditionsAre ==
  ASSUME NEW s, Plain(s)
  PROVE  Conditions(s) = FlattenSeq(LiteralBlocks(s.constraints))
<1>1. s.justice = <<>> /\ s.fairness = <<>> /\ s.constraints \in Seq(Nat)
  BY DEF Plain, IsSource, SafetyOnly
<1>2. [i \in 1 .. Len(s.justice) |-> Len(s.justice[i])] = <<>>
  BY <1>1
<1> DEFINE u == Lines(Singles(s.constraints))
<1>3. u = FlattenSeq(LiteralBlocks(s.constraints)) /\ LiteralBlocks(s.constraints) \in Seq(Seq(Int))
  BY <1>1, LiteralBlocksType
<1>4. u \in Seq(Int)
  BY <1>3, FlattenType
<1>5. Conditions(s) = u \o <<>> \o <<>> \o <<>>
  BY <1>1, <1>2, NoLines DEF Conditions
<1> HIDE DEF u
<1>6. u \o <<>> = u
  BY <1>4, ConcatEmptySeq
<1> QED
  BY <1>3, <1>5, <1>6

LEMMA FileIs ==
  ASSUME NEW s, Plain(s), NEW bin \in BOOLEAN, bin => IsBinary(s)
  PROVE  FileOf(s, bin) = Header(s) \o FlattenSeq(InputBlocks(s, bin)) \o FlattenSeq(LatchBlocks(s, bin))
                          \o FlattenSeq(LiteralBlocks(s.outputs)) \o FlattenSeq(LiteralBlocks(s.bads))
                          \o FlattenSeq(LiteralBlocks(s.constraints)) \o FlattenSeq(GateBlocks(s, bin))
<1>1. (IF bin THEN <<>> ELSE Lines([i \in 1 .. s.inputs |-> <<2 * i>>])) = FlattenSeq(InputBlocks(s, bin))
  <2>1. CASE bin
    BY <2>1 DEF InputBlocks, FlattenSeq
  <2>2. CASE ~bin
    <3> DEFINE n == s.inputs
    <3> DEFINE u == [i \in 1 .. n |-> <<2 * i>>]
    <3>1. n \in Nat
      BY SourceFacts
    <3> HIDE DEF n
    <3>2. Len(u) = n /\ DOMAIN u = 1 .. n /\ \A i \in 1 .. n : u[i] = <<2 * i>>
      BY <3>1
    <3> HIDE DEF u
    <3>3. Lines(u) = FlattenSeq([i \in 1 .. n |-> Line(u[i])])
      BY <3>1, <3>2, LinesIs
    <3>4. [i \in 1 .. n |-> Line(u[i])] = [i \in 1 .. n |-> Line(<<2 * i>>)]
      BY <3>2
    <3>5. InputBlocks(s, bin) = [i \in 1 .. n |-> Line(<<2 * i>>)]
      BY <2>2 DEF InputBlocks, n
    <3> QED
      BY <2>2, <3>3, <3>4, <3>5 DEF u, n
  <2> QED
    BY <2>1, <2>2
<1>2. Lines([i \in 1 .. Len(s.latches) |-> LatchLine(s, bin, i)]) = FlattenSeq(LatchBlocks(s, bin))
  <2> DEFINE n == Len(s.latches)
  <2> DEFINE u == [i \in 1 .. n |-> LatchLine(s, bin, i)]
  <2>1. n \in Nat
    BY SourceFacts
  <2>2. LatchBlocks(s, bin) = [i \in 1 .. n |-> Line(LatchLine(s, bin, i))]
    BY DEF LatchBlocks
  <2> HIDE DEF n
  <2>3. Len(u) = n /\ DOMAIN u = 1 .. n /\ \A i \in 1 .. n : u[i] = LatchLine(s, bin, i)
    BY <2>1
  <2> HIDE DEF u
  <2>4. Lines(u) = FlattenSeq([i \in 1 .. n |-> Line(u[i])])
    BY <2>1, <2>3, LinesIs
  <2>5. [i \in 1 .. n |-> Line(u[i])] = [i \in 1 .. n |-> Line(LatchLine(s, bin, i))]
    BY <2>3
  <2> QED
    BY <2>2, <2>4, <2>5 DEF u, n
<1>3. s.outputs \in Seq(Nat) /\ s.bads \in Seq(Nat)
  BY DEF Plain, IsSource
<1>4. /\ Lines(Singles(s.outputs)) = FlattenSeq(LiteralBlocks(s.outputs))
      /\ Lines(Singles(s.bads)) = FlattenSeq(LiteralBlocks(s.bads))
      /\ Conditions(s) = FlattenSeq(LiteralBlocks(s.constraints))
  BY <1>3, LiteralBlocksType, ConditionsAre
<1>5. [i \in 1 .. Len(s.ands) |-> GateText(s, bin, IF bin THEN i ELSE s.order[i])] = GateBlocks(s, bin)
  BY DEF GateBlocks
<1> QED
  BY <1>1, <1>2, <1>4, <1>5 DEF FileOf

(* The text x is followed by blocks, up to the end of y. *)
Follows(f, x, bs, y) ==
  At(f, 1, x) /\ \E o : Placed(f, 1 + Len(x), bs, o) /\ o[Len(bs)] = 1 + Len(y)

LEMMA NextPart ==
  ASSUME NEW f, NEW x \in Seq(Int), NEW bs \in Seq(Seq(Int)), NEW y, y = x \o FlattenSeq(bs), At(f, 1, y)
  PROVE  Follows(f, x, bs, y)
<1> DEFINE t == FlattenSeq(bs)
<1>1. t \in Seq(Int)
  BY FlattenType
<1> HIDE DEF t
<1>2. y = x \o t
  BY DEF t
<1>3. At(f, 1, x \o t) /\ 1 \in Int
  BY <1>2
<1>4. At(f, 1, x) /\ At(f, 1 + Len(x), t)
  BY <1>1, <1>3, AtConcat
<1>5. Len(y) = Len(x) + Len(t)
  BY <1>1, <1>2, ConcatProperties
<1>6. Len(x) \in Nat /\ Len(t) \in Nat
  BY <1>1, LenProperties
<1> DEFINE q == 1 + Len(x)
<1>7. q \in Nat /\ q + Len(t) = 1 + Len(y)
  <2> DEFINE a == Len(x)
  <2> DEFINE b == Len(t)
  <2> DEFINE c == Len(y)
  <2>1. a \in Nat /\ b \in Nat /\ c = a + b
    BY <1>5, <1>6
  <2> HIDE DEF a, b, c
  <2>2. 1 + a \in Nat /\ (1 + a) + b = 1 + c
    BY <2>1
  <2> QED
    BY <2>2 DEF a, b, c
<1>8. At(f, q, FlattenSeq(bs))
  BY <1>4 DEF t
<1> HIDE DEF q
<1>9. PICK o : Placed(f, q, bs, o) /\ o[Len(bs)] = q + Len(FlattenSeq(bs))
  BY <1>7, <1>8, FlattenPlaced
<1>10. o[Len(bs)] = 1 + Len(y)
  BY <1>7, <1>9 DEF t
<1> QED
  BY <1>4, <1>9, <1>10 DEF q, Follows

LEMMA LayoutExists ==
  ASSUME NEW s, Plain(s), NEW bin \in BOOLEAN, bin => IsBinary(s)
  PROVE  \E o : Layout(s, bin, FileOf(s, bin), o)
<1> DEFINE f == FileOf(s, bin)
<1> DEFINE h == Header(s)
<1> DEFINE B1 == InputBlocks(s, bin)
<1> DEFINE B2 == LatchBlocks(s, bin)
<1> DEFINE B3 == LiteralBlocks(s.outputs)
<1> DEFINE B4 == LiteralBlocks(s.bads)
<1> DEFINE B5 == LiteralBlocks(s.constraints)
<1> DEFINE B6 == GateBlocks(s, bin)
<1> DEFINE x1 == h \o FlattenSeq(B1)
<1> DEFINE x2 == x1 \o FlattenSeq(B2)
<1> DEFINE x3 == x2 \o FlattenSeq(B3)
<1> DEFINE x4 == x3 \o FlattenSeq(B4)
<1> DEFINE x5 == x4 \o FlattenSeq(B5)
<1> DEFINE x6 == x5 \o FlattenSeq(B6)
<1>1. f = x6
  BY FileIs
<1>2. /\ h \in Seq(Int) /\ B1 \in Seq(Seq(Int)) /\ B2 \in Seq(Seq(Int)) /\ B6 \in Seq(Seq(Int))
      /\ Len(B2) = Len(s.latches) /\ Len(B6) = Len(s.ands)
  BY HeaderIs, BlocksType DEF HeaderTokens
<1>3. /\ B3 \in Seq(Seq(Int)) /\ B4 \in Seq(Seq(Int)) /\ B5 \in Seq(Seq(Int))
      /\ Len(B3) = Len(s.outputs) /\ Len(B4) = Len(s.bads) /\ Len(B5) = Len(s.constraints)
  <2>1. s.outputs \in Seq(Nat) /\ s.bads \in Seq(Nat) /\ s.constraints \in Seq(Nat)
    BY DEF Plain, IsSource
  <2> QED
    BY <2>1, LiteralBlocksType
<1> HIDE DEF f, h, B1, B2, B3, B4, B5, B6
<1>4. /\ FlattenSeq(B1) \in Seq(Int) /\ FlattenSeq(B2) \in Seq(Int) /\ FlattenSeq(B3) \in Seq(Int)
      /\ FlattenSeq(B4) \in Seq(Int) /\ FlattenSeq(B5) \in Seq(Int) /\ FlattenSeq(B6) \in Seq(Int)
  BY <1>2, <1>3, FlattenType
<1>5. x1 \in Seq(Int)
  BY <1>2, <1>4, ConcatProperties
<1>6. x2 \in Seq(Int)
  <2> HIDE DEF x1
  <2> QED
    BY <1>4, <1>5, ConcatProperties
<1>7. x3 \in Seq(Int)
  <2> HIDE DEF x2
  <2> QED
    BY <1>4, <1>6, ConcatProperties
<1>8. x4 \in Seq(Int)
  <2> HIDE DEF x3
  <2> QED
    BY <1>4, <1>7, ConcatProperties
<1>9. x5 \in Seq(Int)
  <2> HIDE DEF x4
  <2> QED
    BY <1>4, <1>8, ConcatProperties
<1>10. x6 \in Seq(Int)
  <2> HIDE DEF x5
  <2> QED
    BY <1>4, <1>9, ConcatProperties
<1>11. At(f, 1, x6)
  <2>1. \A j \in 1 .. Len(f) : 1 + (j - 1) = j
    <3>1. Len(f) \in Nat
      BY <1>1, <1>10, LenProperties
    <3> QED
      BY <3>1
  <2> HIDE DEF x6
  <2> QED
    BY <1>1, <2>1 DEF At
<1>12. At(f, 1, x5) /\ Follows(f, x5, B6, x6)
  <2>1. x6 = x5 \o FlattenSeq(B6) /\ x5 \in Seq(Int) /\ B6 \in Seq(Seq(Int)) /\ At(f, 1, x6)
    BY <1>2, <1>3, <1>9, <1>11
  <2> HIDE DEF x5, x6
  <2>2. Follows(f, x5, B6, x6)
    BY <2>1, NextPart
  <2> QED
    BY <2>2 DEF Follows
<1>13. At(f, 1, x4) /\ Follows(f, x4, B5, x5)
  <2>1. x5 = x4 \o FlattenSeq(B5) /\ x4 \in Seq(Int) /\ B5 \in Seq(Seq(Int)) /\ At(f, 1, x5)
    BY <1>2, <1>3, <1>8, <1>12
  <2> HIDE DEF x4, x5
  <2>2. Follows(f, x4, B5, x5)
    BY <2>1, NextPart
  <2> QED
    BY <2>2 DEF Follows
<1>14. At(f, 1, x3) /\ Follows(f, x3, B4, x4)
  <2>1. x4 = x3 \o FlattenSeq(B4) /\ x3 \in Seq(Int) /\ B4 \in Seq(Seq(Int)) /\ At(f, 1, x4)
    BY <1>2, <1>3, <1>7, <1>13
  <2> HIDE DEF x3, x4
  <2>2. Follows(f, x3, B4, x4)
    BY <2>1, NextPart
  <2> QED
    BY <2>2 DEF Follows
<1>15. At(f, 1, x2) /\ Follows(f, x2, B3, x3)
  <2>1. x3 = x2 \o FlattenSeq(B3) /\ x2 \in Seq(Int) /\ B3 \in Seq(Seq(Int)) /\ At(f, 1, x3)
    BY <1>2, <1>3, <1>6, <1>14
  <2> HIDE DEF x2, x3
  <2>2. Follows(f, x2, B3, x3)
    BY <2>1, NextPart
  <2> QED
    BY <2>2 DEF Follows
<1>16. At(f, 1, x1) /\ Follows(f, x1, B2, x2)
  <2>1. x2 = x1 \o FlattenSeq(B2) /\ x1 \in Seq(Int) /\ B2 \in Seq(Seq(Int)) /\ At(f, 1, x2)
    BY <1>2, <1>3, <1>5, <1>15
  <2> HIDE DEF x1, x2
  <2>2. Follows(f, x1, B2, x2)
    BY <2>1, NextPart
  <2> QED
    BY <2>2 DEF Follows
<1>17. At(f, 1, h) /\ Follows(f, h, B1, x1)
  <2>1. x1 = h \o FlattenSeq(B1) /\ h \in Seq(Int) /\ B1 \in Seq(Seq(Int)) /\ At(f, 1, x1)
    BY <1>2, <1>3, <1>16
  <2> HIDE DEF x1
  <2>2. Follows(f, h, B1, x1)
    BY <2>1, NextPart
  <2> QED
    BY <2>2 DEF Follows
<1> HIDE DEF x1, x2, x3, x4, x5, x6
<1>21. PICK o1 : Placed(f, 1 + Len(h), B1, o1) /\ o1[Len(B1)] = 1 + Len(x1)
  BY <1>17 DEF Follows
<1>22. PICK o2 : Placed(f, 1 + Len(x1), B2, o2) /\ o2[Len(B2)] = 1 + Len(x2)
  BY <1>16 DEF Follows
<1>23. PICK o3 : Placed(f, 1 + Len(x2), B3, o3) /\ o3[Len(B3)] = 1 + Len(x3)
  BY <1>15 DEF Follows
<1>24. PICK o4 : Placed(f, 1 + Len(x3), B4, o4) /\ o4[Len(B4)] = 1 + Len(x4)
  BY <1>14 DEF Follows
<1>25. PICK o5 : Placed(f, 1 + Len(x4), B5, o5) /\ o5[Len(B5)] = 1 + Len(x5)
  BY <1>13 DEF Follows
<1>26. PICK o6 : Placed(f, 1 + Len(x5), B6, o6) /\ o6[Len(B6)] = 1 + Len(x6)
  BY <1>12 DEF Follows
<1> DEFINE o == [inputs |-> o1, latches |-> o2, outputs |-> o3, bads |-> o4, constraints |-> o5, ands |-> o6]
<1>27. /\ o.inputs = o1 /\ o.latches = o2 /\ o.outputs = o3 /\ o.bads = o4 /\ o.constraints = o5
       /\ o.ands = o6
  OBVIOUS
<1> HIDE DEF o
<1>28. /\ f \in Seq(Int) /\ h \in Seq(Int) /\ At(f, 1, h)
       /\ Placed(f, 1 + Len(h), B1, o.inputs) /\ Placed(f, o.inputs[Len(B1)], B2, o.latches)
       /\ Placed(f, o.latches[Len(s.latches)], B3, o.outputs)
       /\ Placed(f, o.outputs[Len(s.outputs)], B4, o.bads)
       /\ Placed(f, o.bads[Len(s.bads)], B5, o.constraints)
       /\ Placed(f, o.constraints[Len(s.constraints)], B6, o.ands)
       /\ o.ands[Len(s.ands)] = Len(f) + 1
  <2>1. Len(f) \in Nat /\ 1 + Len(x6) = Len(f) + 1
    BY <1>1, <1>10, LenProperties
  <2>2. f \in Seq(Int) /\ o.ands[Len(s.ands)] = Len(f) + 1
    BY <1>1, <1>2, <1>10, <1>26, <1>27, <2>1
  <2> QED
    BY <1>2, <1>3, <1>17, <1>21, <1>22, <1>23, <1>24, <1>25, <1>26, <1>27, <2>2
<1>29. Layout(s, bin, f, o)
  BY <1>28 DEF Layout, h, B1, B2, B3, B4, B5, B6
<1> QED
  BY <1>29 DEF f

-----------------------------------------------------------------------------
(* What the sections are read as. *)
Parts == {"inputs", "latches", "outputs", "bads", "constraints", "ands"}

(* What the file says of a latch, of a gate, and of all parts.             *)
WantedLatch(s, k) == [l |-> FirstLatch(s) + 2 * (k - 1), next |-> s.latches[k][1], default_val |-> s.latches[k][2]]
WantedGate(s, k) == [o |-> FirstGate(s) + 2 * (k - 1), i1 |-> s.ands[k][1], i2 |-> s.ands[k][2]]

Wanted(s, bin) ==
  [inputs |-> [k \in 1 .. s.inputs |-> 2 * k],
   latches |-> [k \in 1 .. Len(s.latches) |-> WantedLatch(s, k)],
   outputs |-> s.outputs, bads |-> s.bads, constraints |-> s.constraints,
   ands |-> [k \in 1 .. Len(s.ands) |-> WantedGate(s, IF bin THEN k ELSE s.order[k])]]

(* The lines (or codes) that say so.                                       *)
Blocks(s, bin) ==
  [inputs |-> InputBlocks(s, bin), latches |-> LatchBlocks(s, bin),
   outputs |-> LiteralBlocks(s.outputs), bads |-> LiteralBlocks(s.bads),
   constraints |-> LiteralBlocks(s.constraints), ands |-> GateBlocks(s, bin)]

Upto(w, n) == [k \in 1 .. n |-> w[k]]

LEMMA UptoIs ==
  ASSUME NEW w, NEW n \in Nat
  PROVE  /\ Len(Upto(w, n)) = n /\ (n = 0 => Upto(w, n) = <<>>)
         /\ Append(Upto(w, n), w[n + 1]) = Upto(w, n + 1)
<1> DEFINE V == {w[k] : k \in 1 .. n + 1}
<1> DEFINE t == Upto(w, n)
<1>1. t \in Seq(V) /\ Len(t) = n /\ \A k \in 1 .. n : t[k] = w[k]
  BY DEF Upto
<1>2. w[n + 1] \in V
  OBVIOUS
<1>3. Upto(w, n + 1) \in Seq(V) /\ Len(Upto(w, n + 1)) = n + 1 /\ \A k \in 1 .. n + 1 : Upto(w, n + 1)[k] = w[k]
  BY DEF Upto
<1> HIDE DEF V, t
<1>4. /\ Append(t, w[n + 1]) \in Seq(V) /\ Len(Append(t, w[n + 1])) = n + 1
      /\ \A k \in 1 .. n : Append(t, w[n + 1])[k] = t[k]
      /\ Append(t, w[n + 1])[n + 1] = w[n + 1]
  BY <1>1, <1>2, AppendProperties
<1>5. \A k \in 1 .. n + 1 : Append(t, w[n + 1])[k] = w[k]
  BY <1>1, <1>4
<1>6. Append(t, w[n + 1]) = Upto(w, n + 1)
  BY <1>3, <1>4, <1>5, SeqEqual
<1>7. n = 0 => t = <<>>
  BY <1>1, EmptySeq
<1> QED
  BY <1>1, <1>6, <1>7 DEF t

LEMMA WantedIs ==
  ASSUME NEW s, Plain(s), NEW bin \in BOOLEAN, NEW x \in Parts
  PROVE  /\ Len(Wanted(s, bin)[x]) \in Nat
         /\ Wanted(s, bin)[x] = Upto(Wanted(s, bin)[x], Len(Wanted(s, bin)[x]))
         /\ x = "inputs" => Len(Wanted(s, bin)[x]) = s.inputs
         /\ x = "latches" => Len(Wanted(s, bin)[x]) = Len(s.latches)
         /\ x = "ands" => Len(Wanted(s, bin)[x]) = Len(s.ands)
<1> DEFINE W == Wanted(s, bin)
<1>0. \A n \in Nat : \A w : w = [k \in 1 .. n |-> w[k]] => Len(w) = n /\ w = Upto(w, n)
  BY DEF Upto
<1>1. s.inputs \in Nat /\ W.inputs = [k \in 1 .. s.inputs |-> W.inputs[k]]
  BY SourceFacts DEF Wanted
<1>2. Len(s.latches) \in Nat /\ W.latches = [k \in 1 .. Len(s.latches) |-> W.latches[k]]
  BY SourceFacts DEF Wanted
<1>3. Len(s.ands) \in Nat /\ W.ands = [k \in 1 .. Len(s.ands) |-> W.ands[k]]
  BY SourceFacts DEF Wanted
<1>4. W.outputs \in Seq(Nat) /\ W.bads \in Seq(Nat) /\ W.constraints \in Seq(Nat)
  BY DEF Wanted, Plain, IsSource
<1>5. \A w \in Seq(Nat) : Len(w) \in Nat /\ w = Upto(w, Len(w))
  BY LenProperties DEF Upto
<1> HIDE DEF W
<1>6. CASE x = "inputs"
  BY <1>0, <1>1, <1>6 DEF W
<1>7. CASE x = "latches"
  BY <1>0, <1>2, <1>7 DEF W
<1>8. CASE x = "ands"
  BY <1>0, <1>3, <1>8 DEF W
<1>9. CASE x \in {"outputs", "bads", "constraints"}
  BY <1>4, <1>5, <1>9 DEF W
<1> QED
  BY <1>6, <1>7, <1>8, <1>9 DEF Parts

LEMMA BlocksAre ==
  ASSUME NEW s, Plain(s), NEW bin \in BOOLEAN, bin => IsBinary(s), NEW x \in Parts
  PROVE  /\ Blocks(s, bin)[x] \in Seq(Seq(Int))
         /\ Len(Blocks(s, bin)[x]) = IF x = "inputs" /\ bin THEN 0 ELSE Len(Wanted(s, bin)[x])
<1>1. /\ s.outputs \in Seq(Nat) /\ s.bads \in Seq(Nat) /\ s.constraints \in Seq(Nat)
  BY DEF Plain, IsSource
<1>2. CASE x \in {"outputs", "bads", "constraints"}
  BY <1>1, <1>2, LiteralBlocksType DEF Blocks, Wanted
<1>3. CASE x = "inputs"
  BY <1>3, BlocksType, WantedIs DEF Blocks
<1>4. CASE x = "latches"
  BY <1>4, BlocksType, WantedIs DEF Blocks
<1>5. CASE x = "ands"
  BY <1>5, BlocksType, WantedIs DEF Blocks
<1> QED
  BY <1>2, <1>3, <1>4, <1>5 DEF Parts

LEMMA PlacedMonotone ==
  ASSUME NEW f, NEW q, NEW bs \in Seq(Seq(Int)), NEW o, Placed(f, q, bs, o), NEW k \in 0 .. Len(bs)
  PROVE  o[k] <= o[Len(bs)] /\ o[0] <= o[k] /\ o[k] \in Nat /\ o[Len(bs)] \in Nat
<1> DEFINE N == Len(bs)
<1>1. N \in Nat /\ \A j \in 1 .. N : Len(bs[j]) \in Nat
  BY LenProperties, ElementOfSeq
<1>2. o \in [0 .. N -> Nat] /\ \A j \in 1 .. N : o[j] = o[j - 1] + Len(bs[j])
  BY DEF Placed
<1> HIDE DEF N
<1>3. ASSUME NEW j \in 0 .. N - 1 PROVE o[j] <= o[j + 1]
  <2>1. j + 1 \in 1 .. N /\ (j + 1) - 1 = j /\ j \in 0 .. N
    BY <1>1
  <2>2. o[j + 1] = o[j] + Len(bs[j + 1]) /\ o[j] \in Nat /\ Len(bs[j + 1]) \in Nat
    BY <1>1, <1>2, <2>1
  <2> QED
    BY <2>2
<1> DEFINE S == {m \in Nat : k + m \in 0 .. N => o[k] <= o[k + m]}
<1>4. 0 \in S
  BY <1>1, <1>2 DEF N
<1>5. ASSUME NEW m \in Nat, m \in S PROVE m + 1 \in S
  <2>1. SUFFICES ASSUME k + (m + 1) \in 0 .. N PROVE o[k] <= o[k + (m + 1)]
    OBVIOUS
  <2>2. k + m \in 0 .. N - 1 /\ k + m \in 0 .. N /\ (k + m) + 1 = k + (m + 1) /\ k \in 0 .. N
    BY <1>1, <2>1 DEF N
  <2>3. o[k] <= o[k + m] /\ o[k + m] <= o[k + (m + 1)]
    BY <1>3, <1>5, <2>2
  <2>4. o[k] \in Nat /\ o[k + m] \in Nat /\ o[k + (m + 1)] \in Nat
    BY <1>2, <2>1, <2>2
  <2> QED
    BY <2>3, <2>4
<1> HIDE DEF S
<1>6. \A m \in Nat : m \in S
  BY <1>4, <1>5, SetInduction
<1>7. o[k] <= o[N]
  <2>1. N - k \in Nat /\ k + (N - k) = N /\ N \in 0 .. N
    BY <1>1 DEF N
  <2> QED
    BY <1>6, <2>1 DEF S
<1> DEFINE T == {m \in Nat : m \in 0 .. N => o[0] <= o[m]}
<1>8. 0 \in T
  BY <1>1, <1>2
<1>9. ASSUME NEW m \in Nat, m \in T PROVE m + 1 \in T
  <2>1. SUFFICES ASSUME m + 1 \in 0 .. N PROVE o[0] <= o[m + 1]
    OBVIOUS
  <2>2. m \in 0 .. N - 1 /\ m \in 0 .. N /\ 0 \in 0 .. N
    BY <1>1, <2>1
  <2>3. o[0] <= o[m] /\ o[m] <= o[m + 1] /\ o[0] \in Nat /\ o[m] \in Nat /\ o[m + 1] \in Nat
    BY <1>2, <1>3, <1>9, <2>1, <2>2
  <2> QED
    BY <2>3
<1> HIDE DEF T
<1>10. \A m \in Nat : m \in T
  BY <1>8, <1>9, SetInduction
<1>11. o[0] <= o[k] /\ o[k] \in Nat /\ o[N] \in Nat
  <2>1. k \in Nat /\ k \in 0 .. N /\ N \in 0 .. N
    BY <1>1 DEF N
  <2> QED
    BY <1>2, <1>10, <2>1 DEF T
<1> QED
  BY <1>7, <1>11 DEF N

(* Each of the blocks is a line. *)
AreLines(bs) == \A k \in 1 .. Len(bs) : Len(bs[k]) \in Nat /\ Len(bs[k]) >= 1 /\ bs[k][Len(bs[k])] = NL

LEMMA LineEnds ==
  ASSUME NEW f, NEW q \in Nat, NEW bs \in Seq(Seq(Int)), NEW o, Placed(f, q, bs, o), AreLines(bs), f[q - 1] = NL,
         NEW k \in 0 .. Len(bs)
  PROVE  f[o[k] - 1] = NL
<1>1. CASE k = 0
  BY <1>1 DEF Placed
<1>2. CASE k # 0
  <2> DEFINE m == Len(bs[k])
  <2>1. k \in 1 .. Len(bs) /\ k - 1 \in 0 .. Len(bs)
    BY <1>2, LenProperties
  <2>2. m \in Nat /\ m >= 1 /\ bs[k][m] = NL
    BY <2>1 DEF AreLines
  <2>3. o[k] = o[k - 1] + m /\ At(f, o[k - 1], bs[k]) /\ o[k - 1] \in Nat
    BY <2>1 DEF Placed
  <2>4. m \in 1 .. Len(bs[k])
    BY <2>2
  <2>5. f[o[k - 1] + (m - 1)] = NL
    BY <2>2, <2>3, <2>4 DEF At
  <2> DEFINE b == o[k - 1]
  <2>6. b \in Nat /\ o[k] = b + m /\ f[b + (m - 1)] = NL
    BY <2>3, <2>5
  <2> HIDE DEF m, b
  <2>7. (b + m) - 1 = b + (m - 1)
    BY <2>2, <2>6
  <2> QED
    BY <2>6, <2>7
<1> QED
  BY <1>1, <1>2

LEMMA LiteralLines ==
  ASSUME NEW t, NEW n \in Nat, NEW bs, bs \in Seq(Seq(Int)), Len(bs) = n,
         \A k \in 1 .. n : t[k] \in Nat /\ bs[k] = Line(<<t[k]>>)
  PROVE  AreLines(bs)
<1> SUFFICES ASSUME NEW k \in 1 .. n
             PROVE  Len(bs[k]) \in Nat /\ Len(bs[k]) >= 1 /\ bs[k][Len(bs[k])] = NL
  BY DEF AreLines
<1>1. t[k] \in Int /\ bs[k] = Line(<<t[k]>>)
  OBVIOUS
<1>2. Len(bs[k]) = 2 /\ bs[k][2] = NL
  BY <1>1, TwoTokens
<1> QED
  BY <1>2

(* The sections of one literal a line. *)
LiteralParts == {"inputs", "outputs", "bads", "constraints"}

LEMMA LiteralPart ==
  ASSUME NEW s, Plain(s), NEW bin \in BOOLEAN, bin => IsBinary(s), NEW x \in LiteralParts,
         NEW k \in 1 .. Len(Blocks(s, bin)[x])
  PROVE  Wanted(s, bin)[x][k] \in Nat /\ Blocks(s, bin)[x][k] = Line(<<Wanted(s, bin)[x][k]>>)
<1>1. x \in Parts
  BY DEF LiteralParts, Parts
<1>2. CASE x = "inputs"
  <2>1. ~bin
    <3>1. bin => Len(Blocks(s, bin)[x]) = 0
      BY <1>1, <1>2, BlocksAre
    <3> QED
      BY <3>1
  <2>2. k \in 1 .. s.inputs /\ s.inputs \in Nat
    BY <1>1, <1>2, <2>1, BlocksAre, WantedIs, SourceFacts
  <2>3. Wanted(s, bin)[x][k] = 2 * k /\ Blocks(s, bin)[x][k] = Line(<<2 * k>>)
    BY <1>2, <2>1, <2>2 DEF Wanted, Blocks, InputBlocks
  <2>4. 2 * k \in Nat
    BY <2>2
  <2> QED
    BY <2>3, <2>4
<1>3. ASSUME NEW t \in Seq(Nat), k \in 1 .. Len(t)
      PROVE  t[k] \in Nat /\ LiteralBlocks(t)[k] = Line(<<t[k]>>)
  BY <1>3, ElementOfSeq DEF LiteralBlocks
<1>4. \/ Wanted(s, bin)[x] \in Seq(Nat) /\ Blocks(s, bin)[x] = LiteralBlocks(Wanted(s, bin)[x])
      \/ x = "inputs"
  BY DEF Wanted, Blocks, LiteralParts, Plain, IsSource
<1>5. CASE x # "inputs"
  <2>1. Len(Blocks(s, bin)[x]) = Len(Wanted(s, bin)[x])
    BY <1>1, <1>5, BlocksAre
  <2> QED
    BY <1>3, <1>4, <1>5, <2>1
<1> QED
  BY <1>2, <1>5

LEMMA PartsAreLines ==
  ASSUME NEW s, Plain(s), NEW bin \in BOOLEAN, bin => IsBinary(s), NEW x \in Parts, x # "ands" \/ ~bin
  PROVE  AreLines(Blocks(s, bin)[x])
<1>1. CASE x \in LiteralParts
  <2> DEFINE bs == Blocks(s, bin)[x]
  <2> DEFINE t == Wanted(s, bin)[x]
  <2>1. bs \in Seq(Seq(Int)) /\ Len(bs) \in Nat
    BY BlocksAre, LenProperties
  <2>2. \A k \in 1 .. Len(bs) : t[k] \in Nat /\ bs[k] = Line(<<t[k]>>)
    BY <1>1, LiteralPart
  <2> HIDE DEF bs, t
  <2>3. AreLines(bs)
    BY <2>1, <2>2, LiteralLines
  <2> QED
    BY <2>3 DEF bs
<1>2. CASE x = "latches"
  <2> SUFFICES ASSUME NEW k \in 1 .. Len(LatchBlocks(s, bin))
               PROVE  LET t == LatchBlocks(s, bin)[k] IN Len(t) \in Nat /\ Len(t) >= 1 /\ t[Len(t)] = NL
    BY <1>2 DEF AreLines, Blocks
  <2> DEFINE t == Line(LatchLine(s, bin, k))
  <2> DEFINE n == (IF bin THEN 0 ELSE 1) + (IF s.latches[k][2] = 0 THEN 1 ELSE 2)
  <2>1. k \in 1 .. Len(s.latches)
    BY BlocksType
  <2>2. LatchBlocks(s, bin)[k] = t
    BY <2>1 DEF LatchBlocks
  <2>3. n \in 1 .. 3
    OBVIOUS
  <2>4. Len(t) = n + 1 /\ t[n + 1] = NL
    BY <2>1, LatchTokens
  <2> HIDE DEF t, n
  <2> QED
    BY <2>2, <2>3, <2>4
<1>3. CASE x = "ands"
  <2> SUFFICES ASSUME NEW k \in 1 .. Len(GateBlocks(s, bin))
               PROVE  LET t == GateBlocks(s, bin)[k] IN Len(t) \in Nat /\ Len(t) >= 1 /\ t[Len(t)] = NL
    BY <1>3 DEF AreLines, Blocks
  <2>1. k \in 1 .. Len(s.ands) /\ bin = FALSE
    BY <1>3, BlocksType
  <2>2. s.order[k] \in 1 .. Len(s.ands)
    BY <2>1, SourceFacts
  <2>3. GateBlocks(s, bin)[k] = GateText(s, FALSE, s.order[k])
    BY <2>1 DEF GateBlocks
  <2>4. Len(GateText(s, FALSE, s.order[k])) = 4 /\ GateText(s, FALSE, s.order[k])[4] = NL
    BY <2>2, GateTokens
  <2> DEFINE t == GateBlocks(s, bin)[k]
  <2>5. Len(t) = 4 /\ t[4] = NL
    BY <2>3, <2>4
  <2> HIDE DEF t
  <2>6. Len(t) \in Nat /\ Len(t) >= 1 /\ t[Len(t)] = NL
    BY <2>5
  <2> QED
    BY <2>6 DEF t
<1> QED
  BY <1>1, <1>2, <1>3 DEF Parts, LiteralParts

(* Where the next section is. *)
After == [x \in Parts |-> CASE x = "inputs" -> "latches" [] x = "latches" -> "outputs" [] x = "outputs" -> "bads"
                            [] x = "bads" -> "constraints" [] x = "constraints" -> "ands" [] x = "ands" -> "translate"]

LEMMA LayoutFacts ==
  ASSUME NEW s, Plain(s), NEW bin \in BOOLEAN, bin => IsBinary(s), NEW f, NEW o, Layout(s, bin, f, o)
  PROVE  LET B == Blocks(s, bin) IN
         /\ f \in Seq(Int) /\ o.inputs[0] = 1 + Len(Header(s)) /\ o.ands[Len(B.ands)] = Len(f) + 1
         /\ \A x \in Parts : Placed(f, o[x][0], B[x], o[x]) /\ o[x][0] \in Nat
         /\ \A x \in Parts : x # "ands" => o[After[x]][0] = o[x][Len(B[x])]
         /\ \A x \in Parts : x # "ands" \/ ~bin => \A k \in 0 .. Len(B[x]) : f[o[x][k] - 1] = NL
<1> DEFINE B == Blocks(s, bin)
<1>1. /\ B.inputs = InputBlocks(s, bin) /\ B.latches = LatchBlocks(s, bin)
      /\ B.outputs = LiteralBlocks(s.outputs) /\ B.bads = LiteralBlocks(s.bads)
      /\ B.constraints = LiteralBlocks(s.constraints) /\ B.ands = GateBlocks(s, bin)
  BY DEF Blocks
<1>2. /\ Len(B.latches) = Len(s.latches) /\ Len(B.outputs) = Len(s.outputs) /\ Len(B.bads) = Len(s.bads)
      /\ Len(B.constraints) = Len(s.constraints) /\ Len(B.ands) = Len(s.ands)
  <2>1. s.outputs \in Seq(Nat) /\ s.bads \in Seq(Nat) /\ s.constraints \in Seq(Nat)
    BY DEF Plain, IsSource
  <2> QED
    BY <1>1, <2>1, BlocksType, LiteralBlocksType
<1>3. \A x \in Parts : B[x] \in Seq(Seq(Int)) /\ (x # "ands" \/ ~bin => AreLines(B[x]))
  BY BlocksAre, PartsAreLines
<1> HIDE DEF B
<1>4. /\ f \in Seq(Int) /\ Header(s) \in Seq(Int) /\ At(f, 1, Header(s))
      /\ Placed(f, 1 + Len(Header(s)), B.inputs, o.inputs)
      /\ Placed(f, o.inputs[Len(B.inputs)], B.latches, o.latches)
      /\ Placed(f, o.latches[Len(B.latches)], B.outputs, o.outputs)
      /\ Placed(f, o.outputs[Len(B.outputs)], B.bads, o.bads)
      /\ Placed(f, o.bads[Len(B.bads)], B.constraints, o.constraints)
      /\ Placed(f, o.constraints[Len(B.constraints)], B.ands, o.ands)
      /\ o.ands[Len(B.ands)] = Len(f) + 1
  BY <1>1, <1>2 DEF Layout
<1>5. \A q, bs, a : Placed(f, q, bs, a) => a[0] = q
  BY DEF Placed
<1>6. /\ o.inputs[0] = 1 + Len(Header(s)) /\ o.latches[0] = o.inputs[Len(B.inputs)]
      /\ o.outputs[0] = o.latches[Len(B.latches)] /\ o.bads[0] = o.outputs[Len(B.outputs)]
      /\ o.constraints[0] = o.bads[Len(B.bads)] /\ o.ands[0] = o.constraints[Len(B.constraints)]
  BY <1>4, <1>5
<1>7. ASSUME NEW x \in Parts PROVE Placed(f, o[x][0], B[x], o[x]) /\ o[x][0] \in Nat
  <2>1. Placed(f, o[x][0], B[x], o[x])
    BY <1>4, <1>6 DEF Parts
  <2>2. Len(B[x]) \in Nat /\ o[x] \in [0 .. Len(B[x]) -> Nat]
    BY <1>3, <2>1, LenProperties DEF Placed
  <2>3. 0 \in 0 .. Len(B[x])
    BY <2>2
  <2> QED
    BY <2>1, <2>2, <2>3
<1>8. ASSUME NEW x \in Parts, x # "ands" PROVE o[After[x]][0] = o[x][Len(B[x])]
  BY <1>6, <1>8 DEF Parts, After
<1>9. f[o.inputs[0] - 1] = NL
  <2> DEFINE n == Len(Header(s))
  <2> DEFINE m == IF Len(s.constraints) # 0 THEN 7 ELSE IF Len(s.bads) # 0 THEN 6 ELSE 5
  <2>0. m \in 5 .. 7 /\ n = m + 1 /\ Header(s)[m + 1] = NL
    BY HeaderIs DEF HeaderTokens
  <2> HIDE DEF m
  <2>1. n \in Nat /\ n >= 1 /\ Header(s)[n] = NL
    BY <2>0
  <2>2. n \in 1 .. n
    BY <2>1
  <2>3. f[1 + (n - 1)] = NL
    BY <1>4, <2>1, <2>2 DEF At
  <2>4. 1 + (n - 1) = (1 + n) - 1
    BY <2>1
  <2> QED
    BY <1>6, <2>3, <2>4
<1>10. ASSUME NEW x \in Parts, x # "ands" \/ ~bin, f[o[x][0] - 1] = NL
       PROVE  \A k \in 0 .. Len(B[x]) : f[o[x][k] - 1] = NL
  BY <1>3, <1>7, <1>10, LineEnds
<1>11. \A x \in Parts : Len(B[x]) \in 0 .. Len(B[x])
  <2>1. \A x \in Parts : Len(B[x]) \in Nat
    BY <1>3, LenProperties
  <2> QED
    BY <2>1
<1>12. ASSUME NEW x \in Parts, x # "ands", \A k \in 0 .. Len(B[x]) : f[o[x][k] - 1] = NL
       PROVE  f[o[After[x]][0] - 1] = NL
  <2>1. f[o[x][Len(B[x])] - 1] = NL
    BY <1>11, <1>12
  <2>2. o[After[x]][0] = o[x][Len(B[x])]
    BY <1>8, <1>12
  <2> QED
    BY <2>1, <2>2
<1> DEFINE P(x) == \A k \in 0 .. Len(B[x]) : f[o[x][k] - 1] = NL
<1>13. P("inputs")
  BY <1>9, <1>10 DEF Parts
<1>14. P("latches")
  BY <1>10, <1>12, <1>13 DEF Parts, After
<1>15. P("outputs")
  BY <1>10, <1>12, <1>14 DEF Parts, After
<1>16. P("bads")
  BY <1>10, <1>12, <1>15 DEF Parts, After
<1>17. P("constraints")
  BY <1>10, <1>12, <1>16 DEF Parts, After
<1>18. ~bin => P("ands")
  BY <1>10, <1>12, <1>17 DEF Parts, After
<1> HIDE DEF P
<1>19. \A x \in Parts : x # "ands" \/ ~bin => P(x)
  BY <1>13, <1>14, <1>15, <1>16, <1>17, <1>18 DEF Parts
<1> QED
  BY <1>4, <1>6, <1>7, <1>8, <1>19 DEF B, P

-----------------------------------------------------------------------------
(* Reading a line. *)
LEMMA ReadToken ==
  ASSUME NEW f, NEW q \in Int, NEW v \in Nat, f[q] = v
  PROVE  read_literal(f, q).val = v /\ read_literal(f, q).pos = q + 1
<1>1. v # NL
  BY DEF NL
<1> QED
  BY <1>1 DEF read_literal

LEMMA ReadEnd ==
  ASSUME NEW f, NEW q \in Int, f[q] = NL
  PROVE  read_literal(f, q).val = -1 /\ read_literal(f, q).pos = q /\ NextLine(f, q) = q + 1
BY DEF read_literal, NextLine

(* Block n + 1, in front of which the reader is. *)
LEMMA AtBlock ==
  ASSUME NEW f, NEW q, NEW bs \in Seq(Seq(Int)), NEW o, Placed(f, q, bs, o), NEW n \in Nat, n < Len(bs)
  PROVE  /\ n + 1 \in 1 .. Len(bs) /\ n \in 0 .. Len(bs) /\ o[n] \in Nat /\ o[n + 1] = o[n] + Len(bs[n + 1])
         /\ At(f, o[n], bs[n + 1])
<1>1. Len(bs) \in Nat
  BY LenProperties
<1>2. n + 1 \in 1 .. Len(bs) /\ n \in 0 .. Len(bs) /\ (n + 1) - 1 = n
  BY <1>1
<1> QED
  BY <1>2 DEF Placed

(* The reader is at the end of the line before a, and these tokens follow. *)
LEMMA LineLiteral ==
  ASSUME NEW f, NEW b \in Int, f[b - 1] = NL, NEW v \in Nat, f[b] = v
  PROVE  LET r == read_literal(f, NextLine(f, b - 1)) IN r.val = v /\ r.pos = b + 1
<1>1. b - 1 \in Int /\ (b - 1) + 1 = b
  OBVIOUS
<1>2. NextLine(f, b - 1) = b
  BY <1>1, ReadEnd
<1> QED
  BY <1>2, ReadToken

LEMMA LineGate ==
  ASSUME NEW f, NEW b \in Int, f[b - 1] = NL, NEW y \in Nat, NEW u \in Nat, NEW v \in Nat,
         f[b] = y, f[b + 1] = u, f[b + 2] = v
  PROVE  LET r0 == read_literal(f, NextLine(f, b - 1))
             r1 == read_literal(f, r0.pos)
             r2 == read_literal(f, r1.pos)
         IN r0.val = y /\ r1.val = u /\ r2.val = v /\ r2.pos = b + 3
<1> DEFINE r0 == read_literal(f, NextLine(f, b - 1))
<1> DEFINE r1 == read_literal(f, r0.pos)
<1> DEFINE r2 == read_literal(f, r1.pos)
<1>1. r0.val = y /\ r0.pos = b + 1
  BY LineLiteral
<1> HIDE DEF r0
<1>2. b + 1 \in Int /\ b + 2 \in Int /\ (b + 1) + 1 = b + 2 /\ (b + 2) + 1 = b + 3
  OBVIOUS
<1> DEFINE b1 == b + 1
<1> DEFINE b2 == b + 2
<1>a. /\ b1 \in Int /\ b2 \in Int /\ b1 + 1 = b2 /\ b2 + 1 = b + 3 /\ f[b1] = u /\ f[b2] = v
      /\ r0.pos = b1
  BY <1>1, <1>2
<1> HIDE DEF b1, b2
<1>3. r1.val = u /\ r1.pos = b2
  BY <1>a, ReadToken
<1> HIDE DEF r1
<1>4. r2.val = v /\ r2.pos = b + 3
  BY <1>a, <1>3, ReadToken
<1> HIDE DEF r2
<1> QED
  BY <1>1, <1>3, <1>4 DEF r0, r1, r2

(* With the literal of the latch e = 1, without e = 0. *)
LatchRead(f, b, bin, h, e, y, x, z) ==
  LET l == IF bin THEN [val |-> h, pos |-> NextLine(f, b - 1)] ELSE read_literal(f, NextLine(f, b - 1))
      n == read_literal(f, l.pos)
      d == read_literal(f, n.pos)
  IN /\ l.val = (IF bin THEN h ELSE y) /\ n.val = x /\ (IF d.val < 0 THEN 0 ELSE d.val) = z
     /\ d.pos = b + (e + (IF z = 0 THEN 1 ELSE 2))

LEMMA LineLatch ==
  ASSUME NEW f, NEW b \in Int, f[b - 1] = NL, NEW bin \in BOOLEAN, NEW h, NEW e, e = (IF bin THEN 0 ELSE 1),
         NEW y \in Nat, NEW x \in Nat, NEW z \in Nat, ~bin => f[b] = y, f[b + e] = x,
         f[b + (e + 1)] = (IF z = 0 THEN NL ELSE z)
  PROVE  LatchRead(f, b, bin, h, e, y, x, z)
<1> SUFFICES LET l == IF bin THEN [val |-> h, pos |-> NextLine(f, b - 1)] ELSE read_literal(f, NextLine(f, b - 1))
                 n == read_literal(f, l.pos)
                 d == read_literal(f, n.pos)
             IN /\ l.val = (IF bin THEN h ELSE y) /\ n.val = x /\ (IF d.val < 0 THEN 0 ELSE d.val) = z
                /\ d.pos = b + (e + (IF z = 0 THEN 1 ELSE 2))
  BY DEF LatchRead
<1> DEFINE l == IF bin THEN [val |-> h, pos |-> NextLine(f, b - 1)] ELSE read_literal(f, NextLine(f, b - 1))
<1> DEFINE n == read_literal(f, l.pos)
<1> DEFINE d == read_literal(f, n.pos)
<1>1. l.val = (IF bin THEN h ELSE y) /\ l.pos = b + e
  <2>1. CASE bin
    <3>1. b - 1 \in Int /\ (b - 1) + 1 = b /\ b + 0 = b
      OBVIOUS
    <3>2. NextLine(f, b - 1) = b
      BY <3>1, ReadEnd
    <3> QED
      BY <2>1, <3>1, <3>2
  <2>2. CASE ~bin
    BY <2>2, LineLiteral
  <2> QED
    BY <2>1, <2>2
<1> HIDE DEF l
<1>2. e \in Nat /\ b + e \in Int /\ (b + e) + 1 = b + (e + 1) /\ b + (e + 1) \in Int /\ (b + (e + 1)) + 1 = b + (e + 2)
  OBVIOUS
<1> DEFINE b1 == b + e
<1> DEFINE b2 == b + (e + 1)
<1>a. /\ b1 \in Int /\ b2 \in Int /\ b1 + 1 = b2 /\ b2 + 1 = b + (e + 2) /\ f[b1] = x
      /\ f[b2] = (IF z = 0 THEN NL ELSE z) /\ l.pos = b1
  BY <1>1, <1>2
<1>b. b2 = b + (e + 1)
  OBVIOUS
<1> HIDE DEF b1, b2
<1>3. n.val = x /\ n.pos = b2
  BY <1>a, ReadToken
<1> HIDE DEF n
<1>4. CASE z = 0
  <2>0. d.val = -1 /\ d.pos = b2
    BY <1>a, <1>3, <1>4, ReadEnd
  <2>1. d.val = -1 /\ d.pos = b + (e + 1)
    BY <1>b, <2>0
  <2> HIDE DEF d
  <2>2. (IF d.val < 0 THEN 0 ELSE d.val) = z /\ d.pos = b + (e + (IF z = 0 THEN 1 ELSE 2))
    BY <1>4, <2>1
  <2> QED
    BY <1>1, <1>3, <2>2 DEF l, n, d
<1>5. CASE z # 0
  <2>0. f[b2] = z
    BY <1>a, <1>5
  <2>1. d.val = z /\ d.pos = b + (e + 2)
    BY <1>a, <1>3, <2>0, ReadToken
  <2> HIDE DEF d
  <2>2. (IF d.val < 0 THEN 0 ELSE d.val) = z /\ d.pos = b + (e + (IF z = 0 THEN 1 ELSE 2))
    BY <1>5, <2>1
  <2> QED
    BY <1>1, <1>3, <2>2 DEF l, n, d
<1> QED
  BY <1>4, <1>5

LEMMA TwoCodes ==
  ASSUME NEW f \in Seq(Int), NEW b \in Nat, b >= 1, NEW x \in Nat, NEW y \in Nat, x < 2 ^ Width, y < 2 ^ Width,
         NEW c, NEW d, Codes(c, x), Codes(d, y), At(f, b, c \o d), b + Len(c \o d) <= Len(f) + 1
  PROVE  /\ decode(f, b).val = x /\ decode(f, decode(f, b).pos).val = y
         /\ decode(f, decode(f, b).pos).pos = b + Len(c \o d)
<1>5. c \in Seq(Int) /\ d \in Seq(Int) /\ Len(c) \in Nat /\ Len(d) \in Nat
  BY DEF Codes
<1>6. At(f, b, c) /\ At(f, b + Len(c), d) /\ Len(c \o d) = Len(c) + Len(d)
  <2>1. b \in Int
    OBVIOUS
  <2>2. Len(c \o d) = Len(c) + Len(d)
    BY <1>5, ConcatProperties
  <2>3. At(f, b, c) /\ At(f, b + Len(c), d)
    BY <1>5, <2>1, AtConcat
  <2> QED
    BY <2>2, <2>3
<1>7. Len(f) \in Nat
  BY LenProperties
<1> DEFINE m == Len(c)
<1> DEFINE n == Len(d)
<1> DEFINE z == Len(f)
<1>8. m \in Nat /\ n \in Nat /\ z \in Nat /\ b + (m + n) <= z + 1 /\ Len(c \o d) = m + n
  BY <1>5, <1>6, <1>7
<1>8a. At(f, b, c) /\ At(f, b + m, d)
  BY <1>6
<1> HIDE DEF m, n, z
<1> DEFINE a == b + m
<1>9. b + m - 1 <= z /\ a \in Nat /\ a >= 1 /\ a + n - 1 <= z /\ a + n = b + (m + n)
  BY <1>8
<1>10. decode(f, b).val = x /\ decode(f, b).pos = a
  BY <1>8a, <1>9, DecodeIs DEF m, z
<1>10a. At(f, a, d)
  BY <1>8a
<1> HIDE DEF a
<1>11. decode(f, a).val = y /\ decode(f, a).pos = a + n
  BY <1>9, <1>10a, DecodeIs DEF n, z
<1> QED
  BY <1>8, <1>9, <1>10, <1>11

(* Where the reader is when n items of section x are read. *)
Cursor(bin, o, x, n) ==
  IF bin /\ x = "ands" THEN o[x][n] ELSE IF bin /\ x = "inputs" THEN o[x][0] - 1 ELSE o[x][n] - 1

LEMMA InBlock ==
  ASSUME NEW s, Plain(s), NEW bin \in BOOLEAN, bin => IsBinary(s), NEW f, NEW o, Layout(s, bin, f, o),
         NEW x \in Parts, x # "inputs" \/ ~bin, NEW n \in Nat, n < Len(Wanted(s, bin)[x]),
         NEW t, t = Blocks(s, bin)[x][n + 1]
  PROVE  /\ n + 1 \in 1 .. Len(Wanted(s, bin)[x]) /\ n + 1 \in 1 .. Len(Blocks(s, bin)[x])
         /\ o[x][n] \in Nat /\ o[x][n + 1] = o[x][n] + Len(t) /\ At(f, o[x][n], t)
         /\ x # "ands" \/ ~bin => f[o[x][n] - 1] = NL
<1> DEFINE bs == Blocks(s, bin)[x]
<1> DEFINE a == o[x]
<1> DEFINE N == Len(Wanted(s, bin)[x])
<1>1. bs \in Seq(Seq(Int)) /\ Len(bs) = N /\ N \in Nat /\ n < N
  BY BlocksAre, WantedIs
<1>2. Placed(f, a[0], bs, a) /\ (x # "ands" \/ ~bin => \A k \in 0 .. Len(bs) : f[a[k] - 1] = NL)
  BY LayoutFacts
<1>3. t = bs[n + 1]
  OBVIOUS
<1> HIDE DEF bs, a, N
<1>4. /\ n + 1 \in 1 .. Len(bs) /\ n \in 0 .. Len(bs) /\ a[n] \in Nat /\ a[n + 1] = a[n] + Len(bs[n + 1])
      /\ At(f, a[n], bs[n + 1])
  BY <1>1, <1>2, AtBlock
<1>5. /\ n + 1 \in 1 .. N /\ n + 1 \in 1 .. Len(bs) /\ a[n] \in Nat /\ a[n + 1] = a[n] + Len(t) /\ At(f, a[n], t)
      /\ x # "ands" \/ ~bin => f[a[n] - 1] = NL
  BY <1>1, <1>2, <1>3, <1>4
<1> QED
  BY <1>5 DEF bs, a, N

LEMMA ReadsLiteral ==
  ASSUME NEW s, Plain(s), NEW bin \in BOOLEAN, bin => IsBinary(s), NEW f, NEW o, Layout(s, bin, f, o),
         NEW x \in LiteralParts, x # "inputs" \/ ~bin, NEW n \in Nat, n < Len(Wanted(s, bin)[x])
  PROVE  LET r == read_literal(f, NextLine(f, Cursor(bin, o, x, n)))
         IN r.val = Wanted(s, bin)[x][n + 1] /\ r.pos = Cursor(bin, o, x, n + 1)
<1> DEFINE t == Blocks(s, bin)[x][n + 1]
<1> DEFINE b == o[x][n]
<1> DEFINE c == o[x][n + 1]
<1> DEFINE v == Wanted(s, bin)[x][n + 1]
<1>1. x \in Parts /\ x # "ands"
  BY DEF LiteralParts, Parts
<1>2. n + 1 \in 1 .. Len(Blocks(s, bin)[x]) /\ b \in Nat /\ c = b + Len(t) /\ At(f, b, t) /\ f[b - 1] = NL
  BY <1>1, InBlock
<1>3. v \in Nat /\ t = Line(<<v>>)
  BY <1>2, LiteralPart
<1>4. Cursor(bin, o, x, n) = b - 1 /\ Cursor(bin, o, x, n + 1) = c - 1
  BY <1>1 DEF Cursor
<1> HIDE DEF t, b, c, v
<1>5. Len(t) = 2 /\ t[1] = v
  BY <1>3, TwoTokens
<1>6. f[b] = v /\ b \in Int /\ b + 1 = c - 1
  <2>1. 1 \in 1 .. 2 /\ b + (1 - 1) = b
    BY <1>2
  <2> QED
    BY <1>2, <1>5, <2>1 DEF At
<1>7. LET r == read_literal(f, NextLine(f, b - 1)) IN r.val = v /\ r.pos = b + 1
  BY <1>2, <1>3, <1>6, LineLiteral
<1> QED
  BY <1>4, <1>6, <1>7 DEF v

LEMMA ReadsLatch ==
  ASSUME NEW s, Plain(s), NEW bin \in BOOLEAN, bin => IsBinary(s), NEW f, NEW o, Layout(s, bin, f, o),
         NEW k \in Nat, k < Len(Wanted(s, bin).latches), NEW h, h = 2 * (s.inputs + 1 + k)
  PROVE  LET b == NextLine(f, Cursor(bin, o, "latches", k))
             l == IF bin THEN [val |-> h, pos |-> b] ELSE read_literal(f, b)
             n == read_literal(f, l.pos)
             d == read_literal(f, n.pos)
         IN /\ [l |-> l.val, next |-> n.val, default_val |-> IF d.val < 0 THEN 0 ELSE d.val]
                 = Wanted(s, bin).latches[k + 1]
            /\ d.pos = Cursor(bin, o, "latches", k + 1)
<1> DEFINE t == Blocks(s, bin).latches[k + 1]
<1> DEFINE b == o.latches[k]
<1> DEFINE c == o.latches[k + 1]
<1> DEFINE x == s.latches[k + 1][1]
<1> DEFINE z == s.latches[k + 1][2]
<1> DEFINE y == FirstLatch(s) + 2 * ((k + 1) - 1)
<1> DEFINE e == IF bin THEN 0 ELSE 1
<1> DEFINE m == e + (IF z = 0 THEN 1 ELSE 2)
<1>1. "latches" \in Parts
  BY DEF Parts
<1>2. k + 1 \in 1 .. Len(Wanted(s, bin).latches) /\ b \in Nat /\ c = b + Len(t) /\ At(f, b, t) /\ f[b - 1] = NL
  BY <1>1, InBlock
<1>3. k + 1 \in 1 .. Len(s.latches)
  BY <1>1, <1>2, WantedIs
<1>4. t = Line(LatchLine(s, bin, k + 1)) /\ Wanted(s, bin).latches[k + 1] = [l |-> y, next |-> x, default_val |-> z]
  BY <1>3 DEF Blocks, LatchBlocks, Wanted, WantedLatch
<1>5. Cursor(bin, o, "latches", k) = b - 1 /\ Cursor(bin, o, "latches", k + 1) = c - 1
  BY DEF Cursor
<1>6. Len(t) = m + 1 /\ t[m + 1] = NL /\ (~bin => t[1] = y) /\ t[e + 1] = x /\ (z # 0 => t[e + 2] = z)
  <2> DEFINE i == k + 1
  <2>1. i \in 1 .. Len(s.latches) /\ t = Line(LatchLine(s, bin, i))
    BY <1>3, <1>4
  <2>2. x = s.latches[i][1] /\ z = s.latches[i][2] /\ y = FirstLatch(s) + 2 * (i - 1)
    OBVIOUS
  <2> HIDE DEF i, x, z, y, t
  <2> QED
    BY <2>1, <2>2, LatchTokens
<1>7. x \in Nat /\ z \in Nat
  BY <1>3, SourceFacts
<1>8. y \in Nat /\ h = y
  <2> DEFINE i == s.inputs
  <2>1. i \in Nat /\ y = 2 * (i + 1) + 2 * ((k + 1) - 1) /\ h = 2 * (i + 1 + k)
    BY SourceFacts DEF FirstLatch
  <2> HIDE DEF i, y
  <2> QED
    BY <2>1
<1>9. e \in Nat /\ e <= 1 /\ m \in Nat /\ m >= e + 1 /\ (z = 0 => m = e + 1) /\ (z # 0 => m = e + 2) /\ (~bin => e = 1)
  <2> HIDE DEF z
  <2> QED
    OBVIOUS
<1>e. e = (IF bin THEN 0 ELSE 1) /\ m = e + (IF z = 0 THEN 1 ELSE 2)
  OBVIOUS
<1> HIDE DEF t, b, c, x, y, z, e, m
<1>10. ASSUME NEW j \in Nat, j <= m PROVE f[b + j] = t[j + 1]
  <2>1. j + 1 \in 1 .. Len(t) /\ b + ((j + 1) - 1) = b + j
    BY <1>2, <1>6, <1>9, <1>10
  <2> QED
    BY <1>2, <2>1 DEF At
<1>11. ~bin => f[b] = y
  <2>1. 0 \in Nat /\ 0 <= m /\ b + 0 = b /\ 0 + 1 = 1
    BY <1>2, <1>9
  <2> QED
    BY <1>6, <1>10, <2>1
<1>12. f[b + e] = x
  <2>1. e <= m
    BY <1>9
  <2> QED
    BY <1>6, <1>9, <1>10, <2>1
<1>13. f[b + (e + 1)] = (IF z = 0 THEN NL ELSE z)
  <2> DEFINE j == e + 1
  <2>1. j \in Nat /\ j <= m /\ (z = 0 => m = j) /\ (z # 0 => j + 1 = e + 2)
    BY <1>9
  <2> HIDE DEF j
  <2>2. f[b + j] = t[j + 1]
    BY <1>10, <2>1
  <2>3. f[b + j] = (IF z = 0 THEN NL ELSE z)
    BY <1>6, <2>1, <2>2
  <2> QED
    BY <2>3 DEF j
<1>14. b \in Int /\ b + m = c - 1
  BY <1>2, <1>6, <1>9
<1>15. LatchRead(f, b, bin, h, e, y, x, z)
  <2>1. b \in Int /\ f[b - 1] = NL /\ x \in Nat /\ y \in Nat /\ z \in Nat
    BY <1>2, <1>7, <1>8, <1>14
  <2> QED
    BY <1>e, <1>11, <1>12, <1>13, <2>1, LineLatch
<1> DEFINE l == IF bin THEN [val |-> h, pos |-> NextLine(f, b - 1)] ELSE read_literal(f, NextLine(f, b - 1))
<1> DEFINE n == read_literal(f, l.pos)
<1> DEFINE d == read_literal(f, n.pos)
<1>16. l.val = y /\ n.val = x /\ (IF d.val < 0 THEN 0 ELSE d.val) = z /\ d.pos = c - 1
  <2>1. l.val = (IF bin THEN h ELSE y) /\ n.val = x /\ (IF d.val < 0 THEN 0 ELSE d.val) = z
    BY <1>15 DEF LatchRead
  <2>2. d.pos = b + (e + (IF z = 0 THEN 1 ELSE 2))
    BY <1>15 DEF LatchRead
  <2> HIDE DEF l, n, d
  <2>3. d.pos = c - 1
    BY <1>e, <1>14, <2>2
  <2> QED
    BY <1>8, <2>1, <2>3
<1> HIDE DEF l, n, d
<1>17. [l |-> l.val, next |-> n.val, default_val |-> IF d.val < 0 THEN 0 ELSE d.val]
         = Wanted(s, bin).latches[k + 1]
  BY <1>4, <1>16
<1> QED
  BY <1>5, <1>16, <1>17 DEF l, n, d

(* The number of the gate that is listed at place k. *)
Listed(s, bin, k) == IF bin THEN k ELSE s.order[k]

LEMMA ListedIs ==
  ASSUME NEW s, Plain(s), NEW bin \in BOOLEAN, NEW k \in 1 .. Len(s.ands), NEW i, i = Listed(s, bin, k)
  PROVE  /\ i \in 1 .. Len(s.ands)
         /\ Blocks(s, bin).ands[k] = GateText(s, bin, i)
         /\ Wanted(s, bin).ands[k] = WantedGate(s, i)
<1>1. i \in 1 .. Len(s.ands)
  BY SourceFacts DEF Listed
<1> QED
  BY <1>1 DEF Listed, Blocks, GateBlocks, Wanted

LEMMA GateNumber ==
  ASSUME NEW s, Plain(s), NEW i \in 1 .. Len(s.ands)
  PROVE  FirstGate(s) + 2 * (i - 1) \in Nat /\ s.ands[i][1] \in Nat /\ s.ands[i][2] \in Nat
         /\ FirstGate(s) + 2 * (i - 1) = 2 * (s.inputs + Len(s.latches) + i)
<1> DEFINE l == Len(s.latches)
<1> DEFINE n == Len(s.ands)
<1> DEFINE k == s.inputs
<1> DEFINE g == FirstGate(s)
<1>1. l \in Nat /\ n \in Nat /\ k \in Nat /\ i \in 1 .. n /\ g = 2 * (k + 1) + 2 * l
  BY SourceFacts DEF FirstGate, FirstLatch
<1>2. s.ands[i][1] \in Nat /\ s.ands[i][2] \in Nat
  BY SourceFacts
<1> HIDE DEF l, n, k, g
<1>3. g + 2 * (i - 1) \in Nat /\ g + 2 * (i - 1) = 2 * (k + l + i)
  BY <1>1
<1> QED
  BY <1>2, <1>3 DEF l, k, g

(* Hypotheses that the provers are not to replace by their values. *)
IsTrue(b) == b
IsFalse(b) == ~b

LEMMA ReadsGate ==
  ASSUME NEW s, Plain(s), NEW bin \in BOOLEAN, IsFalse(bin), NEW f, NEW o, Layout(s, bin, f, o),
         NEW k \in Nat, k < Len(Wanted(s, bin).ands)
  PROVE  LET r0 == read_literal(f, NextLine(f, Cursor(bin, o, "ands", k)))
             r1 == read_literal(f, r0.pos)
             r2 == read_literal(f, r1.pos)
         IN /\ [o |-> r0.val, i1 |-> r1.val, i2 |-> r2.val] = Wanted(s, bin).ands[k + 1]
            /\ r2.pos = Cursor(bin, o, "ands", k + 1)
<1> DEFINE t == Blocks(s, bin).ands[k + 1]
<1> DEFINE b == o.ands[k]
<1> DEFINE c == o.ands[k + 1]
<1> DEFINE i == Listed(s, bin, k + 1)
<1> DEFINE y == FirstGate(s) + 2 * (i - 1)
<1> DEFINE u == s.ands[i][1]
<1> DEFINE v == s.ands[i][2]
<1>0. ~bin
  BY DEF IsFalse
<1>1. "ands" \in Parts
  BY DEF Parts
<1>2. k + 1 \in 1 .. Len(Wanted(s, bin).ands) /\ b \in Nat /\ c = b + Len(t) /\ At(f, b, t) /\ f[b - 1] = NL
  BY <1>0, <1>1, InBlock
<1>3. k + 1 \in 1 .. Len(s.ands)
  BY <1>1, <1>2, WantedIs
<1>4. Cursor(bin, o, "ands", k) = b - 1 /\ Cursor(bin, o, "ands", k + 1) = c - 1
  BY <1>0 DEF Cursor
<1>5. i \in 1 .. Len(s.ands) /\ t = GateText(s, bin, i) /\ Wanted(s, bin).ands[k + 1] = WantedGate(s, i)
  BY <1>3, ListedIs
<1> HIDE DEF i, t, b, c
<1>6. y \in Nat /\ u \in Nat /\ v \in Nat
  BY <1>5, GateNumber
<1>7. Len(t) = 4 /\ t[1] = y /\ t[2] = u /\ t[3] = v
  <2>1. GateText(s, bin, i) = GateText(s, FALSE, i)
    BY <1>0 DEF GateText
  <2> QED
    BY <1>5, <2>1, GateTokens
<1>8. Wanted(s, bin).ands[k + 1] = [o |-> y, i1 |-> u, i2 |-> v]
  BY <1>5 DEF WantedGate
<1> HIDE DEF y, u, v
<1>9. f[b] = y /\ f[b + 1] = u /\ f[b + 2] = v /\ b \in Int /\ b + 3 = c - 1
  <2>1. /\ 1 \in 1 .. 4 /\ b + (1 - 1) = b /\ 2 \in 1 .. 4 /\ b + (2 - 1) = b + 1
        /\ 3 \in 1 .. 4 /\ b + (3 - 1) = b + 2
    BY <1>2
  <2>2. b + 3 = c - 1 /\ b \in Int
    BY <1>2, <1>7
  <2> QED
    BY <1>2, <1>7, <2>1, <2>2 DEF At
<1> DEFINE r0 == read_literal(f, NextLine(f, b - 1))
<1> DEFINE r1 == read_literal(f, r0.pos)
<1> DEFINE r2 == read_literal(f, r1.pos)
<1>10. r0.val = y /\ r1.val = u /\ r2.val = v /\ r2.pos = c - 1
  BY <1>2, <1>6, <1>9, LineGate
<1> HIDE DEF r0, r1, r2
<1>11. [o |-> r0.val, i1 |-> r1.val, i2 |-> r2.val] = Wanted(s, bin).ands[k + 1]
  BY <1>8, <1>10
<1> QED
  BY <1>4, <1>10, <1>11 DEF r0, r1, r2

LEMMA LayoutStart ==
  ASSUME NEW s, Plain(s), NEW bin \in BOOLEAN, bin => IsBinary(s), NEW f, NEW o, Layout(s, bin, f, o),
         NEW x \in Parts, NEW n \in 0 .. Len(Blocks(s, bin)[x])
  PROVE  o[x][n] \in Nat /\ o[x][n] >= 1
<1> DEFINE L(y) == Len(Blocks(s, bin)[y])
<1>1. ASSUME NEW y \in Parts, NEW k \in 0 .. L(y) PROVE o[y][0] \in Nat /\ o[y][k] \in Nat /\ o[y][0] <= o[y][k]
  <2>1. Blocks(s, bin)[y] \in Seq(Seq(Int)) /\ Placed(f, o[y][0], Blocks(s, bin)[y], o[y])
    BY BlocksAre, LayoutFacts
  <2> DEFINE bs == Blocks(s, bin)[y]
  <2> DEFINE a == o[y]
  <2>2. bs \in Seq(Seq(Int)) /\ Placed(f, a[0], bs, a) /\ k \in 0 .. Len(bs)
    BY <2>1
  <2>3. a[0] \in Nat
    BY LayoutFacts
  <2> HIDE DEF bs, a
  <2>4. a[0] <= a[k] /\ a[k] \in Nat
    BY <2>2, PlacedMonotone
  <2> QED
    BY <2>3, <2>4 DEF a
<1>2. ASSUME NEW y \in Parts, y # "ands", o[y][0] >= 1 PROVE o[After[y]][0] >= 1
  <2>1. o[After[y]][0] = o[y][L(y)]
    BY <1>2, LayoutFacts
  <2>2. L(y) \in 0 .. L(y)
    BY BlocksAre, LenProperties
  <2>3. o[y][0] \in Nat /\ o[y][L(y)] \in Nat /\ o[y][0] <= o[y][L(y)]
    BY <1>1, <2>2
  <2> DEFINE u == o[y][0]
  <2> DEFINE v == o[y][L(y)]
  <2>4. u \in Nat /\ v \in Nat /\ u <= v /\ u >= 1
    BY <1>2, <2>3
  <2> HIDE DEF u, v
  <2>5. v >= 1
    BY <2>4
  <2> QED
    BY <2>1, <2>5 DEF v
<1>3. o.inputs[0] >= 1
  <2>1. o.inputs[0] = 1 + Len(Header(s))
    BY LayoutFacts
  <2>2. Len(Header(s)) \in Nat
    BY LenProperties DEF Layout
  <2> QED
    BY <2>1, <2>2
<1> HIDE DEF L
<1>4. o.latches[0] >= 1
  BY <1>2, <1>3 DEF Parts, After
<1>5. o.outputs[0] >= 1
  BY <1>2, <1>4 DEF Parts, After
<1>6. o.bads[0] >= 1
  BY <1>2, <1>5 DEF Parts, After
<1>7. o.constraints[0] >= 1
  BY <1>2, <1>6 DEF Parts, After
<1>8. o.ands[0] >= 1
  BY <1>2, <1>7 DEF Parts, After
<1>9. o[x][0] >= 1
  BY <1>3, <1>4, <1>5, <1>6, <1>7, <1>8 DEF Parts
<1>10. o[x][0] \in Nat /\ o[x][n] \in Nat /\ o[x][0] <= o[x][n]
  BY <1>1 DEF L
<1> DEFINE u == o[x][0]
<1> DEFINE v == o[x][n]
<1>11. u \in Nat /\ v \in Nat /\ u <= v /\ u >= 1
  BY <1>9, <1>10
<1> HIDE DEF u, v
<1>12. v \in Nat /\ v >= 1
  BY <1>11
<1> QED
  BY <1>12 DEF v

LEMMA AtGate ==
  ASSUME NEW s, Plain(s), NEW bin \in BOOLEAN, bin => IsBinary(s), NEW f, NEW o, Layout(s, bin, f, o),
         NEW k \in Nat, k < Len(Wanted(s, bin).ands), NEW t, t = Blocks(s, bin).ands[k + 1]
  PROVE  /\ k + 1 \in 1 .. Len(s.ands) /\ Len(Blocks(s, bin).ands) = Len(s.ands) /\ k + 1 \in 0 .. Len(s.ands)
         /\ k \in 0 .. Len(s.ands)
         /\ o.ands[k] \in Nat /\ o.ands[k] >= 1 /\ o.ands[k + 1] = o.ands[k] + Len(t) /\ At(f, o.ands[k], t)
<1>1. "ands" \in Parts
  BY DEF Parts
<1>2. k + 1 \in 1 .. Len(Wanted(s, bin).ands) /\ o.ands[k] \in Nat /\ o.ands[k + 1] = o.ands[k] + Len(t) /\ At(f, o.ands[k], t)
  BY <1>1, InBlock
<1>3. Len(Wanted(s, bin).ands) = Len(s.ands) /\ Len(Blocks(s, bin).ands) = Len(Wanted(s, bin).ands) /\ Len(s.ands) \in Nat
  BY <1>1, WantedIs, BlocksAre, SourceFacts
<1>4. k + 1 \in 1 .. Len(s.ands) /\ k \in 0 .. Len(s.ands) /\ k + 1 \in 0 .. Len(s.ands)
  BY <1>2, <1>3
<1>5. k \in 0 .. Len(Blocks(s, bin).ands)
  BY <1>3, <1>4
<1>6. o.ands[k] >= 1
  BY <1>1, <1>5, LayoutStart
<1> QED
  BY <1>2, <1>3, <1>4, <1>6


LEMMA DecodesGate ==
  ASSUME NEW s, Plain(s), IsBinary(s), NEW bin \in BOOLEAN, IsTrue(bin), NEW f, NEW o, Layout(s, bin, f, o),
         NEW k \in Nat, k < Len(Wanted(s, bin).ands), NEW g \in Nat, g = 2 * (s.inputs + Len(s.latches) + k + 1)
  PROVE  LET d1 == decode(f, Cursor(bin, o, "ands", k))
             d2 == decode(f, d1.pos)
         IN /\ [o |-> g, i1 |-> g - d1.val, i2 |-> g - d1.val - d2.val] = Wanted(s, bin).ands[k + 1]
            /\ d2.pos = Cursor(bin, o, "ands", k + 1)
<1> DEFINE bs == Blocks(s, bin).ands
<1> DEFINE a == o.ands
<1>0. "ands" \in Parts /\ (bin => IsBinary(s))
  BY DEF Parts
<1>1. PICK i : i = k + 1
  OBVIOUS
<1>t. PICK t : t = bs[i]
  OBVIOUS
<1>3. /\ i \in 1 .. Len(s.ands) /\ Len(bs) = Len(s.ands) /\ i \in 0 .. Len(s.ands)
      /\ a[k] \in Nat /\ a[k] >= 1 /\ a[i] = a[k] + Len(t) /\ At(f, a[k], t)
  <2>1. t = Blocks(s, bin).ands[k + 1]
    BY <1>1, <1>t
  <2>2. /\ k + 1 \in 1 .. Len(s.ands) /\ Len(Blocks(s, bin).ands) = Len(s.ands) /\ k + 1 \in 0 .. Len(s.ands)
        /\ o.ands[k] \in Nat /\ o.ands[k] >= 1 /\ o.ands[k + 1] = o.ands[k] + Len(t) /\ At(f, o.ands[k], t)
    BY <1>0, <2>1, AtGate
  <2> QED
    BY <1>1, <2>2
<1>4. Cursor(bin, o, "ands", k) = a[k] /\ Cursor(bin, o, "ands", k + 1) = a[i]
  BY <1>1 DEF Cursor, IsTrue
<1>5. t = GateText(s, TRUE, i) /\ Wanted(s, bin).ands[i] = WantedGate(s, i)
  <2>1. i = Listed(s, bin, i)
    BY DEF Listed, IsTrue
  <2>2. t = GateText(s, bin, i) /\ Wanted(s, bin).ands[i] = WantedGate(s, i)
    BY <1>3, <1>t, <2>1, ListedIs
  <2> QED
    BY <2>2 DEF GateText, IsTrue
<1>6. f \in Seq(Int) /\ a[Len(bs)] = Len(f) + 1 /\ Placed(f, a[0], bs, a) /\ bs \in Seq(Seq(Int))
  <2>1. bs \in Seq(Seq(Int))
    BY <1>0, BlocksAre
  <2>2. Placed(f, a[0], bs, a)
    BY <1>0, LayoutFacts
  <2>3. f \in Seq(Int) /\ a[Len(s.ands)] = Len(f) + 1
    BY DEF Layout
  <2> QED
    BY <1>3, <2>1, <2>2, <2>3
<1> DEFINE b == a[k]
<1> HIDE DEF bs, a
<1>8. a[i] <= Len(f) + 1
  <2>1. i \in 0 .. Len(bs)
    BY <1>3
  <2>2. a[i] <= a[Len(bs)]
    BY <1>6, <2>1, PlacedMonotone
  <2> QED
    BY <1>6, <2>2
<1> DEFINE y == FirstGate(s) + 2 * (i - 1)
<1> DEFINE u == s.ands[i][1]
<1> DEFINE v == s.ands[i][2]
<1> DEFINE c == encode(y - u)
<1> DEFINE d == encode(u - v)
<1>9. /\ y - u \in Nat /\ u - v \in Nat /\ y - u < 2 ^ Width /\ u - v < 2 ^ Width
      /\ Codes(c, y - u) /\ Codes(d, u - v) /\ GateText(s, TRUE, i) = c \o d
  BY <1>3, BinaryGate
<1>10. y \in Nat /\ u \in Nat /\ v \in Nat /\ y = g
  <2> DEFINE n == s.inputs
  <2> DEFINE m == Len(s.latches)
  <2>1. y \in Nat /\ u \in Nat /\ v \in Nat /\ y = 2 * (n + m + i)
    BY <1>3, GateNumber
  <2>2. n \in Nat /\ m \in Nat
    BY SourceFacts
  <2>3. g = 2 * (n + m + k + 1)
    OBVIOUS
  <2> HIDE DEF n, m, y, u, v
  <2> QED
    BY <1>1, <2>1, <2>2, <2>3
<1>11. Wanted(s, bin).ands[k + 1] = [o |-> y, i1 |-> u, i2 |-> v]
  BY <1>1, <1>5 DEF WantedGate
<1> DEFINE x1 == y - u
<1> DEFINE x2 == u - v
<1>12. /\ At(f, b, c \o d) /\ b \in Nat /\ b >= 1 /\ b + Len(c \o d) <= Len(f) + 1 /\ a[i] = b + Len(c \o d)
       /\ x1 \in Nat /\ x2 \in Nat /\ x1 < 2 ^ Width /\ x2 < 2 ^ Width /\ Codes(c, x1) /\ Codes(d, x2)
  BY <1>3, <1>5, <1>8, <1>9
<1> HIDE DEF c, d, b
<1>13. y - x1 = u /\ y - x1 - x2 = v
  <2> HIDE DEF y, u, v
  <2> QED
    BY <1>10
<1> HIDE DEF x1, x2, y, u, v
<1> DEFINE d1 == decode(f, b)
<1> DEFINE d2 == decode(f, d1.pos)
<1>14. d1.val = x1 /\ d2.val = x2 /\ d2.pos = b + Len(c \o d)
  BY <1>6, <1>12, TwoCodes
<1> HIDE DEF d1, d2
<1>15. [o |-> g, i1 |-> g - d1.val, i2 |-> g - d1.val - d2.val] = Wanted(s, bin).ands[k + 1]
  BY <1>10, <1>11, <1>13, <1>14
<1>16. d2.pos = a[i]
  BY <1>12, <1>14
<1> QED
  BY <1>4, <1>15, <1>16 DEF d1, d2, b

-----------------------------------------------------------------------------
(* The sections before x are read, and n items of x. *)
Past == [x \in Parts |-> CASE x = "inputs" -> {} [] x = "latches" -> {"inputs"}
                           [] x = "outputs" -> {"inputs", "latches"} [] x = "bads" -> {"inputs", "latches", "outputs"}
                           [] x = "constraints" -> {"inputs", "latches", "outputs", "bads"}
                           [] x = "ands" -> Parts \ {"ands"}]

(* a holds the parts before x, and of x the first n items.                 *)
SoFar(W, x, n, a) ==
  /\ a = [y \in Parts |-> a[y]]
  /\ \A y \in Parts : a[y] = IF y \in Past[x] THEN W[y] ELSE IF y = x THEN Upto(W[y], n) ELSE <<>>

LEMMA PastIs ==
  ASSUME NEW x \in Parts
  PROVE  x \notin Past[x] /\ (x # "ands" => After[x] \in Parts /\ Past[After[x]] = Past[x] \cup {x} /\ After[x] # x)
BY DEF Parts, Past, After

LEMMA MorePart ==
  ASSUME NEW W, NEW x \in Parts, NEW n \in Nat, NEW a, SoFar(W, x, n, a), NEW v, v = W[x][n + 1]
  PROVE  Len(a[x]) = n /\ SoFar(W, x, n + 1, [a EXCEPT ![x] = Append(@, v)])
<1>1. x \notin Past[x]
  BY PastIs
<1>2. a[x] = Upto(W[x], n)
  BY <1>1 DEF SoFar
<1>3. Len(a[x]) = n /\ Append(a[x], v) = Upto(W[x], n + 1)
  BY <1>2, UptoIs
<1> DEFINE b == [a EXCEPT ![x] = Append(@, v)]
<1>4. a = [y \in Parts |-> a[y]]
  BY DEF SoFar
<1>5. b = [y \in Parts |-> IF y = x THEN Append(a[x], v) ELSE a[y]]
  BY <1>4
<1> HIDE DEF b
<1>6. b = [y \in Parts |-> b[y]] /\ \A y \in Parts : b[y] = IF y = x THEN Upto(W[x], n + 1) ELSE a[y]
  BY <1>3, <1>5
<1>7. SoFar(W, x, n + 1, b)
  BY <1>1, <1>6 DEF SoFar
<1> QED
  BY <1>3, <1>7 DEF b

LEMMA PartLength ==
  ASSUME NEW W, NEW x \in Parts, NEW n \in Nat, NEW a, SoFar(W, x, n, a)
  PROVE  Len(a[x]) = n
<1>1. x \notin Past[x]
  BY PastIs
<1>2. a[x] = Upto(W[x], n)
  BY <1>1 DEF SoFar
<1> QED
  BY <1>2, UptoIs

LEMMA NextOf ==
  ASSUME NEW W, NEW x \in Parts, x # "ands", NEW n, NEW a, SoFar(W, x, n, a), W[x] = Upto(W[x], n)
  PROVE  After[x] \in Parts /\ SoFar(W, After[x], 0, a)
<1>1. x \notin Past[x] /\ After[x] \in Parts /\ Past[After[x]] = Past[x] \cup {x} /\ After[x] # x
  BY PastIs
<1>2. After[x] \notin Past[x]
  BY <1>1, PastIs
<1>3. \A w : Upto(w, 0) = <<>>
  BY UptoIs
<1> DEFINE z == After[x]
<1> HIDE DEF z
<1>4. \A y \in Parts : a[y] = IF y \in Past[z] THEN W[y] ELSE IF y = z THEN Upto(W[y], 0) ELSE <<>>
  <2> SUFFICES ASSUME NEW y \in Parts
               PROVE  a[y] = IF y \in Past[z] THEN W[y] ELSE IF y = z THEN Upto(W[y], 0) ELSE <<>>
    OBVIOUS
  <2>1. a[y] = IF y \in Past[x] THEN W[y] ELSE IF y = x THEN Upto(W[y], n) ELSE <<>>
    BY DEF SoFar
  <2>2. Past[z] = Past[x] \cup {x}
    BY <1>1 DEF z
  <2> QED
    BY <1>3, <2>1, <2>2
<1>5. a = [y \in Parts |-> a[y]]
  BY DEF SoFar
<1> QED
  BY <1>1, <1>4, <1>5 DEF SoFar, z

LEMMA AllRead ==
  ASSUME NEW W, NEW n, NEW a, SoFar(W, "ands", n, a), W.ands = Upto(W.ands, n)
  PROVE  \A y \in Parts : a[y] = W[y]
<1>1. Past["ands"] = Parts \ {"ands"}
  BY DEF Past, Parts
<1> QED
  BY <1>1 DEF SoFar

(* From the end of a section to the start of the next one. *)
LEMMA CursorNext ==
  ASSUME NEW s, Plain(s), NEW bin \in BOOLEAN, bin => IsBinary(s), NEW f, NEW o, Layout(s, bin, f, o),
         NEW x \in Parts, x # "ands", NEW n, n = Len(Wanted(s, bin)[x])
  PROVE  Cursor(bin, o, After[x], 0) = IF After[x] = "ands" /\ bin THEN NextLine(f, Cursor(bin, o, x, n))
                                       ELSE Cursor(bin, o, x, n)
<1> DEFINE N == Len(Blocks(s, bin)[x])
<1>1. N = (IF x = "inputs" /\ bin THEN 0 ELSE n) /\ N \in Nat
  BY BlocksAre, WantedIs
<1>2. o[After[x]][0] = o[x][N] /\ f[o[x][N] - 1] = NL
  <2>1. N \in 0 .. N
    BY <1>1
  <2> QED
    BY <2>1, LayoutFacts
<1>3. o[x][N] \in Int
  <2>1. N \in 0 .. N
    BY <1>1
  <2>2. o[x][N] \in Nat
    BY <2>1, LayoutStart
  <2> QED
    BY <2>2
<1>4. Cursor(bin, o, x, n) = o[x][N] - 1
  BY <1>1 DEF Cursor
<1>5. Cursor(bin, o, After[x], 0) = IF bin /\ After[x] = "ands" THEN o[x][N] ELSE o[x][N] - 1
  BY <1>2 DEF Cursor
<1> DEFINE b == o[x][N]
<1>6. b \in Int /\ f[b - 1] = NL
  BY <1>2, <1>3
<1> HIDE DEF b
<1>7. NextLine(f, b - 1) = b
  <2>1. b - 1 \in Int /\ (b - 1) + 1 = b
    BY <1>6
  <2> QED
    BY <1>6, <2>1, ReadEnd
<1> QED
  BY <1>4, <1>5, <1>7 DEF b

LEMMA CursorLast ==
  ASSUME NEW s, Plain(s), NEW bin \in BOOLEAN, bin => IsBinary(s), NEW f, NEW o, Layout(s, bin, f, o),
         NEW n, n = Len(Wanted(s, bin).ands)
  PROVE  Cursor(bin, o, "ands", n) = Len(f) + (IF bin THEN 1 ELSE 0)
<1>1. o.ands[Len(s.ands)] = Len(f) + 1 /\ Len(f) \in Nat
  BY LenProperties DEF Layout
<1>2. n = Len(s.ands)
  BY WantedIs DEF Parts
<1> QED
  BY <1>1, <1>2 DEF Cursor

LEMMA CursorType ==
  ASSUME NEW s, Plain(s), NEW bin \in BOOLEAN, bin => IsBinary(s), NEW f, NEW o, Layout(s, bin, f, o),
         NEW x \in Parts, NEW n \in 0 .. Len(Blocks(s, bin)[x])
  PROVE  Cursor(bin, o, x, n) \in Int
<1>1. o[x][n] \in Nat
  BY LayoutStart
<1>2. 0 \in 0 .. Len(Blocks(s, bin)[x])
  BY BlocksAre, LenProperties
<1>3. o[x][0] \in Nat
  BY <1>2, LayoutStart
<1> QED
  BY <1>1, <1>3 DEF Cursor

-----------------------------------------------------------------------------
(* The reads of the header. *)
HeaderBody(f, q, w) == [k \in 1 .. 9 |-> read_literal(f, IF k = 1 THEN q ELSE w[k - 1].pos)]

(* The nine reads of the header, each from where the last one stopped.    *)
HeaderRun(f, q) == CHOOSE w : w = HeaderBody(f, q, w)

IsRun(f, q, r) ==
  /\ r[1] = read_literal(f, q) /\ r[2] = read_literal(f, r[1].pos) /\ r[3] = read_literal(f, r[2].pos)
  /\ r[4] = read_literal(f, r[3].pos) /\ r[5] = read_literal(f, r[4].pos)
  /\ r[6] = read_literal(f, r[5].pos) /\ r[7] = read_literal(f, r[6].pos)
  /\ r[8] = read_literal(f, r[7].pos) /\ r[9] = read_literal(f, r[8].pos)

LEMMA HeaderRunIs ==
  ASSUME NEW f, NEW q, NEW r, r = HeaderRun(f, q)
  PROVE  IsRun(f, q, r)
<1> DEFINE a1 == read_literal(f, q)
<1> DEFINE a2 == read_literal(f, a1.pos)
<1> DEFINE a3 == read_literal(f, a2.pos)
<1> DEFINE a4 == read_literal(f, a3.pos)
<1> DEFINE a5 == read_literal(f, a4.pos)
<1> DEFINE a6 == read_literal(f, a5.pos)
<1> DEFINE a7 == read_literal(f, a6.pos)
<1> DEFINE a8 == read_literal(f, a7.pos)
<1> DEFINE a9 == read_literal(f, a8.pos)
<1> DEFINE z == [k \in 1 .. 9 |-> IF k = 1 THEN a1 ELSE IF k = 2 THEN a2 ELSE IF k = 3 THEN a3
                                 ELSE IF k = 4 THEN a4 ELSE IF k = 5 THEN a5 ELSE IF k = 6 THEN a6
                                 ELSE IF k = 7 THEN a7 ELSE IF k = 8 THEN a8 ELSE a9]
<1>a. /\ a2 = read_literal(f, a1.pos) /\ a3 = read_literal(f, a2.pos) /\ a4 = read_literal(f, a3.pos)
      /\ a5 = read_literal(f, a4.pos) /\ a6 = read_literal(f, a5.pos) /\ a7 = read_literal(f, a6.pos)
      /\ a8 = read_literal(f, a7.pos) /\ a9 = read_literal(f, a8.pos) /\ a1 = read_literal(f, q)
  OBVIOUS
<1> HIDE DEF a1, a2, a3, a4, a5, a6, a7, a8, a9
<1>1. z[1] = a1 /\ z[2] = a2 /\ z[3] = a3 /\ z[4] = a4 /\ z[5] = a5 /\ z[6] = a6 /\ z[7] = a7
      /\ z[8] = a8 /\ z[9] = a9
  OBVIOUS
<1>2. z = [k \in 1 .. 9 |-> z[k]]
  OBVIOUS
<1> HIDE DEF z
<1>3. ASSUME NEW k \in 1 .. 9 PROVE z[k] = read_literal(f, IF k = 1 THEN q ELSE z[k - 1].pos)
  <2>1. k = 1 \/ k = 2 \/ k = 3 \/ k = 4 \/ k = 5 \/ k = 6 \/ k = 7 \/ k = 8 \/ k = 9
    OBVIOUS
  <2>2. CASE k = 1
    BY <1>a, <1>1, <2>2
  <2>3. CASE k = 2
    <3>1. k # 1 /\ k - 1 = 1
      BY <2>3
    <3>2. z[k - 1] = a1 /\ z[k] = a2
      BY <1>1, <2>3, <3>1
    <3> QED
      BY <1>a, <3>1, <3>2
  <2>4. CASE k = 3
    <3>1. k # 1 /\ k - 1 = 2
      BY <2>4
    <3>2. z[k - 1] = a2 /\ z[k] = a3
      BY <1>1, <2>4, <3>1
    <3> QED
      BY <1>a, <3>1, <3>2
  <2>5. CASE k = 4
    <3>1. k # 1 /\ k - 1 = 3
      BY <2>5
    <3>2. z[k - 1] = a3 /\ z[k] = a4
      BY <1>1, <2>5, <3>1
    <3> QED
      BY <1>a, <3>1, <3>2
  <2>6. CASE k = 5
    <3>1. k # 1 /\ k - 1 = 4
      BY <2>6
    <3>2. z[k - 1] = a4 /\ z[k] = a5
      BY <1>1, <2>6, <3>1
    <3> QED
      BY <1>a, <3>1, <3>2
  <2>7. CASE k = 6
    <3>1. k # 1 /\ k - 1 = 5
      BY <2>7
    <3>2. z[k - 1] = a5 /\ z[k] = a6
      BY <1>1, <2>7, <3>1
    <3> QED
      BY <1>a, <3>1, <3>2
  <2>8. CASE k = 7
    <3>1. k # 1 /\ k - 1 = 6
      BY <2>8
    <3>2. z[k - 1] = a6 /\ z[k] = a7
      BY <1>1, <2>8, <3>1
    <3> QED
      BY <1>a, <3>1, <3>2
  <2>9. CASE k = 8
    <3>1. k # 1 /\ k - 1 = 7
      BY <2>9
    <3>2. z[k - 1] = a7 /\ z[k] = a8
      BY <1>1, <2>9, <3>1
    <3> QED
      BY <1>a, <3>1, <3>2
  <2>10. CASE k = 9
    <3>1. k # 1 /\ k - 1 = 8
      BY <2>10
    <3>2. z[k - 1] = a8 /\ z[k] = a9
      BY <1>1, <2>10, <3>1
    <3> QED
      BY <1>a, <3>1, <3>2
  <2> QED
    BY <2>1, <2>2, <2>3, <2>4, <2>5, <2>6, <2>7, <2>8, <2>9, <2>10
<1>4. z = HeaderBody(f, q, z)
  BY <1>2, <1>3 DEF HeaderBody
<1>5. r = HeaderBody(f, q, r)
  BY <1>4 DEF HeaderRun
<1>6. \A k \in 1 .. 9 : r[k] = read_literal(f, IF k = 1 THEN q ELSE r[k - 1].pos)
  BY <1>5 DEF HeaderBody
<1> QED
  BY <1>6 DEF IsRun

(* m tokens, and the end of the line. *)
HeaderTexts(f, m) ==
  /\ f[1] \in Nat /\ f[2] \in Nat /\ f[3] \in Nat /\ f[4] \in Nat /\ f[5] \in Nat
  /\ (m > 5 => f[6] \in Nat) /\ (m > 6 => f[7] \in Nat) /\ f[m + 1] = NL

(* What they return: the counts the line does not have are -1.             *)
HeaderValues(f, m, r) ==
  /\ r[1].val = f[1] /\ r[2].val = f[2] /\ r[3].val = f[3] /\ r[4].val = f[4] /\ r[5].val = f[5]
  /\ r[6].val = (IF m > 5 THEN f[6] ELSE -1) /\ r[7].val = (IF m > 6 THEN f[7] ELSE -1)
  /\ r[8].val = -1 /\ r[9].val = -1 /\ r[9].pos = m + 1

LEMMA ReadNumber ==
  ASSUME NEW f, NEW q \in Int, f[q] \in Nat, NEW n, n = q + 1
  PROVE  read_literal(f, q) = [val |-> f[q], pos |-> n]
<1>1. f[q] # NL
  BY DEF NL
<1> QED
  BY <1>1 DEF read_literal

LEMMA HeaderReads ==
  ASSUME NEW f, NEW m \in {5, 6, 7}, HeaderTexts(f, m), NEW q, q = 1, NEW r, IsRun(f, q, r)
  PROVE  HeaderValues(f, m, r)
<1> DEFINE r1 == r[1]
<1> DEFINE r2 == r[2]
<1> DEFINE r3 == r[3]
<1> DEFINE r4 == r[4]
<1> DEFINE r5 == r[5]
<1> DEFINE r6 == r[6]
<1> DEFINE r7 == r[7]
<1> DEFINE r8 == r[8]
<1> DEFINE r9 == r[9]
<1>a. /\ r1 = read_literal(f, 1) /\ r2 = read_literal(f, r1.pos) /\ r3 = read_literal(f, r2.pos)
      /\ r4 = read_literal(f, r3.pos) /\ r5 = read_literal(f, r4.pos)
      /\ r6 = read_literal(f, r5.pos) /\ r7 = read_literal(f, r6.pos)
      /\ r8 = read_literal(f, r7.pos) /\ r9 = read_literal(f, r8.pos)
  BY DEF IsRun
<1>b. f[1] \in Nat /\ f[2] \in Nat /\ f[3] \in Nat /\ f[4] \in Nat /\ f[5] \in Nat
  BY DEF HeaderTexts
<1> HIDE DEF r1, r2, r3, r4, r5, r6, r7, r8, r9
<1>1. r1.val = f[1] /\ r1.pos = 2
  <2>1. 1 \in Int /\ f[1] \in Nat /\ 2 = 1 + 1
    BY <1>b
  <2>2. read_literal(f, 1) = [val |-> f[1], pos |-> 2]
    BY <2>1, ReadNumber
  <2>3. r1 = read_literal(f, 1)
    BY <1>a
  <2> QED
    BY <2>2, <2>3
<1>2. r2.val = f[2] /\ r2.pos = 3
  <2>1. 2 \in Int /\ f[2] \in Nat /\ 3 = 2 + 1
    BY <1>b
  <2>2. read_literal(f, 2) = [val |-> f[2], pos |-> 3]
    BY <2>1, ReadNumber
  <2>3. r2 = read_literal(f, 2)
    BY <1>a, <1>1
  <2> QED
    BY <2>2, <2>3
<1>3. r3.val = f[3] /\ r3.pos = 4
  <2>1. 3 \in Int /\ f[3] \in Nat /\ 4 = 3 + 1
    BY <1>b
  <2>2. read_literal(f, 3) = [val |-> f[3], pos |-> 4]
    BY <2>1, ReadNumber
  <2>3. r3 = read_literal(f, 3)
    BY <1>a, <1>2
  <2> QED
    BY <2>2, <2>3
<1>4. r4.val = f[4] /\ r4.pos = 5
  <2>1. 4 \in Int /\ f[4] \in Nat /\ 5 = 4 + 1
    BY <1>b
  <2>2. read_literal(f, 4) = [val |-> f[4], pos |-> 5]
    BY <2>1, ReadNumber
  <2>3. r4 = read_literal(f, 4)
    BY <1>a, <1>3
  <2> QED
    BY <2>2, <2>3
<1>5. r5.val = f[5] /\ r5.pos = 6
  <2>1. 5 \in Int /\ f[5] \in Nat /\ 6 = 5 + 1
    BY <1>b
  <2>2. read_literal(f, 5) = [val |-> f[5], pos |-> 6]
    BY <2>1, ReadNumber
  <2>3. r5 = read_literal(f, 5)
    BY <1>a, <1>4
  <2> QED
    BY <2>2, <2>3
<1>6. r6.val = (IF m > 5 THEN f[6] ELSE -1) /\ r7.val = (IF m > 6 THEN f[7] ELSE -1) /\ r7.pos = m + 1
  <2>1. CASE m = 5
    <3>1. f[6] = NL
      BY <2>1 DEF HeaderTexts
    <3>2. r6.val = -1 /\ r6.pos = 6
      BY <1>a, <1>5, <3>1 DEF read_literal
    <3>3. r7.val = -1 /\ r7.pos = 6
      BY <1>a, <3>1, <3>2 DEF read_literal
    <3> QED
      BY <2>1, <3>2, <3>3
  <2>2. CASE m = 6
    <3>1. f[7] = NL /\ f[6] \in Nat
      BY <2>2 DEF HeaderTexts
    <3>2. r6.val = f[6] /\ r6.pos = 7
      <4>1. 6 \in Int /\ f[6] \in Nat /\ 7 = 6 + 1
        BY <3>1
      <4>2. read_literal(f, 6) = [val |-> f[6], pos |-> 7]
        BY <4>1, ReadNumber
      <4>3. r6 = read_literal(f, 6)
        BY <1>a, <1>5
      <4> QED
        BY <4>2, <4>3
    <3>3. r7.val = -1 /\ r7.pos = 7
      BY <1>a, <3>1, <3>2 DEF read_literal
    <3> QED
      BY <2>2, <3>2, <3>3
  <2>3. CASE m = 7
    <3>1. f[7] \in Nat /\ f[6] \in Nat
      BY <2>3 DEF HeaderTexts
    <3>2. r6.val = f[6] /\ r6.pos = 7
      <4>1. 6 \in Int /\ f[6] \in Nat /\ 7 = 6 + 1
        BY <3>1
      <4>2. read_literal(f, 6) = [val |-> f[6], pos |-> 7]
        BY <4>1, ReadNumber
      <4>3. r6 = read_literal(f, 6)
        BY <1>a, <1>5
      <4> QED
        BY <4>2, <4>3
    <3>3. r7.val = f[7] /\ r7.pos = 8
      <4>1. 7 \in Int /\ f[7] \in Nat /\ 8 = 7 + 1
        BY <3>1
      <4>2. read_literal(f, 7) = [val |-> f[7], pos |-> 8]
        BY <4>1, ReadNumber
      <4>3. r7 = read_literal(f, 7)
        BY <1>a, <3>2
      <4> QED
        BY <4>2, <4>3
    <3> QED
      BY <2>3, <3>2, <3>3
  <2> QED
    BY <2>1, <2>2, <2>3
<1>7. f[m + 1] = NL /\ r7.pos = m + 1
  BY <1>6 DEF HeaderTexts
<1>8. r8.val = -1 /\ r8.pos = m + 1
  BY <1>a, <1>7 DEF read_literal
<1>9. r9.val = -1 /\ r9.pos = m + 1
  BY <1>a, <1>7, <1>8 DEF read_literal
<1> QED
  BY <1>1, <1>2, <1>3, <1>4, <1>5, <1>6, <1>8, <1>9 DEF HeaderValues, r1, r2, r3, r4, r5, r6, r7, r8, r9

(* The counts of the header.                                               *)
Counts(s) == [i |-> s.inputs, l |-> Len(s.latches), o |-> Len(s.outputs), a |-> Len(s.ands),
              b |-> Len(s.bads), c |-> Len(s.constraints), j |-> 0, f |-> 0]

LEMMA HeaderCounts ==
  ASSUME NEW s, Plain(s), NEW bin \in BOOLEAN, bin => IsBinary(s), NEW f, NEW o, Layout(s, bin, f, o),
         NEW r, r = HeaderRun(f, 1)
  PROVE  /\ Count(r[1].val) = s.inputs + Len(s.latches) + Len(s.ands) /\ Count(r[2].val) = s.inputs
         /\ Count(r[3].val) = Len(s.latches) /\ Count(r[4].val) = Len(s.outputs) /\ Count(r[5].val) = Len(s.ands)
         /\ Count(r[6].val) = Len(s.bads) /\ Count(r[7].val) = Len(s.constraints)
         /\ Count(r[8].val) = 0 /\ Count(r[9].val) = 0
         /\ r[9].pos = Cursor(bin, o, "inputs", 0)
<1> DEFINE i == s.inputs
<1> DEFINE l == Len(s.latches)
<1> DEFINE u == Len(s.outputs)
<1> DEFINE a == Len(s.ands)
<1> DEFINE b == Len(s.bads)
<1> DEFINE c == Len(s.constraints)
<1> DEFINE m == IF c # 0 THEN 7 ELSE IF b # 0 THEN 6 ELSE 5
<1> DEFINE t == Header(s)
<1>1. i \in Nat /\ l \in Nat /\ u \in Nat /\ a \in Nat /\ b \in Nat /\ c \in Nat
  BY SourceFacts
<1>2. /\ t \in Seq(Int) /\ Len(t) = m + 1 /\ t[m + 1] = NL
      /\ t[1] = i + l + a /\ t[2] = i /\ t[3] = l /\ t[4] = u /\ t[5] = a
      /\ (m >= 6 => t[6] = b) /\ (m = 7 => t[7] = c)
  BY HeaderIs DEF HeaderTokens
<1>3. At(f, 1, t) /\ o.inputs[0] = 1 + Len(t)
  BY LayoutFacts DEF Layout
<1>4. Cursor(bin, o, "inputs", 0) = o.inputs[0] - 1
  BY DEF Cursor
<1>m. m \in {5, 6, 7} /\ (m < 7 => c = 0) /\ (m < 6 => b = 0)
  <2> HIDE DEF c, b
  <2> QED
    OBVIOUS
<1> HIDE DEF i, l, u, a, b, c, m, t
<1>5. ASSUME NEW k \in Nat, 1 <= k, k <= m + 1 PROVE f[k] = t[k]
  <2>1. k \in 1 .. Len(t) /\ 1 + (k - 1) = k
    BY <1>2, <1>5, <1>m
  <2> QED
    BY <1>3, <2>1 DEF At
<1>6. f[1] = t[1] /\ f[2] = t[2] /\ f[3] = t[3] /\ f[4] = t[4] /\ f[5] = t[5]
  BY <1>5, <1>m
<1>6a. (m > 5 => f[6] = t[6]) /\ (m > 6 => f[7] = t[7])
  BY <1>5, <1>m
<1>6b. f[m + 1] = NL
  <2>1. m + 1 \in Nat /\ 1 <= m + 1 /\ m + 1 <= m + 1
    BY <1>m
  <2> QED
    BY <1>2, <1>5, <2>1
<1>6c. (m > 5 => f[6] = b) /\ (m > 6 => f[7] = c)
  BY <1>2, <1>6a, <1>m
<1> DEFINE n == i + l + a
<1>n. n \in Nat /\ t[1] = n
  BY <1>1, <1>2
<1> HIDE DEF n
<1>7. f[1] = n /\ f[2] = i /\ f[3] = l /\ f[4] = u /\ f[5] = a
  BY <1>2, <1>6, <1>n
<1>8. PICK q : q = 1
  OBVIOUS
<1>8a. HeaderTexts(f, m)
  BY <1>1, <1>6b, <1>6c, <1>7, <1>n DEF HeaderTexts
<1>8b. HeaderValues(f, m, r)
  <2>1. r = HeaderRun(f, q)
    BY <1>8
  <2>2. IsRun(f, q, r)
    BY <2>1, HeaderRunIs
  <2> QED
    BY <1>8, <1>8a, <1>m, <2>2, HeaderReads
<1> DEFINE r1 == r[1]
<1> DEFINE r2 == r[2]
<1> DEFINE r3 == r[3]
<1> DEFINE r4 == r[4]
<1> DEFINE r5 == r[5]
<1> DEFINE r6 == r[6]
<1> DEFINE r7 == r[7]
<1> DEFINE r8 == r[8]
<1> DEFINE r9 == r[9]
<1>8c. r1.val = n /\ r2.val = i /\ r3.val = l /\ r4.val = u /\ r5.val = a
  BY <1>7, <1>8b DEF HeaderValues
<1>8d. r6.val = (IF m > 5 THEN b ELSE -1) /\ r7.val = (IF m > 6 THEN c ELSE -1)
      /\ r8.val = -1 /\ r9.val = -1 /\ r9.pos = m + 1
  BY <1>6c, <1>8b DEF HeaderValues
<1> HIDE DEF r1, r2, r3, r4, r5, r6, r7, r8, r9
<1>9. \A v \in Nat : Count(v) = v
  BY DEF Count
<1>10. Count(-1) = 0
  BY DEF Count
<1>11. Count(r1.val) = n /\ Count(r2.val) = i /\ Count(r3.val) = l /\ Count(r4.val) = u /\ Count(r5.val) = a
  BY <1>1, <1>8c, <1>9, <1>n
<1>12. Count(r6.val) = b
  BY <1>1, <1>8d, <1>9, <1>10, <1>m
<1>13. Count(r7.val) = c
  BY <1>1, <1>8d, <1>9, <1>10, <1>m
<1>14. Count(r8.val) = 0 /\ Count(r9.val) = 0
  BY <1>8d, <1>10
<1>15. r[9].pos = Cursor(bin, o, "inputs", 0)
  <2>1. o.inputs[0] = 1 + (m + 1)
    BY <1>2, <1>3
  <2>2. (1 + (m + 1)) - 1 = m + 1
    BY <1>m
  <2> QED
    BY <1>4, <1>8d, <2>1, <2>2 DEF r9
<1> QED
  BY <1>11, <1>12, <1>13, <1>14, <1>15 DEF i, l, u, a, b, c, n, r1, r2, r3, r4, r5, r6, r7, r8, r9

-----------------------------------------------------------------------------
(* The reader, and what it has read of the circuit s. *)
PropsOf(s) == IF s.bads /= <<>> THEN s.bads ELSE s.outputs

(* The gates are listed by number; in the binary format they always are.   *)
InOrder(s, bin) == bin \/ \A i \in 1 .. Len(s.ands) : s.order[i] = i

(* What translate_to_dimacs is to leave behind, for property k.            *)
CircuitOf(s, k) ==
  [num_inputs |-> s.inputs, num_latches |-> Len(s.latches),
   ands |-> [i \in 1 .. Len(s.ands) |-> [i1 |-> aiger_to_dimacs(s.ands[i][1]), i2 |-> aiger_to_dimacs(s.ands[i][2])]],
   nexts |-> [i \in 1 .. Len(s.latches) |-> aiger_to_dimacs(s.latches[i][1])],
   init_state |-> {-(1 + s.inputs + i) : i \in {j \in 1 .. Len(s.latches) : s.latches[j][2] = 0}}
                  \cup {1 + s.inputs + i : i \in {j \in 1 .. Len(s.latches) : s.latches[j][2] = 1}},
   constraints |-> {aiger_to_dimacs(l) : l \in Range(s.constraints)},
   bad |-> aiger_to_dimacs(PropsOf(s)[k + 1])]

(* Where the reader is: before the header, behind n items of part x, or    *)
(* done; then the verdict is the one the circuit deserves.                 *)
Starting == pc = "header" /\ p = 1 /\ aig = [y \in Parts |-> aig[y]] /\ \A y \in Parts : aig[y] = <<>>

Reading(s, o, x, n) ==
  /\ pc = x /\ n \in Nat /\ n <= Len(Wanted(s, binary)[x])
  /\ SoFar(Wanted(s, binary), x, n, aig) /\ hdr = Counts(s) /\ p = Cursor(binary, o, x, n)
  /\ x = "inputs" /\ binary => n = Len(Wanted(s, binary)[x])

ReadAll(s) ==
  /\ pc \in {"translate", "loaded", "abort"} /\ hdr = Counts(s)
  /\ \A y \in Parts : aig[y] = Wanted(s, binary)[y]
  /\ p = Len(file) + (IF binary THEN 1 ELSE 0)
  /\ pc = "loaded" => /\ PropsOf(s) /= <<>> /\ InOrder(s, binary) /\ circ = CircuitOf(s, index)
                      /\ index \in 0 .. Len(PropsOf(s)) - 1
  /\ pc = "abort" => PropsOf(s) = <<>> \/ ~InOrder(s, binary)

(* The inductive invariant of the reader on a file that lists s.           *)
ReaderInv(s) ==
  /\ binary \in BOOLEAN /\ (binary => IsBinary(s)) /\ index \in Nat
  /\ \E o : /\ Layout(s, binary, file, o)
            /\ Starting \/ (\E x \in Parts, n \in Nat : Reading(s, o, x, n)) \/ ReadAll(s)

(* What the reader never changes before it translates.                     *)
SameFile == UNCHANGED <<binary, file, index>>

LEMMA InSection ==
  ASSUME NEW s, ReaderInv(s), NEW x \in Parts, pc = x
  PROVE  \E o, n : n \in Nat /\ Layout(s, binary, file, o) /\ Reading(s, o, x, n)
<1>1. PICK o : /\ Layout(s, binary, file, o)
               /\ Starting \/ (\E y \in Parts, n \in Nat : Reading(s, o, y, n)) \/ ReadAll(s)
  BY DEF ReaderInv
<1>2. ~Starting /\ ~ReadAll(s)
  BY DEF Starting, ReadAll, Parts
<1>3. PICK y \in Parts, n \in Nat : Reading(s, o, y, n)
  BY <1>1, <1>2
<1>4. y = x
  BY <1>3 DEF Reading
<1> QED
  BY <1>1, <1>3, <1>4

LEMMA ToSection ==
  ASSUME NEW s, ReaderInv(s), SameFile, NEW o, Layout(s, binary, file, o), NEW x \in Parts, NEW n \in Nat,
         Reading(s, o, x, n)'
  PROVE  ReaderInv(s)'
<1>1. binary' = binary /\ file' = file /\ index' = index
  BY DEF SameFile
<1>2. binary \in BOOLEAN /\ (binary => IsBinary(s)) /\ index \in Nat
  BY DEF ReaderInv
<1> QED
  BY <1>1, <1>2 DEF ReaderInv

LEMMA MoreRead ==
  ASSUME NEW s, Plain(s), ReaderInv(s), SameFile, NEW o, Layout(s, binary, file, o), NEW x \in Parts,
         x # "inputs" \/ ~binary,
         NEW n \in Nat, n < Len(Wanted(s, binary)[x]), Reading(s, o, x, n), UNCHANGED <<pc, hdr>>,
         NEW v, v = Wanted(s, binary)[x][n + 1], aig' = [aig EXCEPT ![x] = Append(@, v)],
         p' = Cursor(binary, o, x, n + 1)
  PROVE  ReaderInv(s)'
<1> DEFINE W == Wanted(s, binary)
<1>1. binary' = binary /\ file' = file /\ pc' = pc /\ hdr' = hdr
  BY DEF SameFile
<1>2. SoFar(W, x, n, aig) /\ pc = x /\ hdr = Counts(s)
  BY DEF Reading
<1>3. Len(W[x]) \in Nat /\ binary \in BOOLEAN
  BY WantedIs DEF ReaderInv
<1>4. v = W[x][n + 1]
  OBVIOUS
<1> HIDE DEF W
<1>5. SoFar(W, x, n + 1, aig')
  <2>1. PICK a : a = aig
    OBVIOUS
  <2>2. SoFar(W, x, n + 1, [a EXCEPT ![x] = Append(@, v)])
    BY <1>2, <1>4, <2>1, MorePart
  <2> QED
    BY <2>1, <2>2
<1>6. n + 1 \in Nat /\ n + 1 <= Len(W[x])
  BY <1>3 DEF W
<1>7. Reading(s, o, x, n + 1)'
  BY <1>1, <1>2, <1>5, <1>6 DEF Reading, W
<1> QED
  BY <1>6, <1>7, ToSection

LEMMA StepOne ==
  ASSUME NEW s, Plain(s), ReaderInv(s), NEW x \in LiteralParts, NEW c, c = Len(Wanted(s, binary)[x]), ReadOne(x, c)
  PROVE  ReaderInv(s)'
<1>1. x \in Parts /\ pc = x /\ Len(aig[x]) < c
  BY DEF LiteralParts, Parts, ReadOne
<1>2. PICK o, n : n \in Nat /\ Layout(s, binary, file, o) /\ Reading(s, o, x, n)
  BY <1>1, InSection
<1>3. SoFar(Wanted(s, binary), x, n, aig) /\ p = Cursor(binary, o, x, n)
  BY <1>2 DEF Reading
<1>4. Len(aig[x]) = n
  BY <1>1, <1>2, <1>3, PartLength
<1>5. n < Len(Wanted(s, binary)[x])
  BY <1>1, <1>4
<1>6. x # "inputs" \/ ~binary
  <2>1. x = "inputs" /\ binary => n = Len(Wanted(s, binary)[x])
    BY <1>2 DEF Reading
  <2> QED
    BY <1>2, <1>5, <2>1
<1>7. binary \in BOOLEAN /\ (binary => IsBinary(s))
  BY DEF ReaderInv
<1> DEFINE r == read_literal(file, NextLine(file, Cursor(binary, o, x, n)))
<1>8. r.val = Wanted(s, binary)[x][n + 1] /\ r.pos = Cursor(binary, o, x, n + 1)
  BY <1>2, <1>5, <1>6, <1>7, ReadsLiteral
<1>9. p' = r.pos /\ aig' = [aig EXCEPT ![x] = Append(@, r.val)] /\ SameFile /\ UNCHANGED <<pc, hdr>>
  BY <1>3 DEF ReadOne, SameFile
<1> HIDE DEF r
<1>10. PICK v : v = r.val
  OBVIOUS
<1>11. v = Wanted(s, binary)[x][n + 1] /\ aig' = [aig EXCEPT ![x] = Append(@, v)] /\ p' = Cursor(binary, o, x, n + 1)
  BY <1>8, <1>9, <1>10
<1>12. /\ x \in Parts /\ (x # "inputs" \/ ~binary) /\ n \in Nat /\ n < Len(Wanted(s, binary)[x])
       /\ Layout(s, binary, file, o) /\ Reading(s, o, x, n) /\ SameFile /\ UNCHANGED <<pc, hdr>>
  BY <1>1, <1>2, <1>5, <1>6, <1>9
<1> QED
  BY <1>11, <1>12, MoreRead

LEMMA StepLatch ==
  ASSUME NEW s, Plain(s), ReaderInv(s), ReadLatch
  PROVE  ReaderInv(s)'
<1> DEFINE x == "latches"
<1>1. x \in Parts /\ pc = x /\ Len(aig.latches) < hdr.l
  BY DEF Parts, ReadLatch
<1>2. PICK o, n : n \in Nat /\ Layout(s, binary, file, o) /\ Reading(s, o, x, n)
  BY <1>1, InSection
<1>3. SoFar(Wanted(s, binary), x, n, aig) /\ p = Cursor(binary, o, x, n) /\ hdr = Counts(s)
  BY <1>2 DEF Reading
<1>4. Len(aig.latches) = n
  BY <1>1, <1>2, <1>3, PartLength
<1>5. binary \in BOOLEAN /\ (binary => IsBinary(s))
  BY DEF ReaderInv
<1>6. n < Len(Wanted(s, binary).latches) /\ hdr.i = s.inputs
  <2>1. Len(Wanted(s, binary).latches) = Len(s.latches)
    BY <1>1, <1>5, WantedIs
  <2> QED
    BY <1>1, <1>3, <1>4, <2>1 DEF Counts
<1>7. PICK h : h = 2 * (hdr.i + 1 + Len(aig.latches))
  OBVIOUS
<1> DEFINE q == NextLine(file, Cursor(binary, o, "latches", n))
<1> DEFINE l == IF binary THEN [val |-> h, pos |-> q] ELSE read_literal(file, q)
<1> DEFINE m == read_literal(file, l.pos)
<1> DEFINE d == read_literal(file, m.pos)
<1> DEFINE e == [l |-> l.val, next |-> m.val, default_val |-> IF d.val < 0 THEN 0 ELSE d.val]
<1>8. e = Wanted(s, binary).latches[n + 1] /\ d.pos = Cursor(binary, o, "latches", n + 1)
  <2>1. h = 2 * (s.inputs + 1 + n)
    BY <1>4, <1>6, <1>7
  <2> QED
    BY <1>2, <1>5, <1>6, <2>1, ReadsLatch
<1>9. p' = d.pos /\ aig' = [aig EXCEPT !.latches = Append(@, e)]
  BY <1>3, <1>7 DEF ReadLatch
<1>10. SameFile /\ UNCHANGED <<pc, hdr>>
  BY DEF ReadLatch, SameFile
<1> HIDE DEF q, l, m, d, e
<1>11. PICK v : v = e
  OBVIOUS
<1>12. v = Wanted(s, binary)[x][n + 1] /\ aig' = [aig EXCEPT ![x] = Append(@, v)] /\ p' = Cursor(binary, o, x, n + 1)
  BY <1>8, <1>9, <1>11
<1>13. x # "inputs" \/ ~binary
  OBVIOUS
<1>14. n < Len(Wanted(s, binary)[x])
  BY <1>6
<1> HIDE DEF x
<1> QED
  BY <1>1, <1>2, <1>10, <1>12, <1>13, <1>14, MoreRead

LEMMA StepGate ==
  ASSUME NEW s, Plain(s), ReaderInv(s), ReadGate
  PROVE  ReaderInv(s)'
<1> DEFINE x == "ands"
<1>1. x \in Parts /\ pc = x /\ Len(aig.ands) < hdr.a
  BY DEF Parts, ReadGate
<1>2. PICK o, n : n \in Nat /\ Layout(s, binary, file, o) /\ Reading(s, o, x, n)
  BY <1>1, InSection
<1>3. SoFar(Wanted(s, binary), x, n, aig) /\ p = Cursor(binary, o, x, n) /\ hdr = Counts(s)
  BY <1>2 DEF Reading
<1>4. Len(aig.ands) = n
  BY <1>1, <1>2, <1>3, PartLength
<1>5. binary \in BOOLEAN /\ (binary => IsBinary(s))
  BY DEF ReaderInv
<1>6. n < Len(Wanted(s, binary).ands) /\ hdr.i = s.inputs /\ hdr.l = Len(s.latches)
  <2>1. Len(Wanted(s, binary).ands) = Len(s.ands)
    BY <1>1, <1>5, WantedIs
  <2> QED
    BY <1>1, <1>3, <1>4, <2>1 DEF Counts
<1>10. SameFile /\ UNCHANGED <<pc, hdr>>
  BY DEF ReadGate, SameFile
<1>13. x # "inputs" \/ ~binary
  OBVIOUS
<1>14. n < Len(Wanted(s, binary)[x])
  BY <1>6
<1>20. ASSUME NEW v, v = Wanted(s, binary).ands[n + 1], aig' = [aig EXCEPT !.ands = Append(@, v)],
              p' = Cursor(binary, o, "ands", n + 1)
       PROVE  ReaderInv(s)'
  <2>1. v = Wanted(s, binary)[x][n + 1] /\ aig' = [aig EXCEPT ![x] = Append(@, v)] /\ p' = Cursor(binary, o, x, n + 1)
    BY <1>20
  <2> HIDE DEF x
  <2> QED
    BY <1>1, <1>2, <1>10, <1>13, <1>14, <2>1, MoreRead
<1>21. CASE binary
  <2>1. PICK g : g = 2 * (hdr.i + hdr.l + Len(aig.ands) + 1)
    OBVIOUS
  <2> DEFINE d1 == decode(file, Cursor(binary, o, "ands", n))
  <2> DEFINE d2 == decode(file, d1.pos)
  <2> DEFINE e == [o |-> g, i1 |-> g - d1.val, i2 |-> g - d1.val - d2.val]
  <2>2. e = Wanted(s, binary).ands[n + 1] /\ d2.pos = Cursor(binary, o, "ands", n + 1)
    <3>1. g = 2 * (s.inputs + Len(s.latches) + n + 1) /\ g \in Nat
      <4> DEFINE i == s.inputs
      <4> DEFINE l == Len(s.latches)
      <4>1. i \in Nat /\ l \in Nat /\ g = 2 * (i + l + n + 1)
        BY <1>4, <1>6, <2>1, SourceFacts
      <4> HIDE DEF i, l
      <4>2. g = 2 * (i + l + n + 1) /\ g \in Nat
        BY <1>2, <4>1
      <4> QED
        BY <4>2 DEF i, l
    <3>2. PICK b, f : b = binary /\ f = file
      OBVIOUS
    <3>3. /\ b \in BOOLEAN /\ IsTrue(b) /\ IsBinary(s) /\ Layout(s, b, f, o)
          /\ n \in Nat /\ n < Len(Wanted(s, b).ands)
      BY <1>2, <1>5, <1>6, <1>21, <3>2 DEF IsTrue
    <3> DEFINE t1 == decode(f, Cursor(b, o, "ands", n))
    <3> DEFINE t2 == decode(f, t1.pos)
    <3>4. /\ [o |-> g, i1 |-> g - t1.val, i2 |-> g - t1.val - t2.val] = Wanted(s, b).ands[n + 1]
          /\ t2.pos = Cursor(b, o, "ands", n + 1)
      BY <3>1, <3>3, DecodesGate
    <3> QED
      BY <3>2, <3>4
  <2>3. aig' = [aig EXCEPT !.ands = Append(@, e)] /\ p' = d2.pos
    BY <1>3, <1>21, <2>1 DEF ReadGate
  <2> HIDE DEF d1, d2, e
  <2>4. PICK v : v = e
    OBVIOUS
  <2> QED
    BY <1>20, <2>2, <2>3, <2>4
<1>22. CASE ~binary
  <2> DEFINE r0 == read_literal(file, NextLine(file, Cursor(binary, o, "ands", n)))
  <2> DEFINE r1 == read_literal(file, r0.pos)
  <2> DEFINE r2 == read_literal(file, r1.pos)
  <2> DEFINE e == [o |-> r0.val, i1 |-> r1.val, i2 |-> r2.val]
  <2>2. e = Wanted(s, binary).ands[n + 1] /\ r2.pos = Cursor(binary, o, "ands", n + 1)
    <3>1. PICK b, f : b = binary /\ f = file
      OBVIOUS
    <3>2. b \in BOOLEAN /\ IsFalse(b) /\ Layout(s, b, f, o) /\ n \in Nat /\ n < Len(Wanted(s, b).ands)
      BY <1>2, <1>5, <1>6, <1>22, <3>1 DEF IsFalse
    <3> DEFINE t0 == read_literal(f, NextLine(f, Cursor(b, o, "ands", n)))
    <3> DEFINE t1 == read_literal(f, t0.pos)
    <3> DEFINE t2 == read_literal(f, t1.pos)
    <3>3. /\ [o |-> t0.val, i1 |-> t1.val, i2 |-> t2.val] = Wanted(s, b).ands[n + 1]
          /\ t2.pos = Cursor(b, o, "ands", n + 1)
      BY <3>2, ReadsGate
    <3> QED
      BY <3>1, <3>3
  <2>3. aig' = [aig EXCEPT !.ands = Append(@, e)] /\ p' = r2.pos
    BY <1>3, <1>22 DEF ReadGate
  <2> HIDE DEF r0, r1, r2, e
  <2>4. PICK v : v = e
    OBVIOUS
  <2> QED
    BY <1>20, <2>2, <2>3, <2>4
<1> QED
  BY <1>21, <1>22

LEMMA StepEnd ==
  ASSUME NEW s, Plain(s), ReaderInv(s), NEW x \in Parts, NEW c, c = Len(Wanted(s, binary)[x]),
         EndSection(x, c, After[x])
  PROVE  ReaderInv(s)'
<1>1. pc = x /\ Len(aig[x]) = c /\ SameFile /\ hdr' = hdr /\ aig' = aig /\ pc' = After[x]
  BY DEF EndSection, SameFile
<1>2. PICK o, n : n \in Nat /\ Layout(s, binary, file, o) /\ Reading(s, o, x, n)
  BY <1>1, InSection
<1>3. SoFar(Wanted(s, binary), x, n, aig) /\ p = Cursor(binary, o, x, n) /\ hdr = Counts(s)
  BY <1>2 DEF Reading
<1>4. n = c
  BY <1>1, <1>2, <1>3, PartLength
<1>5. binary \in BOOLEAN /\ (binary => IsBinary(s)) /\ binary' = binary /\ file' = file /\ index' = index /\ index \in Nat
  BY <1>1 DEF ReaderInv, SameFile
<1>6. Wanted(s, binary)[x] = Upto(Wanted(s, binary)[x], n)
  BY <1>4, <1>5, WantedIs
<1>7. CASE x # "ands"
  <2> DEFINE y == After[x]
  <2>1. y \in Parts /\ SoFar(Wanted(s, binary), y, 0, aig)
    BY <1>3, <1>6, <1>7, NextOf
  <2>2. p' = Cursor(binary, o, y, 0)
    <3>1. p' = IF After[x] = "ands" /\ binary THEN NextLine(file, p) ELSE p
      BY DEF EndSection
    <3>2. n = Len(Wanted(s, binary)[x])
      BY <1>4
    <3>3. Cursor(binary, o, After[x], 0) = IF After[x] = "ands" /\ binary THEN NextLine(file, Cursor(binary, o, x, n))
                                           ELSE Cursor(binary, o, x, n)
      BY <1>2, <1>5, <1>7, <3>2, CursorNext
    <3> QED
      BY <1>3, <3>1, <3>3
  <2>3. y # "inputs"
    BY <1>7 DEF Parts, After
  <2>4. 0 <= Len(Wanted(s, binary)[y]) /\ 0 \in Nat
    BY <1>5, <2>1, WantedIs
  <2>5. pc' = y
    BY <1>1
  <2> HIDE DEF y
  <2>6. Reading(s, o, y, 0)'
    BY <1>1, <1>3, <1>5, <2>1, <2>2, <2>3, <2>4, <2>5 DEF Reading
  <2> QED
    BY <1>1, <1>2, <2>1, <2>4, <2>6, ToSection
<1>8. CASE x = "ands"
  <2>1. After[x] = "translate"
    BY <1>8 DEF After, Parts
  <2>2. p' = p
    BY <2>1 DEF EndSection
  <2>3. p = Len(file) + (IF binary THEN 1 ELSE 0)
    <3>1. n = Len(Wanted(s, binary).ands) /\ p = Cursor(binary, o, "ands", n)
      BY <1>3, <1>4, <1>8
    <3>2. Cursor(binary, o, "ands", n) = Len(file) + (IF binary THEN 1 ELSE 0)
      BY <1>2, <1>5, <3>1, CursorLast
    <3> QED
      BY <3>1, <3>2
  <2>4. \A y \in Parts : aig[y] = Wanted(s, binary)[y]
    <3>1. SoFar(Wanted(s, binary), "ands", n, aig) /\ Wanted(s, binary).ands = Upto(Wanted(s, binary).ands, n)
      BY <1>3, <1>6, <1>8
    <3> QED
      BY <3>1, AllRead
  <2>5. ReadAll(s)'
    BY <1>1, <1>3, <1>5, <2>1, <2>2, <2>3, <2>4 DEF ReadAll
  <2> QED
    BY <1>2, <1>5, <2>5 DEF ReaderInv
<1> QED
  BY <1>7, <1>8

LEMMA StepSection ==
  ASSUME NEW s, Plain(s), ReaderInv(s), NextSection
  PROVE  ReaderInv(s)'
<1>1. binary \in BOOLEAN
  BY DEF ReaderInv
<1>2. ASSUME NEW x \in Parts, pc = x PROVE hdr = Counts(s)
  <2>1. PICK o, n : Reading(s, o, x, n)
    BY <1>2, InSection
  <2> QED
    BY <2>1 DEF Reading
<1> DEFINE L(x) == Len(Wanted(s, binary)[x])
<1>3. L("inputs") = s.inputs /\ L("latches") = Len(s.latches) /\ L("ands") = Len(s.ands)
  BY <1>1, WantedIs DEF Parts
<1>4. L("outputs") = Len(s.outputs) /\ L("bads") = Len(s.bads) /\ L("constraints") = Len(s.constraints)
  BY DEF Wanted
<1>5. CASE EndSection("inputs", hdr.i, "latches")
  <2>1. PICK x, c : x = "inputs" /\ c = L(x)
    OBVIOUS
  <2>2. x \in Parts /\ After[x] = "latches" /\ pc = x
    BY <1>5, <2>1 DEF Parts, After, EndSection
  <2>3. hdr.i = c
    BY <1>2, <1>3, <2>1, <2>2 DEF Counts
  <2>4. EndSection(x, c, After[x])
    BY <1>5, <2>1, <2>2, <2>3
  <2> QED
    BY <2>1, <2>2, <2>4, StepEnd
<1>6. CASE EndSection("latches", hdr.l, "outputs")
  <2>1. PICK x, c : x = "latches" /\ c = L(x)
    OBVIOUS
  <2>2. x \in Parts /\ After[x] = "outputs" /\ pc = x
    BY <1>6, <2>1 DEF Parts, After, EndSection
  <2>3. hdr.l = c
    BY <1>2, <1>3, <2>1, <2>2 DEF Counts
  <2>4. EndSection(x, c, After[x])
    BY <1>6, <2>1, <2>2, <2>3
  <2> QED
    BY <2>1, <2>2, <2>4, StepEnd
<1>7. CASE EndSection("outputs", hdr.o, "bads")
  <2>1. PICK x, c : x = "outputs" /\ c = L(x)
    OBVIOUS
  <2>2. x \in Parts /\ After[x] = "bads" /\ pc = x
    BY <1>7, <2>1 DEF Parts, After, EndSection
  <2>3. hdr.o = c
    BY <1>2, <1>4, <2>1, <2>2 DEF Counts
  <2>4. EndSection(x, c, After[x])
    BY <1>7, <2>1, <2>2, <2>3
  <2> QED
    BY <2>1, <2>2, <2>4, StepEnd
<1>8. CASE EndSection("bads", hdr.b, "constraints")
  <2>1. PICK x, c : x = "bads" /\ c = L(x)
    OBVIOUS
  <2>2. x \in Parts /\ After[x] = "constraints" /\ pc = x
    BY <1>8, <2>1 DEF Parts, After, EndSection
  <2>3. hdr.b = c
    BY <1>2, <1>4, <2>1, <2>2 DEF Counts
  <2>4. EndSection(x, c, After[x])
    BY <1>8, <2>1, <2>2, <2>3
  <2> QED
    BY <2>1, <2>2, <2>4, StepEnd
<1>9. CASE EndSection("constraints", hdr.c, "ands")
  <2>1. PICK x, c : x = "constraints" /\ c = L(x)
    OBVIOUS
  <2>2. x \in Parts /\ After[x] = "ands" /\ pc = x
    BY <1>9, <2>1 DEF Parts, After, EndSection
  <2>3. hdr.c = c
    BY <1>2, <1>4, <2>1, <2>2 DEF Counts
  <2>4. EndSection(x, c, After[x])
    BY <1>9, <2>1, <2>2, <2>3
  <2> QED
    BY <2>1, <2>2, <2>4, StepEnd
<1>10. CASE EndSection("ands", hdr.a, "translate")
  <2>1. PICK x, c : x = "ands" /\ c = L(x)
    OBVIOUS
  <2>2. x \in Parts /\ After[x] = "translate" /\ pc = x
    BY <1>10, <2>1 DEF Parts, After, EndSection
  <2>3. hdr.a = c
    BY <1>2, <1>3, <2>1, <2>2 DEF Counts
  <2>4. EndSection(x, c, After[x])
    BY <1>10, <2>1, <2>2, <2>3
  <2> QED
    BY <2>1, <2>2, <2>4, StepEnd
<1> QED
  BY <1>5, <1>6, <1>7, <1>8, <1>9, <1>10 DEF NextSection

LEMMA StepHeader ==
  ASSUME NEW s, Plain(s), ReaderInv(s), ReadHeader
  PROVE  ReaderInv(s)'
<1>1. PICK o : Layout(s, binary, file, o) /\ Starting
  <2>1. pc = "header"
    BY DEF ReadHeader
  <2>2. ~ReadAll(s) /\ \A o, x, n : x \in Parts => ~Reading(s, o, x, n)
    BY <2>1 DEF ReadAll, Reading, Parts
  <2> QED
    BY <2>2 DEF ReaderInv
<1>2. p = 1 /\ aig = [y \in Parts |-> aig[y]] /\ \A y \in Parts : aig[y] = <<>>
  BY <1>1 DEF Starting
<1>3. binary \in BOOLEAN /\ (binary => IsBinary(s)) /\ SameFile
  BY DEF ReaderInv, ReadHeader, SameFile
<1> DEFINE rr == HeaderRun(file, p)
<1> DEFINE N(k) == Count(rr[k].val)
<1>4. /\ hdr' = [i |-> N(2), l |-> N(3), o |-> N(4), a |-> N(5), b |-> N(6), c |-> N(7),
                 j |-> N(8), f |-> N(9)]
      /\ p' = rr[9].pos
      /\ pc' = IF N(1) = N(2) + N(3) + N(5) THEN "inputs" ELSE "abort"
      /\ aig' = [aig EXCEPT !.inputs = IF binary THEN [k \in 1 .. N(2) |-> 2 * k] ELSE <<>>]
  BY DEF ReadHeader, HeaderRun, HeaderBody
<1>5. PICK r : r = rr
  OBVIOUS
<1>6. /\ Count(r[1].val) = s.inputs + Len(s.latches) + Len(s.ands) /\ Count(r[2].val) = s.inputs
      /\ Count(r[3].val) = Len(s.latches) /\ Count(r[4].val) = Len(s.outputs) /\ Count(r[5].val) = Len(s.ands)
      /\ Count(r[6].val) = Len(s.bads) /\ Count(r[7].val) = Len(s.constraints)
      /\ Count(r[8].val) = 0 /\ Count(r[9].val) = 0
      /\ r[9].pos = Cursor(binary, o, "inputs", 0)
  <2>1. r = HeaderRun(file, 1)
    BY <1>2, <1>5
  <2> QED
    BY <1>1, <1>3, <2>1, HeaderCounts
<1> HIDE DEF rr
<1>7. hdr' = Counts(s) /\ p' = Cursor(binary, o, "inputs", 0) /\ pc' = "inputs"
      /\ aig' = [aig EXCEPT !.inputs = IF binary THEN [k \in 1 .. s.inputs |-> 2 * k] ELSE <<>>]
  BY <1>4, <1>5, <1>6 DEF Counts
<1> DEFINE W == Wanted(s, binary)
<1>n. PICK n : n = IF binary THEN s.inputs ELSE 0
  OBVIOUS
<1>8. s.inputs \in Nat /\ n \in Nat /\ n <= s.inputs
  BY <1>n, SourceFacts
<1>9. "inputs" \in Parts
  BY DEF Parts
<1>10. Len(W.inputs) = s.inputs /\ W.inputs = Upto(W.inputs, s.inputs) /\ W.inputs = [k \in 1 .. s.inputs |-> 2 * k]
  <2>1. Len(W.inputs) = s.inputs /\ W.inputs = Upto(W.inputs, Len(W.inputs))
    BY <1>3, <1>9, WantedIs
  <2>2. W.inputs = [k \in 1 .. s.inputs |-> 2 * k]
    BY DEF Wanted
  <2> QED
    BY <2>1, <2>2
<1>11. SoFar(W, "inputs", n, aig')
  <2>1. (IF binary THEN [k \in 1 .. s.inputs |-> 2 * k] ELSE <<>>) = Upto(W.inputs, n)
    <3>1. Upto(W.inputs, 0) = <<>>
      BY UptoIs
    <3> HIDE DEF W
    <3> QED
      BY <1>10, <1>n, <3>1
  <2>2. Past["inputs"] = {}
    BY DEF Past, Parts
  <2>3. aig' = [aig EXCEPT !.inputs = Upto(W.inputs, n)]
    BY <1>7, <2>1
  <2> HIDE DEF W
  <2>4. aig' = [y \in Parts |-> IF y = "inputs" THEN Upto(W.inputs, n) ELSE aig[y]]
    BY <1>2, <1>9, <2>3
  <2>5. aig' = [y \in Parts |-> aig'[y]] /\ \A y \in Parts : aig'[y] = IF y = "inputs" THEN Upto(W[y], n) ELSE <<>>
    BY <1>2, <2>4
  <2> QED
    BY <2>2, <2>5 DEF SoFar
<1>12. Cursor(binary, o, "inputs", n) = Cursor(binary, o, "inputs", 0)
  BY <1>n DEF Cursor
<1>13. binary' = binary /\ file' = file
  BY <1>3 DEF SameFile
<1>14. Reading(s, o, "inputs", n)'
  <2>1. n <= Len(W.inputs) /\ (binary => n = Len(W.inputs))
    BY <1>8, <1>10, <1>n
  <2> QED
    BY <1>7, <1>8, <1>11, <1>12, <1>13, <2>1 DEF Reading
<1> QED
  BY <1>1, <1>3, <1>8, <1>9, <1>14, ToSection

LEMMA LatchNumber ==
  ASSUME NEW s, Plain(s), NEW i \in 1 .. Len(s.latches)
  PROVE  FirstLatch(s) + 2 * (i - 1) = 2 * (s.inputs + i)
<1> DEFINE k == s.inputs
<1> DEFINE n == Len(s.latches)
<1>1. k \in Nat /\ n \in Nat /\ i \in 1 .. n /\ FirstLatch(s) = 2 * (k + 1)
  BY SourceFacts DEF FirstLatch
<1> HIDE DEF k, n
<1>2. 2 * (k + 1) + 2 * (i - 1) = 2 * (k + i)
  BY <1>1
<1> QED
  BY <1>1, <1>2 DEF k

(* What translate_to_dimacs looks at. *)
Translates(s) ==
  /\ Numbered <=> InOrder(s, binary)
  /\ Properties = PropsOf(s)
  /\ ResetTo(0) = {j \in 1 .. Len(s.latches) : s.latches[j][2] = 0}
  /\ ResetTo(1) = {j \in 1 .. Len(s.latches) : s.latches[j][2] = 1}
  /\ [i \in 1 .. hdr.l |-> aiger_to_dimacs(aig.latches[i].next)]
       = [i \in 1 .. Len(s.latches) |-> aiger_to_dimacs(s.latches[i][1])]
  /\ InOrder(s, binary) =>
       [i \in 1 .. hdr.a |-> DimacsGate(aig.ands[i])]
         = [i \in 1 .. Len(s.ands) |-> [i1 |-> aiger_to_dimacs(s.ands[i][1]), i2 |-> aiger_to_dimacs(s.ands[i][2])]]
  /\ hdr.i = s.inputs /\ hdr.l = Len(s.latches) /\ aig.constraints = s.constraints

LEMMA TranslatesIs ==
  ASSUME NEW s, Plain(s), ReadAll(s), binary \in BOOLEAN
  PROVE  Translates(s)
<1> DEFINE W == Wanted(s, binary)
<1>1. hdr = Counts(s) /\ \A y \in Parts : aig[y] = W[y]
  BY DEF ReadAll
<1>2. /\ hdr.i = s.inputs /\ hdr.l = Len(s.latches) /\ hdr.a = Len(s.ands) /\ hdr.b = Len(s.bads)
  BY <1>1 DEF Counts
<1>3. /\ aig.inputs = W.inputs /\ aig.latches = W.latches /\ aig.outputs = W.outputs /\ aig.bads = W.bads
      /\ aig.constraints = W.constraints /\ aig.ands = W.ands
  BY <1>1 DEF Parts
<1>4. \A i \in 1 .. s.inputs : W.inputs[i] = 2 * i
  BY DEF Wanted
<1>5. \A i \in 1 .. Len(s.latches) : W.latches[i] = [l |-> FirstLatch(s) + 2 * (i - 1), next |-> s.latches[i][1],
                                                   default_val |-> s.latches[i][2]]
  BY DEF Wanted, WantedLatch
<1>6. ASSUME NEW i \in 1 .. Len(s.latches)
      PROVE  /\ W.latches[i].l = 2 * (s.inputs + i) /\ W.latches[i].next = s.latches[i][1]
             /\ W.latches[i].default_val = s.latches[i][2]
  <2>1. FirstLatch(s) + 2 * (i - 1) = 2 * (s.inputs + i)
    BY LatchNumber
  <2>2. PICK y : y = FirstLatch(s) + 2 * (i - 1)
    OBVIOUS
  <2>3. W.latches[i] = [l |-> y, next |-> s.latches[i][1], default_val |-> s.latches[i][2]]
    BY <1>5, <2>2
  <2> HIDE DEF W
  <2>4. W.latches[i].l = y /\ W.latches[i].next = s.latches[i][1] /\ W.latches[i].default_val = s.latches[i][2]
    BY <2>3
  <2> QED
    BY <2>1, <2>2, <2>4
<1>7. ASSUME NEW i \in 1 .. Len(s.ands)
      PROVE  LET k == Listed(s, binary, i)
             IN /\ k \in 1 .. Len(s.ands) /\ W.ands[i].o = 2 * (s.inputs + Len(s.latches) + k)
                /\ W.ands[i].i1 = s.ands[k][1] /\ W.ands[i].i2 = s.ands[k][2]
                /\ (W.ands[i].o = 2 * (s.inputs + Len(s.latches) + i) <=> k = i)
  <2>1. PICK k : k = Listed(s, binary, i)
    OBVIOUS
  <2>2. k \in 1 .. Len(s.ands) /\ W.ands[i] = WantedGate(s, k)
    BY <2>1, ListedIs
  <2>3. FirstGate(s) + 2 * (k - 1) = 2 * (s.inputs + Len(s.latches) + k)
    BY <2>2, GateNumber
  <2>4. W.ands[i].o = 2 * (s.inputs + Len(s.latches) + k) /\ W.ands[i].i1 = s.ands[k][1] /\ W.ands[i].i2 = s.ands[k][2]
    BY <2>2, <2>3 DEF WantedGate
  <2>5. 2 * (s.inputs + Len(s.latches) + k) = 2 * (s.inputs + Len(s.latches) + i) <=> k = i
    <3> DEFINE u == s.inputs
    <3> DEFINE v == Len(s.latches)
    <3> DEFINE w == Len(s.ands)
    <3>1. u \in Nat /\ v \in Nat /\ w \in Nat /\ k \in 1 .. w /\ i \in 1 .. w
      BY <2>2, SourceFacts
    <3> HIDE DEF u, v, w
    <3>2. 2 * (u + v + k) = 2 * (u + v + i) <=> k = i
      BY <3>1
    <3> QED
      BY <3>2 DEF u, v
  <2> QED
    BY <2>1, <2>2, <2>4, <2>5
<1>8. InOrder(s, binary) <=> \A i \in 1 .. Len(s.ands) : Listed(s, binary, i) = i
  BY DEF InOrder, Listed
<1> HIDE DEF W
<1>9. Numbered <=> InOrder(s, binary)
  BY <1>2, <1>3, <1>4, <1>6, <1>7, <1>8 DEF Numbered
<1>10. Properties = PropsOf(s)
  <2>1. W.bads = s.bads /\ W.outputs = s.outputs /\ s.bads \in Seq(Nat)
    BY DEF W, Wanted, Plain, IsSource
  <2>2. Len(s.bads) > 0 <=> s.bads # <<>>
    <3>1. Len(s.bads) \in Nat /\ (Len(s.bads) = 0 <=> s.bads = <<>>)
      BY <2>1, LenProperties, EmptySeq
    <3> QED
      BY <3>1
  <2> QED
    BY <1>2, <1>3, <2>1, <2>2 DEF Properties, PropsOf
<1>11. ASSUME NEW d PROVE ResetTo(d) = {j \in 1 .. Len(s.latches) : s.latches[j][2] = d}
  BY <1>2, <1>3, <1>6 DEF ResetTo
<1>12. [i \in 1 .. hdr.l |-> aiger_to_dimacs(aig.latches[i].next)]
         = [i \in 1 .. Len(s.latches) |-> aiger_to_dimacs(s.latches[i][1])]
  BY <1>2, <1>3, <1>6
<1>13. ASSUME InOrder(s, binary)
       PROVE  [i \in 1 .. hdr.a |-> DimacsGate(aig.ands[i])]
                = [i \in 1 .. Len(s.ands) |-> [i1 |-> aiger_to_dimacs(s.ands[i][1]), i2 |-> aiger_to_dimacs(s.ands[i][2])]]
  <2>1. ASSUME NEW i \in 1 .. Len(s.ands)
        PROVE  DimacsGate(aig.ands[i]) = [i1 |-> aiger_to_dimacs(s.ands[i][1]), i2 |-> aiger_to_dimacs(s.ands[i][2])]
    <3>1. aig.ands[i].i1 = s.ands[i][1] /\ aig.ands[i].i2 = s.ands[i][2]
      BY <1>3, <1>7, <1>8, <1>13
    <3> QED
      BY <3>1 DEF DimacsGate
  <2> QED
    BY <1>2, <2>1
<1>14. aig.constraints = s.constraints
  BY <1>3 DEF W, Wanted
<1> QED
  BY <1>2, <1>9, <1>10, <1>11, <1>12, <1>13, <1>14 DEF Translates

LEMMA StepTranslate ==
  ASSUME NEW s, Plain(s), ReaderInv(s), Translate
  PROVE  ReaderInv(s)'
<1>1. PICK o : Layout(s, binary, file, o) /\ ReadAll(s)
  <2>1. pc = "translate"
    BY DEF Translate
  <2>2. ~Starting /\ \A o, x, n : x \in Parts => ~Reading(s, o, x, n)
    BY <2>1 DEF Starting, Reading, Parts
  <2> QED
    BY <2>2 DEF ReaderInv
<1>2. binary \in BOOLEAN /\ (binary => IsBinary(s)) /\ index \in Nat
  BY DEF ReaderInv
<1>3. Translates(s)
  BY <1>1, <1>2, TranslatesIs
<1>4. Properties = PropsOf(s) /\ (Numbered <=> InOrder(s, binary))
  BY <1>3 DEF Translates
<1>5. binary' = binary /\ file' = file /\ hdr' = hdr /\ aig' = aig /\ p' = p
  BY DEF Translate
<1>6. hdr = Counts(s) /\ (\A y \in Parts : aig[y] = Wanted(s, binary)[y]) /\ p = Len(file) + (IF binary THEN 1 ELSE 0)
  BY <1>1 DEF ReadAll
<1>7. CASE ~Numbered \/ Properties = <<>>
  <2>1. pc' = "abort" /\ index' = index
    BY <1>7 DEF Translate
  <2>2. ReadAll(s)'
    BY <1>4, <1>5, <1>6, <1>7, <2>1 DEF ReadAll
  <2> QED
    BY <1>1, <1>2, <1>5, <2>1, <2>2 DEF ReaderInv
<1>8. CASE Numbered /\ Properties # <<>>
  <2>1. pc' = "loaded" /\ index' = IF index < Len(PropsOf(s)) THEN index ELSE 0
    BY <1>4, <1>8 DEF Translate
  <2>2. index' \in Nat /\ index' \in 0 .. Len(PropsOf(s)) - 1
    <3>1. PropsOf(s) \in Seq(Nat) /\ PropsOf(s) # <<>>
      BY <1>4, <1>8 DEF PropsOf, Plain, IsSource
    <3>2. Len(PropsOf(s)) \in Nat /\ Len(PropsOf(s)) # 0
      BY <3>1, LenProperties, EmptySeq
    <3> QED
      BY <1>2, <2>1, <3>2
  <2>3. circ' = CircuitOf(s, index')
    <3> DEFINE A == [i \in 1 .. hdr.a |-> DimacsGate(aig.ands[i])]
    <3> DEFINE B == [i \in 1 .. hdr.l |-> aiger_to_dimacs(aig.latches[i].next)]
    <3> DEFINE R0 == ResetTo(0)
    <3> DEFINE R1 == ResetTo(1)
    <3> DEFINE C == aig.constraints
    <3> DEFINE P == Properties
    <3>1. circ' = [num_inputs |-> hdr.i, num_latches |-> hdr.l, ands |-> A, nexts |-> B,
                   init_state |-> {-(1 + hdr.i + i) : i \in R0} \cup {1 + hdr.i + i : i \in R1},
                   constraints |-> {aiger_to_dimacs(l) : l \in Range(C)},
                   bad |-> aiger_to_dimacs(P[index' + 1])]
      BY <1>8 DEF Translate
    <3> DEFINE A2 == [i \in 1 .. Len(s.ands) |-> [i1 |-> aiger_to_dimacs(s.ands[i][1]), i2 |-> aiger_to_dimacs(s.ands[i][2])]]
    <3> DEFINE B2 == [i \in 1 .. Len(s.latches) |-> aiger_to_dimacs(s.latches[i][1])]
    <3> DEFINE Q0 == {j \in 1 .. Len(s.latches) : s.latches[j][2] = 0}
    <3> DEFINE Q1 == {j \in 1 .. Len(s.latches) : s.latches[j][2] = 1}
    <3>2. A = A2 /\ B = B2 /\ R0 = Q0 /\ R1 = Q1 /\ C = s.constraints /\ P = PropsOf(s)
          /\ hdr.i = s.inputs /\ hdr.l = Len(s.latches)
      BY <1>3, <1>4, <1>8 DEF Translates
    <3>3. CircuitOf(s, index') =
            [num_inputs |-> s.inputs, num_latches |-> Len(s.latches), ands |-> A2, nexts |-> B2,
             init_state |-> {-(1 + s.inputs + i) : i \in Q0} \cup {1 + s.inputs + i : i \in Q1},
             constraints |-> {aiger_to_dimacs(l) : l \in Range(s.constraints)},
             bad |-> aiger_to_dimacs(PropsOf(s)[index' + 1])]
      BY DEF CircuitOf
    <3> HIDE DEF A, B, R0, R1, C, P, A2, B2, Q0, Q1
    <3> QED
      BY <3>1, <3>2, <3>3
  <2>4. ReadAll(s)'
    BY <1>4, <1>5, <1>6, <1>8, <2>1, <2>2, <2>3 DEF ReadAll
  <2> QED
    BY <1>1, <1>2, <1>5, <2>2, <2>4 DEF ReaderInv
<1> QED
  BY <1>7, <1>8

LEMMA ReaderStep ==
  ASSUME NEW s, Plain(s), ReaderInv(s), Next
  PROVE  ReaderInv(s)'
<1>1. binary \in BOOLEAN
  BY DEF ReaderInv
<1>2. ASSUME NEW x \in Parts, pc = x PROVE hdr = Counts(s)
  <2>1. PICK o, n : Reading(s, o, x, n)
    BY <1>2, InSection
  <2> QED
    BY <2>1 DEF Reading
<1> DEFINE L(x) == Len(Wanted(s, binary)[x])
<1>3. L("inputs") = s.inputs
  BY <1>1, WantedIs DEF Parts
<1>4. L("outputs") = Len(s.outputs) /\ L("bads") = Len(s.bads) /\ L("constraints") = Len(s.constraints)
  BY DEF Wanted
<1>5. CASE ReadInput
  <2>1. PICK x, c : x = "inputs" /\ c = L(x)
    OBVIOUS
  <2>2. x \in Parts /\ x \in LiteralParts /\ pc = x
    BY <1>5, <2>1 DEF Parts, LiteralParts, ReadInput, ReadOne
  <2>3. ReadOne(x, c)
    BY <1>2, <1>3, <1>5, <2>1, <2>2 DEF Counts, ReadInput
  <2> QED
    BY <2>1, <2>2, <2>3, StepOne
<1>6. CASE ReadOutput
  <2>1. PICK x, c : x = "outputs" /\ c = L(x)
    OBVIOUS
  <2>2. x \in Parts /\ x \in LiteralParts /\ pc = x
    BY <1>6, <2>1 DEF Parts, LiteralParts, ReadOutput, ReadOne
  <2>3. ReadOne(x, c)
    BY <1>2, <1>4, <1>6, <2>1, <2>2 DEF Counts, ReadOutput
  <2> QED
    BY <2>1, <2>2, <2>3, StepOne
<1>7. CASE ReadBad
  <2>1. PICK x, c : x = "bads" /\ c = L(x)
    OBVIOUS
  <2>2. x \in Parts /\ x \in LiteralParts /\ pc = x
    BY <1>7, <2>1 DEF Parts, LiteralParts, ReadBad, ReadOne
  <2>3. ReadOne(x, c)
    BY <1>2, <1>4, <1>7, <2>1, <2>2 DEF Counts, ReadBad
  <2> QED
    BY <2>1, <2>2, <2>3, StepOne
<1>8. CASE ReadConstraint
  <2>1. PICK x, c : x = "constraints" /\ c = L(x)
    OBVIOUS
  <2>2. x \in Parts /\ x \in LiteralParts /\ pc = x
    BY <1>8, <2>1 DEF Parts, LiteralParts, ReadConstraint, ReadOne
  <2>3. ReadOne(x, c)
    BY <1>2, <1>4, <1>8, <2>1, <2>2 DEF Counts, ReadConstraint
  <2> QED
    BY <2>1, <2>2, <2>3, StepOne
<1>9. CASE Stop
  BY <1>9 DEF Stop, vars, ReaderInv, Starting, Reading, ReadAll
<1> QED
  BY <1>5, <1>6, <1>7, <1>8, <1>9, StepHeader, StepLatch, StepSection, StepGate, StepTranslate DEF Next

----------------------------------------------------------------------------
(***************************************************************************)
(* What the circuit that was read means, and the theorems about the files. *)
(***************************************************************************)

(* The literals of AIGER and of the circuit. *)
LEMMA HalfIs ==
  ASSUME NEW l \in Nat
  PROVE  /\ l \div 2 \in Nat /\ l % 2 \in {0, 1} /\ l = (l % 2) + 2 * (l \div 2)
<1>1. 2 \in Nat /\ 2 > 1
  OBVIOUS
<1>2. l % 2 \in 0 .. 2 - 1 /\ l \div 2 \in Nat /\ l = (l % 2) + 2 * (l \div 2)
  BY <1>1, DivMod
<1>3. 0 .. 2 - 1 = {0, 1}
  OBVIOUS
<1> QED
  BY <1>2, <1>3

LEMMA DimacsIs ==
  ASSUME NEW l \in Nat, NEW n \in Nat, l < 2 * n
  PROVE  /\ aiger_to_dimacs(l) \in LitOf(n) /\ l \div 2 \in Nat /\ l \div 2 < n
         /\ l % 2 = 1 => aiger_to_dimacs(l) < 0 /\ -aiger_to_dimacs(l) = l \div 2 + 1
         /\ l % 2 # 1 => aiger_to_dimacs(l) > 0 /\ aiger_to_dimacs(l) = l \div 2 + 1
<1> DEFINE d == l \div 2
<1> DEFINE m == l % 2
<1>1. d \in Nat /\ m \in {0, 1} /\ l = m + 2 * d
  BY HalfIs
<1>2. aiger_to_dimacs(l) = IF m = 1 THEN -d - 1 ELSE d + 1
  BY DEF aiger_to_dimacs
<1> HIDE DEF d, m
<1>3. d < n
  BY <1>1
<1>4. /\ aiger_to_dimacs(l) \in LitOf(n)
      /\ m = 1 => aiger_to_dimacs(l) < 0 /\ -aiger_to_dimacs(l) = d + 1
      /\ m # 1 => aiger_to_dimacs(l) > 0 /\ aiger_to_dimacs(l) = d + 1
  BY <1>1, <1>2, <1>3 DEF LitOf
<1> QED
  BY <1>1, <1>3, <1>4 DEF d, m

LEMMA DimacsHolds ==
  ASSUME NEW l \in Nat, NEW n \in Nat, l < 2 * n, NEW v, \A m \in 1 .. n : v[m] \in BOOLEAN
  PROVE  Holds(v, aiger_to_dimacs(l)) = (v[l \div 2 + 1] # (l % 2 = 1))
<1>1. /\ l \div 2 \in Nat /\ l \div 2 < n
      /\ l % 2 = 1 => aiger_to_dimacs(l) < 0 /\ -aiger_to_dimacs(l) = l \div 2 + 1
      /\ l % 2 # 1 => aiger_to_dimacs(l) > 0 /\ aiger_to_dimacs(l) = l \div 2 + 1
      /\ aiger_to_dimacs(l) \in Int
  BY DimacsIs DEF LitOf
<1>2. v[l \div 2 + 1] \in BOOLEAN
  <2>1. l \div 2 + 1 \in 1 .. n
    BY <1>1
  <2> QED
    BY <2>1
<1>3. CASE l % 2 = 1
  <2>1. Holds(v, aiger_to_dimacs(l)) = ~v[l \div 2 + 1]
    <3>1. ~(aiger_to_dimacs(l) > 0)
      BY <1>1, <1>3
    <3> QED
      BY <1>1, <1>3, <3>1 DEF Holds
  <2> QED
    BY <1>2, <1>3, <2>1
<1>4. CASE l % 2 # 1
  <2>1. Holds(v, aiger_to_dimacs(l)) = v[l \div 2 + 1]
    BY <1>1, <1>4 DEF Holds
  <2> QED
    BY <1>2, <1>4, <2>1
<1> QED
  BY <1>3, <1>4

(* The literals of a source. *)
LEMMA SourceLiterals ==
  ASSUME NEW s, Plain(s)
  PROVE  /\ \A j \in 1 .. Len(s.latches) : s.latches[j][1] \in Nat /\ s.latches[j][1] < EndGates(s)
         /\ \A i \in 1 .. Len(s.ands), j \in 1 .. 2 : s.ands[i][j] \in Nat /\ s.ands[i][j] < EndGates(s)
         /\ \A l \in Range(s.constraints) : l \in Nat /\ l < EndGates(s)
         /\ \A k \in 0 .. Len(PropsOf(s)) - 1 : PropsOf(s)[k + 1] \in Nat /\ PropsOf(s)[k + 1] < EndGates(s)
<1>1. \A j \in 1 .. Len(s.latches) : s.latches[j] \in Nat \X Nat
  BY ElementOfSeq DEF Plain, IsSource
<1>2. \A j \in 1 .. Len(s.ands) : s.ands[j] \in Nat \X Nat
  BY ElementOfSeq DEF Plain, IsSource
<1>3. ASSUME NEW t \in Seq(Nat), NEW j \in 1 .. Len(t) PROVE t[j] \in Nat
  BY <1>3, ElementOfSeq
<1>4. \A l \in Range(s.constraints) : l \in Nat /\ l < EndGates(s)
  <2>1. s.constraints \in Seq(Nat)
    BY DEF Plain, IsSource
  <2>2. DOMAIN s.constraints = 1 .. Len(s.constraints)
    BY <2>1, LenProperties
  <2>3. SUFFICES ASSUME NEW j \in 1 .. Len(s.constraints) PROVE s.constraints[j] \in Nat /\ s.constraints[j] < EndGates(s)
    BY <2>2 DEF Range
  <2> QED
    BY <1>3, <2>1 DEF Plain, IsSource
<1>5. ASSUME NEW k \in 0 .. Len(PropsOf(s)) - 1 PROVE PropsOf(s)[k + 1] \in Nat /\ PropsOf(s)[k + 1] < EndGates(s)
  <2>1. CASE s.bads # <<>>
    <3>1. PropsOf(s) = s.bads /\ s.bads \in Seq(Nat) /\ Len(s.bads) \in Nat
      BY <2>1, LenProperties DEF PropsOf, Plain, IsSource
    <3>2. k + 1 \in 1 .. Len(s.bads)
      BY <3>1
    <3> QED
      BY <1>3, <3>1, <3>2 DEF Plain, IsSource
  <2>2. CASE s.bads = <<>>
    <3>1. PropsOf(s) = s.outputs /\ s.outputs \in Seq(Nat) /\ Len(s.outputs) \in Nat
      BY <2>2, LenProperties DEF PropsOf, Plain, IsSource
    <3>2. k + 1 \in 1 .. Len(s.outputs)
      BY <3>1
    <3> QED
      BY <1>3, <3>1, <3>2 DEF Plain, IsSource
  <2> QED
    BY <2>1, <2>2
<1>6. \A j \in 1 .. Len(s.latches) : s.latches[j][1] \in Nat /\ s.latches[j][1] < EndGates(s)
  BY <1>1 DEF Plain, IsSource
<1>7. ASSUME NEW i \in 1 .. Len(s.ands), NEW j \in 1 .. 2
      PROVE  s.ands[i][j] \in Nat /\ s.ands[i][j] < EndGates(s)
  <2>1. j = 1 \/ j = 2
    OBVIOUS
  <2>2. s.ands[i][j] \in Nat
    BY <2>1, SourceFacts
  <2> QED
    BY <2>2 DEF Plain, IsSource
<1> QED
  BY <1>4, <1>5, <1>6, <1>7

LEMMA SourceIsCircuit ==
  ASSUME NEW s, Plain(s), FaninsFirst(s), NEW k \in 0 .. Len(PropsOf(s)) - 1
  PROVE  /\ IsCircuit(CircuitOf(s, k)) /\ EndGates(s) = 2 * NumVars(CircuitOf(s, k))
         /\ FirstGate(s) = 2 * (1 + s.inputs + Len(s.latches)) /\ NumVars(CircuitOf(s, k)) \in Nat
         /\ NumVars(CircuitOf(s, k)) = 1 + s.inputs + Len(s.latches) + Len(s.ands)
<1>0. PICK c : c = CircuitOf(s, k)
  OBVIOUS
<1> DEFINE ni == s.inputs
<1> DEFINE nl == Len(s.latches)
<1> DEFINE na == Len(s.ands)
<1>1. ni \in Nat /\ nl \in Nat /\ na \in Nat
  BY SourceFacts
<1>2. /\ c.num_inputs = ni /\ c.num_latches = nl
      /\ c.ands = [i \in 1 .. na |-> [i1 |-> aiger_to_dimacs(s.ands[i][1]), i2 |-> aiger_to_dimacs(s.ands[i][2])]]
      /\ c.nexts = [i \in 1 .. nl |-> aiger_to_dimacs(s.latches[i][1])]
      /\ c.init_state = {-(1 + ni + i) : i \in {j \in 1 .. nl : s.latches[j][2] = 0}}
                        \cup {1 + ni + i : i \in {j \in 1 .. nl : s.latches[j][2] = 1}}
      /\ c.constraints = {aiger_to_dimacs(l) : l \in Range(s.constraints)}
      /\ c.bad = aiger_to_dimacs(PropsOf(s)[k + 1])
  BY <1>0 DEF CircuitOf
<1>3. FirstGate(s) = 2 * (ni + 1) + 2 * nl /\ EndGates(s) = 2 * (ni + 1) + 2 * nl + 2 * na
  BY DEF FirstGate, FirstLatch, EndGates
<1>4. Len(c.ands) = na /\ \A i \in 1 .. na : c.ands[i].i1 = aiger_to_dimacs(s.ands[i][1]) /\ c.ands[i].i2 = aiger_to_dimacs(s.ands[i][2])
  BY <1>1, <1>2
<1>5. NumVars(c) = 1 + ni + nl + na /\ (\A i : AndVar(c, i) = 1 + ni + nl + i) /\ (\A i : LatchVar(c, i) = 1 + ni + i)
  BY <1>2, <1>4 DEF NumVars, AndVar, LatchVar
<1>6. /\ \A j \in 1 .. nl : s.latches[j][1] \in Nat /\ s.latches[j][1] < EndGates(s)
      /\ \A i \in 1 .. na, j \in 1 .. 2 : s.ands[i][j] \in Nat /\ s.ands[i][j] < FirstGate(s) + 2 * (i - 1)
      /\ \A l \in Range(s.constraints) : l \in Nat /\ l < EndGates(s)
      /\ PropsOf(s)[k + 1] \in Nat /\ PropsOf(s)[k + 1] < EndGates(s)
  BY SourceLiterals DEF FaninsFirst
<1> HIDE DEF ni, nl, na
<1>7. /\ EndGates(s) = 2 * NumVars(c) /\ NumVars(c) \in Nat /\ FirstGate(s) = 2 * (1 + ni + nl)
      /\ \A i \in 1 .. na : AndVar(c, i) - 1 \in Nat /\ FirstGate(s) + 2 * (i - 1) = 2 * (AndVar(c, i) - 1)
  BY <1>1, <1>3, <1>5
<1>8. ASSUME NEW i \in 1 .. na
      PROVE  c.ands[i].i1 \in LitOf(AndVar(c, i) - 1) /\ c.ands[i].i2 \in LitOf(AndVar(c, i) - 1)
  <2>1. /\ s.ands[i][1] \in Nat /\ s.ands[i][1] < 2 * (AndVar(c, i) - 1)
        /\ s.ands[i][2] \in Nat /\ s.ands[i][2] < 2 * (AndVar(c, i) - 1) /\ AndVar(c, i) - 1 \in Nat
    BY <1>6, <1>7
  <2>2. aiger_to_dimacs(s.ands[i][1]) \in LitOf(AndVar(c, i) - 1) /\ aiger_to_dimacs(s.ands[i][2]) \in LitOf(AndVar(c, i) - 1)
    BY <2>1, DimacsIs
  <2> QED
    BY <1>4, <2>2
<1>9. c.ands \in Seq([i1 : Int, i2 : Int])
  <2>1. \A i \in 1 .. na : aiger_to_dimacs(s.ands[i][1]) \in Int /\ aiger_to_dimacs(s.ands[i][2]) \in Int
    BY <1>4, <1>8 DEF LitOf
  <2>2. \A i \in 1 .. na : [i1 |-> aiger_to_dimacs(s.ands[i][1]), i2 |-> aiger_to_dimacs(s.ands[i][2])] \in [i1 : Int, i2 : Int]
    BY <2>1
  <2>3. c.ands \in [1 .. na -> [i1 : Int, i2 : Int]]
    BY <1>2, <2>2
  <2> QED
    BY <1>1, <2>3, SeqDef
<1>10. c.nexts \in [1 .. c.num_latches -> LitOf(NumVars(c))]
  <2>1. \A j \in 1 .. nl : aiger_to_dimacs(s.latches[j][1]) \in LitOf(NumVars(c))
    BY <1>6, <1>7, DimacsIs
  <2> QED
    BY <1>2, <2>1
<1>11. c.constraints \subseteq LitOf(NumVars(c)) /\ c.bad \in LitOf(NumVars(c))
  <2>1. \A l \in Range(s.constraints) : aiger_to_dimacs(l) \in LitOf(NumVars(c))
    BY <1>6, <1>7, DimacsIs
  <2>2. aiger_to_dimacs(PropsOf(s)[k + 1]) \in LitOf(NumVars(c))
    BY <1>6, <1>7, DimacsIs
  <2> QED
    BY <1>2, <2>1, <2>2
<1>12. /\ c.init_state \subseteq
            {l \in LitOf(NumVars(c)) : \E j \in 1 .. c.num_latches : l = LatchVar(c, j) \/ l = -LatchVar(c, j)}
       /\ \A l \in c.init_state : -l \notin c.init_state
  <2>1. \A l \in c.init_state : \E j \in 1 .. nl :
          (l = -(1 + ni + j) /\ s.latches[j][2] = 0) \/ (l = 1 + ni + j /\ s.latches[j][2] = 1)
    BY <1>2
  <2>2. ASSUME NEW l \in c.init_state
        PROVE  /\ l \in {u \in LitOf(NumVars(c)) : \E j \in 1 .. c.num_latches : u = LatchVar(c, j) \/ u = -LatchVar(c, j)}
               /\ -l \notin c.init_state
    <3>1. PICK j \in 1 .. nl : \/ l = -(1 + ni + j) /\ s.latches[j][2] = 0
                               \/ l = 1 + ni + j /\ s.latches[j][2] = 1
      BY <2>1
    <3>2. l \in LitOf(NumVars(c)) /\ l \in Int
      BY <1>1, <1>5, <3>1 DEF LitOf
    <3>3. -l \notin c.init_state
      <4> SUFFICES ASSUME -l \in c.init_state PROVE FALSE
        OBVIOUS
      <4>1. PICK m \in 1 .. nl : \/ -l = -(1 + ni + m) /\ s.latches[m][2] = 0
                                 \/ -l = 1 + ni + m /\ s.latches[m][2] = 1
        BY <2>1
      <4>2. m = j
        BY <1>1, <3>1, <4>1
      <4> QED
        BY <1>1, <3>1, <4>1, <4>2
    <3> QED
      BY <1>2, <1>5, <3>1, <3>2, <3>3
  <2> QED
    BY <2>2
<1>13. IsCircuit(c)
  <2>1. c.num_inputs \in Nat /\ c.num_latches \in Nat /\ Len(c.ands) \in Nat
    BY <1>1, <1>2, <1>4
  <2>2. \A i \in 1 .. Len(c.ands) : c.ands[i].i1 \in LitOf(AndVar(c, i) - 1) /\ c.ands[i].i2 \in LitOf(AndVar(c, i) - 1)
    BY <1>4, <1>8
  <2> QED
    BY <1>9, <1>10, <1>11, <1>12, <2>1, <2>2 DEF IsCircuit
<1> QED
  BY <1>0, <1>5, <1>7, <1>13 DEF ni, nl, na

(* Fan-ins come first in the circuit only if they do in the source.        *)
LEMMA CircuitInOrder ==
  ASSUME NEW s, Plain(s), NEW k, IsCircuit(CircuitOf(s, k))
  PROVE  FaninsFirst(s)
<1>0. PICK c : c = CircuitOf(s, k)
  OBVIOUS
<1> DEFINE ni == s.inputs
<1> DEFINE nl == Len(s.latches)
<1> DEFINE na == Len(s.ands)
<1>1. ni \in Nat /\ nl \in Nat /\ na \in Nat
  BY SourceFacts
<1>2. /\ c.num_inputs = ni /\ c.num_latches = nl
      /\ c.ands = [i \in 1 .. na |-> [i1 |-> aiger_to_dimacs(s.ands[i][1]), i2 |-> aiger_to_dimacs(s.ands[i][2])]]
  BY <1>0 DEF CircuitOf
<1>3. FirstGate(s) = 2 * (ni + 1) + 2 * nl
  BY DEF FirstGate, FirstLatch
<1>4. Len(c.ands) = na /\ \A i \in 1 .. na : c.ands[i].i1 = aiger_to_dimacs(s.ands[i][1]) /\ c.ands[i].i2 = aiger_to_dimacs(s.ands[i][2])
  BY <1>1, <1>2
<1>5. \A i : AndVar(c, i) = 1 + ni + nl + i
  BY <1>2 DEF AndVar
<1>6. \A i \in 1 .. na, j \in 1 .. 2 : s.ands[i][j] \in Nat
  BY SourceLiterals
<1> HIDE DEF ni, nl, na
<1>7. ASSUME NEW i \in 1 .. na, NEW l \in Nat, aiger_to_dimacs(l) \in LitOf(AndVar(c, i) - 1)
      PROVE  l < FirstGate(s) + 2 * (i - 1)
  <2>1. PICK n \in Nat : n = AndVar(c, i) - 1 /\ n = ni + nl + i
    BY <1>1, <1>5
  <2>2. PICK d \in Nat, m \in {0, 1} : d = l \div 2 /\ m = l % 2 /\ l = m + 2 * d
    BY HalfIs
  <2>3. aiger_to_dimacs(l) = IF m = 1 THEN -d - 1 ELSE d + 1
    BY <2>2 DEF aiger_to_dimacs
  <2>4. d + 1 <= n
    BY <1>7, <2>1, <2>2, <2>3 DEF LitOf
  <2> QED
    BY <1>1, <1>3, <2>1, <2>2, <2>4
<1>8. ASSUME NEW i \in 1 .. na, NEW j \in 1 .. 2 PROVE s.ands[i][j] < FirstGate(s) + 2 * (i - 1)
  <2>1. c.ands[i].i1 \in LitOf(AndVar(c, i) - 1) /\ c.ands[i].i2 \in LitOf(AndVar(c, i) - 1)
    BY <1>0, <1>4 DEF IsCircuit
  <2>2. j = 1 \/ j = 2
    OBVIOUS
  <2>3. aiger_to_dimacs(s.ands[i][j]) \in LitOf(AndVar(c, i) - 1)
    BY <1>4, <2>1, <2>2
  <2> QED
    BY <1>6, <1>7, <2>3
<1> QED
  BY <1>8 DEF FaninsFirst, na

-----------------------------------------------------------------------------
(* The value of a literal of a source is that of the circuit's literal.    *)
ValueAt(s, x, i, v, n) ==
  IF n = 0 THEN FALSE
  ELSE IF n <= s.inputs THEN i[n]
  ELSE IF n < FirstGate(s) \div 2 THEN x[n - s.inputs]
  ELSE \A j \in 1 .. 2 :
         LET r == s.ands[n - FirstGate(s) \div 2 + 1][j]
         IN v[r \div 2] /= (r % 2 = 1)

ValuesBody(s, x, i, v) == [n \in 0 .. FirstGate(s) \div 2 + Len(s.ands) - 1 |-> ValueAt(s, x, i, v, n)]

(* The values of the variables of a source, as one recursive function.     *)
Values(s, x, i) == CHOOSE v : v = ValuesBody(s, x, i, v)

LEMMA ValueIs ==
  ASSUME NEW s, NEW x, NEW i, NEW l
  PROVE  Value(s, x, i, l) = (Values(s, x, i)[l \div 2] # (l % 2 = 1))
BY DEF Value, Values, ValuesBody, ValueAt

LEMMA HalfOfTwice ==
  ASSUME NEW m \in Nat
  PROVE  (2 * m) \div 2 = m
<1> DEFINE l == 2 * m
<1> DEFINE d == l \div 2
<1> DEFINE e == l % 2
<1>1. l \in Nat
  OBVIOUS
<1>2. d \in Nat /\ e \in {0, 1} /\ l = e + 2 * d
  BY <1>1, HalfIs
<1> HIDE DEF d, e
<1>3. d = m
  BY <1>2
<1> QED
  BY <1>3 DEF d

(* u gives the variables the values v gives AIGER's, which count from 0.   *)
SameValues(u, v, n) == \A m \in 0 .. n - 1 : u[m + 1] = v[m] /\ v[m] \in BOOLEAN

LEMMA ValueAtIs ==
  ASSUME NEW s, Plain(s), FaninsFirst(s), NEW k \in 0 .. Len(PropsOf(s)) - 1, NEW x, NEW i, NEW u, NEW v,
         NEW n \in 0 .. NumVars(CircuitOf(s, k)) - 1, SameValues(u, v, n)
  PROVE  SettleAt(CircuitOf(s, k), x, i, u, n + 1) = ValueAt(s, x, i, v, n)
<1>0. PICK c : c = CircuitOf(s, k)
  OBVIOUS
<1> DEFINE ni == s.inputs
<1> DEFINE nl == Len(s.latches)
<1> DEFINE na == Len(s.ands)
<1>1. ni \in Nat /\ nl \in Nat /\ na \in Nat
  BY SourceFacts
<1>2. /\ c.num_inputs = ni /\ c.num_latches = nl
      /\ c.ands = [j \in 1 .. na |-> [i1 |-> aiger_to_dimacs(s.ands[j][1]), i2 |-> aiger_to_dimacs(s.ands[j][2])]]
  BY <1>0 DEF CircuitOf
<1>3. NumVars(c) = 1 + ni + nl + na /\ FirstGate(s) = 2 * (1 + ni + nl)
  BY <1>0, SourceIsCircuit
<1>4. /\ InputVar(c, c.num_inputs) = 1 + ni /\ LatchVar(c, c.num_latches) = 1 + ni + nl
      /\ AndVar(c, 0) = 1 + ni + nl + 0
  BY <1>2 DEF InputVar, LatchVar, AndVar
<1>5. \A g \in 1 .. na, j \in 1 .. 2 : s.ands[g][j] \in Nat /\ s.ands[g][j] < FirstGate(s) + 2 * (g - 1)
  BY SourceLiterals DEF FaninsFirst
<1> HIDE DEF ni, nl, na
<1>6. FirstGate(s) \div 2 = 1 + ni + nl
  <2>1. 1 + ni + nl \in Nat
    BY <1>1
  <2> QED
    BY <1>3, <2>1, HalfOfTwice
<1>7. n \in Nat /\ n <= ni + nl + na
  BY <1>0, <1>1, <1>3
<1>8. CASE n = 0
  BY <1>8 DEF SettleAt, ValueAt
<1>9. CASE n # 0 /\ n <= ni
  <2>1. n + 1 # 1 /\ n + 1 <= 1 + ni /\ n + 1 - 1 = n
    BY <1>1, <1>7, <1>9
  <2>2. SettleAt(c, x, i, u, n + 1) = i[n]
    BY <1>4, <2>1 DEF SettleAt
  <2>3. ValueAt(s, x, i, v, n) = i[n]
    BY <1>9 DEF ValueAt, ni
  <2> QED
    BY <1>0, <2>2, <2>3
<1>10. CASE n > ni /\ n <= ni + nl
  <2>1. n + 1 # 1 /\ ~(n + 1 <= 1 + ni) /\ n + 1 <= 1 + ni + nl /\ n + 1 - 1 - ni = n - ni
    BY <1>1, <1>7, <1>10
  <2>2. SettleAt(c, x, i, u, n + 1) = x[n - ni]
    BY <1>2, <1>4, <2>1 DEF SettleAt
  <2>3. n # 0 /\ ~(n <= ni) /\ n < 1 + ni + nl
    BY <1>1, <1>7, <1>10
  <2>4. ValueAt(s, x, i, v, n) = x[n - ni]
    BY <1>6, <2>3 DEF ValueAt, ni
  <2> QED
    BY <1>0, <2>2, <2>4
<1>11. CASE n > ni + nl
  <2>1. PICK g : g = n - (ni + nl)
    OBVIOUS
  <2>2. /\ g \in 1 .. na /\ n + 1 # 1 /\ ~(n + 1 <= 1 + ni) /\ ~(n + 1 <= 1 + ni + nl)
        /\ n + 1 - (1 + ni + nl + 0) = g /\ n # 0 /\ ~(n <= ni) /\ ~(n < 1 + ni + nl)
        /\ n - (1 + ni + nl) + 1 = g /\ FirstGate(s) + 2 * (g - 1) = 2 * n
    BY <1>1, <1>3, <1>7, <1>11, <2>1
  <2>3. SettleAt(c, x, i, u, n + 1) = (Holds(u, c.ands[g].i1) /\ Holds(u, c.ands[g].i2))
    <3>1. PICK m \in Int : m = n + 1
      BY <1>7
    <3>2. m # 1 /\ ~(m <= InputVar(c, c.num_inputs)) /\ ~(m <= LatchVar(c, c.num_latches)) /\ m - AndVar(c, 0) = g
      BY <1>1, <1>4, <1>7, <1>11, <2>1, <3>1
    <3>3. SettleAt(c, x, i, u, m) = (Holds(u, c.ands[g].i1) /\ Holds(u, c.ands[g].i2))
      BY <3>2 DEF SettleAt
    <3> QED
      BY <3>1, <3>3
  <2>4. ValueAt(s, x, i, v, n) = \A j \in 1 .. 2 : v[s.ands[g][j] \div 2] # (s.ands[g][j] % 2 = 1)
    BY <1>6, <2>2 DEF ValueAt, ni
  <2>5. c.ands[g].i1 = aiger_to_dimacs(s.ands[g][1]) /\ c.ands[g].i2 = aiger_to_dimacs(s.ands[g][2])
    BY <1>2, <2>2
  <2>6. ASSUME NEW j \in 1 .. 2
        PROVE  Holds(u, aiger_to_dimacs(s.ands[g][j])) = (v[s.ands[g][j] \div 2] # (s.ands[g][j] % 2 = 1))
    <3>1. PICK r : r = s.ands[g][j]
      OBVIOUS
    <3>2. r \in Nat /\ r < 2 * n
      BY <1>5, <2>2, <3>1
    <3>3. \A m \in 1 .. n : u[m] \in BOOLEAN
      <4>1. ASSUME NEW m \in 1 .. n PROVE u[m] \in BOOLEAN
        <5>1. m - 1 \in 0 .. n - 1 /\ (m - 1) + 1 = m
          BY <1>7
        <5> QED
          BY <5>1 DEF SameValues
      <4> QED
        BY <4>1
    <3>4. Holds(u, aiger_to_dimacs(r)) = (u[r \div 2 + 1] # (r % 2 = 1))
      BY <1>7, <3>2, <3>3, DimacsHolds
    <3>5. r \div 2 \in Nat /\ r \div 2 < n
      BY <1>7, <3>2, DimacsIs
    <3>6. r \div 2 \in 0 .. n - 1
      BY <1>7, <3>5
    <3>7. u[r \div 2 + 1] = v[r \div 2]
      BY <3>6 DEF SameValues
    <3> QED
      BY <3>1, <3>4, <3>7
  <2>7. \A j : j \in 1 .. 2 <=> j = 1 \/ j = 2
    OBVIOUS
  <2>8. ValueAt(s, x, i, v, n) = (Holds(u, aiger_to_dimacs(s.ands[g][1])) /\ Holds(u, aiger_to_dimacs(s.ands[g][2])))
    BY <2>4, <2>6, <2>7
  <2> QED
    BY <1>0, <2>3, <2>5, <2>8
<1>12. n = 0 \/ (n # 0 /\ n <= ni) \/ (n > ni /\ n <= ni + nl) \/ n > ni + nl
  BY <1>1, <1>7
<1> QED
  BY <1>8, <1>9, <1>10, <1>11, <1>12

LEMMA ValuesAre ==
  ASSUME NEW s, Plain(s), FaninsFirst(s), NEW k \in 0 .. Len(PropsOf(s)) - 1,
         NEW x \in Bits(Len(s.latches)), NEW i \in Bits(s.inputs)
  PROVE  \A n \in 0 .. NumVars(CircuitOf(s, k)) - 1 : Values(s, x, i)[n] = Settle(CircuitOf(s, k), x, i)[n + 1]
<1>0. PICK c : c = CircuitOf(s, k)
  OBVIOUS
<1>1. PICK N : N = NumVars(c)
  OBVIOUS
<1>2. /\ IsCircuit(c) /\ N \in Nat /\ N = 1 + s.inputs + Len(s.latches) + Len(s.ands)
      /\ FirstGate(s) = 2 * (1 + s.inputs + Len(s.latches))
  BY <1>0, <1>1, SourceIsCircuit
<1>3. c.num_inputs = s.inputs /\ c.num_latches = Len(s.latches)
  BY <1>0 DEF CircuitOf
<1>4. x \in Bits(c.num_latches) /\ i \in Bits(c.num_inputs)
  BY <1>3
<1>5. FirstGate(s) \div 2 + Len(s.ands) - 1 = N - 1
  <2>1. s.inputs \in Nat /\ Len(s.latches) \in Nat /\ Len(s.ands) \in Nat
    BY SourceFacts
  <2>2. 1 + s.inputs + Len(s.latches) \in Nat
    BY <2>1
  <2>3. FirstGate(s) \div 2 = 1 + s.inputs + Len(s.latches)
    BY <1>2, <2>2, HalfOfTwice
  <2>4. PICK h \in Nat, a \in Nat : h = 1 + s.inputs + Len(s.latches) /\ a = Len(s.ands)
    BY <2>1, <2>2
  <2>5. N = h + a
    BY <1>2, <2>4
  <2>6. h + a - 1 = N - 1
    BY <2>5
  <2> QED
    BY <2>3, <2>4, <2>6
<1>6. \A v : ValuesBody(s, x, i, v) = [n \in 0 .. N - 1 |-> ValueAt(s, x, i, v, n)]
  BY <1>5 DEF ValuesBody
<1>7. PICK u : u = Settle(c, x, i)
  OBVIOUS
<1>8. /\ \A m \in 1 .. N : u[m] \in BOOLEAN
      /\ \A m \in 1 .. N : u[m] = SettleAt(c, x, i, u, m)
  <2>1. \A m \in 1 .. NumVars(c) : Settle(c, x, i)[m] \in BOOLEAN
    BY <1>2, <1>4, SettleType
  <2>2. Settle(c, x, i) = [m \in 1 .. NumVars(c) |-> SettleAt(c, x, i, Settle(c, x, i), m)]
    BY <1>2, <1>4, SettleDefined
  <2>3. u = [m \in 1 .. N |-> SettleAt(c, x, i, u, m)]
    BY <1>1, <1>7, <2>2
  <2> QED
    BY <1>1, <1>7, <2>1, <2>3
<1>9. \A n \in 0 .. N - 1 : n + 1 \in 1 .. N
  BY <1>2
<1>10. \A n \in 0 .. N - 1 : \A m \in 0 .. n - 1 : m \in 0 .. N - 1
  BY <1>2
<1>11. \E v : v = ValuesBody(s, x, i, v)
  <2>1. PICK v : v = [n \in 0 .. N - 1 |-> u[n + 1]]
    OBVIOUS
  <2>2. \A n \in 0 .. N - 1 : v[n] = u[n + 1] /\ v[n] \in BOOLEAN
    BY <1>8, <1>9, <2>1
  <2>3. ASSUME NEW n \in 0 .. N - 1 PROVE v[n] = ValueAt(s, x, i, v, n)
    <3>1. SameValues(u, v, n)
      BY <1>10, <2>2 DEF SameValues
    <3>2. SettleAt(c, x, i, u, n + 1) = ValueAt(s, x, i, v, n)
      BY <1>0, <1>1, <3>1, ValueAtIs
    <3> QED
      BY <1>8, <1>9, <2>2, <3>2
  <2>4. v = [n \in 0 .. N - 1 |-> ValueAt(s, x, i, v, n)]
    BY <2>1, <2>3
  <2> QED
    BY <1>6, <2>4
<1>12. PICK v : v = Values(s, x, i)
  OBVIOUS
<1>13. v = [n \in 0 .. N - 1 |-> ValueAt(s, x, i, v, n)]
  <2>1. v = ValuesBody(s, x, i, v)
    BY <1>11, <1>12 DEF Values
  <2> QED
    BY <1>6, <2>1
<1> DEFINE D == 0 .. N - 1
<1> DEFINE r == [n \in D |-> n]
<1> DEFINE S == {n \in D : v[n] = u[n + 1]}
<1>14. \A n \in D : r[n] \in Nat
  OBVIOUS
<1>15. ASSUME NEW n \in D, \A m \in D : r[m] < r[n] => m \in S PROVE n \in S
  <2>1. ASSUME NEW m \in 0 .. n - 1 PROVE u[m + 1] = v[m] /\ v[m] \in BOOLEAN
    <3>1. m \in D /\ r[m] < r[n]
      BY <1>2
    <3>2. m \in S
      BY <1>15, <3>1
    <3> QED
      BY <1>8, <1>9, <3>1, <3>2
  <2>2. SameValues(u, v, n)
    BY <2>1 DEF SameValues
  <2>3. SettleAt(c, x, i, u, n + 1) = ValueAt(s, x, i, v, n)
    BY <1>0, <1>1, <2>2, ValueAtIs
  <2> QED
    BY <1>8, <1>9, <1>13, <2>3
<1> HIDE DEF S, r, D
<1>16. \A n \in D : n \in S
  BY <1>14, <1>15, RankInduction
<1>17. \A n \in 0 .. N - 1 : v[n] = u[n + 1]
  BY <1>16 DEF S, D
<1> QED
  BY <1>0, <1>1, <1>7, <1>12, <1>17

(* The value of a literal of a source is that of its translation.          *)
LEMMA ValueHolds ==
  ASSUME NEW s, Plain(s), FaninsFirst(s), NEW k \in 0 .. Len(PropsOf(s)) - 1,
         NEW x \in Bits(Len(s.latches)), NEW i \in Bits(s.inputs), NEW l \in Nat, l < EndGates(s)
  PROVE  Holds(Settle(CircuitOf(s, k), x, i), aiger_to_dimacs(l)) = Value(s, x, i, l)
<1>0. PICK c : c = CircuitOf(s, k)
  OBVIOUS
<1>1. PICK N : N = NumVars(c)
  OBVIOUS
<1>2. IsCircuit(c) /\ N \in Nat /\ EndGates(s) = 2 * N
  BY <1>0, <1>1, SourceIsCircuit
<1>3. c.num_inputs = s.inputs /\ c.num_latches = Len(s.latches)
  BY <1>0 DEF CircuitOf
<1>4. x \in Bits(c.num_latches) /\ i \in Bits(c.num_inputs)
  BY <1>3
<1>5. PICK u : u = Settle(c, x, i)
  OBVIOUS
<1>6. \A m \in 1 .. N : u[m] \in BOOLEAN
  BY <1>1, <1>2, <1>4, <1>5, SettleType
<1>7. Holds(u, aiger_to_dimacs(l)) = (u[l \div 2 + 1] # (l % 2 = 1))
  BY <1>2, <1>6, DimacsHolds
<1>8. l \div 2 \in 0 .. N - 1
  <2>1. l \div 2 \in Nat /\ l \div 2 < N
    BY <1>2, DimacsIs
  <2> QED
    BY <1>2, <2>1
<1>9. Values(s, x, i)[l \div 2] = u[l \div 2 + 1]
  BY <1>0, <1>1, <1>5, <1>8, ValuesAre
<1> QED
  BY <1>0, <1>5, <1>7, <1>9, ValueIs

-----------------------------------------------------------------------------
(* The reader before its first step. *)
Fresh ==
  /\ p = 1 /\ pc = "header"
  /\ aig = [inputs |-> <<>>, latches |-> <<>>, outputs |-> <<>>, bads |-> <<>>,
            constraints |-> <<>>, ands |-> <<>>]

LEMMA FreshStarts ==
  ASSUME Fresh
  PROVE  Starting
<1>1. aig = [y \in Parts |-> aig[y]]
  BY DEF Fresh, Parts
<1>2. \A y \in Parts : aig[y] = <<>>
  BY DEF Fresh, Parts
<1> QED
  BY <1>1, <1>2 DEF Fresh, Starting

LEMMA ReaderStarts ==
  ASSUME NEW s, Plain(s), binary \in BOOLEAN, binary => IsBinary(s), index \in Nat,
         file = FileOf(s, binary), Fresh
  PROVE  ReaderInv(s)
<1>1. \E o : Layout(s, binary, FileOf(s, binary), o)
  <2>1. PICK b \in BOOLEAN : b = binary
    OBVIOUS
  <2>2. b => IsBinary(s)
    BY <2>1
  <2>3. \E o : Layout(s, b, FileOf(s, b), o)
    BY <2>2, LayoutExists
  <2> QED
    BY <2>1, <2>3
<1>2. Starting
  BY FreshStarts
<1> QED
  BY <1>1, <1>2 DEF ReaderInv

LEMMA ReaderStutters ==
  ASSUME NEW s, ReaderInv(s), UNCHANGED vars
  PROVE  ReaderInv(s)'
<1>1. binary' = binary /\ file' = file /\ p' = p /\ pc' = pc /\ hdr' = hdr /\ aig' = aig /\ index' = index /\ circ' = circ
  BY DEF vars
<1> QED
  BY <1>1 DEF ReaderInv, Starting, Reading, ReadAll

LEMMA ReaderSection ==
  ASSUME NEW s, ReaderInv(s)
  PROVE  pc # "gates"
BY DEF ReaderInv, Starting, Reading, ReadAll, Parts

(* A file that is given. *)
GivenInv == ~Certifying /\ SafetyOnly(src) => \E s : s = src /\ Plain(s) /\ ReaderInv(s)

LEMMA GivenInit == LoadInit \/ CertInit => GivenInv
<1>1. ASSUME LoadInit, SafetyOnly(src) PROVE GivenInv
  <2>1. /\ src \in Sources /\ binary \in BOOLEAN /\ (binary => IsBinary(src))
        /\ index \in Indices /\ file = FileOf(src, binary) /\ Fresh
    BY <1>1 DEF LoadInit, Init, Fresh
  <2>2. PICK s : s = src
    OBVIOUS
  <2>3. Plain(s) /\ (binary => IsBinary(s)) /\ index \in Nat
    BY <1>1, <2>1, <2>2, SourcesAssumption, IndicesAssumption DEF Plain
  <2>4. ReaderInv(s)
    BY <2>1, <2>2, <2>3, ReaderStarts
  <2> QED
    BY <2>2, <2>3, <2>4 DEF GivenInv
<1>2. ASSUME CertInit PROVE Certifying
  <2>1. orig \in Circuits
    BY <1>2 DEF CertInit
  <2>2. IsCircuit(orig)
    BY <2>1, CircuitsAssumption
  <2>3. orig.bad # 0
    BY <2>2 DEF IsCircuit, LitOf
  <2> QED
    BY <2>3 DEF Certifying, NoCircuit
<1> QED
  BY <1>1, <1>2 DEF GivenInv

LEMMA GivenNext == GivenInv /\ [CertNext]_<<vars, certVars>> => GivenInv'
<1> SUFFICES ASSUME GivenInv, [CertNext]_<<vars, certVars>>, ~Certifying', SafetyOnly(src') PROVE GivenInv'
  BY DEF GivenInv
<1>0. src' = src
  BY DEF CertNext, NextCube, AddLiteral, EndCube, ShowAag, Next, ReadHeader, ReadInput, ReadLatch, ReadOutput,
         ReadBad, ReadConstraint, ReadOne, NextSection, EndSection, ReadGate, Translate, Stop, vars
<1>1. orig' = orig
  BY DEF CertNext, NextCube, AddLiteral, EndCube, ShowAag, certVars
<1>2. ~Certifying
  BY <1>1 DEF Certifying
<1>3. PICK s : s = src /\ Plain(s) /\ ReaderInv(s)
  BY <1>0, <1>2 DEF GivenInv
<1>4. pc # "gates"
  BY <1>3, ReaderSection
<1>5. Next \/ UNCHANGED vars
  BY <1>4 DEF CertNext, NextCube, AddLiteral, EndCube, ShowAag
<1>6. ReaderInv(s)'
  BY <1>3, <1>5, ReaderStep, ReaderStutters
<1>7. src' = s
  BY <1>0, <1>3
<1> QED
  BY <1>3, <1>6, <1>7 DEF GivenInv

(* What the circuit of a source means. *)
LEMMA ResetsAre ==
  ASSUME NEW s, Plain(s), NEW k, NEW x \in Bits(Len(s.latches))
  PROVE  (\A l \in CircuitOf(s, k).init_state : x[Abs(l) - 1 - s.inputs] = (l > 0))
           <=> \A j \in 1 .. Len(s.latches) : s.latches[j][2] \in {0, 1} => x[j] = (s.latches[j][2] = 1)
<1> DEFINE ni == s.inputs
<1> DEFINE nl == Len(s.latches)
<1> DEFINE I == CircuitOf(s, k).init_state
<1>1. ni \in Nat /\ nl \in Nat
  BY SourceFacts
<1>2. /\ \A l \in I : \E j \in 1 .. nl : (l = -(1 + ni + j) /\ s.latches[j][2] = 0) \/ (l = 1 + ni + j /\ s.latches[j][2] = 1)
      /\ \A j \in 1 .. nl : /\ s.latches[j][2] = 0 => -(1 + ni + j) \in I
                            /\ s.latches[j][2] = 1 => 1 + ni + j \in I
  BY DEF CircuitOf
<1>3. \A j \in 1 .. nl : x[j] \in BOOLEAN
  BY DEF Bits
<1> HIDE DEF ni, nl, I
<1>4. ASSUME NEW j \in 1 .. nl
      PROVE  /\ Abs(-(1 + ni + j)) - 1 - ni = j /\ ~(-(1 + ni + j) > 0)
             /\ Abs(1 + ni + j) - 1 - ni = j /\ 1 + ni + j > 0
  BY <1>1 DEF Abs
<1>5. ASSUME \A l \in I : x[Abs(l) - 1 - ni] = (l > 0), NEW j \in 1 .. nl, s.latches[j][2] \in {0, 1}
      PROVE  x[j] = (s.latches[j][2] = 1)
  <2>1. CASE s.latches[j][2] = 0
    <3>1. PICK l : l = -(1 + ni + j)
      OBVIOUS
    <3>2. l \in I /\ Abs(l) - 1 - ni = j /\ ~(l > 0)
      BY <1>2, <1>4, <2>1, <3>1
    <3>3. x[j] = (l > 0)
      BY <1>5, <3>2
    <3>4. s.latches[j][2] # 1
      BY <2>1
    <3> QED
      BY <1>3, <3>2, <3>3, <3>4
  <2>2. CASE s.latches[j][2] = 1
    <3>1. PICK l : l = 1 + ni + j
      OBVIOUS
    <3>2. l \in I /\ Abs(l) - 1 - ni = j /\ l > 0
      BY <1>2, <1>4, <2>2, <3>1
    <3>3. x[j] = (l > 0)
      BY <1>5, <3>2
    <3> QED
      BY <1>3, <2>2, <3>2, <3>3
  <2> QED
    BY <1>5, <2>1, <2>2
<1>6. ASSUME \A j \in 1 .. nl : s.latches[j][2] \in {0, 1} => x[j] = (s.latches[j][2] = 1), NEW l \in I
      PROVE  x[Abs(l) - 1 - ni] = (l > 0)
  <2>1. PICK j \in 1 .. nl : (l = -(1 + ni + j) /\ s.latches[j][2] = 0) \/ (l = 1 + ni + j /\ s.latches[j][2] = 1)
    BY <1>2
  <2>2. Abs(l) - 1 - ni = j /\ ((l > 0) = (s.latches[j][2] = 1)) /\ s.latches[j][2] \in {0, 1}
    <3>1. CASE l = -(1 + ni + j) /\ s.latches[j][2] = 0
      <4>1. Abs(l) - 1 - ni = j /\ ~(l > 0)
        BY <1>4, <3>1
      <4>2. s.latches[j][2] # 1 /\ s.latches[j][2] \in {0, 1}
        BY <3>1
      <4> QED
        BY <4>1, <4>2
    <3>2. CASE l = 1 + ni + j /\ s.latches[j][2] = 1
      <4>1. Abs(l) - 1 - ni = j /\ l > 0
        BY <1>4, <3>2
      <4> QED
        BY <3>2, <4>1
    <3> QED
      BY <2>1, <3>1, <3>2
  <2>3. x[j] = (s.latches[j][2] = 1)
    BY <1>6, <2>2
  <2> QED
    BY <2>2, <2>3
<1>7. (\A l \in I : x[Abs(l) - 1 - ni] = (l > 0)) <=> \A j \in 1 .. nl : s.latches[j][2] \in {0, 1} => x[j] = (s.latches[j][2] = 1)
  BY <1>5, <1>6
<1> QED
  BY <1>7 DEF ni, nl, I

(* The reader has ended: property k was selected.                          *)
LEMMA Selected ==
  ASSUME NEW s, Plain(s), ReaderInv(s), pc = "loaded"
  PROVE  index \in 0 .. Len(PropsOf(s)) - 1 /\ circ = CircuitOf(s, index)
<1>1. ReadAll(s)
  BY DEF ReaderInv, Starting, Reading, Parts
<1> QED
  BY <1>1 DEF ReadAll

LEMMA GivenRefused ==
  ASSUME NEW s, Plain(s), ReaderInv(s), s = src
  PROVE  AbortIffMisnumbered
<1>1. pc \in {"loaded", "abort"} => ReadAll(s)
  BY DEF ReaderInv, Starting, Reading, Parts
<1>2. DOMAIN s.order = 1 .. Len(s.ands)
  BY DEF Plain, IsSource
<1>3. WellFormed <=> PropsOf(s) # <<>> /\ InOrder(s, binary)
  BY <1>2 DEF WellFormed, SourceProperties, PropsOf, InOrder
<1>4. pc = "abort" => ~WellFormed
  BY <1>1, <1>3 DEF ReadAll
<1>5. ASSUME pc = "loaded"
      PROVE  WellFormed /\ (IsCircuit(circ) <=> FaninsFirst(src)) /\ p = Len(file) + (IF binary THEN 1 ELSE 0)
  <2>1. ReadAll(s)
    BY <1>1, <1>5
  <2>2. PICK k : k = index
    OBVIOUS
  <2>3. k \in 0 .. Len(PropsOf(s)) - 1 /\ circ = CircuitOf(s, k)
    BY <1>5, <2>2, Selected
  <2>4. FaninsFirst(s) => IsCircuit(CircuitOf(s, k))
    BY <2>3, SourceIsCircuit
  <2>5. IsCircuit(CircuitOf(s, k)) => FaninsFirst(s)
    BY CircuitInOrder
  <2>6. IsCircuit(circ) <=> FaninsFirst(src)
    BY <2>3, <2>4, <2>5
  <2> QED
    BY <1>3, <1>5, <2>1, <2>6 DEF ReadAll
<1> QED
  BY <1>4, <1>5 DEF AbortIffMisnumbered

LEMMA SameLiteral ==
  ASSUME NEW s, Plain(s), NEW v \in [1 .. EndGates(s) \div 2 -> BOOLEAN], NEW l \in Nat, l < EndGates(s)
  PROVE  Holds(v, aiger_to_dimacs(l)) = Sense(v, l)
<1>1. PICK n \in Nat : n = 1 + s.inputs + Len(s.latches) + Len(s.ands)
  BY SourceFacts
<1>2. EndGates(s) = 2 * n
  <2> DEFINE i == s.inputs
  <2> DEFINE m == Len(s.latches)
  <2> DEFINE a == Len(s.ands)
  <2>1. i \in Nat /\ m \in Nat /\ a \in Nat /\ n = 1 + i + m + a
    BY <1>1, SourceFacts
  <2>2. EndGates(s) = 2 * (i + 1) + 2 * m + 2 * a
    BY DEF FirstGate, FirstLatch, EndGates
  <2> HIDE DEF i, m, a
  <2> QED
    BY <2>1, <2>2
<1>3. EndGates(s) \div 2 = n
  BY <1>2, HalfOfTwice
<1>4. l < 2 * n /\ \A m \in 1 .. n : v[m] \in BOOLEAN
  BY <1>2, <1>3
<1>5. Holds(v, aiger_to_dimacs(l)) = (v[l \div 2 + 1] # (l % 2 = 1))
  BY <1>4, DimacsHolds
<1> QED
  BY <1>5 DEF Sense

LEMMA GivenLiterals ==
  ASSUME NEW s, Plain(s), ReaderInv(s), s = src, pc = "loaded"
  PROVE  SameLiterals
<1>1. PICK k : k = index
  OBVIOUS
<1>2. k \in 0 .. Len(PropsOf(s)) - 1 /\ circ = CircuitOf(s, k)
  BY <1>1, Selected
<1>3. PICK c : c = CircuitOf(s, k)
  OBVIOUS
<1>4. /\ \A j \in 1 .. Len(s.latches) : c.nexts[j] = aiger_to_dimacs(s.latches[j][1])
      /\ c.constraints = {aiger_to_dimacs(l) : l \in Range(s.constraints)}
      /\ c.bad = aiger_to_dimacs(PropsOf(s)[k + 1])
      /\ \A g \in 1 .. Len(s.ands) : /\ c.ands[g].i1 = aiger_to_dimacs(s.ands[g][1])
                                     /\ c.ands[g].i2 = aiger_to_dimacs(s.ands[g][2])
  BY <1>3 DEF CircuitOf
<1>5. /\ \A j \in 1 .. Len(s.latches) : s.latches[j][1] \in Nat /\ s.latches[j][1] < EndGates(s)
      /\ \A g \in 1 .. Len(s.ands), j \in 1 .. 2 : s.ands[g][j] \in Nat /\ s.ands[g][j] < EndGates(s)
      /\ \A l \in Range(s.constraints) : l \in Nat /\ l < EndGates(s)
      /\ PropsOf(s)[k + 1] \in Nat /\ PropsOf(s)[k + 1] < EndGates(s)
  BY <1>2, SourceLiterals
<1>6. DOMAIN s.ands = 1 .. Len(s.ands) /\ DOMAIN s.latches = 1 .. Len(s.latches)
  BY LenProperties DEF Plain, IsSource
<1>7. ASSUME NEW v \in [1 .. EndGates(s) \div 2 -> BOOLEAN]
      PROVE  /\ \A g \in 1 .. Len(s.ands) : /\ Holds(v, c.ands[g].i1) = Sense(v, s.ands[g][1])
                                            /\ Holds(v, c.ands[g].i2) = Sense(v, s.ands[g][2])
             /\ \A j \in 1 .. Len(s.latches) : Holds(v, c.nexts[j]) = Sense(v, s.latches[j][1])
             /\ Holds(v, c.bad) = Sense(v, PropsOf(s)[k + 1])
             /\ (\A l \in c.constraints : Holds(v, l)) <=> \A l \in Range(s.constraints) : Sense(v, l)
  <2>1. \A l \in Nat : l < EndGates(s) => Holds(v, aiger_to_dimacs(l)) = Sense(v, l)
    BY SameLiteral
  <2>2. 1 \in 1 .. 2 /\ 2 \in 1 .. 2
    OBVIOUS
  <2>3. ASSUME NEW g \in 1 .. Len(s.ands)
        PROVE  Holds(v, c.ands[g].i1) = Sense(v, s.ands[g][1]) /\ Holds(v, c.ands[g].i2) = Sense(v, s.ands[g][2])
    BY <1>4, <1>5, <2>1, <2>2
  <2>4. \A j \in 1 .. Len(s.latches) : Holds(v, c.nexts[j]) = Sense(v, s.latches[j][1])
    BY <1>4, <1>5, <2>1
  <2>5. Holds(v, c.bad) = Sense(v, PropsOf(s)[k + 1])
    BY <1>4, <1>5, <2>1
  <2>6. \A l \in Range(s.constraints) : Holds(v, aiger_to_dimacs(l)) = Sense(v, l)
    BY <1>5, <2>1
  <2>7. (\A l \in c.constraints : Holds(v, l)) <=> \A l \in Range(s.constraints) : Sense(v, l)
    BY <1>4, <2>6
  <2> QED
    BY <2>3, <2>4, <2>5, <2>7
<1>8. SourceProperties = PropsOf(s) /\ circ = c
  BY <1>2, <1>3 DEF SourceProperties, PropsOf
<1> QED
  BY <1>1, <1>6, <1>7, <1>8 DEF SameLiterals

LEMMA GivenFunctions ==
  ASSUME NEW s, Plain(s), FaninsFirst(s), ReaderInv(s), s = src, pc = "loaded"
  PROVE  SameFunctions
<1>1. PICK k : k = index
  OBVIOUS
<1>2. k \in 0 .. Len(PropsOf(s)) - 1 /\ circ = CircuitOf(s, k)
  BY <1>1, Selected
<1>3. PICK c : c = CircuitOf(s, k)
  OBVIOUS
<1>4. /\ \A j \in 1 .. Len(s.latches) : c.nexts[j] = aiger_to_dimacs(s.latches[j][1])
      /\ c.constraints = {aiger_to_dimacs(l) : l \in Range(s.constraints)}
      /\ c.bad = aiger_to_dimacs(PropsOf(s)[k + 1])
  BY <1>3 DEF CircuitOf
<1>5. ASSUME NEW x \in Bits(Len(s.latches)), NEW i \in Bits(s.inputs)
      PROVE  /\ \A j \in 1 .. Len(s.latches) : Holds(Settle(c, x, i), c.nexts[j]) = Value(s, x, i, s.latches[j][1])
             /\ Holds(Settle(c, x, i), c.bad) = Value(s, x, i, PropsOf(s)[k + 1])
             /\ (\A l \in c.constraints : Holds(Settle(c, x, i), l))
                  <=> \A l \in Range(s.constraints) : Value(s, x, i, l)
  <2>1. \A l \in Nat : l < EndGates(s) => Holds(Settle(c, x, i), aiger_to_dimacs(l)) = Value(s, x, i, l)
    BY <1>2, <1>3, ValueHolds
  <2>2. /\ \A j \in 1 .. Len(s.latches) : s.latches[j][1] \in Nat /\ s.latches[j][1] < EndGates(s)
        /\ \A l \in Range(s.constraints) : l \in Nat /\ l < EndGates(s)
        /\ PropsOf(s)[k + 1] \in Nat /\ PropsOf(s)[k + 1] < EndGates(s)
    BY <1>2, SourceLiterals
  <2>3. \A j \in 1 .. Len(s.latches) : Holds(Settle(c, x, i), c.nexts[j]) = Value(s, x, i, s.latches[j][1])
    BY <1>4, <2>1, <2>2
  <2>4. Holds(Settle(c, x, i), c.bad) = Value(s, x, i, PropsOf(s)[k + 1])
    BY <1>4, <2>1, <2>2
  <2>5. \A l \in Range(s.constraints) : Holds(Settle(c, x, i), aiger_to_dimacs(l)) = Value(s, x, i, l)
    BY <2>1, <2>2
  <2>6. (\A l \in c.constraints : Holds(Settle(c, x, i), l)) <=> \A l \in Range(s.constraints) : Value(s, x, i, l)
    BY <1>4, <2>5
  <2> QED
    BY <2>3, <2>4, <2>6
<1>6. SourceProperties = PropsOf(s) /\ circ = c /\ DOMAIN s.latches = 1 .. Len(s.latches)
  BY <1>2, <1>3, LenProperties DEF SourceProperties, PropsOf, Plain, IsSource
<1> QED
  BY <1>1, <1>5, <1>6 DEF SameFunctions, Bits

LEMMA GivenLoaded ==
  ASSUME NEW s, Plain(s), ReaderInv(s), s = src
  PROVE  LoadedMeansSource
<1> SUFFICES ASSUME pc = "loaded"
             PROVE  /\ circ.num_inputs = src.inputs /\ circ.num_latches = Len(src.latches)
                    /\ Len(circ.ands) = Len(src.ands)
                    /\ SameResets /\ SameLiterals /\ (FaninsFirst(src) => SameFunctions)
  BY DEF LoadedMeansSource
<1>1. PICK k : k = index
  OBVIOUS
<1>2. circ = CircuitOf(s, k) /\ Len(s.ands) \in Nat
  BY <1>1, Selected, SourceFacts
<1>3. circ.num_inputs = s.inputs /\ circ.num_latches = Len(s.latches) /\ Len(circ.ands) = Len(s.ands)
  BY <1>2 DEF CircuitOf
<1>4. ASSUME NEW x \in Bits(Len(s.latches))
      PROVE  (\A l \in circ.init_state : x[Abs(l) - 1 - s.inputs] = (l > 0))
               <=> \A j \in 1 .. Len(s.latches) : s.latches[j][2] \in {0, 1} => x[j] = (s.latches[j][2] = 1)
  BY <1>2, ResetsAre
<1>5. DOMAIN s.latches = 1 .. Len(s.latches)
  BY LenProperties DEF Plain, IsSource
<1>6. SameResets
  BY <1>4, <1>5 DEF SameResets, Bits
<1> QED
  BY <1>3, <1>6, GivenLiterals, GivenFunctions

(* Of the files that are given without justice and fairness, exactly those *)
(* without a property, and the ASCII files whose gates are out of order,   *)
(* are refused; any other is read to its end, and is a circuit with fan-ins*)
(* first exactly if the file lists one: the reader asserts the numbers of  *)
(* gates only.                                                             *)
THEOREM FilesAreRefusedOrRead == FilesSpec => []FileAbortIffMisnumbered
<1>1. FilesSpec => []GivenInv
  BY GivenInit, GivenNext, PTL DEF FilesSpec
<1>2. GivenInv => FileAbortIffMisnumbered
  BY GivenRefused DEF GivenInv, FileAbortIffMisnumbered, AbortIffMisnumbered
<1> QED
  BY <1>1, <1>2, PTL

(* A file that is given without justice and fairness is loaded as its      *)
(* circuit: the same resets, and fan-ins, next states, constraints and     *)
(* selected property the same under all values of the variables, with or   *)
(* without fan-ins first; with them, the same functions of latches and     *)
(* inputs.                                                                 *)
THEOREM FilesMeanTheirCircuit == FilesSpec => []FileMeansSource
<1>1. FilesSpec => []GivenInv
  BY GivenInit, GivenNext, PTL DEF FilesSpec
<1>2. GivenInv => FileMeansSource
  BY GivenLoaded DEF GivenInv, FileMeansSource, LoadedMeansSource
<1> QED
  BY <1>1, <1>2, PTL

-----------------------------------------------------------------------------
(* The certificate: the source show_aag writes for a circuit.              *)
LEMMA SetToSeqIs ==
  ASSUME NEW S, IsFiniteSet(S)
  PROVE  /\ SetToSeq(S) \in Seq(S) /\ Range(SetToSeq(S)) = S
         /\ Len(SetToSeq(S)) \in Nat /\ DOMAIN SetToSeq(S) = 1 .. Len(SetToSeq(S))
<1>1. PICK n : n = Cardinality(S)
  OBVIOUS
<1>2. n \in Nat /\ ExistsBijection(1 .. n, S)
  BY <1>1, FS_CardinalityType
<1>3. PICK f : f = SetToSeq(S)
  OBVIOUS
<1>4. f \in [1 .. n -> S] /\ IsInjective(f)
  <2>1. \E g \in [1 .. n -> S] : IsInjective(g)
    BY <1>2 DEF ExistsBijection, Bijection, Injection, IsInjective
  <2>2. f = CHOOSE g \in [1 .. n -> S] : IsInjective(g)
    BY <1>1, <1>3 DEF SetToSeq
  <2> HIDE DEF IsInjective
  <2> QED
    BY <2>1, <2>2
<1>5. f \in Injection(1 .. n, S)
  BY <1>4 DEF Injection, IsInjective
<1>6. Cardinality(1 .. n) = n
  <2>1. 1 \in Int /\ n \in Int
    BY <1>2
  <2>2. Cardinality(1 .. n) = IF 1 > n THEN 0 ELSE n - 1 + 1
    BY <2>1, FS_Interval
  <2> QED
    BY <1>2, <2>2
<1>7. f \in Surjection(1 .. n, S)
  <2>1. PICK D : D = 1 .. n
    OBVIOUS
  <2>2. f \in Injection(D, S) /\ Cardinality(D) = Cardinality(S)
    BY <1>1, <1>5, <1>6, <2>1
  <2>3. f \in Surjection(D, S)
    BY <2>2, FS_Injection
  <2> QED
    BY <2>1, <2>3
<1>8. f \in Seq(S) /\ Len(f) = n /\ DOMAIN f = 1 .. n
  BY <1>2, <1>4
<1>9. Range(f) = S
  BY <1>4, <1>7 DEF Surjection, Range
<1> QED
  BY <1>2, <1>3, <1>8, <1>9

LEMMA ThereAndBack ==
  ASSUME NEW n \in Nat, NEW l \in LitOf(n)
  PROVE  /\ dimacs_to_aiger(l) \in Nat /\ dimacs_to_aiger(l) < 2 * n
         /\ aiger_to_dimacs(dimacs_to_aiger(l)) = l
<1>1. l \in Int /\ l # 0 /\ -n <= l /\ l <= n
  BY DEF LitOf
<1>2. PICK a : a = dimacs_to_aiger(l)
  OBVIOUS
<1>3. CASE l < 0
  <2>1. a = 2 * (-l - 1) + 1
    BY <1>2, <1>3 DEF dimacs_to_aiger, Abs
  <2>2. a \in Nat /\ a < 2 * n
    BY <1>1, <1>3, <2>1
  <2>3. PICK d \in Nat, m \in {0, 1} : d = a \div 2 /\ m = a % 2 /\ a = m + 2 * d
    BY <2>2, HalfIs
  <2>4. m = 1 /\ d = -l - 1
    BY <1>1, <2>1, <2>3
  <2>5. aiger_to_dimacs(a) = -d - 1
    BY <2>3, <2>4 DEF aiger_to_dimacs
  <2>6. aiger_to_dimacs(a) = l
    BY <1>1, <2>4, <2>5
  <2> QED
    BY <1>2, <2>2, <2>6
<1>4. CASE l > 0
  <2>1. a = 2 * (l - 1) + 0
    BY <1>1, <1>2, <1>4 DEF dimacs_to_aiger, Abs
  <2>2. a \in Nat /\ a < 2 * n
    BY <1>1, <1>4, <2>1
  <2>3. PICK d \in Nat, m \in {0, 1} : d = a \div 2 /\ m = a % 2 /\ a = m + 2 * d
    BY <2>2, HalfIs
  <2>4. m = 0 /\ d = l - 1
    BY <1>1, <2>1, <2>3
  <2>5. aiger_to_dimacs(a) = d + 1
    BY <2>3, <2>4 DEF aiger_to_dimacs
  <2>6. aiger_to_dimacs(a) = l
    BY <1>1, <2>4, <2>5
  <2> QED
    BY <1>2, <2>2, <2>6
<1> QED
  BY <1>1, <1>3, <1>4

(* The source a certificate is the file of: what show_aag prints.          *)
ResetOf(c, i) ==
  LET l == LatchVar(c, i) IN
  IF -l \in c.init_state THEN 0 ELSE IF l \in c.init_state THEN 1 ELSE 2 * (l - 1)

Ordered(S) == SetToSeq(S)

SourceOf(c) ==
  [inputs |-> c.num_inputs,
   latches |-> [i \in 1 .. c.num_latches |-> <<dimacs_to_aiger(c.nexts[i]), ResetOf(c, i)>>],
   outputs |-> <<>>, bads |-> <<dimacs_to_aiger(c.bad)>>,
   constraints |-> [i \in 1 .. Len(Ordered(c.constraints)) |-> dimacs_to_aiger(Ordered(c.constraints)[i])],
   justice |-> <<>>, fairness |-> <<>>,
   ands |-> [i \in 1 .. Len(c.ands) |-> <<dimacs_to_aiger(c.ands[i].i1), dimacs_to_aiger(c.ands[i].i2)>>],
   order |-> [i \in 1 .. Len(c.ands) |-> i]]

LEMMA OrderedIs ==
  ASSUME NEW c, IsCircuit(c)
  PROVE  /\ Ordered(c.constraints) \in Seq(c.constraints) /\ Range(Ordered(c.constraints)) = c.constraints
         /\ Len(Ordered(c.constraints)) \in Nat
         /\ DOMAIN Ordered(c.constraints) = 1 .. Len(Ordered(c.constraints))
<1>1. NumVars(c) \in Nat
  BY CircuitNumbers
<1>2. PICK n \in Int : n = NumVars(c)
  BY <1>1
<1>3. IsFiniteSet(-n .. n)
  <2>1. -n \in Int
    OBVIOUS
  <2> QED
    BY <2>1, FS_Interval
<1>4. c.constraints \in SUBSET (-n .. n)
  BY <1>2 DEF IsCircuit, LitOf
<1>5. IsFiniteSet(c.constraints)
  BY <1>3, <1>4, FS_Subset
<1> QED
  BY <1>5, SetToSeqIs DEF Ordered

LEMMA ResetType ==
  ASSUME NEW c, IsCircuit(c), NEW i \in 1 .. c.num_latches
  PROVE  /\ ResetOf(c, i) \in Nat
         /\ ResetOf(c, i) = 0 <=> -LatchVar(c, i) \in c.init_state
         /\ ResetOf(c, i) = 1 <=> LatchVar(c, i) \in c.init_state
<1>1. PICK l : l = LatchVar(c, i)
  OBVIOUS
<1>2. c.num_inputs \in Nat /\ c.num_latches \in Nat /\ i \in Nat /\ i >= 1
  BY CircuitNumbers
<1>3. l \in Nat /\ l > 1 /\ 2 * (l - 1) \in Nat /\ 2 * (l - 1) # 0 /\ 2 * (l - 1) # 1
  <2>1. l = 1 + c.num_inputs + i
    BY <1>1 DEF LatchVar
  <2> QED
    BY <1>2, <2>1
<1>4. ~(l \in c.init_state /\ -l \in c.init_state)
  BY DEF IsCircuit
<1>5. ResetOf(c, i) = IF -l \in c.init_state THEN 0 ELSE IF l \in c.init_state THEN 1 ELSE 2 * (l - 1)
  BY <1>1 DEF ResetOf
<1>6. 0 # 1 /\ 0 \in Nat /\ 1 \in Nat
  OBVIOUS
<1>7. CASE -l \in c.init_state
  BY <1>1, <1>4, <1>5, <1>6, <1>7
<1>8. CASE l \in c.init_state
  BY <1>1, <1>4, <1>5, <1>6, <1>8
<1>9. CASE ~(-l \in c.init_state) /\ ~(l \in c.init_state)
  <2>1. ResetOf(c, i) = 2 * (l - 1)
    BY <1>5, <1>9
  <2> QED
    BY <1>1, <1>3, <1>9, <2>1
<1> QED
  BY <1>7, <1>8, <1>9

SourceParts(c, s) ==
  /\ s.inputs = c.num_inputs
  /\ s.latches = [i \in 1 .. c.num_latches |-> <<dimacs_to_aiger(c.nexts[i]), ResetOf(c, i)>>]
  /\ s.outputs = <<>> /\ s.bads = <<dimacs_to_aiger(c.bad)>> /\ s.justice = <<>> /\ s.fairness = <<>>
  /\ s.constraints = [i \in 1 .. Len(Ordered(c.constraints)) |-> dimacs_to_aiger(Ordered(c.constraints)[i])]
  /\ s.ands = [i \in 1 .. Len(c.ands) |-> <<dimacs_to_aiger(c.ands[i].i1), dimacs_to_aiger(c.ands[i].i2)>>]
  /\ s.order = [i \in 1 .. Len(c.ands) |-> i]

LEMMA SourcePartsAre ==
  ASSUME NEW c
  PROVE  SourceParts(c, SourceOf(c))
BY DEF SourceParts, SourceOf

LEMMA FunctionIsSeq ==
  ASSUME NEW n \in Nat, NEW T, NEW f, f \in [1 .. n -> T]
  PROVE  f \in Seq(T) /\ Len(f) = n /\ DOMAIN f = 1 .. n
OBVIOUS

(* The literals of the circuit in AIGER's numbering. *)
LEMMA AigerLiterals ==
  ASSUME NEW c, IsCircuit(c)
  PROVE  /\ \A j \in 1 .. c.num_latches : /\ dimacs_to_aiger(c.nexts[j]) \in Nat
                                          /\ dimacs_to_aiger(c.nexts[j]) < 2 * NumVars(c)
                                          /\ aiger_to_dimacs(dimacs_to_aiger(c.nexts[j])) = c.nexts[j]
         /\ \A l \in c.constraints : /\ dimacs_to_aiger(l) \in Nat /\ dimacs_to_aiger(l) < 2 * NumVars(c)
                                     /\ aiger_to_dimacs(dimacs_to_aiger(l)) = l
         /\ dimacs_to_aiger(c.bad) \in Nat /\ dimacs_to_aiger(c.bad) < 2 * NumVars(c)
         /\ aiger_to_dimacs(dimacs_to_aiger(c.bad)) = c.bad
         /\ \A j \in 1 .. Len(c.ands) :
              /\ dimacs_to_aiger(c.ands[j].i1) \in Nat /\ dimacs_to_aiger(c.ands[j].i1) < 2 * (AndVar(c, j) - 1)
              /\ aiger_to_dimacs(dimacs_to_aiger(c.ands[j].i1)) = c.ands[j].i1
              /\ dimacs_to_aiger(c.ands[j].i2) \in Nat /\ dimacs_to_aiger(c.ands[j].i2) < 2 * (AndVar(c, j) - 1)
              /\ aiger_to_dimacs(dimacs_to_aiger(c.ands[j].i2)) = c.ands[j].i2
<1>1. PICK N : N = NumVars(c)
  OBVIOUS
<1>2. N \in Nat
  BY <1>1, CircuitNumbers
<1>3. (\A j \in 1 .. c.num_latches : c.nexts[j] \in LitOf(N)) /\ c.constraints \subseteq LitOf(N) /\ c.bad \in LitOf(N)
  BY <1>1 DEF IsCircuit
<1>4. \A l \in LitOf(N) : dimacs_to_aiger(l) \in Nat /\ dimacs_to_aiger(l) < 2 * N /\ aiger_to_dimacs(dimacs_to_aiger(l)) = l
  BY <1>2, ThereAndBack
<1>5. ASSUME NEW j \in 1 .. Len(c.ands)
      PROVE  /\ dimacs_to_aiger(c.ands[j].i1) \in Nat /\ dimacs_to_aiger(c.ands[j].i1) < 2 * (AndVar(c, j) - 1)
             /\ aiger_to_dimacs(dimacs_to_aiger(c.ands[j].i1)) = c.ands[j].i1
             /\ dimacs_to_aiger(c.ands[j].i2) \in Nat /\ dimacs_to_aiger(c.ands[j].i2) < 2 * (AndVar(c, j) - 1)
             /\ aiger_to_dimacs(dimacs_to_aiger(c.ands[j].i2)) = c.ands[j].i2
  <2>1. PICK m : m = AndVar(c, j) - 1
    OBVIOUS
  <2>2. m \in Nat /\ c.ands[j].i1 \in LitOf(m) /\ c.ands[j].i2 \in LitOf(m)
    BY <2>1, FaninType
  <2>3. \A l \in LitOf(m) : dimacs_to_aiger(l) \in Nat /\ dimacs_to_aiger(l) < 2 * m /\ aiger_to_dimacs(dimacs_to_aiger(l)) = l
    BY <2>2, ThereAndBack
  <2> QED
    BY <2>1, <2>2, <2>3
<1> QED
  BY <1>1, <1>3, <1>4, <1>5

LEMMA SourceSizes ==
  ASSUME NEW c, IsCircuit(c), NEW s, SourceParts(c, s)
  PROVE  /\ s.latches \in Seq(Nat \X Nat) /\ Len(s.latches) = c.num_latches
         /\ s.ands \in Seq(Nat \X Nat) /\ Len(s.ands) = Len(c.ands)
         /\ s.outputs \in Seq(Nat) /\ Len(s.outputs) = 0
         /\ s.bads \in Seq(Nat) /\ Len(s.bads) = 1 /\ s.bads # <<>>
         /\ s.constraints \in Seq(Nat) /\ Len(s.constraints) = Len(Ordered(c.constraints))
<1>1. c.num_latches \in Nat /\ Len(c.ands) \in Nat /\ Len(Ordered(c.constraints)) \in Nat
  BY CircuitNumbers, OrderedIs
<1>2. s.latches \in [1 .. c.num_latches -> Nat \X Nat]
  <2>1. \A j \in 1 .. c.num_latches : dimacs_to_aiger(c.nexts[j]) \in Nat /\ ResetOf(c, j) \in Nat
    BY AigerLiterals, ResetType
  <2>2. s.latches = [i \in 1 .. c.num_latches |-> <<dimacs_to_aiger(c.nexts[i]), ResetOf(c, i)>>]
    BY DEF SourceParts
  <2> QED
    BY <2>1, <2>2
<1>3. s.ands \in [1 .. Len(c.ands) -> Nat \X Nat]
  <2>1. \A j \in 1 .. Len(c.ands) : dimacs_to_aiger(c.ands[j].i1) \in Nat /\ dimacs_to_aiger(c.ands[j].i2) \in Nat
    BY AigerLiterals
  <2>2. s.ands = [i \in 1 .. Len(c.ands) |-> <<dimacs_to_aiger(c.ands[i].i1), dimacs_to_aiger(c.ands[i].i2)>>]
    BY DEF SourceParts
  <2> QED
    BY <2>1, <2>2
<1>4. s.constraints \in [1 .. Len(Ordered(c.constraints)) -> Nat]
  <2>1. \A j \in 1 .. Len(Ordered(c.constraints)) : Ordered(c.constraints)[j] \in c.constraints
    BY OrderedIs, ElementOfSeq
  <2>2. \A j \in 1 .. Len(Ordered(c.constraints)) : dimacs_to_aiger(Ordered(c.constraints)[j]) \in Nat
    BY <2>1, AigerLiterals
  <2>3. s.constraints = [i \in 1 .. Len(Ordered(c.constraints)) |-> dimacs_to_aiger(Ordered(c.constraints)[i])]
    BY DEF SourceParts
  <2> QED
    BY <2>2, <2>3
<1>5. s.bads \in Seq(Nat) /\ Len(s.bads) = 1 /\ s.bads # <<>>
  <2>1. PICK b \in Nat : b = dimacs_to_aiger(c.bad)
    BY AigerLiterals
  <2>2. s.bads = <<b>>
    BY <2>1 DEF SourceParts
  <2> QED
    BY <2>2
<1>6. s.outputs \in Seq(Nat) /\ Len(s.outputs) = 0
  <2>1. s.outputs = <<>>
    BY DEF SourceParts
  <2> QED
    BY <2>1
<1> QED
  BY <1>1, <1>2, <1>3, <1>4, <1>5, <1>6, FunctionIsSeq

LEMMA CertificateIsSource ==
  ASSUME NEW c, IsCircuit(c), NEW s, SourceParts(c, s)
  PROVE  Plain(s) /\ InOrder(s, FALSE) /\ PropsOf(s) = s.bads
<1> DEFINE ni == c.num_inputs
<1> DEFINE nl == c.num_latches
<1> DEFINE na == Len(c.ands)
<1>1. ni \in Nat /\ nl \in Nat /\ na \in Nat /\ NumVars(c) \in Nat
  BY CircuitNumbers
<1>2. /\ s.latches \in Seq(Nat \X Nat) /\ Len(s.latches) = nl
      /\ s.ands \in Seq(Nat \X Nat) /\ Len(s.ands) = na
      /\ s.outputs \in Seq(Nat) /\ Len(s.outputs) = 0
      /\ s.bads \in Seq(Nat) /\ Len(s.bads) = 1 /\ s.bads # <<>>
      /\ s.constraints \in Seq(Nat) /\ Len(s.constraints) = Len(Ordered(c.constraints))
  BY SourceSizes
<1>3. s.inputs = ni /\ NumVars(c) = 1 + ni + nl + na /\ \A i : AndVar(c, i) = 1 + ni + nl + i
  BY DEF SourceParts, NumVars, AndVar
<1>4. FirstGate(s) = 2 * (ni + 1) + 2 * nl /\ EndGates(s) = 2 * (ni + 1) + 2 * nl + 2 * na
  BY <1>2, <1>3 DEF FirstGate, FirstLatch, EndGates
<1> HIDE DEF ni, nl, na
<1>5. EndGates(s) = 2 * NumVars(c) /\ \A i \in 1 .. na : FirstGate(s) + 2 * (i - 1) = 2 * (AndVar(c, i) - 1)
  BY <1>1, <1>3, <1>4
<1>6. \A j \in 1 .. nl : s.latches[j][1] < EndGates(s)
  <2>1. \A j \in 1 .. nl : s.latches[j] = <<dimacs_to_aiger(c.nexts[j]), ResetOf(c, j)>>
    BY DEF SourceParts, nl
  <2>2. \A j \in 1 .. nl : dimacs_to_aiger(c.nexts[j]) < 2 * NumVars(c)
    BY AigerLiterals DEF nl
  <2> QED
    BY <1>5, <2>1, <2>2
<1>7. ASSUME NEW i \in 1 .. na, NEW j \in 1 .. 2 PROVE s.ands[i][j] < EndGates(s)
  <2>1. s.ands[i] = <<dimacs_to_aiger(c.ands[i].i1), dimacs_to_aiger(c.ands[i].i2)>>
    BY DEF SourceParts, na
  <2>2. dimacs_to_aiger(c.ands[i].i1) < 2 * (AndVar(c, i) - 1) /\ dimacs_to_aiger(c.ands[i].i2) < 2 * (AndVar(c, i) - 1)
    BY AigerLiterals DEF na
  <2>3. j = 1 \/ j = 2
    OBVIOUS
  <2>4. 2 * (AndVar(c, i) - 1) < EndGates(s) /\ AndVar(c, i) \in Nat /\ EndGates(s) \in Nat
    BY <1>1, <1>3, <1>5
  <2>5. dimacs_to_aiger(c.ands[i].i1) \in Nat /\ dimacs_to_aiger(c.ands[i].i2) \in Nat
    BY AigerLiterals DEF na
  <2>6. dimacs_to_aiger(c.ands[i].i1) < EndGates(s) /\ dimacs_to_aiger(c.ands[i].i2) < EndGates(s)
    BY <2>2, <2>4, <2>5
  <2> QED
    BY <2>1, <2>3, <2>6
<1>8. \A j \in 1 .. Len(s.constraints) : s.constraints[j] < EndGates(s)
  <2>1. \A j \in 1 .. Len(s.constraints) : Ordered(c.constraints)[j] \in c.constraints
    BY <1>2, OrderedIs, ElementOfSeq
  <2>2. \A j \in 1 .. Len(s.constraints) : s.constraints[j] = dimacs_to_aiger(Ordered(c.constraints)[j])
    BY <1>2 DEF SourceParts
  <2>3. \A l \in c.constraints : dimacs_to_aiger(l) < 2 * NumVars(c)
    BY AigerLiterals
  <2> QED
    BY <1>5, <2>1, <2>2, <2>3
<1>9. \A j \in 1 .. Len(s.bads) : s.bads[j] < EndGates(s)
  <2>1. s.bads[1] = dimacs_to_aiger(c.bad)
    BY DEF SourceParts
  <2>2. dimacs_to_aiger(c.bad) < 2 * NumVars(c)
    BY AigerLiterals
  <2>3. \A j \in 1 .. 1 : j = 1
    OBVIOUS
  <2> QED
    BY <1>2, <1>5, <2>1, <2>2, <2>3
<1>10. \A j \in 1 .. Len(s.outputs) : s.outputs[j] < EndGates(s)
  BY <1>2
<1>11. s.order \in [1 .. na -> 1 .. na] /\ \A i \in 1 .. na : s.order[i] = i
  BY DEF SourceParts, na
<1>12. Plain(s)
  <2>1. s.justice \in Seq(Seq(Nat)) /\ s.fairness \in Seq(Nat) /\ SafetyOnly(s)
    BY DEF SourceParts, SafetyOnly
  <2> QED
    BY <1>1, <1>2, <1>3, <1>6, <1>7, <1>8, <1>9, <1>10, <1>11, <2>1 DEF Plain, IsSource
<1>13. InOrder(s, FALSE)
  BY <1>2, <1>11 DEF InOrder
<1>14. PropsOf(s) = s.bads
  BY <1>2 DEF PropsOf
<1> QED
  BY <1>12, <1>13, <1>14

LEMMA Tuples ==
  ASSUME NEW a \in Int, NEW b \in Int, NEW c \in Int
  PROVE  <<a>> \o <<b>> = <<a, b>> /\ <<a>> \o <<b, c>> = <<a, b, c>>
<1>1. /\ <<a>> \o <<b>> \in Seq(Int) /\ <<a, b>> \in Seq(Int) /\ Len(<<a>> \o <<b>>) = 2 /\ Len(<<a, b>>) = 2
      /\ (<<a>> \o <<b>>)[1] = a /\ (<<a>> \o <<b>>)[2] = b /\ <<a, b>>[1] = a /\ <<a, b>>[2] = b
  OBVIOUS
<1>2. /\ <<a>> \o <<b, c>> \in Seq(Int) /\ <<a, b, c>> \in Seq(Int)
      /\ Len(<<a>> \o <<b, c>>) = 3 /\ Len(<<a, b, c>>) = 3
      /\ (<<a>> \o <<b, c>>)[1] = a /\ (<<a>> \o <<b, c>>)[2] = b /\ (<<a>> \o <<b, c>>)[3] = c
      /\ <<a, b, c>>[1] = a /\ <<a, b, c>>[2] = b /\ <<a, b, c>>[3] = c
  OBVIOUS
<1>3. (\A j \in 1 .. 2 : j = 1 \/ j = 2) /\ (\A j \in 1 .. 3 : j = 1 \/ j = 2 \/ j = 3)
  OBVIOUS
<1>4. <<a>> \o <<b>> = <<a, b>>
  BY <1>1, <1>3, SeqEqual
<1>5. <<a>> \o <<b, c>> = <<a, b, c>>
  BY <1>2, <1>3, SeqEqual
<1> QED
  BY <1>4, <1>5

SixTokens(a, b, c, d, e, f) == <<a, b, c, d, e>> \o <<f>> = <<a, b, c, d, e, f>>

LEMMA FivePlusOne ==
  ASSUME NEW a \in Int, NEW b \in Int, NEW c \in Int, NEW d \in Int, NEW e \in Int, NEW f \in Int
  PROVE  SixTokens(a, b, c, d, e, f)
<1> DEFINE u == <<a, b, c, d, e>>
<1> DEFINE w == <<a, b, c, d, e, f>>
<1>1. u \in Seq(Int) /\ Len(u) = 5 /\ u[1] = a /\ u[2] = b /\ u[3] = c /\ u[4] = d /\ u[5] = e
  OBVIOUS
<1>2. w \in Seq(Int) /\ Len(w) = 6 /\ w[1] = a /\ w[2] = b /\ w[3] = c /\ w[4] = d /\ w[5] = e /\ w[6] = f
  OBVIOUS
<1> HIDE DEF u, w
<1> DEFINE t == u \o <<f>>
<1>3. t \in Seq(Int) /\ Len(t) = Len(u) + 1 /\ t[Len(u) + 1] = f /\ \A j \in 1 .. Len(u) : t[j] = u[j]
  BY <1>1, OneMore
<1> HIDE DEF t
<1>4. /\ 5 + 1 = 6 /\ 1 \in 1 .. 5 /\ 2 \in 1 .. 5 /\ 3 \in 1 .. 5 /\ 4 \in 1 .. 5 /\ 5 \in 1 .. 5
      /\ \A j \in 1 .. 6 : j = 1 \/ j = 2 \/ j = 3 \/ j = 4 \/ j = 5 \/ j = 6
  OBVIOUS
<1>5. t \in Seq(Int) /\ Len(t) = 6 /\ t[6] = f /\ t[1] = a /\ t[2] = b /\ t[3] = c /\ t[4] = d /\ t[5] = e
  BY <1>1, <1>3, <1>4
<1>6. t = w
  BY <1>2, <1>4, <1>5, SeqEqual
<1> QED
  BY <1>6 DEF t, u, w, SixTokens

(* What show_aag writes for a circuit. *)
CertText(c) ==
  Line(<<c.num_inputs + c.num_latches + Len(c.ands), c.num_inputs, c.num_latches, 0, Len(c.ands), 1>>
       \o (IF Ordered(c.constraints) = <<>> THEN <<>> ELSE <<Len(Ordered(c.constraints))>>))
  \o Lines([i \in 1 .. c.num_inputs |-> <<2 * i>>])
  \o Lines([i \in 1 .. c.num_latches |-> <<2 * (c.num_inputs + i), dimacs_to_aiger(c.nexts[i])>>
                                         \o (IF ResetOf(c, i) = 0 THEN <<>> ELSE <<ResetOf(c, i)>>)])
  \o Line(<<dimacs_to_aiger(c.bad)>>)
  \o Lines([i \in 1 .. Len(Ordered(c.constraints)) |-> <<dimacs_to_aiger(Ordered(c.constraints)[i])>>])
  \o Lines([i \in 1 .. Len(c.ands) |->
              <<dimacs_to_aiger(AndVar(c, i)), dimacs_to_aiger(c.ands[i].i1), dimacs_to_aiger(c.ands[i].i2)>>])

LEMMA CertHeader ==
  ASSUME NEW c, IsCircuit(c), NEW s, SourceParts(c, s)
  PROVE  Header(s) = Line(<<c.num_inputs + c.num_latches + Len(c.ands), c.num_inputs, c.num_latches, 0, Len(c.ands), 1>>
                          \o (IF Ordered(c.constraints) = <<>> THEN <<>> ELSE <<Len(Ordered(c.constraints))>>))
<1> DEFINE i == c.num_inputs
<1> DEFINE l == c.num_latches
<1> DEFINE a == Len(c.ands)
<1> DEFINE m == Len(Ordered(c.constraints))
<1>1. i \in Int /\ l \in Int /\ a \in Int /\ m \in Nat /\ i + l + a \in Int /\ 0 \in Int /\ 1 \in Int
  BY CircuitNumbers, OrderedIs
<1>2. /\ s.inputs = i /\ Len(s.latches) = l /\ Len(s.ands) = a /\ Len(s.outputs) = 0 /\ Len(s.bads) = 1
      /\ s.bads # <<>> /\ Len(s.constraints) = m /\ s.constraints \in Seq(Nat)
      /\ s.justice = <<>> /\ s.fairness = <<>>
  BY SourceSizes DEF SourceParts
<1>3. (s.constraints = <<>> <=> m = 0) /\ (Ordered(c.constraints) = <<>> <=> m = 0)
  <2>1. Ordered(c.constraints) \in Seq(c.constraints)
    BY OrderedIs
  <2> QED
    BY <1>2, <2>1, EmptySeq
<1> HIDE DEF i, l, a, m
<1> DEFINE u == <<i + l + a, i, l, 0, a>>
<1> DEFINE w == <<i + l + a, i, l, 0, a, 1>>
<1>4. u \o <<1>> = w
  <2>1. PICK x \in Int, y \in Int, z \in Int : x = i + l + a /\ y = 0 /\ z = 1
    BY <1>1
  <2>2. SixTokens(x, i, l, y, a, z)
    BY <1>1, FivePlusOne
  <2> QED
    BY <2>1, <2>2 DEF SixTokens
<1>5. u \in Seq(Int) /\ w \in Seq(Int)
  BY <1>1
<1> HIDE DEF u, w
<1>6. CASE m = 0
  <2>1. Header(s) = Line(u \o <<1>>)
    BY <1>2, <1>3, <1>6 DEF Header, u
  <2>2. w \o <<>> = w
    BY <1>5, ConcatEmptySeq
  <2>3. (IF Ordered(c.constraints) = <<>> THEN <<>> ELSE <<m>>) = <<>>
    BY <1>3, <1>6
  <2>4. Header(s) = Line(w \o (IF Ordered(c.constraints) = <<>> THEN <<>> ELSE <<m>>))
    BY <1>4, <2>1, <2>2, <2>3
  <2> QED
    BY <2>4 DEF w, i, l, a, m
<1>7. CASE m # 0
  <2>1. Header(s) = Line(u \o <<1, m>>)
    BY <1>2, <1>3, <1>7 DEF Header, u
  <2>2. <<1, m>> = <<1>> \o <<m>>
    BY <1>1, Tuples
  <2>3. <<1>> \in Seq(Int) /\ <<m>> \in Seq(Int)
    BY <1>1
  <2>4. u \o (<<1>> \o <<m>>) = w \o <<m>>
    BY <1>4, <1>5, <2>3, ConcatAssociative
  <2>5. (IF Ordered(c.constraints) = <<>> THEN <<>> ELSE <<m>>) = <<m>>
    BY <1>3, <1>7
  <2>6. Header(s) = Line(w \o (IF Ordered(c.constraints) = <<>> THEN <<>> ELSE <<m>>))
    BY <2>1, <2>2, <2>4, <2>5
  <2> QED
    BY <2>6 DEF w, i, l, a, m
<1> QED
  BY <1>6, <1>7

LEMMA CertLatches ==
  ASSUME NEW c, IsCircuit(c), NEW s, SourceParts(c, s)
  PROVE  [i \in 1 .. Len(s.latches) |-> LatchLine(s, FALSE, i)]
           = [i \in 1 .. c.num_latches |-> <<2 * (c.num_inputs + i), dimacs_to_aiger(c.nexts[i])>>
                                           \o (IF ResetOf(c, i) = 0 THEN <<>> ELSE <<ResetOf(c, i)>>)]
<1>1. Len(s.latches) = c.num_latches /\ s.inputs = c.num_inputs /\ c.num_inputs \in Nat /\ c.num_latches \in Nat
  BY SourceSizes, CircuitNumbers DEF SourceParts
<1>2. ASSUME NEW i \in 1 .. c.num_latches
      PROVE  LatchLine(s, FALSE, i) = <<2 * (c.num_inputs + i), dimacs_to_aiger(c.nexts[i])>>
                                      \o (IF ResetOf(c, i) = 0 THEN <<>> ELSE <<ResetOf(c, i)>>)
  <2>1. s.latches[i] = <<dimacs_to_aiger(c.nexts[i]), ResetOf(c, i)>>
    BY DEF SourceParts
  <2>2. PICK a, b, r : a = 2 * (c.num_inputs + i) /\ b = dimacs_to_aiger(c.nexts[i]) /\ r = ResetOf(c, i)
    OBVIOUS
  <2>3. a \in Int /\ b \in Int /\ FirstLatch(s) + 2 * (i - 1) = a
    <3>1. b \in Int
      BY <2>2, AigerLiterals
    <3>2. FirstLatch(s) = 2 * (c.num_inputs + 1)
      BY <1>1 DEF FirstLatch
    <3> QED
      BY <1>1, <2>2, <3>1, <3>2
  <2>4. s.latches[i][1] = b /\ s.latches[i][2] = r
    BY <2>1, <2>2
  <2>5. LatchLine(s, FALSE, i) = <<a>> \o <<b>> \o (IF r = 0 THEN <<>> ELSE <<r>>)
    BY <2>3, <2>4 DEF LatchLine
  <2>6. <<a>> \o <<b>> = <<a, b>>
    BY <2>3, Tuples
  <2> QED
    BY <2>2, <2>5, <2>6
<1> QED
  BY <1>1, <1>2

LEMMA CertConstraints ==
  ASSUME NEW c, IsCircuit(c), NEW s, SourceParts(c, s)
  PROVE  Singles(s.constraints) = [i \in 1 .. Len(Ordered(c.constraints)) |-> <<dimacs_to_aiger(Ordered(c.constraints)[i])>>]
<1>1. Len(s.constraints) = Len(Ordered(c.constraints))
  BY SourceSizes
<1>2. \A i \in 1 .. Len(s.constraints) : s.constraints[i] = dimacs_to_aiger(Ordered(c.constraints)[i])
  BY <1>1 DEF SourceParts
<1> QED
  BY <1>1, <1>2 DEF Singles

LEMMA FlattenFew ==
  ASSUME NEW t \in Seq(Int)
  PROVE  FlattenSeq(<<>>) = <<>> /\ FlattenSeq(<<t>>) = t
<1>1. <<>> \in Seq(Seq(Int)) /\ Len(<<>>) = 0
  OBVIOUS
<1>2. FlattenSeq(<<>>) = <<>>
  <2>1. PICK e : e = <<>>
    OBVIOUS
  <2>2. e \in Seq(Seq(Int)) /\ Len(e) = 0
    BY <1>1, <2>1
  <2>3. PICK g \in [0 .. Len(e) -> Seq(Int)] : g[0] = <<>> /\ FlattenSeq(e) = g[Len(e)]
    BY <2>2, FlattenIs
  <2> QED
    BY <2>1, <2>2, <2>3
<1>3. FlattenSeq(<<t>>) = t
  <2>1. PICK e : e = <<t>>
    OBVIOUS
  <2>2. e \in Seq(Seq(Int)) /\ Len(e) = 1 /\ e[1] = t
    BY <2>1
  <2>3. PICK g \in [0 .. Len(e) -> Seq(Int)] :
          /\ g[0] = <<>> /\ \A k \in 1 .. Len(e) : g[k] = g[k - 1] \o e[k]
          /\ FlattenSeq(e) = g[Len(e)]
    BY <2>2, FlattenIs
  <2>4. 1 \in 1 .. 1 /\ 1 - 1 = 0
    OBVIOUS
  <2>5. g[1] = <<>> \o t
    BY <2>2, <2>3, <2>4
  <2>6. <<>> \o t = t
    BY ConcatEmptySeq
  <2> QED
    BY <2>1, <2>2, <2>3, <2>5, <2>6
<1> QED
  BY <1>2, <1>3

LEMMA CertBads ==
  ASSUME NEW c, IsCircuit(c), NEW s, SourceParts(c, s)
  PROVE  Lines(Singles(s.outputs)) = <<>> /\ Lines(Singles(s.bads)) = Line(<<dimacs_to_aiger(c.bad)>>)
<1>1. PICK b \in Int : b = dimacs_to_aiger(c.bad)
  BY AigerLiterals
<1>2. s.outputs = <<>> /\ s.bads = <<b>>
  BY <1>1 DEF SourceParts
<1>3. PICK t : t = Line(<<b>>)
  OBVIOUS
<1>4. t \in Seq(Int)
  BY <1>3, TwoTokens
<1>5. LiteralBlocks(<<>>) = <<>> /\ LiteralBlocks(<<b>>) = <<t>>
  <2>1. LiteralBlocks(<<>>) = <<>>
    BY DEF LiteralBlocks
  <2>2. LiteralBlocks(<<b>>) = [i \in 1 .. 1 |-> Line(<<<<b>>[i]>>)]
    BY DEF LiteralBlocks
  <2>3. \A i \in 1 .. 1 : i = 1 /\ <<b>>[i] = b
    OBVIOUS
  <2>4. LiteralBlocks(<<b>>) = [i \in 1 .. 1 |-> t]
    BY <1>3, <2>2, <2>3
  <2>5. [i \in 1 .. 1 |-> t] = <<t>>
    <3>1. [i \in 1 .. 1 |-> t] \in Seq({t}) /\ <<t>> \in Seq({t}) /\ Len([i \in 1 .. 1 |-> t]) = 1 /\ Len(<<t>>) = 1
      OBVIOUS
    <3>2. \A i \in 1 .. 1 : [j \in 1 .. 1 |-> t][i] = <<t>>[i]
      OBVIOUS
    <3> QED
      BY <3>1, <3>2, SeqEqual
  <2> QED
    BY <2>1, <2>4, <2>5
<1>6. s.outputs \in Seq(Nat) /\ s.bads \in Seq(Nat)
  BY SourceSizes
<1>7. Lines(Singles(s.outputs)) = FlattenSeq(LiteralBlocks(s.outputs)) /\ Lines(Singles(s.bads)) = FlattenSeq(LiteralBlocks(s.bads))
  BY <1>6, LiteralBlocksType
<1>8. FlattenSeq(<<>>) = <<>> /\ FlattenSeq(<<t>>) = t
  BY <1>4, FlattenFew
<1> QED
  BY <1>1, <1>2, <1>3, <1>5, <1>7, <1>8

LEMMA CertGates ==
  ASSUME NEW c, IsCircuit(c), NEW s, SourceParts(c, s)
  PROVE  FlattenSeq(GateBlocks(s, FALSE))
           = Lines([i \in 1 .. Len(c.ands) |->
               <<dimacs_to_aiger(AndVar(c, i)), dimacs_to_aiger(c.ands[i].i1), dimacs_to_aiger(c.ands[i].i2)>>])
<1> DEFINE e(i) == <<dimacs_to_aiger(AndVar(c, i)), dimacs_to_aiger(c.ands[i].i1), dimacs_to_aiger(c.ands[i].i2)>>
<1> DEFINE n == Len(c.ands)
<1> DEFINE t == [i \in 1 .. n |-> e(i)]
<1>1. n \in Nat /\ Len(s.ands) = n /\ s.inputs = c.num_inputs /\ Len(s.latches) = c.num_latches
      /\ c.num_inputs \in Nat /\ c.num_latches \in Nat
  BY SourceSizes, CircuitNumbers DEF SourceParts
<1>2. ASSUME NEW i \in 1 .. n
      PROVE  GateText(s, FALSE, s.order[i]) = Line(e(i))
  <2>1. s.order[i] = i /\ s.ands[i] = <<dimacs_to_aiger(c.ands[i].i1), dimacs_to_aiger(c.ands[i].i2)>>
    BY DEF SourceParts
  <2>2. PICK a, b, o : a = dimacs_to_aiger(c.ands[i].i1) /\ b = dimacs_to_aiger(c.ands[i].i2) /\ o = dimacs_to_aiger(AndVar(c, i))
    OBVIOUS
  <2>3. a \in Int /\ b \in Int
    BY <2>2, AigerLiterals
  <2>4. o \in Int /\ FirstGate(s) + 2 * (i - 1) = o
    <3>1. PICK v : v = AndVar(c, i)
      OBVIOUS
    <3>2. v = 1 + c.num_inputs + c.num_latches + i
      BY <3>1 DEF AndVar
    <3>3. i \in Nat /\ v \in Int /\ v > 0
      BY <1>1, <3>2
    <3>4. o = 2 * (v - 1) + 0
      BY <2>2, <3>1, <3>3 DEF dimacs_to_aiger, Abs
    <3>5. FirstGate(s) = 2 * (c.num_inputs + 1) + 2 * c.num_latches
      BY <1>1 DEF FirstGate, FirstLatch
    <3>6. PICK x \in Nat, y \in Nat : x = c.num_inputs /\ y = c.num_latches
      BY <1>1
    <3>7. v = 1 + x + y + i /\ FirstGate(s) = 2 * (x + 1) + 2 * y
      BY <3>2, <3>5, <3>6
    <3>8. o \in Int /\ (2 * (x + 1) + 2 * y) + 2 * (i - 1) = o
      BY <3>3, <3>4, <3>7
    <3> QED
      BY <3>7, <3>8
  <2>5. GateText(s, FALSE, i) = Line(<<o>> \o <<a, b>>)
    BY <2>1, <2>2, <2>4 DEF GateText
  <2>6. <<o>> \o <<a, b>> = <<o, a, b>>
    BY <2>3, <2>4, Tuples
  <2> QED
    BY <2>1, <2>2, <2>5, <2>6
<1> HIDE DEF e, n
<1>3. DOMAIN t = 1 .. n /\ Len(t) = n /\ \A i \in 1 .. n : t[i] = e(i)
  BY <1>1
<1>4. GateBlocks(s, FALSE) = [i \in 1 .. n |-> Line(e(i))]
  BY <1>1, <1>2 DEF GateBlocks
<1> HIDE DEF t
<1>5. Lines(t) = FlattenSeq([i \in 1 .. n |-> Line(t[i])])
  BY <1>1, <1>3, LinesIs
<1>6. [i \in 1 .. n |-> Line(t[i])] = [i \in 1 .. n |-> Line(e(i))]
  BY <1>3
<1>7. FlattenSeq(GateBlocks(s, FALSE)) = Lines(t)
  BY <1>4, <1>5, <1>6
<1> QED
  BY <1>7 DEF t, e, n

LEMMA CertTextIs ==
  ASSUME NEW c, IsCircuit(c), NEW s, SourceParts(c, s)
  PROVE  FileOf(s, FALSE) = CertText(c)
<1>1. Plain(s)
  BY CertificateIsSource
<1> DEFINE H == Header(s)
<1> DEFINE I == Lines([i \in 1 .. s.inputs |-> <<2 * i>>])
<1> DEFINE L == Lines([i \in 1 .. Len(s.latches) |-> LatchLine(s, FALSE, i)])
<1> DEFINE O == Lines(Singles(s.outputs))
<1> DEFINE B == Lines(Singles(s.bads))
<1> DEFINE C == Lines(Singles(s.constraints))
<1> DEFINE G == FlattenSeq(GateBlocks(s, FALSE))
<1>2. FileOf(s, FALSE) = H \o I \o L \o O \o B \o C \o G
  <2>1. s.constraints \in Seq(Nat)
    BY <1>1 DEF Plain, IsSource
  <2>2. Conditions(s) = C
    BY <1>1, <2>1, ConditionsAre, LiteralBlocksType
  <2> QED
    BY <2>2 DEF FileOf, GateBlocks
<1>3. CertText(c) = H \o I \o L \o B \o C \o G
  <2>1. H = Line(<<c.num_inputs + c.num_latches + Len(c.ands), c.num_inputs, c.num_latches, 0, Len(c.ands), 1>>
                 \o (IF Ordered(c.constraints) = <<>> THEN <<>> ELSE <<Len(Ordered(c.constraints))>>))
    BY CertHeader
  <2>2. I = Lines([i \in 1 .. c.num_inputs |-> <<2 * i>>])
    BY DEF SourceParts
  <2>3. L = Lines([i \in 1 .. c.num_latches |-> <<2 * (c.num_inputs + i), dimacs_to_aiger(c.nexts[i])>>
                                                \o (IF ResetOf(c, i) = 0 THEN <<>> ELSE <<ResetOf(c, i)>>)])
    BY CertLatches
  <2>4. B = Line(<<dimacs_to_aiger(c.bad)>>)
    BY CertBads
  <2>5. C = Lines([i \in 1 .. Len(Ordered(c.constraints)) |-> <<dimacs_to_aiger(Ordered(c.constraints)[i])>>])
    BY CertConstraints
  <2>6. G = Lines([i \in 1 .. Len(c.ands) |->
              <<dimacs_to_aiger(AndVar(c, i)), dimacs_to_aiger(c.ands[i].i1), dimacs_to_aiger(c.ands[i].i2)>>])
    BY CertGates
  <2> HIDE DEF H, I, L, B, C, G
  <2> QED
    BY <2>1, <2>2, <2>3, <2>4, <2>5, <2>6, Zenon DEF CertText
<1>4. O = <<>>
  BY CertBads
<1>5. H \in Seq(Int) /\ I \in Seq(Int) /\ L \in Seq(Int)
  <2>1. PICK f \in BOOLEAN : IsFalse(f)
    BY DEF IsFalse
  <2>2. f => IsBinary(s)
    BY <2>1 DEF IsFalse
  <2>3. InputBlocks(s, f) \in Seq(Seq(Int)) /\ LatchBlocks(s, f) \in Seq(Seq(Int))
    BY <1>1, <2>2, BlocksType
  <2>4. f = FALSE
    BY <2>1 DEF IsFalse
  <2>5. FlattenSeq(InputBlocks(s, FALSE)) \in Seq(Int) /\ FlattenSeq(LatchBlocks(s, FALSE)) \in Seq(Int)
    BY <2>3, <2>4, FlattenType
  <2>6. I = FlattenSeq(InputBlocks(s, FALSE))
    <3> DEFINE n == s.inputs
    <3> DEFINE u == [i \in 1 .. n |-> <<2 * i>>]
    <3>1. n \in Nat
      BY <1>1, SourceFacts
    <3> HIDE DEF n
    <3>2. Len(u) = n /\ DOMAIN u = 1 .. n /\ \A i \in 1 .. n : u[i] = <<2 * i>>
      BY <3>1
    <3> HIDE DEF u
    <3>3. Lines(u) = FlattenSeq([i \in 1 .. n |-> Line(u[i])])
      BY <3>1, <3>2, LinesIs
    <3>4. [i \in 1 .. n |-> Line(u[i])] = [i \in 1 .. n |-> Line(<<2 * i>>)]
      BY <3>2
    <3>5. InputBlocks(s, FALSE) = [i \in 1 .. n |-> Line(<<2 * i>>)]
      BY DEF InputBlocks, n
    <3> QED
      BY <3>3, <3>4, <3>5 DEF u, n
  <2>7. L = FlattenSeq(LatchBlocks(s, FALSE))
    <3> DEFINE n == Len(s.latches)
    <3> DEFINE u == [i \in 1 .. n |-> LatchLine(s, FALSE, i)]
    <3>1. n \in Nat
      BY <1>1, SourceFacts
    <3>2. LatchBlocks(s, FALSE) = [i \in 1 .. n |-> Line(LatchLine(s, FALSE, i))]
      BY DEF LatchBlocks
    <3> HIDE DEF n
    <3>3. Len(u) = n /\ DOMAIN u = 1 .. n /\ \A i \in 1 .. n : u[i] = LatchLine(s, FALSE, i)
      BY <3>1
    <3> HIDE DEF u
    <3>4. Lines(u) = FlattenSeq([i \in 1 .. n |-> Line(u[i])])
      BY <3>1, <3>3, LinesIs
    <3>5. [i \in 1 .. n |-> Line(u[i])] = [i \in 1 .. n |-> Line(LatchLine(s, FALSE, i))]
      BY <3>3
    <3> QED
      BY <3>2, <3>4, <3>5 DEF u, n
  <2>8. H \in Seq(Int)
    BY <1>1, HeaderIs DEF HeaderTokens
  <2> QED
    BY <2>5, <2>6, <2>7, <2>8
<1> HIDE DEF H, I, L, O, B, C, G
<1>6. H \o I \o L \in Seq(Int)
  <2>1. H \o I \in Seq(Int)
    BY <1>5, ConcatProperties
  <2> QED
    BY <1>5, <2>1, ConcatProperties
<1>7. H \o I \o L \o O = H \o I \o L
  BY <1>4, <1>6, ConcatEmptySeq
<1> QED
  BY <1>2, <1>3, <1>7

(* Reading what was written gives the circuit back. *)
LEMMA CircuitBack ==
  ASSUME NEW c, IsCircuit(c), c = With(c, c.ands, c.bad), NEW s, SourceParts(c, s), NEW k, k = 0
  PROVE  CircuitOf(s, k) = c
<1> DEFINE ni == c.num_inputs
<1> DEFINE nl == c.num_latches
<1> DEFINE na == Len(c.ands)
<1>1. /\ ni \in Nat /\ nl \in Nat /\ na \in Nat
      /\ s.inputs = ni /\ Len(s.latches) = nl /\ Len(s.ands) = na
  BY SourceSizes, CircuitNumbers DEF SourceParts
<1>2. [i \in 1 .. Len(s.ands) |-> [i1 |-> aiger_to_dimacs(s.ands[i][1]), i2 |-> aiger_to_dimacs(s.ands[i][2])]] = c.ands
  <2>1. c.ands \in Seq([i1 : Int, i2 : Int])
    BY DEF IsCircuit
  <2>2. c.ands = [i \in 1 .. na |-> c.ands[i]] /\ \A i \in 1 .. na : c.ands[i] \in [i1 : Int, i2 : Int]
    BY <2>1, LenProperties, ElementOfSeq
  <2>3. ASSUME NEW i \in 1 .. na
        PROVE  [i1 |-> aiger_to_dimacs(s.ands[i][1]), i2 |-> aiger_to_dimacs(s.ands[i][2])] = c.ands[i]
    <3>1. s.ands[i][1] = dimacs_to_aiger(c.ands[i].i1) /\ s.ands[i][2] = dimacs_to_aiger(c.ands[i].i2)
      BY DEF SourceParts
    <3>2. aiger_to_dimacs(s.ands[i][1]) = c.ands[i].i1 /\ aiger_to_dimacs(s.ands[i][2]) = c.ands[i].i2
      BY <3>1, AigerLiterals
    <3>3. c.ands[i] = [i1 |-> c.ands[i].i1, i2 |-> c.ands[i].i2]
      BY <2>2
    <3> QED
      BY <3>2, <3>3
  <2> HIDE DEF na
  <2> QED
    BY <1>1, <2>2, <2>3
<1>3. [i \in 1 .. Len(s.latches) |-> aiger_to_dimacs(s.latches[i][1])] = c.nexts
  <2>1. c.nexts = [i \in 1 .. nl |-> c.nexts[i]]
    BY DEF IsCircuit
  <2>2. \A i \in 1 .. nl : s.latches[i][1] = dimacs_to_aiger(c.nexts[i])
    BY DEF SourceParts
  <2>3. \A i \in 1 .. nl : aiger_to_dimacs(dimacs_to_aiger(c.nexts[i])) = c.nexts[i]
    BY AigerLiterals
  <2> HIDE DEF nl
  <2> QED
    BY <1>1, <2>1, <2>2, <2>3
<1>4. {-(1 + s.inputs + i) : i \in {j \in 1 .. Len(s.latches) : s.latches[j][2] = 0}}
        \cup {1 + s.inputs + i : i \in {j \in 1 .. Len(s.latches) : s.latches[j][2] = 1}} = c.init_state
  <2>1. \A j \in 1 .. nl : s.latches[j][2] = ResetOf(c, j) /\ LatchVar(c, j) = 1 + ni + j
    BY DEF SourceParts, LatchVar
  <2>2. \A j \in 1 .. nl : /\ s.latches[j][2] = 0 <=> -(1 + ni + j) \in c.init_state
                           /\ s.latches[j][2] = 1 <=> 1 + ni + j \in c.init_state
    BY <2>1, ResetType
  <2>3. \A l \in c.init_state : \E j \in 1 .. nl : l = 1 + ni + j \/ l = -(1 + ni + j)
    <3>1. \A l \in c.init_state : \E j \in 1 .. nl : l = LatchVar(c, j) \/ l = -LatchVar(c, j)
      BY DEF IsCircuit
    <3> QED
      BY <2>1, <3>1
  <2> HIDE DEF ni, nl
  <2>4. {-(1 + ni + i) : i \in {j \in 1 .. nl : s.latches[j][2] = 0}}
          \cup {1 + ni + i : i \in {j \in 1 .. nl : s.latches[j][2] = 1}} = c.init_state
    <3>1. ASSUME NEW l \in c.init_state
          PROVE  l \in {-(1 + ni + i) : i \in {j \in 1 .. nl : s.latches[j][2] = 0}}
                       \cup {1 + ni + i : i \in {j \in 1 .. nl : s.latches[j][2] = 1}}
      <4>1. PICK j \in 1 .. nl : l = 1 + ni + j \/ l = -(1 + ni + j)
        BY <2>3
      <4>2. (l = 1 + ni + j /\ s.latches[j][2] = 1) \/ (l = -(1 + ni + j) /\ s.latches[j][2] = 0)
        BY <2>2, <4>1
      <4> QED
        BY <4>2
    <3>2. ASSUME NEW l \in {-(1 + ni + i) : i \in {j \in 1 .. nl : s.latches[j][2] = 0}}
                           \cup {1 + ni + i : i \in {j \in 1 .. nl : s.latches[j][2] = 1}}
          PROVE  l \in c.init_state
      BY <2>2
    <3> QED
      BY <3>1, <3>2
  <2> QED
    BY <1>1, <2>4
<1>5. {aiger_to_dimacs(l) : l \in Range(s.constraints)} = c.constraints
  <2> DEFINE o == Ordered(c.constraints)
  <2>1. Range(o) = c.constraints /\ DOMAIN o = 1 .. Len(o) /\ Len(o) \in Nat
    BY OrderedIs
  <2>2. s.constraints = [i \in 1 .. Len(o) |-> dimacs_to_aiger(o[i])]
    BY DEF SourceParts
  <2> HIDE DEF o
  <2>3. Range(s.constraints) = {dimacs_to_aiger(o[i]) : i \in 1 .. Len(o)}
    BY <2>2 DEF Range
  <2>4. c.constraints = {o[i] : i \in 1 .. Len(o)}
    BY <2>1 DEF Range
  <2>5. \A i \in 1 .. Len(o) : aiger_to_dimacs(dimacs_to_aiger(o[i])) = o[i]
    BY <2>4, AigerLiterals
  <2> QED
    BY <2>3, <2>4, <2>5
<1>6. aiger_to_dimacs(PropsOf(s)[k + 1]) = c.bad
  <2>1. PropsOf(s) = s.bads
    BY CertificateIsSource
  <2>2. s.bads = <<dimacs_to_aiger(c.bad)>> /\ k + 1 = 1
    BY DEF SourceParts
  <2>3. PropsOf(s)[k + 1] = dimacs_to_aiger(c.bad)
    BY <2>1, <2>2
  <2> QED
    BY <2>3, AigerLiterals
<1> QED
  BY <1>1, <1>2, <1>3, <1>4, <1>5, <1>6 DEF CircuitOf, With

LEMMA ShownIs ==
  ASSUME inv # 0
  PROVE  show_aag = CertText(Grown) /\ Grown = With(Grown, Grown.ands, Grown.bad)
<1>1. PICK c : c = Grown
  OBVIOUS
<1>2. /\ c.num_inputs = orig.num_inputs /\ c.num_latches = orig.num_latches /\ c.ands = ands
      /\ c.nexts = orig.nexts /\ c.init_state = orig.init_state /\ c.constraints = orig.constraints /\ c.bad = -inv
      /\ c = With(c, c.ands, c.bad)
  BY <1>1 DEF Grown, With
<1>3. \A i : AndVar(c, i) = AndVar(orig, i) /\ LatchVar(c, i) = LatchVar(orig, i)
  BY <1>2 DEF AndVar, LatchVar
<1>4. \A i : ResetOf(c, i) = DefaultVal(i)
  BY <1>2, <1>3 DEF ResetOf, DefaultVal
<1>5. Ordered(c.constraints) = SetToSeq(orig.constraints)
  BY <1>2 DEF Ordered
<1>6. show_aag = CertText(c)
  <2> DEFINE o == SetToSeq(orig.constraints)
  <2> DEFINE H == Line(<<orig.num_inputs + orig.num_latches + Len(ands), orig.num_inputs, orig.num_latches, 0, Len(ands), 1>>
                       \o (IF o = <<>> THEN <<>> ELSE <<Len(o)>>))
  <2> DEFINE I == Lines([i \in 1 .. orig.num_inputs |-> <<2 * i>>])
  <2> DEFINE L == [i \in 1 .. orig.num_latches |-> <<2 * (orig.num_inputs + i), dimacs_to_aiger(orig.nexts[i])>>
                                         \o (IF DefaultVal(i) = 0 THEN <<>> ELSE <<DefaultVal(i)>>)]
  <2> DEFINE B == Line(<<dimacs_to_aiger(-inv)>>)
  <2> DEFINE C == Lines([i \in 1 .. Len(o) |-> <<dimacs_to_aiger(o[i])>>])
  <2> DEFINE G == [i \in 1 .. Len(ands) |->
              <<dimacs_to_aiger(AndVar(orig, i)), dimacs_to_aiger(ands[i].i1), dimacs_to_aiger(ands[i].i2)>>]
  <2>1. show_aag = H \o I \o Lines(L) \o B \o C \o Lines(G)
    BY DEF show_aag
  <2>2. L = [i \in 1 .. c.num_latches |-> <<2 * (c.num_inputs + i), dimacs_to_aiger(c.nexts[i])>>
                                         \o (IF ResetOf(c, i) = 0 THEN <<>> ELSE <<ResetOf(c, i)>>)]
    BY <1>2, <1>4
  <2>3. G = [i \in 1 .. Len(c.ands) |->
              <<dimacs_to_aiger(AndVar(c, i)), dimacs_to_aiger(c.ands[i].i1), dimacs_to_aiger(c.ands[i].i2)>>]
    BY <1>2, <1>3
  <2>4. H = Line(<<c.num_inputs + c.num_latches + Len(c.ands), c.num_inputs, c.num_latches, 0, Len(c.ands), 1>>
                 \o (IF Ordered(c.constraints) = <<>> THEN <<>> ELSE <<Len(Ordered(c.constraints))>>))
    BY <1>2, <1>5
  <2>5. /\ I = Lines([i \in 1 .. c.num_inputs |-> <<2 * i>>]) /\ B = Line(<<dimacs_to_aiger(c.bad)>>)
        /\ C = Lines([i \in 1 .. Len(Ordered(c.constraints)) |-> <<dimacs_to_aiger(Ordered(c.constraints)[i])>>])
    BY <1>2, <1>5
  <2> HIDE DEF o, H, I, L, B, C, G
  <2> QED
    BY <2>1, <2>2, <2>3, <2>4, <2>5, Zenon DEF CertText
<1> QED
  BY <1>1, <1>2, <1>6

(* The reader has not started, or reads what was written.                  *)
Unread ==
  /\ binary = FALSE /\ p = 1 /\ index = 0
  /\ aig = [inputs |-> <<>>, latches |-> <<>>, outputs |-> <<>>, bads |-> <<>>,
            constraints |-> <<>>, ands |-> <<>>]

Rereading == \E c : c = Grown /\ ReaderInv(SourceOf(c))

(* The invariant of a run that writes a certificate.                       *)
CertInv ==
  Certifying => IF pc = "gates" THEN Unread ELSE binary = FALSE /\ work = {} /\ Rereading

LEMMA CertInvInit == LoadInit \/ CertInit => CertInv
<1>1. LoadInit => ~Certifying
  BY DEF LoadInit, Certifying
<1>2. CertInit => pc = "gates" /\ Unread
  BY DEF CertInit, Unread
<1> QED
  BY <1>1, <1>2 DEF CertInv

LEMMA AllShown ==
  ASSUME Inv, Certifying, work = {}
  PROVE  inv # 0 /\ IsCircuit(Grown) /\ Plain(SourceOf(Grown)) /\ Complete = WithBad(orig, cubes)
<1>1. Complete = WithBad(orig, cubes) /\ Complete # {}
  BY DEF Complete, WithBad
<1>2. inv # 0
  BY <1>1 DEF Inv, Progress
<1>3. IsCircuit(Grown)
  BY InvMeansCertificate DEF GatesMeanInvariant
<1>4. PICK c : c = Grown
  OBVIOUS
<1>5. Plain(SourceOf(c))
  BY <1>3, <1>4, SourcePartsAre, CertificateIsSource
<1> QED
  BY <1>1, <1>2, <1>3, <1>4, <1>5

LEMMA ShowStarts ==
  ASSUME Inv, Certifying, Unread, ShowAag
  PROVE  binary' = FALSE /\ work' = {} /\ Rereading' /\ pc' # "gates"
<1>1. /\ work = {} /\ file' = show_aag /\ pc' = "header" /\ binary' = binary /\ p' = p /\ aig' = aig
      /\ index' = index /\ UNCHANGED certVars
  BY DEF ShowAag
<1>2. PICK c : c = Grown
  OBVIOUS
<1>3. inv # 0 /\ IsCircuit(c) /\ Plain(SourceOf(c))
  BY <1>1, <1>2, AllShown
<1>4. PICK s : s = SourceOf(c)
  OBVIOUS
<1>5. SourceParts(c, s) /\ Plain(s)
  BY <1>3, <1>4, SourcePartsAre
<1>6. FileOf(s, FALSE) = CertText(c)
  BY <1>3, <1>5, CertTextIs
<1>7. file' = FileOf(s, FALSE)
  BY <1>1, <1>2, <1>3, <1>6, ShownIs
<1>8. \E o : Layout(s, FALSE, FileOf(s, FALSE), o)
  <2>1. PICK b \in BOOLEAN : IsFalse(b)
    BY DEF IsFalse
  <2>2. b => IsBinary(s)
    BY <2>1 DEF IsFalse
  <2>3. \E o : Layout(s, b, FileOf(s, b), o)
    BY <1>5, <2>2, LayoutExists
  <2>4. b = FALSE
    BY <2>1 DEF IsFalse
  <2> QED
    BY <2>3, <2>4
<1>9. Starting'
  <2>1. aig' = [inputs |-> <<>>, latches |-> <<>>, outputs |-> <<>>, bads |-> <<>>, constraints |-> <<>>, ands |-> <<>>]
    BY <1>1 DEF Unread
  <2>2. aig' = [y \in Parts |-> aig'[y]] /\ \A y \in Parts : aig'[y] = <<>>
    BY <2>1 DEF Parts
  <2>3. p' = 1
    BY <1>1 DEF Unread
  <2> QED
    BY <1>1, <2>2, <2>3 DEF Starting
<1>10. ReaderInv(s)'
  <2>1. binary' = FALSE /\ index' \in Nat
    BY <1>1 DEF Unread
  <2>2. \E o : Layout(s, binary', file', o)
    BY <1>7, <1>8, <2>1
  <2> QED
    BY <1>9, <2>1, <2>2 DEF ReaderInv
<1>11. Grown' = c
  BY <1>1, <1>2 DEF Grown, certVars
<1>12. Rereading'
  BY <1>4, <1>10, <1>11 DEF Rereading
<1> QED
  BY <1>1, <1>12 DEF Unread, certVars

LEMMA CertInvNext == Inv /\ CertInv /\ [CertNext]_<<vars, certVars>> => CertInv'
<1> SUFFICES ASSUME Inv, CertInv, [CertNext]_<<vars, certVars>>, Certifying' PROVE CertInv'
  BY DEF CertInv
<1>1. orig' = orig
  BY DEF CertNext, NextCube, AddLiteral, EndCube, ShowAag, certVars
<1>2. Certifying
  BY <1>1 DEF Certifying
<1>3. CASE ShowAag
  <2>1. Unread
    BY <1>2, <1>3 DEF CertInv, ShowAag
  <2>2. binary' = FALSE /\ work' = {} /\ Rereading' /\ pc' # "gates"
    BY <1>2, <1>3, <2>1, ShowStarts
  <2> QED
    BY <2>2 DEF CertInv
<1>4. CASE NextCube \/ AddLiteral \/ EndCube
  <2>1. pc = "gates" /\ UNCHANGED vars
    BY <1>4 DEF NextCube, AddLiteral, EndCube
  <2>2. Unread /\ pc' = "gates" /\ binary' = binary /\ p' = p /\ index' = index /\ aig' = aig
    BY <1>2, <2>1 DEF CertInv, vars
  <2>3. Unread'
    BY <2>2 DEF Unread
  <2> QED
    BY <2>2, <2>3 DEF CertInv
<1>5. CASE UNCHANGED certVars /\ (Next \/ UNCHANGED vars) /\ pc # "gates"
  <2>1. binary = FALSE /\ work = {} /\ Rereading
    BY <1>2, <1>5 DEF CertInv
  <2>2. PICK c : c = Grown /\ ReaderInv(SourceOf(c))
    BY <2>1 DEF Rereading
  <2>3. PICK s : s = SourceOf(c)
    OBVIOUS
  <2>4. Plain(s) /\ ReaderInv(s)
    BY <1>2, <2>1, <2>2, <2>3, AllShown
  <2>5. ReaderInv(s)'
    BY <1>5, <2>4, ReaderStep, ReaderStutters
  <2>6. Grown' = c /\ work' = {}
    BY <1>5, <2>1, <2>2 DEF Grown, certVars
  <2>7. binary' = FALSE
    BY <1>5, <2>1 DEF Next, ReadHeader, ReadInput, ReadLatch, ReadOutput, ReadBad, ReadConstraint, ReadOne,
                NextSection, EndSection, ReadGate, Translate, Stop, vars
  <2>8. Rereading'
    BY <2>3, <2>5, <2>6 DEF Rereading
  <2>9. pc' # "gates"
    BY <2>5 DEF ReaderInv, Starting, Reading, ReadAll, Parts
  <2> QED
    BY <2>6, <2>7, <2>8, <2>9 DEF CertInv
<1>6. CASE UNCHANGED certVars /\ (Next \/ UNCHANGED vars) /\ pc = "gates"
  <2>1. UNCHANGED vars
    BY <1>6 DEF Next, ReadHeader, ReadInput, ReadLatch, ReadOutput, ReadBad, ReadConstraint, ReadOne,
                NextSection, EndSection, ReadGate, Translate, Stop
  <2>2. Unread /\ pc' = "gates" /\ binary' = binary /\ p' = p /\ index' = index /\ aig' = aig
    BY <1>2, <1>6, <2>1 DEF CertInv, vars
  <2>3. Unread'
    BY <2>2 DEF Unread
  <2> QED
    BY <2>2, <2>3 DEF CertInv
<1>7. \/ NextCube \/ AddLiteral \/ EndCube \/ ShowAag
      \/ UNCHANGED certVars /\ (Next \/ UNCHANGED vars)
  BY DEF CertNext
<1> QED
  BY <1>3, <1>4, <1>5, <1>6, <1>7

LEMMA CertificateRead ==
  ASSUME Inv, CertInv, Certifying, pc \in {"loaded", "abort"}
  PROVE  pc = "loaded" /\ circ = Grown /\ work = {}
<1>1. pc # "gates"
  OBVIOUS
<1>2. binary = FALSE /\ work = {} /\ Rereading
  BY <1>1 DEF CertInv
<1>3. PICK c : c = Grown /\ ReaderInv(SourceOf(c))
  BY <1>2 DEF Rereading
<1>4. PICK s : s = SourceOf(c)
  OBVIOUS
<1>5. inv # 0 /\ IsCircuit(c) /\ SourceParts(c, s) /\ ReaderInv(s)
  BY <1>2, <1>3, <1>4, AllShown, SourcePartsAre
<1>6. ReadAll(s)
  BY <1>5 DEF ReaderInv, Starting, Reading, Parts
<1>7. InOrder(s, binary) /\ PropsOf(s) = s.bads
  BY <1>2, <1>5, CertificateIsSource
<1>8. PropsOf(s) # <<>> /\ Len(PropsOf(s)) = 1
  BY <1>5, <1>7, SourceSizes
<1>9. pc = "loaded"
  BY <1>6, <1>7, <1>8 DEF ReadAll
<1>10. PICK k : k = index
  OBVIOUS
<1>11. k \in 0 .. 1 - 1 /\ circ = CircuitOf(s, k)
  BY <1>6, <1>8, <1>9, <1>10 DEF ReadAll
<1>12. k = 0
  BY <1>11
<1>13. c = With(c, c.ands, c.bad)
  BY <1>3, <1>5, ShownIs
<1>14. CircuitOf(s, k) = c
  BY <1>5, <1>12, <1>13, CircuitBack
<1> QED
  BY <1>2, <1>3, <1>9, <1>11, <1>14

LEMMA ReadBack == Inv /\ CertInv => CertificateReadsBack
<1> SUFFICES ASSUME Inv, CertInv, Certifying PROVE CertificateReadsBack
  BY DEF CertificateReadsBack
<1>1. pc # "abort"
  BY CertificateRead
<1>2. ASSUME pc = "loaded"
      PROVE  /\ circ.init_state = orig.init_state
             /\ \A x \in Bits(orig.num_latches), i \in Bits(orig.num_inputs) :
                  /\ \A j \in 1 .. orig.num_latches : Holds(Settle(orig, x, i), orig.nexts[j]) = Holds(Settle(circ, x, i), circ.nexts[j])
                  /\ (\A l \in orig.constraints : Holds(Settle(orig, x, i), l)) <=> (\A l \in circ.constraints : Holds(Settle(circ, x, i), l))
                  /\ Holds(Settle(circ, x, i), circ.bad) <=> \/ \E c \in cubes : In(Settle(orig, x, i), c)
                                                             \/ Holds(Settle(orig, x, i), orig.bad)
                                                             \/ \E l \in orig.constraints : ~Holds(Settle(orig, x, i), l)
  <2>1. circ = Grown /\ work = {}
    BY <1>2, CertificateRead
  <2>2. inv # 0 /\ Complete = WithBad(orig, cubes)
    BY <2>1, AllShown
  <2>3. circ.init_state = orig.init_state /\ circ.nexts = orig.nexts /\ circ.constraints = orig.constraints
    BY <2>1 DEF Grown
  <2>4. IsCircuit(orig) /\ GatesOK(orig, ands)
    BY CircuitsAssumption DEF Inv, Typed
  <2>5. /\ NumVars(orig) \in Nat /\ \A j \in 1 .. orig.num_latches : orig.nexts[j] \in LitOf(NumVars(orig))
        /\ orig.constraints \subseteq LitOf(NumVars(orig)) /\ orig.bad \in LitOf(NumVars(orig))
    BY <2>4, CircuitNumbers DEF IsCircuit
  <2>6. ASSUME NEW x \in Bits(orig.num_latches), NEW i \in Bits(orig.num_inputs)
        PROVE  /\ \A j \in 1 .. orig.num_latches : Holds(Settle(orig, x, i), orig.nexts[j]) = Holds(Settle(circ, x, i), circ.nexts[j])
               /\ (\A l \in orig.constraints : Holds(Settle(orig, x, i), l)) <=> (\A l \in circ.constraints : Holds(Settle(circ, x, i), l))
               /\ Holds(Settle(circ, x, i), circ.bad) <=> \/ \E c \in cubes : In(Settle(orig, x, i), c)
                                                          \/ Holds(Settle(orig, x, i), orig.bad)
                                                          \/ \E l \in orig.constraints : ~Holds(Settle(orig, x, i), l)
    <3>1. PICK v, w : v = Settle(orig, x, i) /\ w = Settle(circ, x, i)
      OBVIOUS
    <3>2. /\ \A n \in 1 .. NumVars(orig) : w[n] = v[n]
          /\ Holds(w, circ.bad) <=> \E c \in Complete : In(v, c)
      BY <2>1, <2>2, <3>1, InvMeansCertificate DEF GatesMeanInvariant, Bits
    <3>3. \A l \in LitOf(NumVars(orig)) : Holds(w, l) = Holds(v, l)
      BY <2>5, <3>2, HoldsAgrees
    <3>4. \A l \in LitOf(NumVars(orig)) : Holds(v, -l) = ~Holds(v, l)
      <4>1. ASSUME NEW l \in LitOf(NumVars(orig)) PROVE Holds(v, -l) = ~Holds(v, l)
        <5>1. l \in LitOf(Size(orig, ands)) /\ -l \in LitOf(NumVars(orig))
          <6>1. Size(orig, ands) \in Int /\ NumVars(orig) \in Int /\ NumVars(orig) <= Size(orig, ands)
            BY <2>4, SizeType
          <6> QED
            BY <2>5, <6>1, LitOfMonotone, LitOfType
        <5>2. Holds(Val(orig, ands, x, i), -l) = ~Holds(Val(orig, ands, x, i), l)
          BY <2>4, <5>1, ValType
        <5>3. Holds(Val(orig, ands, x, i), -l) = Holds(v, -l) /\ Holds(Val(orig, ands, x, i), l) = Holds(v, l)
          BY <2>4, <3>1, <5>1, ValOrig
        <5> QED
          BY <5>2, <5>3
      <4> QED
        BY <4>1
    <3>5. \A j \in 1 .. orig.num_latches : Holds(v, orig.nexts[j]) = Holds(w, circ.nexts[j])
      BY <2>3, <2>5, <3>3
    <3>6. (\A l \in orig.constraints : Holds(v, l)) <=> (\A l \in circ.constraints : Holds(w, l))
      BY <2>3, <2>5, <3>3
    <3>7. (\E c \in WithBad(orig, cubes) : In(v, c)) <=> \/ \E c \in cubes : In(v, c)
                                                         \/ Holds(v, orig.bad)
                                                         \/ \E l \in orig.constraints : ~Holds(v, l)
      <4>1. In(v, {orig.bad}) <=> Holds(v, orig.bad)
        BY DEF In
      <4>2. \A l \in orig.constraints : In(v, {-l}) <=> ~Holds(v, l)
        BY <2>5, <3>4 DEF In
      <4>3. \A c : c \in WithBad(orig, cubes) <=> c \in cubes \/ c = {orig.bad} \/ \E l \in orig.constraints : c = {-l}
        BY DEF WithBad
      <4>4. ASSUME NEW c \in WithBad(orig, cubes), In(v, c)
            PROVE  (\E d \in cubes : In(v, d)) \/ Holds(v, orig.bad) \/ \E l \in orig.constraints : ~Holds(v, l)
        <5>1. CASE c \in cubes
          BY <4>4, <5>1
        <5>2. CASE c = {orig.bad}
          BY <4>1, <4>4, <5>2
        <5>3. CASE \E l \in orig.constraints : c = {-l}
          <6>1. PICK l \in orig.constraints : c = {-l}
            BY <5>3
          <6>2. In(v, {-l})
            BY <4>4, <6>1
          <6> QED
            BY <4>2, <6>2
        <5> QED
          BY <4>3, <5>1, <5>2, <5>3
      <4>5. (\E d \in cubes : In(v, d)) => \E c \in WithBad(orig, cubes) : In(v, c)
        BY <4>3
      <4>6. Holds(v, orig.bad) => \E c \in WithBad(orig, cubes) : In(v, c)
        BY <4>1, <4>3
      <4>7. ASSUME NEW l \in orig.constraints, ~Holds(v, l) PROVE \E c \in WithBad(orig, cubes) : In(v, c)
        <5>1. {-l} \in WithBad(orig, cubes) /\ In(v, {-l})
          BY <4>2, <4>3, <4>7
        <5> QED
          BY <5>1
      <4> QED
        BY <4>4, <4>5, <4>6, <4>7
    <3> QED
      BY <2>2, <3>1, <3>2, <3>5, <3>6, <3>7
  <2> QED
    BY <2>3, <2>6
<1> QED
  BY <1>1, <1>2 DEF CertificateReadsBack, Bits

(* The certificate show_aag writes is never refused by the reader, and is  *)
(* read as a circuit with the resets, next states and constraints of the   *)
(* one that was proved, whose bad literal is what the invariant excludes.  *)
THEOREM CertificateIsReadBack == FilesSpec => []CertificateReadsBack
<1>1. FilesSpec => []Inv
  BY InvInit, InvNext, PTL DEF FilesSpec
<1>2. FilesSpec => []CertInv
  BY <1>1, CertInvInit, CertInvNext, PTL DEF FilesSpec
<1> QED
  BY <1>1, <1>2, ReadBack, PTL
============================================================================
