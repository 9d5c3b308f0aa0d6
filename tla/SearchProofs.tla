---------------------------- MODULE SearchProofs ----------------------------
(***************************************************************************)
(* What CaDiCaL's API promises its caller, and that MiniSat's search keeps *)
(* its watches, learns only what the formula implies and answers right,    *)
(* for any set of literals and any number of clauses and calls.            *)
(***************************************************************************)
EXTENDS MCSearch, Induction, FiniteSetTheorems, FunctionTheorems, SequenceTheorems

Constraints == SUBSET (UserLiterals \cup {0})
Asked == [assumptions : SUBSET UserLiterals, constraint : Constraints, limited : BOOLEAN]
Outlived == [assumptions : SUBSET UserLiterals, constraint : Constraints]

Answered == {S!SATISFIED, S!UNSATISFIED}

ApiTyped ==
  /\ state \in S!VALID \cup {S!SOLVING}
  /\ assumptions \in SUBSET UserLiterals /\ constraint \in Constraints
  /\ limited \in BOOLEAN
  /\ asked \in Asked /\ outlived \in Outlived

(* From the call of solve until the answer is given up, what was asked is  *)
(* what the solver still holds.                                            *)
AskedIsHeld ==
  state \in Answered \cup {S!SOLVING} =>
    /\ used.formula = formula /\ used.assumptions = assumptions /\ used.constraint = constraint

(* What the solver holds is what the user asked and what it keeps beyond   *)
(* its lifetime; an answer keeps the old requests, which count no more.    *)
RequestedIsHeld ==
  /\ S!AssumptionsLeft = asked.assumptions \cup outlived.assumptions
  /\ S!ConstraintLeft = asked.constraint \cup outlived.constraint
  /\ asked.limited = limited
  /\ state = S!SOLVING => used.limited = limited

ApiInv == ApiTyped /\ AskedIsHeld /\ RequestedIsHeld

-----------------------------------------------------------------------------
LEMMA StateNames ==
  /\ S!VALID = {S!CONFIGURING, S!UNKNOWN, S!SATISFIED, S!UNSATISFIED, S!ADDING}
  /\ S!READY = {S!CONFIGURING, S!UNKNOWN, S!SATISFIED, S!UNSATISFIED}
  /\ S!CONFIGURING \notin Answered \cup {S!SOLVING} /\ S!UNKNOWN \notin Answered \cup {S!SOLVING}
  /\ S!ADDING \notin Answered \cup {S!SOLVING}
  /\ S!SOLVING \notin Answered /\ S!SOLVING \notin S!VALID
  /\ S!Resets <=> state \in Answered
BY DEF S!VALID, S!READY, Answered, S!Resets, S!CONFIGURING, S!UNKNOWN, S!ADDING, S!SOLVING, S!SATISFIED, S!UNSATISFIED

(* What the calls between two solves make of the state. *)
UserCall(as, con, ask, out) ==
  /\ state' \in {S!UNKNOWN, S!ADDING}
  /\ assumptions' = as /\ constraint' = con /\ limited' = limited
  /\ asked' = ask /\ outlived' = out
  /\ as = ask.assumptions \cup out.assumptions /\ con = ask.constraint \cup out.constraint
  /\ ask.limited = limited

LEMMA InvCall ==
  ASSUME ApiInv, NEW as \in SUBSET UserLiterals, NEW con \in Constraints,
         NEW ask \in Asked, NEW out \in Outlived, UserCall(as, con, ask, out)
  PROVE  ApiInv'
<1>1. ApiTyped'
  BY StateNames DEF UserCall, ApiInv, ApiTyped
<1>2. state' \notin Answered \cup {S!SOLVING}
  BY StateNames DEF UserCall
<1>3. S!AssumptionsLeft' = as /\ S!ConstraintLeft' = con
  BY <1>2 DEF UserCall, S!AssumptionsLeft, S!ConstraintLeft, S!Resets, Answered
<1> QED
  BY <1>1, <1>2, <1>3 DEF UserCall, ApiInv, AskedIsHeld, RequestedIsHeld

LEMMA ApiLeft ==
  ASSUME ApiInv
  PROVE  /\ S!AssumptionsLeft \in SUBSET UserLiterals /\ S!ConstraintLeft \in Constraints
         /\ S!AssumptionsLeft = asked.assumptions \cup outlived.assumptions
         /\ S!ConstraintLeft = asked.constraint \cup outlived.constraint
         /\ asked \in Asked /\ outlived \in Outlived /\ asked.limited = limited
BY DEF ApiInv, ApiTyped, RequestedIsHeld, S!AssumptionsLeft, S!ConstraintLeft, Constraints

LEMMA InvAdd ==
  ASSUME ApiInv, (\E lit \in UserLiterals : S!add(lit)) \/ S!AddZero
  PROVE  ApiInv'
<1>1. S!LeaveAnswer /\ state' \in {S!UNKNOWN, S!ADDING} /\ UNCHANGED <<asked, outlived, limited>>
  BY DEF S!add, S!AddZero
<1>2. UserCall(S!AssumptionsLeft, S!ConstraintLeft, asked, outlived)
  BY <1>1, ApiLeft DEF UserCall, S!LeaveAnswer
<1> QED
  BY <1>2, ApiLeft, InvCall

LEMMA InvConstrain ==
  ASSUME ApiInv, NEW lit \in UserLiterals \cup {0}, S!constrain(lit)
  PROVE  ApiInv'
<1> DEFINE replaces == 0 \in S!ConstraintLeft
           con == (IF replaces THEN {} ELSE S!ConstraintLeft) \cup {lit}
           ask == [asked EXCEPT !.constraint = (IF replaces THEN {} ELSE @) \cup {lit}]
           out == [outlived EXCEPT !.constraint = IF replaces THEN {} ELSE @]
<1>1. /\ con \in Constraints /\ ask \in Asked /\ out \in Outlived
      /\ ask.assumptions = asked.assumptions /\ ask.limited = asked.limited
      /\ ask.constraint = (IF replaces THEN {} ELSE asked.constraint) \cup {lit}
      /\ out.assumptions = outlived.assumptions
      /\ out.constraint = IF replaces THEN {} ELSE outlived.constraint
  BY ApiLeft DEF Asked, Outlived, Constraints
<1>2. con = ask.constraint \cup out.constraint
  BY <1>1, ApiLeft
<1>3. /\ constraint' = con /\ asked' = ask /\ outlived' = out
      /\ assumptions' = S!AssumptionsLeft /\ limited' = limited /\ state' \in {S!UNKNOWN, S!ADDING}
  BY DEF S!constrain
<1> HIDE DEF con, ask, out
<1>4. UserCall(S!AssumptionsLeft, con, ask, out)
  BY <1>1, <1>2, <1>3, ApiLeft DEF UserCall
<1> QED
  BY <1>1, <1>4, ApiLeft, InvCall

LEMMA InvAssume == ASSUME ApiInv, NEW lit \in UserLiterals, S!assume(lit) PROVE ApiInv'
<1> DEFINE ask == [asked EXCEPT !.assumptions = @ \cup {lit}]
<1>1. /\ ask \in Asked /\ ask.assumptions = asked.assumptions \cup {lit}
      /\ ask.constraint = asked.constraint /\ ask.limited = asked.limited
  BY ApiLeft DEF Asked
<1>2. /\ assumptions' = S!AssumptionsLeft \cup {lit} /\ constraint' = S!ConstraintLeft
      /\ asked' = ask /\ outlived' = outlived /\ limited' = limited /\ state' = S!UNKNOWN
  BY DEF S!assume
<1> HIDE DEF ask
<1>3. UserCall(S!AssumptionsLeft \cup {lit}, S!ConstraintLeft, ask, outlived)
  BY <1>1, <1>2, ApiLeft DEF UserCall
<1>4. S!AssumptionsLeft \cup {lit} \in SUBSET UserLiterals
  BY ApiLeft
<1> QED
  BY <1>1, <1>3, <1>4, ApiLeft, InvCall

LEMMA InvReset == ASSUME ApiInv, S!reset_assumptions \/ S!reset_constraint PROVE ApiInv'
<1>1. CASE S!reset_assumptions
  <2> DEFINE ask == [asked EXCEPT !.assumptions = {}]
             out == [outlived EXCEPT !.assumptions = {}]
  <2>1. /\ ask \in Asked /\ ask.assumptions = {} /\ ask.constraint = asked.constraint
        /\ ask.limited = asked.limited
        /\ out \in Outlived /\ out.assumptions = {} /\ out.constraint = outlived.constraint
    BY ApiLeft DEF Asked, Outlived
  <2>2. /\ assumptions' = {} /\ constraint' = S!ConstraintLeft
        /\ asked' = ask /\ outlived' = out /\ limited' = limited /\ state' = S!UNKNOWN
    BY <1>1 DEF S!reset_assumptions
  <2> HIDE DEF ask, out
  <2>3. UserCall({}, S!ConstraintLeft, ask, out)
    BY <2>1, <2>2, ApiLeft DEF UserCall
  <2> QED
    BY <2>1, <2>3, ApiLeft, InvCall
<1>2. CASE S!reset_constraint
  <2> DEFINE ask == [asked EXCEPT !.constraint = {}]
             out == [outlived EXCEPT !.constraint = {}]
  <2>1. /\ ask \in Asked /\ ask.constraint = {} /\ ask.assumptions = asked.assumptions
        /\ ask.limited = asked.limited
        /\ out \in Outlived /\ out.constraint = {} /\ out.assumptions = outlived.assumptions
    BY ApiLeft DEF Asked, Outlived, Constraints
  <2>2. /\ assumptions' = S!AssumptionsLeft /\ constraint' = {}
        /\ asked' = ask /\ outlived' = out /\ limited' = limited /\ state' = S!UNKNOWN
    BY <1>2 DEF S!reset_constraint
  <2> HIDE DEF ask, out
  <2>3. UserCall(S!AssumptionsLeft, {}, ask, out) /\ {} \in Constraints
    BY <2>1, <2>2, ApiLeft DEF UserCall, Constraints
  <2> QED
    BY <2>1, <2>3, ApiLeft, InvCall
<1> QED
  BY <1>1, <1>2

LEMMA InvLimit == ASSUME ApiInv, S!limit PROVE ApiInv'
<1> DEFINE ask == [asked EXCEPT !.limited = TRUE]
<1>1. /\ ask \in Asked /\ ask.assumptions = asked.assumptions /\ ask.constraint = asked.constraint
      /\ ask.limited = TRUE
  BY DEF ApiInv, ApiTyped, Asked
<1> HIDE DEF ask
<1>2. /\ asked' = ask /\ limited' = TRUE /\ state # S!SOLVING
      /\ UNCHANGED <<state, formula, assumptions, constraint, used, outlived>>
  BY StateNames DEF S!limit, ask
<1>3. S!AssumptionsLeft' = S!AssumptionsLeft /\ S!ConstraintLeft' = S!ConstraintLeft
  BY <1>2 DEF S!AssumptionsLeft, S!ConstraintLeft, S!Resets
<1> QED
  BY <1>1, <1>2, <1>3 DEF ApiInv, ApiTyped, AskedIsHeld, RequestedIsHeld

(* What lookahead keeps, and terminate, which keeps everything. *)
LEMMA InvLookahead == ASSUME ApiInv, S!lookahead PROVE ApiInv'
<1> DEFINE ask == [asked EXCEPT !.assumptions = {}, !.constraint = {}]
           out == [assumptions |-> S!AssumptionsLeft, constraint |-> S!ConstraintLeft]
<1>1. /\ ask \in Asked /\ ask.assumptions = {} /\ ask.constraint = {} /\ ask.limited = asked.limited
      /\ out \in Outlived /\ out.assumptions = S!AssumptionsLeft /\ out.constraint = S!ConstraintLeft
  BY ApiLeft DEF Asked, Outlived, Constraints
<1>2. asked' = ask /\ outlived' = out /\ UNCHANGED <<state, formula, assumptions, constraint, limited, used>>
  BY DEF S!lookahead, S!dataVars
<1>3. S!AssumptionsLeft' = S!AssumptionsLeft /\ S!ConstraintLeft' = S!ConstraintLeft
  BY <1>2 DEF S!AssumptionsLeft, S!ConstraintLeft, S!Resets
<1> HIDE DEF ask, out
<1> QED
  BY <1>1, <1>2, <1>3 DEF ApiInv, ApiTyped, AskedIsHeld, RequestedIsHeld

LEMMA InvTerminate == ASSUME ApiInv, S!terminate PROVE ApiInv'
BY DEF S!terminate, S!dataVars, ApiInv, ApiTyped, AskedIsHeld, RequestedIsHeld, S!AssumptionsLeft,
   S!ConstraintLeft, S!Resets

LEMMA InvSolve == ASSUME ApiInv, S!solve PROVE ApiInv'
<1>1. /\ state' = S!SOLVING
      /\ assumptions' = S!AssumptionsLeft /\ constraint' = S!ConstraintLeft
      /\ UNCHANGED <<formula, limited, asked, outlived>>
      /\ used' = [formula |-> formula, assumptions |-> S!AssumptionsLeft, constraint |-> S!ConstraintLeft,
                  limited |-> limited]
  BY DEF S!solve, S!LeaveAnswer
<1>2. /\ used'.formula = formula' /\ used'.assumptions = assumptions'
      /\ used'.constraint = constraint' /\ used'.limited = limited'
  BY <1>1
<1>3. ApiTyped'
  BY <1>1, ApiLeft DEF ApiInv, ApiTyped
<1>4. S!AssumptionsLeft' = S!AssumptionsLeft /\ S!ConstraintLeft' = S!ConstraintLeft
  <2>1. state' \notin Answered
    BY <1>1, StateNames
  <2> QED
    BY <1>1, <2>1 DEF S!AssumptionsLeft, S!ConstraintLeft, S!Resets, Answered
<1> QED
  BY <1>1, <1>2, <1>3, <1>4, ApiLeft DEF ApiInv, AskedIsHeld, RequestedIsHeld

LEMMA InvPoll == ASSUME ApiInv, S!Poll PROVE ApiInv'
<1>1. CASE S!GoOn
  BY <1>1 DEF S!Poll, S!GoOn, S!dataVars, ApiInv, ApiTyped, AskedIsHeld, RequestedIsHeld,
     S!AssumptionsLeft, S!ConstraintLeft, S!Resets
<1>2. CASE S!Return
  <2>1. /\ state = S!SOLVING /\ UNCHANGED <<formula, constraint, used>>
        /\ limited' = FALSE /\ asked' = S!Nothing
        /\ \/ /\ state' = S!UNKNOWN /\ assumptions' = {}
              /\ outlived' = [assumptions |-> {}, constraint |-> constraint]
           \/ state' \in Answered /\ assumptions' = assumptions /\ outlived' = S!NothingKept
    BY <1>2 DEF S!Poll, S!Return, Answered
  <2>2. /\ S!Nothing \in Asked /\ S!Nothing.assumptions = {} /\ S!Nothing.constraint = {}
        /\ S!Nothing.limited = FALSE
        /\ S!NothingKept \in Outlived /\ S!NothingKept.assumptions = {} /\ S!NothingKept.constraint = {}
    BY DEF S!Nothing, S!NothingKept, Asked, Outlived, Constraints
  <2>3. state' \in S!VALID /\ state' # S!SOLVING
    BY <2>1, StateNames DEF Answered
  <2>4. constraint \in Constraints /\ assumptions \in SUBSET UserLiterals
    BY DEF ApiInv, ApiTyped
  <2> DEFINE kept == [assumptions |-> {}, constraint |-> constraint]
  <2>k. kept \in Outlived
    BY <2>4 DEF Outlived
  <2>o. outlived' \in Outlived /\ assumptions' \in SUBSET UserLiterals
    <3> HIDE DEF kept
    <3>1. outlived' = kept \/ outlived' = S!NothingKept
      BY <2>1 DEF kept
    <3> QED
      BY <2>1, <2>2, <2>4, <2>k, <3>1
  <2>5. ApiTyped'
    BY <2>1, <2>2, <2>3, <2>4, <2>o DEF ApiTyped
  <2>6. AskedIsHeld'
    BY <2>1, StateNames DEF ApiInv, AskedIsHeld
  <2>7. CASE state' = S!UNKNOWN
    <3>1. state' \notin Answered
      BY <2>7, StateNames
    <3>2. assumptions' = {} /\ outlived'.assumptions = {} /\ outlived'.constraint = constraint'
      BY <2>1, <3>1
    <3>3. S!AssumptionsLeft' = {} /\ S!ConstraintLeft' = constraint'
      BY <3>1, <3>2 DEF S!AssumptionsLeft, S!ConstraintLeft, S!Resets, Answered
    <3> QED
      BY <2>1, <2>2, <2>3, <2>5, <2>6, <3>2, <3>3 DEF ApiInv, RequestedIsHeld
  <2>8. CASE state' \in Answered
    <3>1. outlived' = S!NothingKept
      BY <2>1, <2>8, StateNames
    <3>2. S!AssumptionsLeft' = {} /\ S!ConstraintLeft' = {}
      BY <2>8 DEF S!AssumptionsLeft, S!ConstraintLeft, S!Resets, Answered
    <3> QED
      BY <2>1, <2>2, <2>3, <2>5, <2>6, <3>1, <3>2 DEF ApiInv, RequestedIsHeld
  <2> QED
    BY <2>1, <2>7, <2>8
<1> QED
  BY <1>1, <1>2 DEF S!Poll

LEMMA InvApi == ASSUME ApiInv, S!Next PROVE ApiInv'
<1>1. ASSUME NEW lit \in UserLiterals, S!add(lit) \/ S!constrain(lit) \/ S!assume(lit)
      PROVE  ApiInv'
  BY <1>1, InvAdd, InvConstrain, InvAssume
<1>2. CASE S!constrain(0)
  BY <1>2, InvConstrain
<1> QED
  BY <1>1, <1>2, InvAdd, InvReset, InvLimit, InvLookahead, InvTerminate, InvSolve, InvPoll DEF S!Next

LEMMA InvInit == S!Init => ApiInv
<1> SUFFICES ASSUME S!Init PROVE ApiInv
  OBVIOUS
<1>1. /\ S!Nothing \in Asked /\ S!Nothing.assumptions = {} /\ S!Nothing.constraint = {}
      /\ S!Nothing.limited = FALSE
      /\ S!NothingKept \in Outlived /\ S!NothingKept.assumptions = {} /\ S!NothingKept.constraint = {}
  BY DEF S!Nothing, S!NothingKept, Asked, Outlived, Constraints
<1>2. S!AssumptionsLeft = {} /\ S!ConstraintLeft = {}
  BY DEF S!Init, S!AssumptionsLeft, S!ConstraintLeft
<1> QED
  BY <1>1, <1>2, StateNames DEF S!Init, ApiInv, ApiTyped, AskedIsHeld, RequestedIsHeld, Constraints

(* The other parts leave the variables of the API alone. *)
LEMMA InvOther == ASSUME ApiInv, UNCHANGED allVars PROVE ApiInv'
BY DEF allVars, vars, notInCdcl, result, bounds, queue, assigned, clauses,
   ApiInv, ApiTyped, AskedIsHeld, RequestedIsHeld, S!AssumptionsLeft, S!ConstraintLeft, S!Resets

(* Whatever is called between two calls of solve, in whatever order, also  *)
(* while a clause or a constraint is half given, and however the last one  *)
(* ended: solve runs under the assumptions, constraint and limits given    *)
(* since then, and, of the assumptions and constraint before, exactly      *)
(* under those lookahead or an interrupted solve kept; while the solver    *)
(* reports an answer, val and failed are about the formula, assumptions    *)
(* and constraint that answer is for.                                      *)
THEOREM AskedForOneSolve == MCSpec => []ForOneSolve
<1> DEFINE J == part = "Solver" => ApiInv
<1>1. MCInit => J
  <2> SUFFICES ASSUME MCInit, part = "Solver" PROVE ApiInv
    OBVIOUS
  <2>1. S!Init
    BY DEF MCInit
  <2> QED
    BY <2>1, InvInit
<1>2. J /\ [MCNext]_allVars => J'
  <2> SUFFICES ASSUME J, [MCNext]_allVars, part' = "Solver" PROVE ApiInv'
    OBVIOUS
  <2>1. part' = part
    BY DEF MCNext, CdclStep, MinisatStep, ElimStep, SolverStep, allVars
  <2>2. CASE SolverStep
    BY <2>1, <2>2, InvApi DEF SolverStep
  <2>3. CASE UNCHANGED allVars
    BY <2>1, <2>3, InvOther
  <2> QED
    BY <2>1, <2>2, <2>3 DEF MCNext, CdclStep, MinisatStep, ElimStep
<1>3. J => ForOneSolve
  <2> SUFFICES ASSUME ApiInv PROVE S!ForOneSolve
    BY DEF ForOneSolve
  <2>1. state = S!SOLVING => S!AssumptionsLeft = assumptions /\ S!ConstraintLeft = constraint
    BY StateNames DEF S!AssumptionsLeft, S!ConstraintLeft
  <2>2. S!RequestsForOneSolve
    BY <2>1 DEF ApiInv, AskedIsHeld, RequestedIsHeld, S!RequestsForOneSolve
  <2> QED
    BY <2>2 DEF S!ForOneSolve, ApiInv, AskedIsHeld, RequestedIsHeld, S!AnswerIsCurrent,
       S!LimitsForOneSolve, Answered
<1> HIDE DEF J
<1> QED
  BY <1>1, <1>2, <1>3, PTL DEF MCSpec

-----------------------------------------------------------------------------
(* A clause of the database: a sequence of different literals. *)
IsClause(c) ==
  c \in Seq(M!Lit) /\ Len(c) >= 2 /\ \A j, k \in DOMAIN c : c[j] = c[k] => j = k

DatabaseTyped ==
  /\ \E n \in Nat : M!Live \subseteq 1 .. n
  /\ \A i \in M!Live : IsClause(db[i])
  /\ learnts \subseteq M!Live

OtherTyped ==
  /\ todo \in Seq(SUBSET M!Lit) /\ formula \in SUBSET SUBSET M!Lit
  /\ ok \in BOOLEAN /\ qhead \in 0 .. Len(trail)
  /\ assumptions \in Seq(M!Lit)

(* The trail is divided into levels, one after another. *)
TrailOK(t, lim, vd) ==
  /\ t \in Seq(M!Lit)
  /\ \A j, k \in 1 .. Len(t) : M!VarOf(t[j]) = M!VarOf(t[k]) => j = k
  /\ lim \in Seq(Nat)
  /\ \A d \in 1 .. Len(lim) : lim[d] <= Len(t)
  /\ \A d, e \in 1 .. Len(lim) : d <= e => lim[d] <= lim[e]
  /\ vd \in [M!Var -> [level : Nat, reason : Nat]]
  /\ \A k \in 1 .. Len(t) :
       LET d == vd[M!VarOf(t[k])].level
       IN /\ d \in 0 .. Len(lim)
          /\ d > 0 => lim[d] < k
          /\ d < Len(lim) => k <= lim[d + 1]

(* A literal has a reason, whose other literals were false before, or is   *)
(* the first of its level.                                                 *)
ReasonOK(t, lim, vd, D, k) ==
  LET x == vd[M!VarOf(t[k])]
  IN /\ x.reason # 0 =>
          /\ x.reason \in DOMAIN D /\ D[x.reason][1] = t[k]
          /\ \A q \in M!ToClause(D[x.reason]) \ {t[k]} : \E j \in 1 .. k - 1 : t[j] = -q
     /\ x.reason = 0 /\ x.level > 0 => k = lim[x.level] + 1

ReasonsOK(t, lim, vd, D) == \A k \in 1 .. Len(t) : ReasonOK(t, lim, vd, D, k)

Control ==
  /\ pc \in {"idle", "adding", "search", "analyze"} /\ status \in {"none", "sat", "unsat"}
  /\ pc \in {"idle", "adding"} => trail_lim = <<>>
  /\ pc \in {"idle", "analyze"} => visit = {} /\ confl = 0
  /\ pc # "idle" => ok
  /\ pc = "adding" => status = "none"
  /\ pc \in {"search", "analyze"} => conflict = {}
  /\ pc = "idle" /\ ok => qhead = Len(trail)

Propagation ==
  /\ confl # 0 => confl \in M!Live /\ visit = {} /\ qhead = Len(trail)
  /\ M!decisionLevel > 0 => trail_lim[M!decisionLevel] <= qhead
  /\ visit # {} => qhead > 0 /\ (M!decisionLevel > 0 => trail_lim[M!decisionLevel] < qhead)
  /\ \A i \in visit : i \in M!Live /\ -trail[qhead] \in {db[i][1], db[i][2]}

(* The watchers of the literal at k have been visited; a conflict leaves   *)
(* those of the last level unfinished.                                     *)
Visited(k, i) ==
  IF pc = "analyze" \/ confl # 0 THEN M!decisionLevel > 0 /\ k <= trail_lim[M!decisionLevel]
  ELSE k < qhead \/ (k = qhead /\ i \notin visit)

Watched ==
  ok => \A i \in M!Live, k \in 1 .. Len(trail) :
          -trail[k] \in {db[i][1], db[i][2]} /\ Visited(k, i) =>
            \E j \in 1 .. Len(trail) : trail[j] \in M!ToClause(db[i]) /\ M!level(trail[j]) <= M!level(trail[k])

InConflict ==
  confl # 0 => /\ M!ToClause(db[confl]) \subseteq M!False
               /\ \E q \in M!ToClause(db[confl]) : M!level(q) = M!decisionLevel

Analyzing ==
  pc = "analyze" => /\ M!decisionLevel > 0 /\ out_learnt \subseteq M!False
                    /\ \A q \in out_learnt : M!level(q) > 0
                    /\ M!Current(out_learnt) # {}

(* The levels of the assumptions. *)
Assumed ==
  pc \in {"search", "analyze"} => \A d \in 1 .. M!decisionLevel : d <= Len(assumptions) =>
    /\ assumptions[d] \in M!True /\ M!level(assumptions[d]) <= d
    /\ \A k \in 1 .. Len(trail) : M!level(trail[k]) = d /\ M!reason(trail[k]) = 0 => trail[k] = assumptions[d]

(* What every model of the formula has. *)
Derived ==
  \A m \in M!Models(formula) :
    /\ ok
    /\ \A i \in M!Live : m \cap M!ToClause(db[i]) # {}
    /\ \A k \in 1 .. Len(trail) : M!level(trail[k]) = 0 => trail[k] \in m
    /\ pc = "analyze" => m \cap out_learnt # {}

(* What the clauses and the literals of level 0 ensure. *)
Covered ==
  ok => \A c \in formula :
          \/ M!Tautology(c)
          \/ \E k \in 1 .. Len(trail) : trail[k] \in c /\ M!level(trail[k]) = 0
          \/ \E i \in M!Live \ learnts : M!ToClause(db[i]) \subseteq c

AnswerKept ==
  pc = "idle" =>
    /\ status = "sat" => model \in M!Models(formula) /\ M!ToClause(assumptions) \subseteq model
    /\ status = "unsat" => /\ conflict \subseteq M!Negated(M!ToClause(assumptions))
                           /\ \A m \in M!Models(formula) : m \cap conflict # {}

Typed == DatabaseTyped /\ OtherTyped
Trail == TrailOK(trail, trail_lim, vardata) /\ ReasonsOK(trail, trail_lim, vardata, db)
Search == Control /\ Propagation /\ Watched /\ InConflict /\ Analyzing /\ Assumed
MinisatInv == Typed /\ Trail /\ Search /\ Derived /\ Covered /\ AnswerKept
-----------------------------------------------------------------------------
(* The solver's clauses are over the literals of the formula, and count    *)
(* them, as elsewhere.                                                     *)
LEMMA SameNotions ==
  /\ M!Lit = Lit
  /\ \A Z : M!Cardinality(Z) = Cardinality(Z)
<1>1. M!Lit = Lit
  BY DEF M!Lit, Lit
<1>2. ASSUME NEW Z PROVE M!Cardinality(Z) = Cardinality(Z)
  BY DEF M!Cardinality, Cardinality
<1> QED
  BY <1>1, <1>2

LEMMA InputsTyped ==
  (\A s \in Inputs : s \in Seq(SUBSET M!Lit)) /\ \A s \in Assumptions : s \in Seq(M!Lit)
BY InputsAssumption, SameNotions

LEMMA LitFacts ==
  /\ \A l \in M!Lit : -l \in M!Lit /\ -l # l /\ -(-l) = l /\ M!VarOf(l) \in M!Var /\ M!VarOf(-l) = M!VarOf(l)
  /\ \A l \in M!Lit : l = M!VarOf(l) \/ l = -M!VarOf(l)
  /\ \A k, l \in M!Lit : M!VarOf(k) = M!VarOf(l) => k = l \/ k = -l
  /\ \A v \in M!Var : v \in M!Lit /\ -v \in M!Lit /\ M!VarOf(v) = v /\ M!VarOf(-v) = v
BY NAssumption DEF M!Lit, M!Var, M!VarOf

LEMMA LitFinite == IsFiniteSet(M!Lit) /\ \A c \in SUBSET M!Lit : IsFiniteSet(c)
<1>1. N \in Nat /\ -N \in Int
  BY NAssumption
<1>2. IsFiniteSet(-N .. N)
  BY <1>1, FS_Interval
<1>3. M!Lit \in SUBSET (-N .. N)
  BY DEF M!Lit
<1>4. IsFiniteSet(M!Lit)
  BY <1>2, <1>3, FS_Subset
<1> QED
  BY <1>4, FS_Subset

(* A total assignment has exactly one of a literal and its negation. *)
LEMMA TotalIs ==
  ASSUME NEW a
  PROVE  a \in M!Total <=> a \in SUBSET M!Lit /\ \A l \in M!Lit : l \in a <=> -l \notin a
<1>1. ASSUME a \in M!Total PROVE a \in SUBSET M!Lit /\ \A l \in M!Lit : l \in a <=> -l \notin a
  <2>1. PICK b \in [M!Var -> BOOLEAN] : a = {IF b[v] THEN v ELSE -v : v \in M!Var}
    BY <1>1 DEF M!Total
  <2>2. \A v \in M!Var : (v \in a <=> b[v]) /\ (-v \in a <=> ~b[v])
    <3> SUFFICES ASSUME NEW v \in M!Var PROVE (v \in a <=> b[v]) /\ (-v \in a <=> ~b[v])
      OBVIOUS
    <3>1. \A w \in M!Var : (IF b[w] THEN w ELSE -w) = v => w = v
      BY NAssumption DEF M!Var
    <3>2. \A w \in M!Var : (IF b[w] THEN w ELSE -w) = -v => w = v
      BY NAssumption DEF M!Var
    <3>3. v # -v
      BY NAssumption DEF M!Var
    <3> QED
      BY <2>1, <3>1, <3>2, <3>3
  <2>3. a \in SUBSET M!Lit
    BY <2>1, LitFacts
  <2>4. \A l \in M!Lit : \E v \in M!Var : (l = v /\ -l = -v) \/ (l = -v /\ -l = v)
    BY LitFacts
  <2> QED
    BY <2>2, <2>3, <2>4
<1>2. ASSUME a \in SUBSET M!Lit, \A l \in M!Lit : l \in a <=> -l \notin a PROVE a \in M!Total
  <2> DEFINE b == [v \in M!Var |-> v \in a]
  <2>1. b \in [M!Var -> BOOLEAN]
    OBVIOUS
  <2>2. \A v \in M!Var : (IF b[v] THEN v ELSE -v) \in a
    BY <1>2, LitFacts
  <2>3. \A l \in a : \E v \in M!Var : l = IF b[v] THEN v ELSE -v
    <3> SUFFICES ASSUME NEW l \in a PROVE \E v \in M!Var : l = IF b[v] THEN v ELSE -v
      OBVIOUS
    <3>1. l \in M!Lit /\ M!VarOf(l) \in M!Var /\ (l = M!VarOf(l) \/ l = -M!VarOf(l))
      BY <1>2, LitFacts
    <3>2. l = -M!VarOf(l) => -l = M!VarOf(l)
      BY <3>1, LitFacts
    <3> QED
      BY <1>2, <3>1, <3>2
  <2>4. a = {IF b[v] THEN v ELSE -v : v \in M!Var}
    BY <2>2, <2>3
  <2> QED
    BY <2>1, <2>4 DEF M!Total
<1> QED
  BY <1>1, <1>2
LEMMA TotalHas == \A a \in M!Total : a \in SUBSET M!Lit /\ \A l \in M!Lit : l \in a <=> -l \notin a
BY TotalIs

LEMMA TotalIf == \A a \in SUBSET M!Lit : (\A l \in M!Lit : l \in a <=> -l \notin a) => a \in M!Total
BY TotalIs

(* A total assignment satisfies a tautology. *)
LEMMA TautologyHolds ==
  ASSUME NEW a \in M!Total, NEW c \in SUBSET M!Lit, M!Tautology(c) PROVE a \cap c # {}
BY TotalHas DEF M!Tautology

LEMMA NegatedType == \A c \in SUBSET M!Lit : M!Negated(c) \in SUBSET M!Lit /\ \A l \in M!Lit : l \in M!Negated(c) <=> -l \in c
<1> SUFFICES ASSUME NEW c \in SUBSET M!Lit
             PROVE  M!Negated(c) \in SUBSET M!Lit /\ \A l \in M!Lit : l \in M!Negated(c) <=> -l \in c
  OBVIOUS
<1>1. M!Negated(c) \in SUBSET M!Lit
  BY LitFacts DEF M!Negated
<1>2. ASSUME NEW l \in M!Lit, l \in M!Negated(c) PROVE -l \in c
  BY <1>2, LitFacts DEF M!Negated
<1>3. ASSUME NEW l \in M!Lit, -l \in c PROVE l \in M!Negated(c)
  <2>1. l = -(-l)
    BY LitFacts
  <2> QED
    BY <1>3, <2>1 DEF M!Negated
<1> QED
  BY <1>1, <1>2, <1>3

-----------------------------------------------------------------------------
LEMMA TrailFacts ==
  ASSUME NEW t, NEW lim, NEW vd, TrailOK(t, lim, vd)
  PROVE  /\ Len(t) \in Nat /\ Len(lim) \in Nat /\ DOMAIN t = 1 .. Len(t) /\ DOMAIN lim = 1 .. Len(lim)
         /\ \A k \in 1 .. Len(t) : t[k] \in M!Lit /\ -t[k] \in M!Lit /\ M!VarOf(t[k]) \in M!Var
         /\ \A v \in M!Var : vd[v].level \in Nat /\ vd[v].reason \in Nat
         /\ \A d \in 1 .. Len(lim) : lim[d] \in Nat /\ lim[d] <= Len(t)
         /\ \A k \in 1 .. Len(t) : vd[M!VarOf(t[k])].level \in 0 .. Len(lim)
BY LitFacts DEF TrailOK

(* Levels along the trail. *)
LEMMA TrailMonotone ==
  ASSUME NEW t, NEW lim, NEW vd, TrailOK(t, lim, vd), NEW j \in 1 .. Len(t), NEW k \in 1 .. Len(t), j <= k
  PROVE  vd[M!VarOf(t[j])].level <= vd[M!VarOf(t[k])].level
<1> DEFINE a == vd[M!VarOf(t[j])].level
<1> DEFINE b == vd[M!VarOf(t[k])].level
<1>1. a \in 0 .. Len(lim) /\ b \in 0 .. Len(lim) /\ Len(lim) \in Nat /\ Len(t) \in Nat
  BY TrailFacts
<1>2. a > 0 => lim[a] < j
  BY DEF TrailOK
<1>3. b < Len(lim) => k <= lim[b + 1]
  BY DEF TrailOK
<1>4. \A d, e \in 1 .. Len(lim) : d <= e => lim[d] <= lim[e]
  BY DEF TrailOK
<1>5. \A d \in 1 .. Len(lim) : lim[d] \in Nat
  BY TrailFacts
<1> HIDE DEF a, b
<1>6. ASSUME b < a PROVE FALSE
  <2>1. a \in 1 .. Len(lim) /\ b + 1 \in 1 .. Len(lim) /\ b + 1 <= a
    BY <1>1, <1>6
  <2>2. lim[b + 1] <= lim[a] /\ lim[a] < j /\ k <= lim[b + 1]
    BY <1>1, <1>2, <1>3, <1>4, <1>6, <2>1
  <2> QED
    BY <1>5, <2>1, <2>2
<1>7. a <= b
  BY <1>1, <1>6
<1> QED
  BY <1>7 DEF a, b

LEMMA TrailData ==
  ASSUME NEW t, NEW lim, NEW vd, TrailOK(t, lim, vd), NEW w \in [M!Var -> [level : Nat, reason : Nat]],
         \A k \in 1 .. Len(t) : w[M!VarOf(t[k])].level = vd[M!VarOf(t[k])].level
  PROVE  TrailOK(t, lim, w)
BY DEF TrailOK

LEMMA SubSeqIs ==
  ASSUME NEW Z, NEW s \in Seq(Z), NEW n \in 0 .. Len(s)
  PROVE  /\ SubSeq(s, 1, n) \in Seq(Z) /\ Len(SubSeq(s, 1, n)) = n
         /\ \A k \in 1 .. n : SubSeq(s, 1, n)[k] = s[k]
OBVIOUS

IsCut(t, lim, vd, d, n, u, c) ==
  /\ n \in 0 .. Len(t) /\ Len(u) = n /\ Len(c) = d
  /\ \A k \in 1 .. n : u[k] = t[k]
  /\ \A e \in 1 .. d : c[e] = lim[e]
  /\ \A k \in 1 .. Len(t) : vd[M!VarOf(t[k])].level <= d <=> k <= n

LEMMA TrailCut ==
  ASSUME NEW t, NEW lim, NEW vd, TrailOK(t, lim, vd), NEW d \in 0 .. Len(lim) - 1, NEW n, n = lim[d + 1],
         NEW u, u = SubSeq(t, 1, n), NEW c, c = SubSeq(lim, 1, d)
  PROVE  TrailOK(u, c, vd) /\ IsCut(t, lim, vd, d, n, u, c)
<1>1. /\ Len(t) \in Nat /\ Len(lim) \in Nat /\ d \in Nat /\ d + 1 \in 1 .. Len(lim) /\ n \in Nat /\ n <= Len(t)
      /\ n \in 0 .. Len(t) /\ d \in 0 .. Len(lim)
  BY TrailFacts
<1>2. t \in Seq(M!Lit) /\ lim \in Seq(Nat)
  BY DEF TrailOK
<1>3. u \in Seq(M!Lit) /\ Len(u) = n /\ \A k \in 1 .. n : u[k] = t[k]
  BY <1>1, <1>2, SubSeqIs
<1>4. c \in Seq(Nat) /\ Len(c) = d /\ \A e \in 1 .. d : c[e] = lim[e]
  BY <1>1, <1>2, SubSeqIs
<1>5. \A e, f \in 1 .. Len(lim) : e <= f => lim[e] <= lim[f]
  BY DEF TrailOK
<1>6. \A k \in 1 .. Len(t) :
        LET x == vd[M!VarOf(t[k])].level
        IN x \in 0 .. Len(lim) /\ (x > 0 => lim[x] < k) /\ (x < Len(lim) => k <= lim[x + 1])
  BY DEF TrailOK
<1>7. \A e \in 1 .. Len(lim) : lim[e] \in Nat
  BY TrailFacts
<1>8. ASSUME NEW k \in 1 .. Len(t) PROVE vd[M!VarOf(t[k])].level <= d <=> k <= n
  <2> DEFINE x == vd[M!VarOf(t[k])].level
  <2>1. x \in 0 .. Len(lim) /\ (x > 0 => lim[x] < k) /\ (x < Len(lim) => k <= lim[x + 1])
    BY <1>6
  <2> HIDE DEF x
  <2>2. ASSUME x <= d PROVE k <= n
    <3>1. x + 1 \in 1 .. Len(lim) /\ x + 1 <= d + 1 /\ x < Len(lim)
      BY <1>1, <2>1, <2>2
    <3>2. lim[x + 1] <= lim[d + 1]
      BY <1>1, <1>5, <3>1
    <3> QED
      BY <1>1, <1>7, <2>1, <3>1, <3>2
  <2>3. ASSUME ~(x <= d) PROVE ~(k <= n)
    <3>1. x \in 1 .. Len(lim) /\ d + 1 <= x /\ x > 0
      BY <1>1, <2>1, <2>3
    <3>2. lim[d + 1] <= lim[x]
      BY <1>1, <1>5, <3>1
    <3> QED
      BY <1>1, <1>7, <2>1, <3>1, <3>2
  <2> QED
    BY <2>2, <2>3 DEF x
<1>9. \A j, k \in 1 .. Len(u) : M!VarOf(u[j]) = M!VarOf(u[k]) => j = k
  <2>1. \A j, k \in 1 .. Len(t) : M!VarOf(t[j]) = M!VarOf(t[k]) => j = k
    BY DEF TrailOK
  <2> SUFFICES ASSUME NEW j \in 1 .. n, NEW k \in 1 .. n, M!VarOf(u[j]) = M!VarOf(u[k]) PROVE j = k
    BY <1>3
  <2>2. j \in 1 .. Len(t) /\ k \in 1 .. Len(t) /\ u[j] = t[j] /\ u[k] = t[k]
    BY <1>1, <1>3
  <2> QED
    BY <2>1, <2>2
<1>10. \A e \in 1 .. Len(c) : c[e] <= Len(u)
  <2> SUFFICES ASSUME NEW e \in 1 .. d PROVE lim[e] <= lim[d + 1]
    BY <1>3, <1>4
  <2> QED
    BY <1>1, <1>5
<1>11. \A e, f \in 1 .. Len(c) : e <= f => c[e] <= c[f]
  <2> SUFFICES ASSUME NEW e \in 1 .. d, NEW f \in 1 .. d, e <= f PROVE c[e] <= c[f]
    BY <1>4
  <2>1. e \in 1 .. Len(lim) /\ f \in 1 .. Len(lim) /\ c[e] = lim[e] /\ c[f] = lim[f]
    BY <1>1, <1>4
  <2> QED
    BY <1>5, <2>1
<1>12. ASSUME NEW k \in 1 .. Len(u)
       PROVE  LET x == vd[M!VarOf(u[k])].level
              IN x \in 0 .. Len(c) /\ (x > 0 => c[x] < k) /\ (x < Len(c) => k <= c[x + 1])
  <2> DEFINE x == vd[M!VarOf(t[k])].level
  <2>1. k \in 1 .. Len(t) /\ u[k] = t[k] /\ k <= n
    BY <1>1, <1>3
  <2>2. x \in 0 .. Len(lim) /\ (x > 0 => lim[x] < k) /\ (x < Len(lim) => k <= lim[x + 1]) /\ x <= d
    BY <1>6, <1>8, <2>1
  <2> HIDE DEF x
  <2>3. x \in 0 .. Len(c) /\ (x > 0 => c[x] < k) /\ (x < Len(c) => k <= c[x + 1])
    BY <1>1, <1>4, <2>2
  <2> QED
    BY <2>1, <2>3 DEF x
<1>13. vd \in [M!Var -> [level : Nat, reason : Nat]]
  BY DEF TrailOK
<1>14. TrailOK(u, c, vd)
  BY <1>3, <1>4, <1>9, <1>10, <1>11, <1>12, <1>13 DEF TrailOK
<1> QED
  BY <1>1, <1>3, <1>4, <1>8, <1>14 DEF IsCut
LEMMA AppendIs ==
  ASSUME NEW Z, NEW s \in Seq(Z), NEW x \in Z
  PROVE  /\ Append(s, x) \in Seq(Z) /\ Len(Append(s, x)) = Len(s) + 1 /\ Len(s) \in Nat
         /\ \A k \in 1 .. Len(s) : Append(s, x)[k] = s[k]
         /\ Append(s, x)[Len(s) + 1] = x
OBVIOUS

Fits(t, vd, w) ==
  /\ w \in [M!Var -> [level : Nat, reason : Nat]]
  /\ \A k \in 1 .. Len(t) : w[M!VarOf(t[k])] = vd[M!VarOf(t[k])]

IsPush(t, l, u) == Len(u) = Len(t) + 1 /\ u[Len(t) + 1] = l /\ \A k \in 1 .. Len(t) : u[k] = t[k]

Unassigned(t, l) == \A k \in 1 .. Len(t) : M!VarOf(t[k]) # M!VarOf(l)

LEMMA TrailPush ==
  ASSUME NEW t, NEW lim, NEW vd, TrailOK(t, lim, vd), NEW l \in M!Lit, Unassigned(t, l),
         NEW w, Fits(t, vd, w), w[M!VarOf(l)].level = Len(lim),
         NEW u, u = Append(t, l)
  PROVE  TrailOK(u, lim, w) /\ IsPush(t, l, u)
<1> DEFINE n == Len(t)
<1>1. t \in Seq(M!Lit) /\ lim \in Seq(Nat)
  BY DEF TrailOK
<1>2. u \in Seq(M!Lit) /\ Len(u) = n + 1 /\ n \in Nat /\ u[n + 1] = l /\ \A k \in 1 .. n : u[k] = t[k]
  BY <1>1, AppendIs
<1>3. \A j, k \in 1 .. n : M!VarOf(t[j]) = M!VarOf(t[k]) => j = k
  BY DEF TrailOK
<1>4. \A k \in 1 .. n : M!VarOf(t[k]) # M!VarOf(l)
  BY DEF Unassigned
<1>5. \A d \in 1 .. Len(lim) : lim[d] <= n /\ lim[d] \in Nat
  BY TrailFacts
<1>6. \A k \in 1 .. n :
        LET x == vd[M!VarOf(t[k])].level
        IN x \in 0 .. Len(lim) /\ (x > 0 => lim[x] < k) /\ (x < Len(lim) => k <= lim[x + 1])
  BY DEF TrailOK
<1>7. \A k \in 1 .. n : w[M!VarOf(t[k])] = vd[M!VarOf(t[k])]
  BY DEF Fits
<1>8. Len(lim) \in Nat
  BY TrailFacts
<1> HIDE DEF n
<1>9. \A k \in 1 .. n + 1 : k = n + 1 \/ k \in 1 .. n
  BY <1>2
<1>10. \A j, k \in 1 .. Len(u) : M!VarOf(u[j]) = M!VarOf(u[k]) => j = k
  <2> SUFFICES ASSUME NEW j \in 1 .. n + 1, NEW k \in 1 .. n + 1, M!VarOf(u[j]) = M!VarOf(u[k]) PROVE j = k
    BY <1>2
  <2> QED
    BY <1>2, <1>3, <1>4, <1>9
<1>11. \A d \in 1 .. Len(lim) : lim[d] <= Len(u)
  BY <1>2, <1>5
<1>12. ASSUME NEW k \in 1 .. Len(u)
       PROVE  LET x == w[M!VarOf(u[k])].level
              IN x \in 0 .. Len(lim) /\ (x > 0 => lim[x] < k) /\ (x < Len(lim) => k <= lim[x + 1])
  <2>1. CASE k \in 1 .. n
    BY <1>2, <1>6, <1>7, <2>1
  <2>2. CASE k = n + 1
    <3> DEFINE x == w[M!VarOf(u[k])].level
    <3>1. x = Len(lim)
      BY <1>2, <2>2
    <3> HIDE DEF x
    <3>2. x \in 0 .. Len(lim) /\ (x > 0 => lim[x] < k) /\ (x < Len(lim) => k <= lim[x + 1])
      BY <1>2, <1>5, <1>8, <2>2, <3>1
    <3> QED
      BY <3>2 DEF x
  <2> QED
    BY <1>2, <1>9, <2>1, <2>2
<1>13. TrailOK(u, lim, w)
  <2>1. \A d, e \in 1 .. Len(lim) : d <= e => lim[d] <= lim[e]
    BY DEF TrailOK
  <2>2. w \in [M!Var -> [level : Nat, reason : Nat]]
    BY DEF Fits
  <2> HIDE DEF Fits
  <2> QED
    BY <1>1, <1>2, <1>10, <1>11, <1>12, <2>1, <2>2 DEF TrailOK
<1> QED
  BY <1>2, <1>13 DEF n, IsPush

LEMMA TrailLevel ==
  ASSUME NEW t, NEW lim, NEW vd, TrailOK(t, lim, vd), NEW c, c = Append(lim, Len(t))
  PROVE  TrailOK(t, c, vd) /\ IsPush(lim, Len(t), c)
<1> DEFINE n == Len(lim)
<1>1. t \in Seq(M!Lit) /\ lim \in Seq(Nat) /\ Len(t) \in Nat
  BY TrailFacts DEF TrailOK
<1>2. c \in Seq(Nat) /\ Len(c) = n + 1 /\ n \in Nat /\ c[n + 1] = Len(t) /\ \A d \in 1 .. n : c[d] = lim[d]
  BY <1>1, AppendIs
<1>3. \A d \in 1 .. n : lim[d] <= Len(t) /\ lim[d] \in Nat
  BY TrailFacts
<1>4. \A k \in 1 .. Len(t) :
        LET x == vd[M!VarOf(t[k])].level
        IN x \in 0 .. n /\ (x > 0 => lim[x] < k) /\ (x < n => k <= lim[x + 1])
  BY DEF TrailOK
<1>5. \A d, e \in 1 .. n : d <= e => lim[d] <= lim[e]
  BY DEF TrailOK
<1>6. \A j, k \in 1 .. Len(t) : M!VarOf(t[j]) = M!VarOf(t[k]) => j = k
  BY DEF TrailOK
<1>7. vd \in [M!Var -> [level : Nat, reason : Nat]]
  BY DEF TrailOK
<1> HIDE DEF n
<1>8. \A k \in 1 .. n + 1 : k = n + 1 \/ k \in 1 .. n
  BY <1>2
<1>9. \A d \in 1 .. Len(c) : c[d] <= Len(t)
  BY <1>1, <1>2, <1>3, <1>8
<1>10. \A d, e \in 1 .. Len(c) : d <= e => c[d] <= c[e]
  <2> SUFFICES ASSUME NEW d \in 1 .. n + 1, NEW e \in 1 .. n + 1, d <= e PROVE c[d] <= c[e]
    BY <1>2
  <2>1. CASE e = n + 1
    BY <1>2, <1>9, <2>1
  <2>2. CASE e \in 1 .. n
    <3>1. d \in 1 .. n
      BY <1>2, <2>2
    <3> QED
      BY <1>2, <1>5, <2>2, <3>1
  <2> QED
    BY <1>8, <2>1, <2>2
<1>11. ASSUME NEW k \in 1 .. Len(t)
       PROVE  LET x == vd[M!VarOf(t[k])].level
              IN x \in 0 .. Len(c) /\ (x > 0 => c[x] < k) /\ (x < Len(c) => k <= c[x + 1])
  <2> DEFINE x == vd[M!VarOf(t[k])].level
  <2>1. x \in 0 .. n /\ (x > 0 => lim[x] < k) /\ (x < n => k <= lim[x + 1])
    BY <1>4
  <2> HIDE DEF x
  <2>2. x \in 0 .. Len(c) /\ (x > 0 => c[x] < k) /\ (x < Len(c) => k <= c[x + 1])
    <3>1. CASE x = n
      BY <1>1, <1>2, <2>1, <3>1
    <3>2. CASE x < n
      BY <1>2, <2>1, <3>2
    <3> QED
      BY <1>2, <2>1, <3>1, <3>2
  <2> QED
    BY <2>2 DEF x
<1>12. TrailOK(t, c, vd)
  BY <1>1, <1>2, <1>6, <1>7, <1>9, <1>10, <1>11 DEF TrailOK
<1> QED
  BY <1>2, <1>12 DEF n, IsPush
(* Reasons of what is kept of the trail. *)
KeptBelow(t, lim, vd, n, u, c, w) ==
  \A k \in 1 .. n :
    /\ u[k] = t[k] /\ w[M!VarOf(t[k])] = vd[M!VarOf(t[k])]
    /\ vd[M!VarOf(t[k])].level > 0 => c[vd[M!VarOf(t[k])].level] = lim[vd[M!VarOf(t[k])].level]

ReasonClausesKept(t, vd, D, n, W) ==
  \A k \in 1 .. n : LET r == vd[M!VarOf(t[k])].reason
                    IN r # 0 => r \in DOMAIN W /\ W[r][1] = D[r][1] /\ M!ToClause(W[r]) = M!ToClause(D[r])

LEMMA ReasonsKept ==
  ASSUME NEW t, NEW lim, NEW vd, NEW D, TrailOK(t, lim, vd), ReasonsOK(t, lim, vd, D),
         NEW n \in 0 .. Len(t), NEW u, NEW c, NEW w, NEW W,
         KeptBelow(t, lim, vd, n, u, c, w), ReasonClausesKept(t, vd, D, n, W)
  PROVE  \A k \in 1 .. n : ReasonOK(u, c, w, W, k)
<1> SUFFICES ASSUME NEW k \in 1 .. n PROVE ReasonOK(u, c, w, W, k)
  OBVIOUS
<1> DEFINE x == vd[M!VarOf(t[k])]
<1> DEFINE r == x.reason
<1>1. k \in 1 .. Len(t) /\ Len(t) \in Nat /\ n \in Nat
  BY TrailFacts
<1>2. /\ r # 0 => /\ r \in DOMAIN D /\ D[r][1] = t[k]
                  /\ \A q \in M!ToClause(D[r]) \ {t[k]} : \E j \in 1 .. k - 1 : t[j] = -q
      /\ r = 0 /\ x.level > 0 => k = lim[x.level] + 1
  BY <1>1 DEF ReasonsOK, ReasonOK
<1>3. u[k] = t[k] /\ w[M!VarOf(u[k])] = x
  BY DEF KeptBelow
<1>4. \A j \in 1 .. k - 1 : u[j] = t[j]
  BY <1>1 DEF KeptBelow
<1>5. r # 0 => r \in DOMAIN W /\ W[r][1] = D[r][1] /\ M!ToClause(W[r]) = M!ToClause(D[r])
  BY DEF ReasonClausesKept
<1>6. x.level > 0 => c[x.level] = lim[x.level]
  BY DEF KeptBelow
<1> HIDE DEF x
<1>7. r # 0 => /\ r \in DOMAIN W /\ W[r][1] = t[k]
               /\ \A q \in M!ToClause(W[r]) \ {t[k]} : \E j \in 1 .. k - 1 : u[j] = -q
  BY <1>2, <1>4, <1>5
<1>8. r = 0 /\ x.level > 0 => k = c[x.level] + 1
  BY <1>2, <1>6
<1> QED
  BY <1>3, <1>7, <1>8 DEF ReasonOK

(* What cancelUntil keeps. *)
LEMMA ReasonsCut ==
  ASSUME NEW t, NEW lim, NEW vd, NEW D, TrailOK(t, lim, vd), ReasonsOK(t, lim, vd, D),
         NEW d \in 0 .. Len(lim) - 1, NEW n, n = lim[d + 1],
         NEW u, u = SubSeq(t, 1, n), NEW c, c = SubSeq(lim, 1, d), NEW w, Fits(u, vd, w)
  PROVE  TrailOK(u, c, w) /\ ReasonsOK(u, c, w, D)
<1>0. TrailOK(u, c, vd) /\ IsCut(t, lim, vd, d, n, u, c)
  BY TrailCut
<1>1. /\ TrailOK(u, c, vd) /\ n \in 0 .. Len(t) /\ Len(u) = n /\ Len(c) = d
      /\ \A k \in 1 .. n : u[k] = t[k]
      /\ \A e \in 1 .. d : c[e] = lim[e]
      /\ \A k \in 1 .. Len(t) : vd[M!VarOf(t[k])].level <= d <=> k <= n
  BY <1>0 DEF IsCut
<1>2. \A k \in 1 .. n : w[M!VarOf(t[k])] = vd[M!VarOf(t[k])]
  BY <1>1 DEF Fits
<1>3. TrailOK(u, c, w)
  <2>1. w \in [M!Var -> [level : Nat, reason : Nat]] /\ \A k \in 1 .. Len(u) : w[M!VarOf(u[k])].level = vd[M!VarOf(u[k])].level
    BY DEF Fits
  <2> QED
    BY <1>1, <2>1, TrailData
<1>4. ASSUME NEW k \in 1 .. n, vd[M!VarOf(t[k])].level > 0
      PROVE  c[vd[M!VarOf(t[k])].level] = lim[vd[M!VarOf(t[k])].level]
  <2> DEFINE x == vd[M!VarOf(t[k])].level
  <2>1. k \in 1 .. Len(t) /\ k <= n /\ Len(t) \in Nat /\ d \in Nat
    BY <1>1, TrailFacts
  <2>2. x \in Nat /\ x <= d /\ x > 0
    BY <1>1, <1>4, <2>1, TrailFacts
  <2> HIDE DEF x
  <2>3. x \in 1 .. d
    BY <2>1, <2>2
  <2>4. c[x] = lim[x]
    BY <1>1, <2>3
  <2> QED
    BY <2>4 DEF x
<1>5. ASSUME NEW k \in 1 .. n, vd[M!VarOf(t[k])].reason # 0 PROVE vd[M!VarOf(t[k])].reason \in DOMAIN D
  <2>1. k \in 1 .. Len(t)
    BY <1>1, TrailFacts
  <2> QED
    BY <1>5, <2>1 DEF ReasonsOK, ReasonOK
<1>6. KeptBelow(t, lim, vd, n, u, c, w) /\ ReasonClausesKept(t, vd, D, n, D)
  BY <1>1, <1>2, <1>4, <1>5 DEF KeptBelow, ReasonClausesKept
<1>7. \A k \in 1 .. n : ReasonOK(u, c, w, D, k)
  BY <1>1, <1>6, ReasonsKept
<1> QED
  BY <1>1, <1>3, <1>7 DEF ReasonsOK

(* A literal that is implied by a clause, or decided at a new level. *)
ImpliedBy(t, lim, l, r, W) ==
  /\ r # 0 => /\ r \in DOMAIN W /\ W[r][1] = l
              /\ \A q \in M!ToClause(W[r]) \ {l} : \E j \in 1 .. Len(t) : t[j] = -q
  /\ r = 0 /\ Len(lim) > 0 => Len(t) = lim[Len(lim)]

LEMMA ReasonsPush ==
  ASSUME NEW t, NEW lim, NEW vd, NEW D, TrailOK(t, lim, vd), ReasonsOK(t, lim, vd, D),
         NEW l \in M!Lit, Unassigned(t, l),
         NEW w, Fits(t, vd, w), w[M!VarOf(l)].level = Len(lim), NEW u, u = Append(t, l), NEW W,
         ReasonClausesKept(t, vd, D, Len(t), W), ImpliedBy(t, lim, l, w[M!VarOf(l)].reason, W)
  PROVE  TrailOK(u, lim, w) /\ ReasonsOK(u, lim, w, W)
<1> DEFINE n == Len(t)
<1> DEFINE r == w[M!VarOf(l)].reason
<1>0. TrailOK(u, lim, w) /\ IsPush(t, l, u)
  BY TrailPush
<1>1. /\ TrailOK(u, lim, w) /\ Len(u) = n + 1 /\ u[n + 1] = l
      /\ \A k \in 1 .. n : u[k] = t[k]
  BY <1>0 DEF IsPush
<1>2. n \in Nat /\ n \in 0 .. Len(t) /\ Len(lim) \in Nat
  BY TrailFacts
<1>3. KeptBelow(t, lim, vd, n, u, lim, w)
  BY <1>1 DEF Fits, KeptBelow
<1>4. \A k \in 1 .. n : ReasonOK(u, lim, w, W, k)
  BY <1>2, <1>3, ReasonsKept
<1>5. /\ r # 0 => /\ r \in DOMAIN W /\ W[r][1] = l
                  /\ \A q \in M!ToClause(W[r]) \ {l} : \E j \in 1 .. n : t[j] = -q
      /\ r = 0 /\ Len(lim) > 0 => n = lim[Len(lim)]
  BY DEF ImpliedBy
<1> HIDE DEF n
<1>6. ReasonOK(u, lim, w, W, n + 1)
  <2>1. w[M!VarOf(u[n + 1])] = w[M!VarOf(l)] /\ (n + 1) - 1 = n
    BY <1>1, <1>2
  <2>2. r # 0 => \A q \in M!ToClause(W[r]) \ {l} : \E j \in 1 .. (n + 1) - 1 : u[j] = -q
    BY <1>1, <1>5, <2>1
  <2> QED
    BY <1>1, <1>2, <1>5, <2>1, <2>2 DEF ReasonOK
<1>7. \A k \in 1 .. Len(u) : k = n + 1 \/ k \in 1 .. n
  BY <1>1, <1>2
<1> QED
  BY <1>1, <1>4, <1>6, <1>7 DEF ReasonsOK

LEMMA ReasonsLevel ==
  ASSUME NEW t, NEW lim, NEW vd, NEW D, TrailOK(t, lim, vd), ReasonsOK(t, lim, vd, D), NEW c, c = Append(lim, Len(t))
  PROVE  TrailOK(t, c, vd) /\ ReasonsOK(t, c, vd, D)
<1>0. TrailOK(t, c, vd) /\ IsPush(lim, Len(t), c)
  BY TrailLevel
<1>1. TrailOK(t, c, vd) /\ \A d \in 1 .. Len(lim) : c[d] = lim[d]
  BY <1>0 DEF IsPush
<1>2. \A k \in 1 .. Len(t) : ReasonOK(t, lim, vd, D, k)
  BY DEF ReasonsOK
<1>3. ASSUME NEW k \in 1 .. Len(t) PROVE ReasonOK(t, c, vd, D, k)
  <2> DEFINE x == vd[M!VarOf(t[k])].level
  <2>1. x \in 0 .. Len(lim) /\ Len(lim) \in Nat
    BY TrailFacts
  <2> HIDE DEF x
  <2>2. x > 0 => c[x] = lim[x]
    BY <1>1, <2>1
  <2> QED
    BY <1>2, <2>2 DEF ReasonOK, x
<1> QED
  BY <1>1, <1>3 DEF ReasonsOK
-----------------------------------------------------------------------------
(* The literals of a sequence. *)
LEMMA ToClauseIs ==
  ASSUME NEW Z, NEW s \in Seq(Z)
  PROVE  M!ToClause(s) \in SUBSET Z /\ \A x : x \in M!ToClause(s) <=> \E k \in 1 .. Len(s) : s[k] = x
BY DEF M!ToClause

LEMMA TrueIs ==
  ASSUME TrailOK(trail, trail_lim, vardata)
  PROVE  /\ M!True \in SUBSET M!Lit /\ M!False \in SUBSET M!Lit
         /\ \A l \in M!Lit : l \in M!True <=> \E k \in 1 .. Len(trail) : trail[k] = l
         /\ \A l \in M!Lit : l \in M!False <=> \E k \in 1 .. Len(trail) : trail[k] = -l
         /\ \A l \in M!Lit : ~(l \in M!True /\ l \in M!False)
         /\ \A l \in M!Lit : l \in M!False <=> -l \in M!True
<1>1. trail \in Seq(M!Lit)
  BY DEF TrailOK
<1>2. M!True \in SUBSET M!Lit /\ \A x : x \in M!True <=> \E k \in 1 .. Len(trail) : trail[k] = x
  BY <1>1, ToClauseIs DEF M!True
<1>3. M!False \in SUBSET M!Lit /\ \A l \in M!Lit : l \in M!False <=> -l \in M!True
  BY <1>2, NegatedType DEF M!False
<1>4. ASSUME NEW l \in M!Lit, l \in M!True, l \in M!False PROVE FALSE
  <2>1. PICK j \in 1 .. Len(trail) : trail[j] = l
    BY <1>2, <1>4
  <2>2. PICK k \in 1 .. Len(trail) : trail[k] = -l
    BY <1>2, <1>3, <1>4
  <2>3. M!VarOf(trail[j]) = M!VarOf(trail[k]) /\ l # -l
    BY <2>1, <2>2, LitFacts
  <2>4. j = k
    BY <2>3 DEF TrailOK
  <2> QED
    BY <2>1, <2>2, <2>3, <2>4
<1> QED
  BY <1>2, <1>3, <1>4

LEMMA UnassignedIs ==
  ASSUME TrailOK(trail, trail_lim, vardata), NEW l \in M!Lit, l \notin M!True \cup M!False
  PROVE  Unassigned(trail, l)
<1> SUFFICES ASSUME NEW k \in 1 .. Len(trail), M!VarOf(trail[k]) = M!VarOf(l) PROVE FALSE
  BY DEF Unassigned
<1>1. trail[k] \in M!Lit
  BY TrailFacts
<1>2. trail[k] = l \/ trail[k] = -l
  BY <1>1, LitFacts
<1> QED
  BY <1>2, TrueIs

(* A false literal and its place on the trail. *)
LEMMA FalseAt ==
  ASSUME TrailOK(trail, trail_lim, vardata), NEW q \in M!False
  PROVE  /\ q \in M!Lit
         /\ \E k \in 1 .. Len(trail) : trail[k] = -q /\ M!VarOf(trail[k]) = M!VarOf(q)
<1>1. q \in M!Lit
  BY TrueIs
<1> QED
  BY <1>1, TrueIs, LitFacts

LEMMA DataOfFits ==
  ASSUME vardata \in [M!Var -> [level : Nat, reason : Nat]], NEW t \in Seq(M!Lit)
  PROVE  Fits(t, vardata, M!DataOf(t))
<1>1. M!NoData \in [level : Nat, reason : Nat]
  BY DEF M!NoData
<1>2. M!DataOf(t) \in [M!Var -> [level : Nat, reason : Nat]]
  BY <1>1 DEF M!DataOf
<1>3. ASSUME NEW k \in 1 .. Len(t) PROVE M!DataOf(t)[M!VarOf(t[k])] = vardata[M!VarOf(t[k])]
  <2>1. t[k] \in M!Lit /\ M!VarOf(t[k]) \in M!Var
    BY LitFacts
  <2>2. M!VarOf(t[k]) \in M!VarsOf(M!ToClause(t))
    BY ToClauseIs DEF M!VarsOf
  <2> QED
    BY <2>1, <2>2 DEF M!DataOf
<1> QED
  BY <1>2, <1>3 DEF Fits

LEMMA EnqueueFits ==
  ASSUME vardata \in [M!Var -> [level : Nat, reason : Nat]], NEW t \in Seq(M!Lit), NEW l \in M!Lit, Unassigned(t, l),
         NEW d \in Nat, NEW r \in Nat, M!Enqueue(t, l, d, r)
  PROVE  /\ trail' = Append(t, l) /\ Fits(t, vardata, vardata')
         /\ vardata'[M!VarOf(l)].level = d /\ vardata'[M!VarOf(l)].reason = r
<1> DEFINE w == M!DataOf(t)
<1>1. Fits(t, vardata, w)
  BY DataOfFits
<1>2. vardata' = [w EXCEPT ![M!VarOf(l)] = [level |-> d, reason |-> r]] /\ trail' = Append(t, l)
  BY DEF M!Enqueue
<1> HIDE DEF w
<1>3. M!VarOf(l) \in M!Var
  BY LitFacts
<1>4. vardata'[M!VarOf(l)] = [level |-> d, reason |-> r]
  BY <1>1, <1>2, <1>3 DEF Fits
<1>5. Fits(t, vardata, vardata')
  <2>1. [level |-> d, reason |-> r] \in [level : Nat, reason : Nat]
    OBVIOUS
  <2>2. vardata' \in [M!Var -> [level : Nat, reason : Nat]]
    BY <1>1, <1>2, <2>1 DEF Fits
  <2>3. \A k \in 1 .. Len(t) : M!VarOf(t[k]) # M!VarOf(l) /\ M!VarOf(t[k]) \in M!Var
    BY LitFacts DEF Unassigned
  <2>4. \A v \in M!Var : v # M!VarOf(l) => vardata'[v] = w[v]
    BY <1>1, <1>2 DEF Fits
  <2> QED
    BY <1>1, <2>2, <2>3, <2>4 DEF Fits
<1> QED
  BY <1>2, <1>4, <1>5

LEMMA ClauseIs ==
  ASSUME NEW c, IsClause(c)
  PROVE  /\ c \in Seq(M!Lit) /\ Len(c) \in Nat /\ 1 \in 1 .. Len(c) /\ 2 \in 1 .. Len(c)
         /\ c[1] \in M!Lit /\ c[2] \in M!Lit /\ c[1] # c[2]
         /\ M!ToClause(c) \in SUBSET M!Lit /\ c[1] \in M!ToClause(c) /\ c[2] \in M!ToClause(c)
         /\ \A x : x \in M!ToClause(c) <=> \E k \in 1 .. Len(c) : c[k] = x
<1>1. c \in Seq(M!Lit) /\ Len(c) >= 2 /\ \A j, k \in DOMAIN c : c[j] = c[k] => j = k
  BY DEF IsClause
<1>2. Len(c) \in Nat /\ 1 \in 1 .. Len(c) /\ 2 \in 1 .. Len(c) /\ DOMAIN c = 1 .. Len(c)
  BY <1>1
<1>3. c[1] \in M!Lit /\ c[2] \in M!Lit /\ c[1] # c[2]
  BY <1>1, <1>2
<1>4. M!ToClause(c) \in SUBSET M!Lit /\ \A x : x \in M!ToClause(c) <=> \E k \in 1 .. Len(c) : c[k] = x
  BY <1>1, ToClauseIs
<1> QED
  BY <1>1, <1>2, <1>3, <1>4
-----------------------------------------------------------------------------
LEMMA ModelsTotal ==
  ASSUME NEW m \in M!Models(formula)
  PROVE  m \in M!Total /\ m \in SUBSET M!Lit /\ \A l \in M!Lit : l \in m <=> -l \notin m
BY TotalHas DEF M!Models

(* A literal that is false at level 0 is in no model. *)
LEMMA RootFalse ==
  ASSUME MinisatInv, NEW m \in M!Models(formula), NEW q \in M!False, M!level(q) = 0
  PROVE  q \notin m
<1>1. TrailOK(trail, trail_lim, vardata)
  BY DEF MinisatInv, Trail
<1>2. PICK k \in 1 .. Len(trail) : trail[k] = -q /\ M!VarOf(trail[k]) = M!VarOf(q)
  BY <1>1, FalseAt
<1>3. -q \in m
  BY <1>2 DEF MinisatInv, Derived, M!level
<1> QED
  BY <1>1, <1>3, FalseAt, ModelsTotal

LEMMA RootConflictUnsat ==
  ASSUME MinisatInv, confl # 0, M!decisionLevel = 0
  PROVE  M!Models(formula) = {}
<1> SUFFICES ASSUME NEW m \in M!Models(formula) PROVE FALSE
  OBVIOUS
<1>1. confl \in M!Live /\ M!ToClause(db[confl]) \subseteq M!False
  BY DEF MinisatInv, Search, Propagation, InConflict
<1>2. PICK q \in m : q \in M!ToClause(db[confl])
  BY <1>1 DEF MinisatInv, Derived
<1>3. TrailOK(trail, trail_lim, vardata)
  BY DEF MinisatInv, Trail
<1>4. PICK k \in 1 .. Len(trail) : trail[k] = -q /\ M!VarOf(trail[k]) = M!VarOf(q)
  BY <1>1, <1>2, <1>3, FalseAt
<1>5. M!level(q) = 0
  BY <1>3, <1>4, TrailFacts DEF M!level, M!decisionLevel
<1> QED
  BY <1>1, <1>2, <1>5, RootFalse

(* Steps that leave the clauses and the trail alone. *)
Still == UNCHANGED <<db, learnts, trail, trail_lim, vardata>>

LEMMA StillTrail ==
  ASSUME MinisatInv, Still
  PROVE  Trail' /\ DatabaseTyped'
BY DEF MinisatInv, Trail, Typed, DatabaseTyped, Still, M!Live

LEMMA AddedUnitInv == ASSUME MinisatInv, M!AddedUnit PROVE MinisatInv'
<1>1. /\ pc = "adding" /\ visit = {} /\ ok' = (confl = 0) /\ pc' = "idle" /\ confl' = 0
      /\ (confl # 0 \/ qhead = Len(trail))
      /\ Still /\ UNCHANGED <<todo, formula, qhead, visit, out_learnt, assumptions, conflict, model, status>>
  BY DEF M!AddedUnit, M!input, M!clauses, M!answer, Still
<1>2. ok /\ trail_lim = <<>> /\ status = "none"
  BY <1>1 DEF MinisatInv, Search, Control
<1>3. Trail' /\ Typed'
  BY <1>1, StillTrail DEF MinisatInv, Typed, OtherTyped, Still
<1>4. Control' /\ Propagation' /\ InConflict' /\ Analyzing' /\ Assumed'
  BY <1>1, <1>2 DEF Control, Propagation, InConflict, Analyzing, Assumed, Still, M!decisionLevel, MinisatInv, Search
<1>5. Watched'
  BY <1>1, <1>2 DEF MinisatInv, Search, Watched, Visited, Still, M!Live, M!level
<1>6. Derived'
  <2> SUFFICES ASSUME NEW m \in M!Models(formula) PROVE confl = 0
    BY <1>1 DEF MinisatInv, Derived, Still, M!Live, M!level, M!Models
  <2>1. M!decisionLevel = 0
    BY <1>2 DEF M!decisionLevel
  <2> QED
    BY <2>1, RootConflictUnsat
<1>7. Covered'
  BY <1>1, <1>2 DEF MinisatInv, Covered, Still, M!Live, M!level
<1>8. AnswerKept'
  BY <1>1, <1>2 DEF AnswerKept
<1> QED
  BY <1>3, <1>4, <1>5, <1>6, <1>7, <1>8 DEF MinisatInv, Search

LEMMA PropagateLitInv == ASSUME MinisatInv, M!PropagateLit PROVE MinisatInv'
<1>1. /\ pc \in {"adding", "search"} /\ confl = 0 /\ visit = {} /\ qhead < Len(trail)
      /\ qhead' = qhead + 1 /\ visit' = M!Watching(trail[qhead + 1])
      /\ Still /\ UNCHANGED <<todo, formula, ok, confl, out_learnt, assumptions, conflict, model, status, pc>>
  BY DEF M!PropagateLit, M!input, M!clauses, M!answer, Still
<1>2. qhead \in Nat /\ Len(trail) \in Nat /\ qhead + 1 \in 1 .. Len(trail)
  BY <1>1, TrailFacts DEF MinisatInv, Typed, OtherTyped, Trail
<1>3. Trail' /\ Typed'
  BY <1>1, <1>2, StillTrail DEF MinisatInv, Typed, OtherTyped, Still
<1>4. Control' /\ InConflict' /\ Analyzing' /\ Assumed'
  BY <1>1 DEF Control, InConflict, Analyzing, Assumed, Still, M!decisionLevel, MinisatInv, Search, M!True, M!level, M!reason
<1>5. Propagation'
  <2>1. M!decisionLevel \in Nat /\ (M!decisionLevel > 0 => trail_lim[M!decisionLevel] \in Nat)
    BY TrailFacts DEF MinisatInv, Trail, M!decisionLevel
  <2>2. M!decisionLevel > 0 => trail_lim[M!decisionLevel] <= qhead
    BY DEF MinisatInv, Search, Propagation
  <2>3. \A i \in visit' : i \in M!Live /\ -trail[qhead + 1] \in {db[i][1], db[i][2]}
    BY <1>1 DEF M!Watching
  <2>4. M!decisionLevel' = M!decisionLevel /\ trail_lim' = trail_lim /\ M!Live' = M!Live /\ db' = db /\ trail' = trail
    BY <1>1 DEF Still, M!decisionLevel, M!Live
  <2> HIDE DEF M!decisionLevel, M!Live
  <2> QED
    BY <1>1, <1>2, <2>1, <2>2, <2>3, <2>4 DEF Propagation
<1>6. Watched'
  <2> SUFFICES ASSUME ok, NEW i \in M!Live, NEW k \in 1 .. Len(trail),
                      -trail[k] \in {db[i][1], db[i][2]}, Visited(k, i)'
               PROVE  \E j \in 1 .. Len(trail) : trail[j] \in M!ToClause(db[i]) /\ M!level(trail[j]) <= M!level(trail[k])
    BY <1>1 DEF Watched, Still, M!Live, M!level
  <2>1. k < qhead + 1 \/ (k = qhead + 1 /\ i \notin M!Watching(trail[qhead + 1]))
    BY <1>1 DEF Visited
  <2>2. k # qhead + 1
    BY <2>1, <1>2 DEF M!Watching
  <2>3. Visited(k, i)
    BY <1>1, <1>2, <2>1, <2>2 DEF Visited
  <2> QED
    BY <2>3 DEF MinisatInv, Search, Watched
<1>7. Derived' /\ Covered' /\ AnswerKept'
  BY <1>1 DEF MinisatInv, Derived, Covered, AnswerKept, Still, M!Live, M!level, M!Models
<1> QED
  BY <1>3, <1>4, <1>5, <1>6, <1>7 DEF MinisatInv, Search

LEMMA SolveInv == ASSUME MinisatInv, M!Solve PROVE MinisatInv'
<1>1. /\ pc = "idle" /\ assumptions' \in Assumptions /\ conflict' = {} /\ model' = {}
      /\ pc' = (IF ok THEN "search" ELSE "idle") /\ status' = (IF ok THEN "none" ELSE "unsat")
      /\ Still /\ UNCHANGED <<todo, formula, ok, qhead, visit, confl, out_learnt>>
  BY DEF M!Solve, M!input, M!clauses, M!queue, Still
<1>2. Trail' /\ Typed'
  BY <1>1, StillTrail, InputsTyped DEF MinisatInv, Typed, OtherTyped, Still
<1>3. trail_lim = <<>> /\ visit = {} /\ confl = 0 /\ ok \in BOOLEAN
  BY <1>1 DEF MinisatInv, Search, Control, Typed, OtherTyped
<1>4. Control' /\ InConflict' /\ Analyzing' /\ Propagation'
  BY <1>1, <1>3 DEF Control, InConflict, Analyzing, Propagation, Still, M!decisionLevel, MinisatInv, Search
<1>5. Assumed'
  BY <1>1, <1>3 DEF Assumed, Still, M!decisionLevel
<1>6. Watched' /\ Derived' /\ Covered'
  BY <1>1, <1>3 DEF MinisatInv, Search, Watched, Visited, Derived, Covered, Still, M!Live, M!level, M!Models
<1>7. AnswerKept'
  BY <1>1 DEF MinisatInv, AnswerKept, Derived, M!Models
<1> QED
  BY <1>2, <1>4, <1>5, <1>6, <1>7 DEF MinisatInv, Search
-----------------------------------------------------------------------------
LEMMA GreatestElement ==
  ASSUME NEW n \in Nat, NEW T \in SUBSET (1 .. n), T # {}
  PROVE  \E x \in T : \A y \in T : y <= x
<1> DEFINE R == {n - y : y \in T}
<1>0. \A y \in T : y \in 1 .. n /\ n - y \in Nat
  OBVIOUS
<1>1. R \in SUBSET Nat /\ R # {}
  BY <1>0
<1>2. PICK z \in R : \A y \in R : z <= y
  BY <1>1, LeastElement
<1>3. PICK x \in T : z = n - x
  OBVIOUS
<1>4. \A y \in T : n - x <= n - y
  BY <1>2, <1>3
<1> QED
  BY <1>4

LEMMA LatestIs ==
  ASSUME TrailOK(trail, trail_lim, vardata), NEW c \in SUBSET M!False, c # {}
  PROVE  /\ M!Latest(c) \in c
         /\ \E i \in 1 .. Len(trail) : trail[i] = -M!Latest(c) /\ \A j \in i + 1 .. Len(trail) : -trail[j] \notin c
<1> DEFINE T == {k \in 1 .. Len(trail) : -trail[k] \in c}
<1>0. Len(trail) \in Nat /\ DOMAIN trail = 1 .. Len(trail)
  BY TrailFacts
<1>1. PICK q \in c : TRUE
  OBVIOUS
<1>2. PICK k \in 1 .. Len(trail) : trail[k] = -q
  BY FalseAt
<1>3. -trail[k] = q
  BY <1>2, FalseAt, LitFacts
<1>4. T \in SUBSET (1 .. Len(trail)) /\ T # {}
  BY <1>3
<1>5. PICK i \in T : \A j \in T : j <= i
  BY <1>0, <1>4, GreatestElement
<1>6. i \in 1 .. Len(trail) /\ -trail[i] \in c /\ trail[i] \in M!Lit
  BY TrailFacts
<1>7. \A j \in i + 1 .. Len(trail) : -trail[j] \notin c
  <2> SUFFICES ASSUME NEW j \in i + 1 .. Len(trail), -trail[j] \in c PROVE FALSE
    OBVIOUS
  <2>1. j \in T /\ ~(j <= i)
    BY <1>0, <1>6
  <2> QED
    BY <1>5, <2>1
<1>8. trail[i] = -(-trail[i])
  BY <1>6, LitFacts
<1>9. \E x \in c : \E y \in DOMAIN trail : trail[y] = -x /\ \A j \in y + 1 .. Len(trail) : -trail[j] \notin c
  BY <1>0, <1>6, <1>7, <1>8
<1> DEFINE Ok(x) == \E y \in DOMAIN trail : trail[y] = -x /\ \A j \in y + 1 .. Len(trail) : -trail[j] \notin c
<1>10. M!Latest(c) = CHOOSE x \in c : Ok(x)
  BY DEF M!Latest
<1>11. \E x \in c : Ok(x)
  BY <1>9
<1> HIDE DEF Ok
<1>12. M!Latest(c) \in c /\ Ok(M!Latest(c))
  BY <1>10, <1>11
<1> QED
  BY <1>0, <1>12 DEF Ok

LEMMA AnalyzeStartInv == ASSUME MinisatInv, M!AnalyzeStart PROVE MinisatInv'
<1>1. /\ pc = "search" /\ confl # 0 /\ M!decisionLevel > 0
      /\ out_learnt' = M!Raised(M!ToClause(db[confl])) /\ pc' = "analyze" /\ confl' = 0
      /\ Still /\ UNCHANGED <<todo, formula, ok, qhead, visit, assumptions, conflict, model, status>>
  BY DEF M!AnalyzeStart, M!input, M!clauses, M!answer, Still
<1>2. /\ confl \in M!Live /\ visit = {} /\ M!ToClause(db[confl]) \subseteq M!False
      /\ \E q \in M!ToClause(db[confl]) : M!level(q) = M!decisionLevel
  BY <1>1 DEF MinisatInv, Search, Propagation, InConflict
<1>3. Trail' /\ Typed'
  BY <1>1, StillTrail DEF MinisatInv, Typed, OtherTyped, Still
<1>4. Control' /\ InConflict' /\ Propagation' /\ Assumed'
  BY <1>1, <1>2 DEF Control, InConflict, Assumed, Propagation, Still, M!decisionLevel, MinisatInv, Search, M!True, M!level, M!reason
<1>5. Watched'
  BY <1>1 DEF MinisatInv, Search, Watched, Visited, Still, M!Live, M!level, M!decisionLevel
<1>6. Analyzing'
  <2>1. M!Raised(M!ToClause(db[confl])) \subseteq M!False /\ \A q \in M!Raised(M!ToClause(db[confl])) : M!level(q) > 0
    BY <1>2 DEF M!Raised
  <2>2. PICK q \in M!ToClause(db[confl]) : M!level(q) = M!decisionLevel
    BY <1>2
  <2>3. q \in M!Raised(M!ToClause(db[confl]))
    BY <1>1, <2>2 DEF M!Raised
  <2> QED
    BY <1>1, <2>1, <2>2, <2>3 DEF Analyzing, M!Current, M!False, M!True, M!level, M!decisionLevel, Still
<1>7. Derived'
  <2> SUFFICES ASSUME NEW m \in M!Models(formula) PROVE m \cap M!Raised(M!ToClause(db[confl])) # {}
    BY <1>1 DEF MinisatInv, Derived, Still, M!Live, M!level, M!Models
  <2>1. PICK q \in m : q \in M!ToClause(db[confl])
    BY <1>2 DEF MinisatInv, Derived
  <2>2. q \in M!False /\ M!level(q) # 0
    BY <1>2, <2>1, RootFalse
  <2>3. M!level(q) \in Nat
    <3>1. TrailOK(trail, trail_lim, vardata)
      BY DEF MinisatInv, Trail
    <3> QED
      BY <2>2, <3>1, FalseAt, LitFacts, TrailFacts DEF M!level
  <2> QED
    BY <2>1, <2>2, <2>3 DEF M!Raised
<1>8. Covered' /\ AnswerKept'
  BY <1>1 DEF MinisatInv, Covered, AnswerKept, Still, M!Live, M!level, M!Models
<1> QED
  BY <1>3, <1>4, <1>5, <1>6, <1>7, <1>8 DEF MinisatInv, Search

(* The literal analyze resolves on, and its reason. *)
LEMMA ResolvedLiteral ==
  ASSUME MinisatInv, pc = "analyze", Cardinality(M!Current(out_learnt)) > 1
  PROVE  LET q == M!Latest(out_learnt) IN
         /\ q \in out_learnt /\ q \in M!Lit /\ M!reason(q) # 0 /\ M!reason(q) \in M!Live /\ -q \in M!ToClause(db[M!reason(q)])
         /\ M!ToClause(db[M!reason(q)]) \ {-q} \subseteq M!False
         /\ \E x \in M!Current(out_learnt) : x # q
<1>1. /\ M!decisionLevel > 0 /\ out_learnt \subseteq M!False /\ M!Current(out_learnt) # {}
      /\ TrailOK(trail, trail_lim, vardata) /\ ReasonsOK(trail, trail_lim, vardata, db)
  BY DEF MinisatInv, Search, Analyzing, Trail
<1> DEFINE q == M!Latest(out_learnt)
<1>2. out_learnt # {} /\ M!Current(out_learnt) \subseteq out_learnt
  BY <1>1 DEF M!Current
<1>3. q \in out_learnt /\ \E i \in 1 .. Len(trail) : trail[i] = -q /\ \A j \in i + 1 .. Len(trail) : -trail[j] \notin out_learnt
  BY <1>1, <1>2, LatestIs
<1> HIDE DEF q
<1>4. PICK i \in 1 .. Len(trail) : trail[i] = -q /\ \A j \in i + 1 .. Len(trail) : -trail[j] \notin out_learnt
  BY <1>3
<1>5. q \in M!Lit /\ M!VarOf(trail[i]) = M!VarOf(q)
  BY <1>1, <1>3, <1>4, FalseAt, LitFacts
<1>6. PICK x \in M!Current(out_learnt) : x # q
  <2> SUFFICES ASSUME \A x \in M!Current(out_learnt) : x = q PROVE FALSE
    OBVIOUS
  <2>1. M!Current(out_learnt) = {q}
    BY <1>1
  <2>2. Cardinality({q}) = 1
    BY FS_Singleton
  <2> QED
    BY <2>1, <2>2
<1>7. x \in out_learnt /\ M!level(x) = M!decisionLevel
  BY DEF M!Current
<1>8. x \in M!Lit /\ \E j \in 1 .. Len(trail) : trail[j] = -x /\ M!VarOf(trail[j]) = M!VarOf(x)
  BY <1>1, <1>7, FalseAt
<1>9. PICK j \in 1 .. Len(trail) : trail[j] = -x /\ M!VarOf(trail[j]) = M!VarOf(x)
  BY <1>8
<1>10. Len(trail) \in Nat /\ -trail[j] = x
  BY <1>1, <1>8, <1>9, LitFacts, TrailFacts
<1>11. j < i
  <2>1. j \notin i + 1 .. Len(trail)
    BY <1>4, <1>7, <1>10
  <2>2. j # i
    BY <1>4, <1>5, <1>6, <1>8, <1>9, LitFacts
  <2> QED
    BY <1>10, <2>1, <2>2
<1> DEFINE d == Len(trail_lim)
<1> DEFINE y == vardata[M!VarOf(trail[i])]
<1>12. vardata[M!VarOf(trail[j])].level = d /\ d > 0 /\ d \in Nat
  BY <1>1, <1>7, <1>9, TrailFacts DEF M!level, M!decisionLevel
<1>13. y.level = d
  <2>1. vardata[M!VarOf(trail[j])].level <= y.level /\ y.level \in 0 .. d
    BY <1>1, <1>11, TrailMonotone, TrailFacts
  <2> QED
    BY <1>12, <2>1
<1>14. trail_lim[d] < j /\ trail_lim[d] \in Nat
  BY <1>1, <1>12, TrailFacts DEF TrailOK
<1>15. ReasonOK(trail, trail_lim, vardata, db, i)
  BY <1>1 DEF ReasonsOK
<1>16. y.reason # 0
  <2> SUFFICES ASSUME y.reason = 0 PROVE FALSE
    OBVIOUS
  <2>1. i = trail_lim[y.level] + 1
    BY <1>12, <1>13, <1>15 DEF ReasonOK
  <2> QED
    BY <1>11, <1>13, <1>14, <2>1
<1>17. /\ y.reason \in M!Live /\ db[y.reason][1] = -q
       /\ \A z \in M!ToClause(db[y.reason]) \ {-q} : \E k \in 1 .. i - 1 : trail[k] = -z
  BY <1>4, <1>15, <1>16 DEF ReasonOK, M!Live
<1>18. M!reason(q) = y.reason
  BY <1>5 DEF M!reason
<1> HIDE DEF y, d
<1>19. IsClause(db[y.reason])
  BY <1>17 DEF MinisatInv, Typed, DatabaseTyped
<1>20. -q \in M!ToClause(db[y.reason]) /\ M!ToClause(db[y.reason]) \in SUBSET M!Lit
  BY <1>17, <1>19, ClauseIs
<1>21. M!ToClause(db[y.reason]) \ {-q} \subseteq M!False
  <2> SUFFICES ASSUME NEW z \in M!ToClause(db[y.reason]) \ {-q} PROVE z \in M!False
    OBVIOUS
  <2>1. PICK k \in 1 .. i - 1 : trail[k] = -z
    BY <1>17
  <2>2. k \in 1 .. Len(trail) /\ z \in M!Lit
    BY <1>10, <1>20
  <2> QED
    BY <1>1, <2>1, <2>2, TrueIs
<1> QED
  BY <1>3, <1>5, <1>6, <1>16, <1>17, <1>18, <1>20, <1>21 DEF q
LEMMA LevelType ==
  ASSUME MinisatInv, NEW q \in M!Lit PROVE M!level(q) \in Nat /\ M!reason(q) \in Nat /\ M!level(-q) = M!level(q) /\ M!reason(-q) = M!reason(q)
BY LitFacts, TrailFacts DEF MinisatInv, Trail, M!level, M!reason

LEMMA ResolveInv == ASSUME MinisatInv, M!Resolve PROVE MinisatInv'
<1> DEFINE q == M!Latest(out_learnt)
<1> DEFINE c == M!ToClause(db[M!reason(q)])
<1>1. /\ pc = "analyze" /\ Cardinality(M!Current(out_learnt)) > 1
      /\ out_learnt' = (out_learnt \ {q}) \cup M!Raised(c \ {-q})
      /\ Still /\ UNCHANGED <<todo, formula, ok, qhead, visit, confl, assumptions, conflict, model, status, pc>>
  BY SameNotions DEF M!Resolve, M!input, M!clauses, M!answer, Still, M!queue
<1>2. /\ q \in out_learnt /\ q \in M!Lit /\ M!reason(q) \in M!Live /\ -q \in c /\ c \ {-q} \subseteq M!False
      /\ \E x \in M!Current(out_learnt) : x # q
  BY <1>1, ResolvedLiteral
<1>3. /\ out_learnt \subseteq M!False /\ M!decisionLevel > 0 /\ (\A x \in out_learnt : M!level(x) > 0)
  BY <1>1 DEF MinisatInv, Search, Analyzing
<1> HIDE DEF q
<1>4. Trail' /\ Typed'
  BY <1>1, StillTrail DEF MinisatInv, Typed, OtherTyped, Still
<1>5. Control' /\ InConflict' /\ Propagation' /\ Assumed'
  BY <1>1 DEF Control, InConflict, Assumed, Propagation, Still, M!decisionLevel, MinisatInv, Search, M!True, M!level, M!reason, M!False, M!Live
<1>6. Watched'
  BY <1>1 DEF MinisatInv, Search, Watched, Visited, Still, M!Live, M!level, M!decisionLevel
<1>7. Analyzing'
  <2>1. /\ (out_learnt \ {q}) \cup M!Raised(c \ {-q}) \subseteq M!False
        /\ \A x \in (out_learnt \ {q}) \cup M!Raised(c \ {-q}) : M!level(x) > 0
    BY <1>2, <1>3 DEF M!Raised
  <2>2. PICK x \in out_learnt : x # q /\ M!level(x) = M!decisionLevel
    BY <1>2 DEF M!Current
  <2> HIDE DEF c
  <2> QED
    BY <1>1, <1>3, <2>1, <2>2 DEF Analyzing, M!Current, M!False, M!True, M!level, M!decisionLevel, Still
<1>8. Derived'
  <2> SUFFICES ASSUME NEW m \in M!Models(formula) PROVE m \cap ((out_learnt \ {q}) \cup M!Raised(c \ {-q})) # {}
    BY <1>1 DEF MinisatInv, Derived, Still, M!Live, M!level, M!Models
  <2>1. PICK x \in m : x \in out_learnt
    BY <1>1 DEF MinisatInv, Derived
  <2>2. ASSUME x = q PROVE m \cap M!Raised(c \ {-q}) # {}
    <3>1. PICK y \in m : y \in c
      BY <1>2 DEF MinisatInv, Derived
    <3>2. -q \notin m
      BY <1>2, <2>1, <2>2, ModelsTotal
    <3>3. y \in c \ {-q} /\ y \in M!False /\ y \in M!Lit
      BY <1>2, <3>1, <3>2, ModelsTotal
    <3>4. M!level(y) # 0 /\ M!level(y) \in Nat
      BY <3>1, <3>3, RootFalse, LevelType
    <3> QED
      BY <3>1, <3>3, <3>4 DEF M!Raised
  <2> QED
    BY <2>1, <2>2
<1>9. Covered' /\ AnswerKept'
  BY <1>1 DEF MinisatInv, Covered, AnswerKept, Still, M!Live, M!level, M!Models
<1> QED
  BY <1>4, <1>5, <1>6, <1>7, <1>8, <1>9 DEF MinisatInv, Search
-----------------------------------------------------------------------------
IsSwap(c, j, k, b) ==
  /\ IsClause(b) /\ M!ToClause(b) = M!ToClause(c) /\ Len(b) = Len(c)
  /\ b[j] = c[k] /\ b[k] = c[j] /\ \A x \in 1 .. Len(c) : x # j /\ x # k => b[x] = c[x]

LEMMA SwapIs ==
  ASSUME NEW c, IsClause(c), NEW j \in 1 .. Len(c), NEW k \in 1 .. Len(c),
         NEW b, b = [c EXCEPT ![j] = c[k], ![k] = c[j]]
  PROVE  IsSwap(c, j, k, b)
<1>1. c \in Seq(M!Lit) /\ Len(c) >= 2 /\ DOMAIN c = 1 .. Len(c) /\ \A x, y \in 1 .. Len(c) : c[x] = c[y] => x = y
  BY DEF IsClause
<1>2. b \in Seq(M!Lit) /\ Len(b) = Len(c) /\ DOMAIN b = 1 .. Len(c)
  BY <1>1
<1>3. b[j] = c[k] /\ b[k] = c[j] /\ \A x \in 1 .. Len(c) : x # j /\ x # k => b[x] = c[x]
  BY <1>1
<1>4. \A x, y \in 1 .. Len(c) : b[x] = b[y] => x = y
  BY <1>1, <1>3
<1>5. IsClause(b)
  BY <1>1, <1>2, <1>4 DEF IsClause
<1>6. \A z : (\E x \in 1 .. Len(c) : b[x] = z) <=> (\E x \in 1 .. Len(c) : c[x] = z)
  BY <1>3
<1>7. M!ToClause(b) = {b[x] : x \in 1 .. Len(c)} /\ M!ToClause(c) = {c[x] : x \in 1 .. Len(c)}
  BY <1>1, <1>2 DEF M!ToClause
<1>8. \A z : z \in M!ToClause(b) <=> z \in M!ToClause(c)
  BY <1>6, <1>7
<1>9. M!ToClause(b) = M!ToClause(c)
  BY <1>8
<1> QED
  BY <1>2, <1>3, <1>5, <1>9 DEF IsSwap

LEMMA OrderedIs ==
  ASSUME NEW c, IsClause(c), NEW l \in {c[1], c[2]}, NEW b, b = M!Ordered(c, l)
  PROVE  /\ IsClause(b) /\ M!ToClause(b) = M!ToClause(c) /\ b[2] = l
         /\ (b = c /\ c[1] # l) \/ (c[1] = l /\ b[1] = c[2])
<1>1. 1 \in 1 .. Len(c) /\ 2 \in 1 .. Len(c) /\ c[1] # c[2]
  BY ClauseIs
<1>2. CASE c[1] = l
  <2>1. b = [c EXCEPT ![1] = c[2], ![2] = c[1]]
    BY <1>2 DEF M!Ordered
  <2>2. IsSwap(c, 1, 2, b)
    BY <1>1, <2>1, SwapIs
  <2>3. IsClause(b) /\ M!ToClause(b) = M!ToClause(c) /\ b[1] = c[2] /\ b[2] = c[1]
    BY <2>2 DEF IsSwap
  <2> QED
    BY <1>2, <2>3
<1>3. CASE c[1] # l
  BY <1>3 DEF M!Ordered
<1> QED
  BY <1>2, <1>3

VisitOK(i, l, c) ==
  /\ i \in M!Live /\ i \in Nat /\ i # 0 /\ qhead \in 1 .. Len(trail) /\ l \in M!Lit /\ l \in M!False /\ l = -trail[qhead]
  /\ vardata[M!VarOf(trail[qhead])].level = M!decisionLevel /\ M!level(l) = M!decisionLevel
  /\ M!decisionLevel > 0 => trail_lim[M!decisionLevel] < qhead
  /\ IsClause(c) /\ M!ToClause(c) = M!ToClause(db[i]) /\ c[2] = l
  /\ {c[1], c[2]} = {db[i][1], db[i][2]}
  /\ c = db[i] \/ db[i][1] = l
  /\ \A k \in 1 .. Len(trail) : vardata[M!VarOf(trail[k])].reason = i => c[1] \in M!True /\ c = db[i]

LEMMA VisitFacts ==
  ASSUME MinisatInv, confl = 0, NEW i \in visit, NEW l, l = -trail[qhead], NEW c, c = M!Ordered(db[i], l)
  PROVE  VisitOK(i, l, c)
<1>1. TrailOK(trail, trail_lim, vardata) /\ ReasonsOK(trail, trail_lim, vardata, db)
  BY DEF MinisatInv, Trail
<1>2. i \in M!Live /\ l \in {db[i][1], db[i][2]} /\ qhead > 0 /\ (M!decisionLevel > 0 => trail_lim[M!decisionLevel] < qhead)
  BY DEF MinisatInv, Search, Propagation
<1>3. IsClause(db[i]) /\ i \in Nat /\ i # 0
  <2>1. IsClause(db[i])
    BY <1>2 DEF MinisatInv, Typed, DatabaseTyped
  <2>2. PICK n \in Nat : M!Live \subseteq 1 .. n
    BY DEF MinisatInv, Typed, DatabaseTyped
  <2>3. i \in 1 .. n
    BY <1>2, <2>2
  <2> QED
    BY <2>1, <2>3
<1>4. qhead \in 1 .. Len(trail)
  BY <1>1, <1>2, TrailFacts DEF MinisatInv, Typed, OtherTyped
<1>5. l \in M!Lit /\ trail[qhead] \in M!Lit /\ trail[qhead] = -l /\ M!VarOf(l) = M!VarOf(trail[qhead])
  BY <1>1, <1>4, TrailFacts, LitFacts
<1>6. l \in M!False
  BY <1>1, <1>4, <1>5, TrueIs
<1>7. vardata[M!VarOf(trail[qhead])].level = M!decisionLevel
  <2> DEFINE x == vardata[M!VarOf(trail[qhead])].level
  <2>1. /\ x \in 0 .. Len(trail_lim) /\ (x < Len(trail_lim) => qhead <= trail_lim[x + 1])
        /\ \A d, e \in 1 .. Len(trail_lim) : d <= e => trail_lim[d] <= trail_lim[e]
    BY <1>1, <1>4 DEF TrailOK
  <2>2. \A d \in 1 .. Len(trail_lim) : trail_lim[d] \in Nat
    BY <1>1, TrailFacts
  <2>3. Len(trail_lim) \in Nat /\ Len(trail) \in Nat /\ M!decisionLevel = Len(trail_lim)
    BY <1>1, TrailFacts DEF M!decisionLevel
  <2> DEFINE d == Len(trail_lim)
  <2> HIDE DEF x, d
  <2>4. d \in Nat /\ x \in 0 .. d /\ (x < d => qhead <= trail_lim[x + 1]) /\ (d > 0 => trail_lim[d] < qhead)
    BY <1>2, <2>1, <2>3 DEF d
  <2>5. ASSUME x < d PROVE FALSE
    <3>1. x + 1 \in 1 .. d /\ d \in 1 .. d /\ x + 1 <= d /\ d > 0
      BY <2>4, <2>5
    <3>2. trail_lim[x + 1] <= trail_lim[d]
      BY <2>1, <3>1 DEF d
    <3>3. trail_lim[x + 1] \in Nat /\ trail_lim[d] \in Nat
      BY <2>2, <3>1 DEF d
    <3> QED
      BY <1>4, <2>3, <2>4, <2>5, <3>1, <3>2, <3>3
  <2>6. x = d
    BY <2>4, <2>5
  <2> QED
    BY <2>3, <2>6 DEF x, d
<1>8. M!level(l) = M!decisionLevel
  BY <1>5, <1>7 DEF M!level
<1>9. /\ IsClause(c) /\ M!ToClause(c) = M!ToClause(db[i]) /\ c[2] = l
      /\ (c = db[i] /\ db[i][1] # l) \/ (db[i][1] = l /\ c[1] = db[i][2])
  BY <1>2, <1>3, OrderedIs
<1>10. {c[1], c[2]} = {db[i][1], db[i][2]} /\ (c = db[i] \/ db[i][1] = l)
  BY <1>2, <1>9
<1>11. ASSUME NEW k \in 1 .. Len(trail), vardata[M!VarOf(trail[k])].reason = i PROVE c[1] \in M!True /\ c = db[i]
  <2>1. db[i][1] = trail[k]
    BY <1>1, <1>3, <1>11 DEF ReasonsOK, ReasonOK
  <2>2. trail[k] \in M!True /\ trail[k] \in M!Lit
    BY <1>1, TrailFacts, TrueIs
  <2>3. db[i][1] # l
    BY <1>1, <1>6, <2>1, <2>2, TrueIs
  <2> QED
    BY <1>9, <2>1, <2>2, <2>3
<1> QED
  BY <1>2, <1>3, <1>4, <1>5, <1>6, <1>7, <1>8, <1>9, <1>10, <1>11 DEF VisitOK

(* The literals of a clause change places. *)
Permuted(i, b) ==
  /\ i \in M!Live /\ IsClause(b) /\ M!ToClause(b) = M!ToClause(db[i])
  /\ b[1] = db[i][1] \/ \A k \in 1 .. Len(trail) : vardata[M!VarOf(trail[k])].reason # i
  /\ db' = [db EXCEPT ![i] = b] /\ UNCHANGED learnts

Reordered ==
  /\ M!Live' = M!Live /\ UNCHANGED learnts /\ \A j \in M!Live : IsClause(db'[j]) /\ M!ToClause(db'[j]) = M!ToClause(db[j])
  /\ ReasonClausesKept(trail, vardata, db, Len(trail), db')

LEMMA PermutedKeeps ==
  ASSUME MinisatInv, NEW i, NEW b, Permuted(i, b)
  PROVE  Reordered /\ DatabaseTyped' /\ db'[i] = b /\ \A j \in M!Live : j # i => db'[j] = db[j]
<1>1. /\ i \in M!Live /\ IsClause(b) /\ M!ToClause(b) = M!ToClause(db[i]) /\ UNCHANGED learnts
      /\ M!Live' = M!Live /\ db'[i] = b /\ \A j \in M!Live : j # i => db'[j] = db[j]
  BY DEF Permuted, M!Live
<1>2. /\ \E n \in Nat : M!Live \subseteq 1 .. n
      /\ (\A j \in M!Live : IsClause(db[j])) /\ learnts \subseteq M!Live
  BY DEF MinisatInv, Typed, DatabaseTyped
<1>3. \A j \in M!Live : IsClause(db'[j]) /\ M!ToClause(db'[j]) = M!ToClause(db[j])
  BY <1>1, <1>2
<1>4. DatabaseTyped'
  BY <1>1, <1>2, <1>3 DEF DatabaseTyped
<1>5. ReasonsOK(trail, trail_lim, vardata, db)
  BY DEF MinisatInv, Trail
<1>6. ASSUME NEW k \in 1 .. Len(trail), vardata[M!VarOf(trail[k])].reason # 0
      PROVE  LET r == vardata[M!VarOf(trail[k])].reason
             IN r \in DOMAIN db' /\ db'[r][1] = db[r][1] /\ M!ToClause(db'[r]) = M!ToClause(db[r])
  <2> DEFINE r == vardata[M!VarOf(trail[k])].reason
  <2>1. r \in M!Live
    BY <1>5, <1>6 DEF ReasonsOK, ReasonOK, M!Live
  <2>2. r = i => b[1] = db[i][1]
    BY DEF Permuted
  <2>3. DOMAIN db' = M!Live
    BY <1>1 DEF M!Live
  <2> HIDE DEF r
  <2>4. r \in DOMAIN db' /\ db'[r][1] = db[r][1] /\ M!ToClause(db'[r]) = M!ToClause(db[r])
    BY <1>1, <1>3, <2>1, <2>2, <2>3
  <2> QED
    BY <2>4 DEF r
<1>7. ReasonClausesKept(trail, vardata, db, Len(trail), db')
  BY <1>6 DEF ReasonClausesKept
<1> QED
  BY <1>1, <1>3, <1>4, <1>7 DEF Reordered
(* The clauses are reordered and nothing else of the state changes, but    *)
(* for the queue.                                                          *)
Apart == UNCHANGED <<todo, formula, learnts, ok, trail, trail_lim, vardata, out_learnt, assumptions, conflict, model, status, pc>>

LEMMA ReorderedKeeps ==
  ASSUME MinisatInv, Reordered, DatabaseTyped', Apart, qhead' \in 0 .. Len(trail)
  PROVE  Typed' /\ Trail' /\ Derived' /\ Covered' /\ AnswerKept' /\ Assumed' /\ Analyzing'
<1>1. /\ TrailOK(trail, trail_lim, vardata) /\ ReasonsOK(trail, trail_lim, vardata, db)
      /\ ReasonClausesKept(trail, vardata, db, Len(trail), db')
  BY DEF MinisatInv, Trail, Reordered
<1>2. Len(trail) \in 0 .. Len(trail) /\ KeptBelow(trail, trail_lim, vardata, Len(trail), trail, trail_lim, vardata)
  BY <1>1, TrailFacts DEF KeptBelow
<1>3. ReasonsOK(trail, trail_lim, vardata, db')
  BY <1>1, <1>2, ReasonsKept DEF ReasonsOK
<1>4. Trail'
  BY <1>1, <1>3 DEF Apart, Trail
<1>5. Typed'
  BY DEF Typed, OtherTyped, Apart, MinisatInv
<1>6. \A j \in M!Live : M!ToClause(db'[j]) = M!ToClause(db[j])
  BY DEF Reordered
<1>7. M!Live' = M!Live
  BY DEF Reordered
<1>8. Derived'
  BY <1>6, <1>7 DEF MinisatInv, Derived, Apart, M!level, M!Models
<1>9. Covered'
  BY <1>6, <1>7 DEF MinisatInv, Covered, Apart, M!level
<1>10. AnswerKept' /\ Assumed' /\ Analyzing'
  BY DEF MinisatInv, Search, AnswerKept, Assumed, Analyzing, Apart, M!level, M!reason, M!True, M!False, M!decisionLevel, M!Current, M!Models
<1> QED
  BY <1>4, <1>5, <1>8, <1>9, <1>10

(* The true literals of a clause at the level of the trail's literal k or  *)
(* below.                                                                  *)
Supported(i, k) == \E j \in 1 .. Len(trail) : trail[j] \in M!ToClause(db[i]) /\ M!level(trail[j]) <= M!level(trail[k])

LEMMA SupportedNow ==
  ASSUME MinisatInv, NEW i, NEW l, NEW c, VisitOK(i, l, c), M!ToClause(c) \cap M!True # {}
  PROVE  Supported(i, qhead)
<1>1. TrailOK(trail, trail_lim, vardata)
  BY DEF MinisatInv, Trail
<1>2. PICK x \in M!True : x \in M!ToClause(c)
  OBVIOUS
<1>3. x \in M!Lit /\ \E j \in 1 .. Len(trail) : trail[j] = x
  BY <1>1, TrueIs
<1>4. PICK j \in 1 .. Len(trail) : trail[j] = x
  BY <1>3
<1>5. vardata[M!VarOf(trail[j])].level \in 0 .. Len(trail_lim) /\ Len(trail_lim) \in Nat
  BY <1>1, TrailFacts
<1>6. vardata[M!VarOf(trail[qhead])].level = Len(trail_lim) /\ M!ToClause(c) = M!ToClause(db[i])
  BY DEF VisitOK, M!decisionLevel
<1>7. M!level(trail[j]) <= M!level(trail[qhead])
  BY <1>5, <1>6 DEF M!level
<1> QED
  BY <1>2, <1>4, <1>6, <1>7 DEF Supported

Settled(i) ==
  \A k \in 1 .. qhead : -trail[k] \in {db'[i][1], db'[i][2]} =>
    (k < qhead /\ -trail[k] \in {db[i][1], db[i][2]}) \/ Supported(i, k)

OthersKept(i) == \A j \in M!Live : j # i => db'[j][1] = db[j][1] /\ db'[j][2] = db[j][2]

LEMMA VisitedWatched ==
  ASSUME MinisatInv, pc \in {"adding", "search"}, confl = 0, confl' = 0, NEW i, Reordered, OthersKept(i), Apart,
         visit' = visit \ {i}, UNCHANGED qhead, Settled(i)
  PROVE  Watched' /\ Control' /\ InConflict'
<1>1. Watched'
  <2> SUFFICES ASSUME ok, NEW j \in M!Live, NEW k \in 1 .. Len(trail),
                      -trail[k] \in {db'[j][1], db'[j][2]}, Visited(k, j)'
               PROVE  Supported(j, k)
    BY DEF Watched, Apart, Reordered, M!level, Supported
  <2>1. k < qhead \/ (k = qhead /\ j \notin visit \ {i})
    BY DEF Visited, Apart
  <2>2. ASSUME -trail[k] \in {db[j][1], db[j][2]}, k < qhead \/ j \notin visit PROVE Supported(j, k)
    <3>1. Visited(k, j)
      BY <2>1, <2>2 DEF Visited
    <3> QED
      BY <2>2, <3>1 DEF MinisatInv, Search, Watched, Supported
  <2>3. CASE j # i
    BY <2>1, <2>2, <2>3 DEF OthersKept
  <2>4. CASE j = i
    <3>1. qhead \in Nat /\ Len(trail) \in Nat
      BY TrailFacts DEF MinisatInv, Trail, Typed, OtherTyped
    <3>2. k \in 1 .. qhead
      BY <2>1, <3>1
    <3> QED
      BY <2>2, <2>4, <3>2 DEF Settled
  <2> QED
    BY <2>3, <2>4
<1>2. Control'
  BY DEF MinisatInv, Search, Control, Apart
<1> QED
  BY <1>1, <1>2 DEF InConflict

LEMMA VisitedQueue ==
  ASSUME MinisatInv, confl' = 0, NEW i, Reordered, OthersKept(i), UNCHANGED <<trail_lim, qhead>>,
         \A k \in 1 .. qhead : trail'[k] = trail[k], visit' = visit \ {i}
  PROVE  Propagation'
<1>1. /\ M!decisionLevel > 0 => trail_lim[M!decisionLevel] <= qhead
      /\ visit # {} => qhead > 0 /\ (M!decisionLevel > 0 => trail_lim[M!decisionLevel] < qhead)
      /\ \A j \in visit : j \in M!Live /\ -trail[qhead] \in {db[j][1], db[j][2]}
  BY DEF MinisatInv, Search, Propagation
<1>2. M!Live' = M!Live /\ M!decisionLevel' = M!decisionLevel
  BY DEF Reordered, M!decisionLevel
<1>3. qhead \in Nat
  BY DEF MinisatInv, Typed, OtherTyped
<1>4. \A j \in visit' : j \in M!Live /\ -trail'[qhead] \in {db'[j][1], db'[j][2]}
  BY <1>1, <1>3 DEF OthersKept
<1> HIDE DEF M!decisionLevel, M!Live
<1> QED
  BY <1>1, <1>2, <1>4 DEF Propagation
Replaced(i, c, b) ==
  /\ IsClause(b) /\ M!ToClause(b) = M!ToClause(c) /\ b[1] = c[1]
  /\ db' = [db EXCEPT ![i] = b] /\ UNCHANGED learnts

LEMMA ReorderedFrom ==
  ASSUME MinisatInv, NEW i, NEW l, NEW c, VisitOK(i, l, c), NEW b, Replaced(i, c, b)
  PROVE  Reordered /\ DatabaseTyped' /\ OthersKept(i) /\ db'[i] = b
<1>0. /\ IsClause(b) /\ M!ToClause(b) = M!ToClause(c) /\ b[1] = c[1]
      /\ db' = [db EXCEPT ![i] = b] /\ UNCHANGED learnts
  BY DEF Replaced
<1>1. /\ i \in M!Live /\ M!ToClause(c) = M!ToClause(db[i]) /\ (c = db[i] \/ db[i][1] = l)
      /\ \A k \in 1 .. Len(trail) : vardata[M!VarOf(trail[k])].reason = i => c = db[i]
  BY DEF VisitOK
<1>2. b[1] = db[i][1] \/ \A k \in 1 .. Len(trail) : vardata[M!VarOf(trail[k])].reason # i
  BY <1>0, <1>1
<1>3. Permuted(i, b)
  BY <1>0, <1>1, <1>2 DEF Permuted
<1> QED
  BY <1>3, PermutedKeeps DEF OthersKept

(* The end of a visit that changes at most the order of the clause. *)
LEMMA VisitEnds ==
  ASSUME MinisatInv, pc \in {"adding", "search"}, confl = 0, confl' = 0, NEW i, Reordered, DatabaseTyped', OthersKept(i), Apart,
         visit' = visit \ {i}, UNCHANGED qhead, Settled(i)
  PROVE  MinisatInv'
<1>1. qhead' \in 0 .. Len(trail)
  BY DEF MinisatInv, Typed, OtherTyped
<1>2. Typed' /\ Trail' /\ Derived' /\ Covered' /\ AnswerKept' /\ Assumed' /\ Analyzing'
  BY <1>1, ReorderedKeeps
<1>3. Watched' /\ Control' /\ InConflict'
  BY VisitedWatched
<1>4. Propagation'
  <2>1. \A k \in 1 .. qhead : trail'[k] = trail[k]
    BY DEF Apart
  <2>2. UNCHANGED <<trail_lim, qhead>>
    BY DEF Apart
  <2> QED
    BY <2>1, <2>2, VisitedQueue
<1> QED
  BY <1>2, <1>3, <1>4 DEF MinisatInv, Search

LEMMA BlockedInv ==
  ASSUME MinisatInv, pc \in {"adding", "search"}, confl = 0, NEW i, NEW l, NEW c, VisitOK(i, l, c), Apart,
         M!ToClause(c) \cap M!True # {}, visit' = visit \ {i}, UNCHANGED <<qhead, confl>>,
         UNCHANGED db \/ db' = [db EXCEPT ![i] = c]
  PROVE  MinisatInv'
<1>1. UNCHANGED learnts
  BY DEF Apart
<1>2. Reordered /\ DatabaseTyped' /\ OthersKept(i) /\ {db'[i][1], db'[i][2]} = {db[i][1], db[i][2]}
  <2>1. CASE UNCHANGED db
    <3>1. \A j \in M!Live : IsClause(db[j])
      BY DEF MinisatInv, Typed, DatabaseTyped
    <3>2. ReasonClausesKept(trail, vardata, db, Len(trail), db)
      BY DEF MinisatInv, Trail, ReasonsOK, ReasonOK, ReasonClausesKept
    <3>3. DatabaseTyped'
      BY <1>1, <2>1 DEF MinisatInv, Typed, DatabaseTyped, M!Live
    <3> QED
      BY <1>1, <2>1, <3>1, <3>2, <3>3 DEF Reordered, OthersKept, M!Live
  <2>2. CASE db' = [db EXCEPT ![i] = c]
    <3>1. IsClause(c) /\ {c[1], c[2]} = {db[i][1], db[i][2]}
      BY DEF VisitOK
    <3>2. Replaced(i, c, c)
      BY <1>1, <2>2, <3>1 DEF Replaced
    <3>3. Reordered /\ DatabaseTyped' /\ OthersKept(i) /\ db'[i] = c
      BY <3>2, ReorderedFrom
    <3> QED
      BY <3>1, <3>3
  <2> QED
    BY <2>1, <2>2
<1>3. Supported(i, qhead)
  BY SupportedNow
<1>4. qhead \in Nat
  BY DEF MinisatInv, Typed, OtherTyped
<1>5. Settled(i)
  BY <1>2, <1>3, <1>4 DEF Settled
<1> QED
  BY <1>2, <1>5, VisitEnds

LEMMA NewWatchInv ==
  ASSUME MinisatInv, pc \in {"adding", "search"}, confl = 0, NEW i, NEW l, NEW c, VisitOK(i, l, c), Apart,
         NEW n \in M!NewWatch(c), db' = [db EXCEPT ![i] = [c EXCEPT ![2] = c[n], ![n] = l]],
         visit' = visit \ {i}, UNCHANGED <<qhead, confl>>
  PROVE  MinisatInv'
<1> DEFINE b == [c EXCEPT ![2] = c[n], ![n] = c[2]]
<1>1. IsClause(c) /\ c[2] = l /\ {c[1], c[2]} = {db[i][1], db[i][2]} /\ l = -trail[qhead] /\ qhead \in 1 .. Len(trail)
  BY DEF VisitOK
<1>2. n \in 3 .. Len(c) /\ c[n] \notin M!False
  BY DEF M!NewWatch
<1>3. Len(c) \in Nat /\ 1 \in 1 .. Len(c) /\ 2 \in 1 .. Len(c) /\ n \in 1 .. Len(c) /\ n # 1 /\ n # 2 /\ c[1] # c[2]
  BY <1>1, <1>2, ClauseIs
<1>4. IsSwap(c, 2, n, b)
  BY <1>1, <1>3, SwapIs
<1>5. IsClause(b) /\ M!ToClause(b) = M!ToClause(c) /\ b[1] = c[1] /\ b[2] = c[n]
  BY <1>3, <1>4 DEF IsSwap
<1>6. db' = [db EXCEPT ![i] = b] /\ UNCHANGED learnts
  BY <1>1 DEF Apart
<1> HIDE DEF b
<1>7a. Replaced(i, c, b)
  BY <1>5, <1>6 DEF Replaced
<1>7. Reordered /\ DatabaseTyped' /\ OthersKept(i) /\ db'[i] = b
  BY <1>7a, ReorderedFrom
<1>8. TrailOK(trail, trail_lim, vardata)
  BY DEF MinisatInv, Trail
<1>9. ASSUME NEW k \in 1 .. qhead, -trail[k] \in {b[1], b[2]} PROVE k < qhead /\ -trail[k] \in {db[i][1], db[i][2]}
  <2>1. k \in 1 .. Len(trail) /\ Len(trail) \in Nat /\ qhead \in Nat
    BY <1>1, <1>8, TrailFacts
  <2>2. trail[k] \in M!Lit /\ -trail[k] \in M!Lit /\ trail[k] = -(-trail[k])
    BY <1>8, <2>1, TrailFacts, LitFacts
  <2>3. -trail[k] \in M!False
    BY <1>8, <2>1, <2>2, TrueIs
  <2>4. -trail[k] = c[1]
    BY <1>2, <1>5, <1>9, <2>3
  <2>5. k # qhead
    BY <1>1, <1>3, <2>4
  <2>6. k < qhead
    BY <2>1, <2>5
  <2>7. c[1] \in {db[i][1], db[i][2]}
    BY <1>1
  <2> QED
    BY <2>4, <2>6, <2>7
<1>10. Settled(i)
  BY <1>7, <1>9 DEF Settled
<1> QED
  BY <1>7, <1>10, VisitEnds

(* No literal of the clause but the first can be watched. *)
LEMMA NoNewWatch ==
  ASSUME MinisatInv, NEW i, NEW l, NEW c, VisitOK(i, l, c), M!NewWatch(c) = {}
  PROVE  \A q \in M!ToClause(c) : q # c[1] => q \in M!False
<1>1. IsClause(c) /\ c[2] = l /\ l \in M!False
  BY DEF VisitOK
<1> SUFFICES ASSUME NEW q \in M!ToClause(c), q # c[1] PROVE q \in M!False
  OBVIOUS
<1>2. PICK k \in 1 .. Len(c) : c[k] = q
  BY <1>1, ClauseIs
<1>3. k = 2 \/ k \in 3 .. Len(c)
  BY <1>1, <1>2, ClauseIs
<1> QED
  BY <1>1, <1>2, <1>3 DEF M!NewWatch

LEMMA ConflictInv ==
  ASSUME MinisatInv, pc \in {"adding", "search"}, confl = 0, NEW i, NEW l, NEW c, VisitOK(i, l, c), Apart,
         M!NewWatch(c) = {}, c[1] \in M!False, db' = [db EXCEPT ![i] = c], confl' = i, qhead' = Len(trail), visit' = {}
  PROVE  MinisatInv'
<1>1. /\ IsClause(c) /\ c[2] = l /\ {c[1], c[2]} = {db[i][1], db[i][2]} /\ l \in M!False /\ M!level(l) = M!decisionLevel
      /\ i \in M!Live /\ i # 0 /\ qhead \in 1 .. Len(trail) /\ (M!decisionLevel > 0 => trail_lim[M!decisionLevel] < qhead)
  BY DEF VisitOK
<1>2. UNCHANGED learnts
  BY DEF Apart
<1>3a. Replaced(i, c, c)
  BY <1>1, <1>2 DEF Replaced
<1>3. Reordered /\ DatabaseTyped' /\ OthersKept(i) /\ db'[i] = c
  BY <1>3a, ReorderedFrom
<1>4. M!ToClause(c) \subseteq M!False /\ l \in M!ToClause(c)
  BY <1>1, NoNewWatch, ClauseIs
<1>5. Len(trail) \in Nat /\ M!decisionLevel \in Nat /\ (M!decisionLevel > 0 => trail_lim[M!decisionLevel] \in Nat /\ trail_lim[M!decisionLevel] <= Len(trail))
  BY TrailFacts DEF MinisatInv, Trail, M!decisionLevel
<1>6. qhead' \in 0 .. Len(trail)
  BY <1>5
<1>7. Typed' /\ Trail' /\ Derived' /\ Covered' /\ AnswerKept' /\ Assumed' /\ Analyzing'
  BY <1>3, <1>6, ReorderedKeeps
<1>8. Control'
  BY DEF MinisatInv, Search, Control, Apart
<1>9. M!decisionLevel' = M!decisionLevel /\ M!Live' = M!Live /\ UNCHANGED <<trail, trail_lim, pc, ok, vardata>>
  BY <1>3 DEF Apart, M!decisionLevel, Reordered
<1>10. InConflict'
  BY <1>1, <1>3, <1>4, <1>9 DEF InConflict, M!False, M!True, M!level
<1> HIDE DEF M!decisionLevel, M!Live
<1>11. Propagation'
  BY <1>1, <1>5, <1>9 DEF Propagation
<1>12. Watched'
  <2> SUFFICES ASSUME ok, NEW j \in M!Live, NEW k \in 1 .. Len(trail),
                      -trail[k] \in {db'[j][1], db'[j][2]}, Visited(k, j)'
               PROVE  Supported(j, k)
    <3>1. \A j \in M!Live : M!ToClause(db'[j]) = M!ToClause(db[j])
      BY <1>3 DEF Reordered
    <3> QED
      BY <1>9, <3>1 DEF Watched, M!level, Supported
  <2>1. M!decisionLevel > 0 /\ k <= trail_lim[M!decisionLevel]
    BY <1>1, <1>9 DEF Visited
  <2>2. k < qhead
    BY <1>1, <1>5, <2>1
  <2>3. Visited(k, j)
    BY <2>2 DEF Visited
  <2>4. -trail[k] \in {db[j][1], db[j][2]}
    BY <1>1, <1>3 DEF OthersKept
  <2> QED
    BY <2>3, <2>4 DEF MinisatInv, Search, Watched, Supported
<1> QED
  BY <1>7, <1>8, <1>10, <1>11, <1>12 DEF MinisatInv, Search
LEMMA ImpliedInv ==
  ASSUME MinisatInv, pc \in {"adding", "search"}, confl = 0, NEW i, NEW l, NEW c, VisitOK(i, l, c),
         UNCHANGED <<todo, formula, learnts, ok, trail_lim, out_learnt, assumptions, conflict, model, status, pc>>,
         M!NewWatch(c) = {}, c[1] \notin M!True \cup M!False, db' = [db EXCEPT ![i] = c],
         M!Enqueue(trail, c[1], M!decisionLevel, i), visit' = visit \ {i}, UNCHANGED <<qhead, confl>>
  PROVE  MinisatInv'
<1> DEFINE n == Len(trail)
<1> DEFINE p == c[1]
<1> DEFINE Off == UNCHANGED <<todo, formula, learnts, ok, trail_lim, out_learnt, assumptions, conflict, model, status, pc, qhead, confl>>
<1>0. Off /\ visit' = visit \ {i}
  OBVIOUS
<1>1. /\ IsClause(c) /\ c[2] = l /\ {c[1], c[2]} = {db[i][1], db[i][2]} /\ l \in M!False /\ M!level(l) = M!decisionLevel
      /\ i \in M!Live /\ i \in Nat /\ i # 0 /\ qhead \in 1 .. Len(trail) /\ M!ToClause(c) = M!ToClause(db[i])
      /\ vardata[M!VarOf(trail[qhead])].level = M!decisionLevel
  BY DEF VisitOK
<1>2. Replaced(i, c, c)
  BY <1>1 DEF Replaced
<1>3. Reordered /\ DatabaseTyped' /\ OthersKept(i) /\ db'[i] = c
  BY <1>2, ReorderedFrom
<1>4. TrailOK(trail, trail_lim, vardata) /\ ReasonsOK(trail, trail_lim, vardata, db)
  BY DEF MinisatInv, Trail
<1>5. trail \in Seq(M!Lit) /\ vardata \in [M!Var -> [level : Nat, reason : Nat]] /\ n \in Nat /\ M!decisionLevel \in Nat
  BY <1>4, TrailFacts DEF TrailOK, M!decisionLevel
<1>6. p \in M!Lit /\ Unassigned(trail, p)
  BY <1>1, <1>4, ClauseIs, UnassignedIs
<1>7. \A q \in M!ToClause(c) : q # p => q \in M!False
  BY NoNewWatch
<1>8. /\ trail' = Append(trail, p) /\ Fits(trail, vardata, vardata')
      /\ vardata'[M!VarOf(p)].level = M!decisionLevel /\ vardata'[M!VarOf(p)].reason = i
  BY <1>1, <1>5, <1>6, EnqueueFits
<1> HIDE DEF p, Off
<1>9. ReasonClausesKept(trail, vardata, db, n, db')
  BY <1>3 DEF Reordered
<1>10. ImpliedBy(trail, trail_lim, p, i, db')
  <2>1. i \in DOMAIN db' /\ db'[i][1] = p
    BY <1>1, <1>3 DEF Reordered, M!Live, p
  <2>2. \A q \in M!ToClause(c) \ {p} : \E j \in 1 .. Len(trail) : trail[j] = -q
    BY <1>4, <1>7, FalseAt
  <2> QED
    BY <1>1, <1>3, <2>1, <2>2 DEF ImpliedBy
<1>11. vardata'[M!VarOf(p)].level = Len(trail_lim)
  BY <1>8 DEF M!decisionLevel
<1>12. TrailOK(trail', trail_lim, vardata') /\ ReasonsOK(trail', trail_lim, vardata', db')
  BY <1>4, <1>6, <1>8, <1>9, <1>10, <1>11, ReasonsPush
<1>13. Trail'
  BY <1>0, <1>12 DEF Trail, Off
<1>14. Len(trail') = n + 1 /\ trail'[n + 1] = p /\ \A k \in 1 .. n : trail'[k] = trail[k]
  BY <1>5, <1>6, <1>8, AppendIs
<1>15. \A k \in 1 .. n : vardata'[M!VarOf(trail[k])] = vardata[M!VarOf(trail[k])]
  BY <1>8 DEF Fits
<1>16. Typed'
  BY <1>0, <1>3, <1>5, <1>14 DEF MinisatInv, Typed, OtherTyped, Off
<1>17. M!decisionLevel' = M!decisionLevel /\ M!Live' = M!Live
  BY <1>0, <1>3 DEF M!decisionLevel, Reordered, Off
<1>18. Control' /\ InConflict'
  BY <1>0, <1>1 DEF MinisatInv, Search, Control, InConflict, Off
<1> HIDE DEF n
<1>19. Propagation'
  <2>1. \A k \in 1 .. qhead : trail'[k] = trail[k]
    BY <1>1, <1>5, <1>14 DEF n
  <2>2. confl' = 0 /\ UNCHANGED <<trail_lim, qhead>> /\ visit' = visit \ {i}
    BY <1>0 DEF Off
  <2> QED
    BY <1>3, <2>1, <2>2, VisitedQueue
<1>20. \A k \in 1 .. n + 1 : k = n + 1 \/ k \in 1 .. n
  BY <1>5
<1>21. \A k \in 1 .. n : M!level(trail[k])' = M!level(trail[k]) /\ M!reason(trail[k])' = M!reason(trail[k]) /\ trail'[k] = trail[k]
  BY <1>14, <1>15 DEF M!level, M!reason
<1>22. /\ vardata'[M!VarOf(trail'[n + 1])].level = M!decisionLevel /\ vardata'[M!VarOf(trail'[n + 1])].reason = i
       /\ trail'[n + 1] = p /\ n + 1 \in 1 .. n + 1 /\ 1 .. n \subseteq 1 .. n + 1
  BY <1>5, <1>8, <1>14
<1>23. Watched'
  <2> SUFFICES ASSUME ok, NEW j \in M!Live, NEW k \in 1 .. n + 1,
                      -trail'[k] \in {db'[j][1], db'[j][2]}, Visited(k, j)'
               PROVE  \E x \in 1 .. n + 1 : /\ trail'[x] \in M!ToClause(db[j])
                                            /\ vardata'[M!VarOf(trail'[x])].level <= vardata'[M!VarOf(trail'[k])].level
    <3>1. \A j \in M!Live : M!ToClause(db'[j]) = M!ToClause(db[j])
      BY <1>3 DEF Reordered
    <3>2. ok' = ok /\ M!Live' = M!Live /\ Len(trail') = n + 1
      BY <1>0, <1>14, <1>17 DEF Off
    <3> HIDE DEF M!Live
    <3> QED
      BY <3>1, <3>2 DEF Watched, M!level
  <2>1. k < qhead \/ (k = qhead /\ j \notin visit \ {i})
    BY <1>0, <1>1 DEF Visited, Off
  <2>2. k \in 1 .. n /\ trail'[k] = trail[k] /\ vardata'[M!VarOf(trail'[k])] = vardata[M!VarOf(trail[k])]
    BY <1>1, <1>5, <1>14, <1>15, <2>1 DEF n
  <2>3. -trail[k] \in {db[j][1], db[j][2]}
    BY <1>1, <1>3, <2>2 DEF OthersKept
  <2>4. CASE k = qhead /\ j = i
    <3>1. vardata'[M!VarOf(trail'[k])].level = M!decisionLevel
      BY <1>1, <2>2, <2>4
    <3>2. p \in M!ToClause(db[j])
      BY <1>1, <2>4, ClauseIs DEF p
    <3>3. M!decisionLevel <= M!decisionLevel
      BY <1>5
    <3> QED
      BY <1>22, <3>1, <3>2, <3>3
  <2>5. CASE k < qhead \/ j # i
    <3>1. Visited(k, j)
      BY <2>1, <2>5 DEF Visited
    <3>2. \E x \in 1 .. n : trail[x] \in M!ToClause(db[j]) /\ M!level(trail[x]) <= M!level(trail[k])
      BY <2>2, <2>3, <3>1 DEF MinisatInv, Search, Watched, n
    <3>3. PICK x \in 1 .. n : trail[x] \in M!ToClause(db[j]) /\ M!level(trail[x]) <= M!level(trail[k])
      BY <3>2
    <3>4. x \in 1 .. n + 1 /\ trail'[x] = trail[x] /\ vardata'[M!VarOf(trail'[x])] = vardata[M!VarOf(trail[x])]
      BY <1>5, <1>14, <1>15
    <3> QED
      BY <2>2, <3>3, <3>4 DEF M!level
  <2> QED
    BY <2>1, <2>4, <2>5
<1>24. \A x \in M!True : x \in M!True' /\ x \in M!Lit
  <2> SUFFICES ASSUME NEW x \in M!True PROVE x \in M!True' /\ x \in M!Lit
    OBVIOUS
  <2>1. x \in M!Lit
    BY <1>4, TrueIs
  <2>2. PICK k \in 1 .. n : trail[k] = x
    BY <1>4, <2>1, TrueIs DEF n
  <2>3. trail'[k] = x /\ k \in 1 .. Len(trail') /\ trail' \in Seq(M!Lit)
    BY <1>5, <1>12, <1>14, <2>2 DEF TrailOK
  <2> QED
    BY <2>1, <2>3 DEF M!True, M!ToClause
<1>25. \A x \in M!True : M!level(x)' = M!level(x)
  <2> SUFFICES ASSUME NEW x \in M!True PROVE M!level(x)' = M!level(x)
    OBVIOUS
  <2>2. PICK k \in 1 .. n : trail[k] = x
    BY <1>4, TrueIs DEF n
  <2> QED
    BY <1>21, <2>2
<1>26. Assumed'
  <2> SUFFICES ASSUME pc = "search", NEW d \in 1 .. M!decisionLevel, d <= Len(assumptions)
               PROVE  /\ assumptions[d] \in M!True' /\ M!level(assumptions[d])' <= d
                      /\ \A k \in 1 .. n + 1 : vardata'[M!VarOf(trail'[k])].level = d /\ vardata'[M!VarOf(trail'[k])].reason = 0
                                               => trail'[k] = assumptions[d]
    <3>1. UNCHANGED <<pc, assumptions>> /\ Len(trail') = n + 1
      BY <1>0, <1>14 DEF Off
    <3> HIDE DEF M!decisionLevel
    <3> QED
      BY <1>17, <3>1 DEF Assumed, M!level, M!reason
  <2>1. /\ assumptions[d] \in M!True /\ M!level(assumptions[d]) <= d
        /\ \A k \in 1 .. n : M!level(trail[k]) = d /\ M!reason(trail[k]) = 0 => trail[k] = assumptions[d]
    BY DEF MinisatInv, Search, Assumed, n
  <2>2. assumptions[d] \in M!True' /\ M!level(assumptions[d])' <= d
    BY <1>24, <1>25, <2>1
  <2>3. ASSUME NEW k \in 1 .. n + 1, vardata'[M!VarOf(trail'[k])].level = d, vardata'[M!VarOf(trail'[k])].reason = 0
        PROVE  trail'[k] = assumptions[d]
    <3>1. k \in 1 .. n
      BY <1>1, <1>20, <1>22, <2>3
    <3> QED
      BY <1>14, <1>15, <2>1, <2>3, <3>1 DEF M!level, M!reason
  <2> QED
    BY <2>2, <2>3
<1>27. Analyzing'
  BY <1>0 DEF Analyzing, Off
<1>28. Derived'
  <2> SUFFICES ASSUME NEW m \in M!Models(formula)
               PROVE  /\ ok /\ \A j \in M!Live : m \cap M!ToClause(db[j]) # {}
                      /\ \A k \in 1 .. n + 1 : vardata'[M!VarOf(trail'[k])].level = 0 => trail'[k] \in m
    <3>1. UNCHANGED <<pc, ok, formula>> /\ Len(trail') = n + 1 /\ \A j \in M!Live : M!ToClause(db'[j]) = M!ToClause(db[j])
      BY <1>0, <1>3, <1>14 DEF Off, Reordered
    <3> HIDE DEF M!Live
    <3> QED
      BY <1>17, <3>1 DEF Derived, M!level, M!Models
  <2>1. /\ ok /\ \A j \in M!Live : m \cap M!ToClause(db[j]) # {}
        /\ \A k \in 1 .. n : M!level(trail[k]) = 0 => trail[k] \in m
    BY DEF MinisatInv, Derived, n
  <2>2. ASSUME M!decisionLevel = 0 PROVE p \in m
    <3>1. PICK q \in m : q \in M!ToClause(c)
      BY <1>1, <2>1
    <3>2. ASSUME q # p PROVE FALSE
      <4>1. q \in M!False
        BY <1>7, <3>1, <3>2
      <4>2. M!level(q) = 0
        BY <1>4, <2>2, <4>1, FalseAt, TrailFacts DEF M!level, M!decisionLevel
      <4> QED
        BY <3>1, <4>1, <4>2, RootFalse
    <3> QED
      BY <3>1, <3>2
  <2>3. ASSUME NEW k \in 1 .. n + 1, vardata'[M!VarOf(trail'[k])].level = 0 PROVE trail'[k] \in m
    <3>1. CASE k = n + 1
      BY <1>22, <2>2, <2>3, <3>1
    <3>2. CASE k \in 1 .. n
      BY <1>14, <1>15, <2>1, <2>3, <3>2 DEF M!level
    <3> QED
      BY <1>20, <3>1, <3>2
  <2> QED
    BY <2>1, <2>3
<1>29. Covered'
  <2> SUFFICES ASSUME ok, NEW x \in formula
               PROVE  \/ M!Tautology(x)
                      \/ \E k \in 1 .. n + 1 : trail'[k] \in x /\ vardata'[M!VarOf(trail'[k])].level = 0
                      \/ \E j \in M!Live \ learnts : M!ToClause(db[j]) \subseteq x
    <3>1. UNCHANGED <<ok, formula, learnts>> /\ Len(trail') = n + 1 /\ \A j \in M!Live : M!ToClause(db'[j]) = M!ToClause(db[j])
      BY <1>0, <1>3, <1>14 DEF Off, Reordered
    <3> HIDE DEF M!Live
    <3> QED
      BY <1>17, <3>1 DEF Covered, M!level
  <2>1. \/ M!Tautology(x)
        \/ \E k \in 1 .. n : trail[k] \in x /\ M!level(trail[k]) = 0
        \/ \E j \in M!Live \ learnts : M!ToClause(db[j]) \subseteq x
    BY DEF MinisatInv, Covered, n
  <2>2. ASSUME NEW k \in 1 .. n, trail[k] \in x, M!level(trail[k]) = 0
        PROVE  \E y \in 1 .. n + 1 : trail'[y] \in x /\ vardata'[M!VarOf(trail'[y])].level = 0
    BY <1>14, <1>15, <1>22, <2>2 DEF M!level
  <2> QED
    BY <2>1, <2>2
<1>30. AnswerKept'
  BY <1>0 DEF AnswerKept, Off
<1> QED
  BY <1>13, <1>16, <1>18, <1>19, <1>23, <1>26, <1>27, <1>28, <1>29, <1>30 DEF MinisatInv, Search
LEMMA VisitInv == ASSUME MinisatInv, M!Visit PROVE MinisatInv'
<1>1. /\ pc \in {"adding", "search"} /\ confl = 0
      /\ UNCHANGED <<todo, formula, learnts, ok, trail_lim, out_learnt, assumptions, conflict, model, status, pc>>
  BY DEF M!Visit, M!input, M!answer
<1>2. PICK i \in visit : M!VisitClause(i)
  BY DEF M!Visit
<1> DEFINE l == -trail[qhead]
<1> DEFINE c == M!Ordered(db[i], l)
<1>3. VisitOK(i, l, c)
  BY <1>1, VisitFacts
<1>4. \/ /\ M!ToClause(c) \cap M!True # {}
         /\ visit' = visit \ {i} /\ UNCHANGED <<db, trail, vardata, qhead, confl>>
      \/ /\ c[1] \in M!True /\ db' = [db EXCEPT ![i] = c]
         /\ visit' = visit \ {i} /\ UNCHANGED <<trail, vardata, qhead, confl>>
      \/ /\ M!NewWatch(c) # {}
         /\ db' = [db EXCEPT ![i] = [c EXCEPT ![2] = c[M!Min(M!NewWatch(c))], ![M!Min(M!NewWatch(c))] = l]]
         /\ visit' = visit \ {i} /\ UNCHANGED <<trail, vardata, qhead, confl>>
      \/ /\ M!NewWatch(c) = {} /\ c[1] \in M!False /\ db' = [db EXCEPT ![i] = c]
         /\ confl' = i /\ qhead' = Len(trail) /\ visit' = {}
         /\ UNCHANGED <<trail, vardata>>
      \/ /\ M!NewWatch(c) = {} /\ c[1] \notin M!True \cup M!False /\ db' = [db EXCEPT ![i] = c]
         /\ M!Enqueue(trail, c[1], M!decisionLevel, i)
         /\ visit' = visit \ {i} /\ UNCHANGED <<qhead, confl>>
  BY <1>2 DEF M!VisitClause
<1>5. IsClause(c)
  BY <1>3 DEF VisitOK
<1> HIDE DEF l, c
<1>6. CASE M!ToClause(c) \cap M!True # {} /\ visit' = visit \ {i} /\ UNCHANGED <<db, trail, vardata, qhead, confl>>
  <2>1. Apart /\ UNCHANGED <<qhead, confl>> /\ UNCHANGED db
    BY <1>1, <1>6 DEF Apart
  <2> QED
    BY <1>1, <1>3, <1>6, <2>1, BlockedInv
<1>7. CASE /\ c[1] \in M!True /\ db' = [db EXCEPT ![i] = c]
           /\ visit' = visit \ {i} /\ UNCHANGED <<trail, vardata, qhead, confl>>
  <2>1. Apart /\ UNCHANGED <<qhead, confl>> /\ db' = [db EXCEPT ![i] = c] /\ visit' = visit \ {i}
    BY <1>1, <1>7 DEF Apart
  <2>2. M!ToClause(c) \cap M!True # {}
    BY <1>5, <1>7, ClauseIs
  <2> QED
    BY <1>1, <1>3, <2>1, <2>2, BlockedInv
<1>8. CASE /\ M!NewWatch(c) # {}
           /\ db' = [db EXCEPT ![i] = [c EXCEPT ![2] = c[M!Min(M!NewWatch(c))], ![M!Min(M!NewWatch(c))] = l]]
           /\ visit' = visit \ {i} /\ UNCHANGED <<trail, vardata, qhead, confl>>
  <2> DEFINE n == M!Min(M!NewWatch(c))
  <2>1. M!NewWatch(c) \in SUBSET Nat
    BY DEF M!NewWatch
  <2>2. n \in M!NewWatch(c)
    BY <1>8, <2>1, LeastElement DEF M!Min
  <2>3. Apart /\ UNCHANGED <<qhead, confl>> /\ visit' = visit \ {i}
    BY <1>1, <1>8 DEF Apart
  <2>4. db' = [db EXCEPT ![i] = [c EXCEPT ![2] = c[n], ![n] = l]]
    BY <1>8
  <2> HIDE DEF n
  <2> QED
    BY <1>1, <1>3, <2>2, <2>3, <2>4, NewWatchInv
<1>9. CASE /\ M!NewWatch(c) = {} /\ c[1] \in M!False /\ db' = [db EXCEPT ![i] = c]
           /\ confl' = i /\ qhead' = Len(trail) /\ visit' = {}
           /\ UNCHANGED <<trail, vardata>>
  <2>1. Apart
    BY <1>1, <1>9 DEF Apart
  <2>2. M!NewWatch(c) = {} /\ c[1] \in M!False /\ db' = [db EXCEPT ![i] = c] /\ confl' = i /\ qhead' = Len(trail) /\ visit' = {}
    BY <1>9
  <2> QED
    BY <1>1, <1>3, <2>1, <2>2, ConflictInv
<1>10. CASE /\ M!NewWatch(c) = {} /\ c[1] \notin M!True \cup M!False /\ db' = [db EXCEPT ![i] = c]
            /\ M!Enqueue(trail, c[1], M!decisionLevel, i)
            /\ visit' = visit \ {i} /\ UNCHANGED <<qhead, confl>>
  <2>1. M!NewWatch(c) = {} /\ c[1] \notin M!True \cup M!False /\ db' = [db EXCEPT ![i] = c]
    BY <1>10
  <2>2. M!Enqueue(trail, c[1], M!decisionLevel, i) /\ visit' = visit \ {i} /\ UNCHANGED <<qhead, confl>>
    BY <1>10
  <2> QED
    BY <1>1, <1>3, <2>1, <2>2, ImpliedInv
<1> QED
  BY <1>4, <1>6, <1>7, <1>8, <1>9, <1>10
-----------------------------------------------------------------------------
(* cancelUntil(0) keeps the literals of level 0. *)
Cancelled ==
  /\ trail_lim' = <<>> /\ Len(trail') \in 0 .. Len(trail)
  /\ \A k \in 1 .. Len(trail') : /\ trail'[k] = trail[k] /\ vardata'[M!VarOf(trail[k])] = vardata[M!VarOf(trail[k])]
                                 /\ vardata[M!VarOf(trail[k])].level = 0
  /\ \A k \in 1 .. Len(trail) : vardata[M!VarOf(trail[k])].level = 0 => k \in 1 .. Len(trail')
  /\ TrailOK(trail', trail_lim', vardata') /\ ReasonsOK(trail', trail_lim', vardata', db)
  /\ qhead' = (IF M!decisionLevel = 0 THEN qhead ELSE Len(trail'))
  /\ M!decisionLevel = 0 => trail' = trail

LEMMA CancelIs ==
  ASSUME MinisatInv, M!cancelUntil(0) PROVE Cancelled
<1>1. TrailOK(trail, trail_lim, vardata) /\ ReasonsOK(trail, trail_lim, vardata, db)
  BY DEF MinisatInv, Trail
<1>2. /\ Len(trail) \in Nat /\ M!decisionLevel \in Nat /\ Len(trail_lim) = M!decisionLevel
      /\ \A k \in 1 .. Len(trail) : vardata[M!VarOf(trail[k])].level \in 0 .. M!decisionLevel
      /\ trail \in Seq(M!Lit) /\ trail_lim \in Seq(Nat) /\ vardata \in [M!Var -> [level : Nat, reason : Nat]]
  BY <1>1, TrailFacts DEF M!decisionLevel, TrailOK
<1>3. CASE M!decisionLevel = 0
  <2>1. UNCHANGED <<trail, trail_lim, vardata, qhead>>
    BY <1>3 DEF M!cancelUntil
  <2>2. trail_lim = <<>>
    BY <1>2, <1>3
  <2> QED
    BY <1>1, <1>2, <1>3, <2>1, <2>2 DEF Cancelled
<1>4. CASE M!decisionLevel > 0
  <2> DEFINE n == trail_lim[1]
  <2>1. /\ trail' = SubSeq(trail, 1, n) /\ vardata' = M!DataOf(trail') /\ trail_lim' = SubSeq(trail_lim, 1, 0)
        /\ qhead' = n
    BY <1>2, <1>4 DEF M!cancelUntil
  <2>2. n = trail_lim[0 + 1] /\ 0 \in 0 .. Len(trail_lim) - 1
    BY <1>2, <1>4
  <2>3. TrailOK(trail', trail_lim', vardata) /\ IsCut(trail, trail_lim, vardata, 0, n, trail', trail_lim')
    BY <1>1, <2>1, <2>2, TrailCut
  <2>4. trail' \in Seq(M!Lit) /\ trail_lim' \in Seq(Nat)
    BY <2>3 DEF TrailOK
  <2>5. Fits(trail', vardata, vardata')
    BY <1>2, <2>1, <2>4, DataOfFits
  <2>6. TrailOK(trail', trail_lim', vardata') /\ ReasonsOK(trail', trail_lim', vardata', db)
    BY <1>1, <2>1, <2>2, <2>5, ReasonsCut
  <2>7. /\ n \in 0 .. Len(trail) /\ Len(trail') = n /\ Len(trail_lim') = 0
        /\ \A k \in 1 .. n : trail'[k] = trail[k]
        /\ \A k \in 1 .. Len(trail) : vardata[M!VarOf(trail[k])].level <= 0 <=> k <= n
    BY <2>3 DEF IsCut
  <2>8. trail_lim' = <<>>
    BY <2>4, <2>7
  <2> HIDE DEF n
  <2>9. ASSUME NEW k \in 1 .. Len(trail')
        PROVE  /\ trail'[k] = trail[k] /\ vardata'[M!VarOf(trail[k])] = vardata[M!VarOf(trail[k])]
               /\ vardata[M!VarOf(trail[k])].level = 0
    <3>1. k \in 1 .. n /\ k \in 1 .. Len(trail) /\ k <= n
      BY <1>2, <2>7
    <3>2. trail'[k] = trail[k] /\ vardata[M!VarOf(trail[k])].level <= 0
      BY <2>7, <3>1
    <3>3. vardata[M!VarOf(trail[k])].level \in Nat
      BY <1>2, <3>1
    <3>4. vardata'[M!VarOf(trail'[k])] = vardata[M!VarOf(trail'[k])]
      BY <2>5, <3>1 DEF Fits
    <3> DEFINE x == vardata[M!VarOf(trail[k])].level
    <3>5. x = 0
      <4> HIDE DEF x
      <4>1. x \in Nat /\ x <= 0
        BY <3>2, <3>3 DEF x
      <4> QED
        BY <4>1
    <3> QED
      BY <3>2, <3>4, <3>5
  <2>10. ASSUME NEW k \in 1 .. Len(trail), vardata[M!VarOf(trail[k])].level = 0 PROVE k \in 1 .. Len(trail')
    <3>1. k <= n
      BY <2>7, <2>10
    <3> QED
      BY <1>2, <2>7, <3>1
  <2>11. M!decisionLevel # 0
    BY <1>2, <1>4
  <2> HIDE DEF M!decisionLevel
  <2>12. qhead' = (IF M!decisionLevel = 0 THEN qhead ELSE Len(trail')) /\ (M!decisionLevel = 0 => trail' = trail)
    BY <2>1, <2>7, <2>11
  <2>13. Len(trail') \in 0 .. Len(trail)
    BY <2>7
  <2> QED
    BY <2>6, <2>8, <2>9, <2>10, <2>12, <2>13 DEF Cancelled
<1> QED
  BY <1>2, <1>3, <1>4

Back ==
  /\ MinisatInv /\ pc = "search" /\ visit = {} /\ M!cancelUntil(0)
  /\ UNCHANGED <<todo, formula, db, learnts, visit, assumptions>>
  /\ pc' \in {"search", "idle"} /\ confl' = 0 /\ status' \in {"none", "sat", "unsat"} /\ ok' \in BOOLEAN
  /\ ok' => M!Quiet
  /\ M!Models(formula) # {} => ok'
  /\ pc' = "search" => conflict' = {} /\ ok'

LEMMA BackKeeps == ASSUME Back PROVE Typed' /\ Trail' /\ Search' /\ Derived' /\ Covered'
<1>1. /\ MinisatInv /\ pc = "search" /\ visit = {} /\ M!cancelUntil(0)
      /\ UNCHANGED <<todo, formula, db, learnts, visit, assumptions>>
      /\ pc' \in {"search", "idle"} /\ confl' = 0 /\ status' \in {"none", "sat", "unsat"} /\ ok' \in BOOLEAN
  BY DEF Back
<1>2. Cancelled
  BY <1>1, CancelIs
<1>3. /\ trail_lim' = <<>> /\ Len(trail') \in 0 .. Len(trail)
      /\ \A k \in 1 .. Len(trail') : /\ trail'[k] = trail[k] /\ vardata'[M!VarOf(trail[k])] = vardata[M!VarOf(trail[k])]
                                     /\ vardata[M!VarOf(trail[k])].level = 0
      /\ \A k \in 1 .. Len(trail) : vardata[M!VarOf(trail[k])].level = 0 => k \in 1 .. Len(trail')
      /\ qhead' = (IF M!decisionLevel = 0 THEN qhead ELSE Len(trail'))
      /\ M!decisionLevel = 0 => trail' = trail
  BY <1>2 DEF Cancelled
<1>4. Trail'
  BY <1>1, <1>2 DEF Cancelled, Trail
<1>5. Len(trail) \in Nat /\ Len(trail') \in Nat /\ qhead \in 0 .. Len(trail)
  BY <1>1, <1>4, TrailFacts DEF MinisatInv, Trail, Typed, OtherTyped
<1>6. Typed'
  <2>1. qhead' \in 0 .. Len(trail')
    BY <1>3, <1>5
  <2> QED
    BY <1>1, <2>1 DEF MinisatInv, Typed, OtherTyped, DatabaseTyped, M!Live
<1>7. M!decisionLevel' = 0 /\ M!Live' = M!Live
  BY <1>1, <1>3 DEF M!decisionLevel, M!Live
<1>8. Propagation' /\ InConflict' /\ Analyzing' /\ Assumed'
  BY <1>1, <1>7 DEF Propagation, InConflict, Analyzing, Assumed
<1>9. ok' => qhead = Len(trail) /\ confl = 0 /\ ok /\ qhead' = Len(trail')
  BY <1>1, <1>3 DEF Back, M!Quiet, MinisatInv, Search, Control
<1>10. Control'
  BY <1>1, <1>3, <1>9 DEF Control, Back
<1>11. Watched'
  <2> SUFFICES ASSUME ok', NEW i \in M!Live, NEW k \in 1 .. Len(trail'), -trail'[k] \in {db[i][1], db[i][2]}
               PROVE  \E j \in 1 .. Len(trail') : trail'[j] \in M!ToClause(db[i]) /\ vardata'[M!VarOf(trail'[j])].level <= vardata'[M!VarOf(trail'[k])].level
    BY <1>1, <1>7 DEF Watched, M!level
  <2>1. k \in 1 .. Len(trail) /\ trail'[k] = trail[k] /\ M!level(trail[k]) = 0 /\ vardata'[M!VarOf(trail[k])].level = 0
    BY <1>3, <1>5 DEF M!level
  <2>2. Visited(k, i)
    BY <1>1, <1>5, <1>9, <2>1 DEF Visited
  <2>3. PICK j \in 1 .. Len(trail) : trail[j] \in M!ToClause(db[i]) /\ M!level(trail[j]) <= M!level(trail[k])
    BY <1>1, <1>9, <2>1, <2>2 DEF MinisatInv, Search, Watched
  <2>4. vardata[M!VarOf(trail[j])].level \in Nat
    BY <1>1, TrailFacts DEF MinisatInv, Trail
  <2>5. vardata[M!VarOf(trail[j])].level = 0
    <3> DEFINE x == vardata[M!VarOf(trail[j])].level
    <3>1. x \in Nat /\ x <= 0
      BY <2>1, <2>3, <2>4 DEF M!level
    <3> HIDE DEF x
    <3>2. x = 0
      BY <3>1
    <3> QED
      BY <3>2 DEF x
  <2>6. j \in 1 .. Len(trail') /\ trail'[j] = trail[j] /\ vardata'[M!VarOf(trail[j])].level = 0
    BY <1>3, <2>5
  <2> QED
    BY <2>1, <2>3, <2>6 DEF M!level
<1>12. Derived'
  <2> SUFFICES ASSUME NEW m \in M!Models(formula)
               PROVE  /\ ok' /\ \A i \in M!Live : m \cap M!ToClause(db[i]) # {}
                      /\ \A k \in 1 .. Len(trail') : trail'[k] \in m
    BY <1>1, <1>7 DEF Derived, M!Models
  <2>1. ok'
    BY DEF Back
  <2>2. /\ \A i \in M!Live : m \cap M!ToClause(db[i]) # {}
        /\ \A k \in 1 .. Len(trail) : vardata[M!VarOf(trail[k])].level = 0 => trail[k] \in m
    BY <1>1 DEF MinisatInv, Derived, M!level
  <2>3. ASSUME NEW k \in 1 .. Len(trail') PROVE trail'[k] \in m
    BY <1>3, <1>5, <2>2
  <2> QED
    BY <2>1, <2>2, <2>3
<1>13. Covered'
  <2> SUFFICES ASSUME ok', NEW c \in formula
               PROVE  \/ M!Tautology(c)
                      \/ \E k \in 1 .. Len(trail') : trail'[k] \in c /\ vardata'[M!VarOf(trail'[k])].level = 0
                      \/ \E i \in M!Live \ learnts : M!ToClause(db[i]) \subseteq c
    BY <1>1, <1>7 DEF Covered, M!level
  <2>1. \/ M!Tautology(c)
        \/ \E k \in 1 .. Len(trail) : trail[k] \in c /\ M!level(trail[k]) = 0
        \/ \E i \in M!Live \ learnts : M!ToClause(db[i]) \subseteq c
    BY <1>1, <1>9 DEF MinisatInv, Covered
  <2>2. ASSUME NEW k \in 1 .. Len(trail), trail[k] \in c, M!level(trail[k]) = 0
        PROVE  k \in 1 .. Len(trail') /\ trail'[k] \in c /\ vardata'[M!VarOf(trail'[k])].level = 0
    BY <1>3, <2>2 DEF M!level
  <2> QED
    BY <2>1, <2>2
<1> QED
  BY <1>4, <1>6, <1>8, <1>10, <1>11, <1>12, <1>13 DEF Search

LEMMA RestartInv == ASSUME MinisatInv, M!Restart PROVE MinisatInv'
<1>1. /\ M!Quiet /\ M!cancelUntil(0)
      /\ UNCHANGED <<todo, formula, db, learnts, ok, visit, confl, assumptions, conflict, model, status, pc>>
  BY DEF M!Restart, M!input, M!clauses, M!answer
<1>2. pc = "search" /\ visit = {} /\ confl = 0 /\ ok /\ conflict = {} /\ status \in {"none", "sat", "unsat"} /\ ok \in BOOLEAN
  BY <1>1 DEF M!Quiet, MinisatInv, Search, Control, Typed, OtherTyped
<1>3. Back
  BY <1>1, <1>2 DEF Back
<1>4. AnswerKept'
  BY <1>1, <1>2 DEF AnswerKept
<1> QED
  BY <1>3, <1>4, BackKeeps DEF MinisatInv

LEMMA RootConflictInv == ASSUME MinisatInv, M!RootConflict PROVE MinisatInv'
<1>1. /\ pc = "search" /\ confl # 0 /\ M!decisionLevel = 0 /\ conflict' = conflict
      /\ status' = "unsat" /\ ok' = (ok /\ ~(conflict' = {})) /\ M!cancelUntil(0) /\ pc' = "idle" /\ confl' = 0
      /\ UNCHANGED <<todo, formula, db, learnts, visit, assumptions>>
  BY DEF M!RootConflict, M!Finish, M!input, M!clauses
<1>2. visit = {} /\ conflict = {}
  BY <1>1 DEF MinisatInv, Search, Control, Propagation
<1>3. M!Models(formula) = {}
  BY <1>1, RootConflictUnsat
<1>4. Back
  BY <1>1, <1>2, <1>3 DEF Back
<1>5. AnswerKept'
  BY <1>1, <1>2, <1>3 DEF AnswerKept, M!Models
<1> QED
  BY <1>4, <1>5, BackKeeps DEF MinisatInv
-----------------------------------------------------------------------------
LEMMA ReduceDBInv == ASSUME MinisatInv, M!reduceDB PROVE MinisatInv'
<1>1. PICK Z \in SUBSET {i \in learnts : Len(db[i]) > 2 /\ ~M!locked(i)} : db' = M!Without(db, Z) /\ learnts' = learnts \ Z
  BY DEF M!reduceDB
<1>2. /\ M!Quiet
      /\ UNCHANGED <<todo, formula, ok, trail, trail_lim, vardata, qhead, visit, confl, out_learnt, assumptions, conflict, model, status, pc>>
  BY DEF M!reduceDB, M!input, M!queue, M!answer
<1>3. M!Live' = M!Live \ Z /\ \A i \in M!Live \ Z : db'[i] = db[i]
  BY <1>1 DEF M!Without, M!Live
<1>4. pc = "search" /\ confl = 0 /\ visit = {} /\ qhead = Len(trail)
  BY <1>2 DEF M!Quiet
<1>5. Typed'
  BY <1>1, <1>2, <1>3 DEF MinisatInv, Typed, DatabaseTyped, OtherTyped
<1>6. TrailOK(trail, trail_lim, vardata) /\ ReasonsOK(trail, trail_lim, vardata, db)
  BY DEF MinisatInv, Trail
<1>7. ASSUME NEW k \in 1 .. Len(trail), vardata[M!VarOf(trail[k])].reason # 0
      PROVE  vardata[M!VarOf(trail[k])].reason \in M!Live \ Z
  <2> DEFINE r == vardata[M!VarOf(trail[k])].reason
  <2>1. r \in M!Live /\ db[r][1] = trail[k]
    BY <1>6, <1>7 DEF ReasonsOK, ReasonOK, M!Live
  <2>2. trail[k] \in M!True
    BY <1>6, TrailFacts, TrueIs
  <2>3. M!locked(r)
    BY <2>1, <2>2 DEF M!locked, M!reason
  <2> QED
    BY <2>1, <2>3
<1>8. ReasonClausesKept(trail, vardata, db, Len(trail), db')
  <2>1. DOMAIN db' = M!Live \ Z
    BY <1>3 DEF M!Live
  <2> QED
    BY <1>3, <1>7, <2>1 DEF ReasonClausesKept
<1>9. Len(trail) \in 0 .. Len(trail) /\ KeptBelow(trail, trail_lim, vardata, Len(trail), trail, trail_lim, vardata)
  BY <1>6, TrailFacts DEF KeptBelow
<1>10. ReasonsOK(trail, trail_lim, vardata, db')
  BY <1>6, <1>8, <1>9, ReasonsKept DEF ReasonsOK
<1>11. Trail'
  BY <1>2, <1>6, <1>10 DEF Trail
<1>12. Control' /\ Propagation' /\ InConflict' /\ Analyzing' /\ Assumed'
  BY <1>2, <1>4 DEF Control, Propagation, InConflict, Analyzing, Assumed, MinisatInv, Search, M!decisionLevel, M!True, M!level, M!reason
<1>13. Watched'
  BY <1>2, <1>3, <1>4 DEF MinisatInv, Search, Watched, Visited, M!level
<1>14. Derived'
  BY <1>2, <1>3 DEF MinisatInv, Derived, M!level, M!Models
<1>15. Covered'
  BY <1>1, <1>2, <1>3 DEF MinisatInv, Covered, M!level
<1>16. AnswerKept'
  BY <1>2, <1>4 DEF AnswerKept
<1> QED
  BY <1>5, <1>11, <1>12, <1>13, <1>14, <1>15, <1>16 DEF MinisatInv, Search

(* What is trimmed from a clause is false. *)
IsTrim(c, b) ==
  /\ IsClause(b) /\ b[1] = c[1] /\ b[2] = c[2] /\ Len(b) <= Len(c)
  /\ M!ToClause(b) \subseteq M!ToClause(c) /\ M!ToClause(c) \ M!ToClause(b) \subseteq M!False

LEMMA PoppedIs ==
  ASSUME NEW s, IsClause(s), NEW k \in 3 .. Len(s)
  PROVE  /\ IsClause(M!Popped(s, k)) /\ Len(M!Popped(s, k)) = Len(s) - 1 /\ M!Popped(s, k)[1] = s[1] /\ M!Popped(s, k)[2] = s[2]
         /\ M!ToClause(M!Popped(s, k)) \subseteq M!ToClause(s) /\ M!ToClause(s) \ M!ToClause(M!Popped(s, k)) \subseteq {s[k]}
<1> DEFINE b == M!Popped(s, k)
<1> DEFINE n == Len(s)
<1>1. s \in Seq(M!Lit) /\ n \in Nat /\ n >= 3 /\ DOMAIN s = 1 .. n /\ \A x, y \in 1 .. n : s[x] = s[y] => x = y
  BY DEF IsClause
<1>2. b = [j \in 1 .. n - 1 |-> IF j = k THEN s[n] ELSE s[j]]
  BY DEF M!Popped
<1>3. \A x : x \in M!ToClause(s) <=> \E j \in 1 .. n : s[j] = x
  BY <1>1 DEF M!ToClause
<1> HIDE DEF b, n
<1>4. k \in 3 .. n
  BY DEF n
<1>5. \A j \in 1 .. n : s[j] \in M!Lit
  BY <1>1 DEF n
<1>6. b \in Seq(M!Lit) /\ Len(b) = n - 1 /\ DOMAIN b = 1 .. n - 1
  BY <1>1, <1>2, <1>5
<1>7. \A j \in 1 .. n - 1 : b[j] = IF j = k THEN s[n] ELSE s[j]
  BY <1>2
<1>8. b[1] = s[1] /\ b[2] = s[2]
  BY <1>1, <1>4, <1>7
<1>9. \A x, y \in 1 .. n - 1 : b[x] = b[y] => x = y
  <2> SUFFICES ASSUME NEW x \in 1 .. n - 1, NEW y \in 1 .. n - 1, b[x] = b[y] PROVE x = y
    OBVIOUS
  <2>1. x \in 1 .. n /\ y \in 1 .. n /\ n \in 1 .. n /\ x # n /\ y # n
    BY <1>1
  <2> QED
    BY <1>1, <1>7, <2>1
<1>10. IsClause(b)
  BY <1>1, <1>6, <1>9 DEF IsClause
<1>11. \A x : x \in M!ToClause(b) <=> \E j \in 1 .. n - 1 : b[j] = x
  BY <1>6 DEF M!ToClause
<1>12. M!ToClause(b) \subseteq M!ToClause(s)
  BY <1>1, <1>3, <1>7, <1>11
<1>13. M!ToClause(s) \ M!ToClause(b) \subseteq {s[k]}
  <2> SUFFICES ASSUME NEW j \in 1 .. n, j # k PROVE \E y \in 1 .. n - 1 : b[y] = s[j]
    BY <1>3, <1>11
  <2>1. CASE j = n
    <3>1. k \in 1 .. n - 1
      BY <1>1, <1>4, <2>1
    <3> QED
      BY <1>7, <2>1, <3>1
  <2>2. CASE j \in 1 .. n - 1
    BY <1>7, <2>2
  <2> QED
    BY <1>1, <2>1, <2>2
<1> QED
  BY <1>6, <1>8, <1>10, <1>12, <1>13 DEF b, n

LEMMA TrimIs == ASSUME NEW c, IsClause(c) PROVE IsTrim(c, M!Trim(c))
<1> DEFINE K == Len(c) - 2
<1> DEFINE V == Seq(M!Lit)
<1> DEFINE At(s, n) == M!TrimAt(s, n + 2 - (Len(c) - Len(s)))
<1> DEFINE st == [p \in (1 .. K) \X V |-> At(p[2], p[1])]
<1>1. c \in Seq(M!Lit) /\ Len(c) \in Nat /\ K \in Nat /\ K \in 0 .. K /\ Len(c) = K + 2
  BY DEF IsClause
<1>2. ASSUME NEW n \in 1 .. K, NEW s \in V PROVE At(s, n) \in V
  <2> DEFINE k == n + 2 - (Len(c) - Len(s))
  <2>1. M!Popped(s, k) \in V
    <3> HIDE DEF k
    <3>1. \A j \in 1 .. Len(s) - 1 : s[j] \in M!Lit /\ s[Len(s)] \in M!Lit
      OBVIOUS
    <3>2. Len(s) \in Nat
      OBVIOUS
    <3>3. CASE Len(s) = 0
      <4>1. 1 .. Len(s) - 1 = 1 .. 0 /\ \A j \in 1 .. 0 : FALSE
        BY <3>3
      <4>2. M!Popped(s, k) \in [1 .. 0 -> M!Lit]
        BY <4>1 DEF M!Popped
      <4> QED
        BY <4>2
    <3>4. CASE Len(s) # 0
      <4>1. Len(s) - 1 \in Nat
        BY <3>2, <3>4
      <4> QED
        BY <3>1, <4>1 DEF M!Popped
    <3> QED
      BY <3>3, <3>4
  <2> QED
    BY <2>1 DEF M!TrimAt
<1>3. st \in [(1 .. K) \X V -> V]
  BY <1>2
<1>4. \A n \in 1 .. K, s \in V : st[<<n, s>>] = At(s, n)
  OBVIOUS
<1>5. M!Trim(c) = (CHOOSE T : T = [n \in 0 .. K |-> IF n = 0 THEN c ELSE At(T[n - 1], n)])[K]
  BY DEF M!Trim
<1> HIDE DEF K, st, V, At
<1>6. \A n \in 0 .. K : n # 0 => n - 1 \in 0 .. K /\ n \in 1 .. K
  BY <1>1
<1>7. PICK f : Recursive(K, V, c, st, f)
  <2>1. c \in V
    BY <1>1 DEF V
  <2> QED
    BY <1>1, <1>3, <2>1, Recursion
<1> DEFINE Eq(g) == g = [n \in 0 .. K |-> IF n = 0 THEN c ELSE At(g[n - 1], n)]
<1>8. f \in [0 .. K -> V] /\ \A n \in 0 .. K : f[n] = IF n = 0 THEN c ELSE At(f[n - 1], n)
  BY <1>4, <1>6, <1>7 DEF Recursive
<1>9. Eq(f)
  BY <1>8
<1> DEFINE g == CHOOSE g : Eq(g)
<1>10. M!Trim(c) = g[K] /\ Eq(g)
  BY <1>5, <1>9
<1> HIDE DEF g
<1>11. g[0] = c /\ \A n \in Nat : n + 1 \in 0 .. K => n \in 0 .. K /\ g[n + 1] = At(g[n], n + 1)
  <2>1. g[0] = c
    BY <1>1, <1>10
  <2>2. ASSUME NEW n \in Nat, n + 1 \in 0 .. K PROVE n \in 0 .. K /\ g[n + 1] = At(g[n], n + 1)
    <3>1. n \in 0 .. K /\ n + 1 # 0 /\ (n + 1) - 1 = n
      BY <1>1, <2>2
    <3> QED
      BY <1>10, <2>2, <3>1
  <2> QED
    BY <2>1, <2>2
<1> DEFINE Q(n) == IsTrim(c, g[n]) /\ Len(c) - Len(g[n]) <= n
<1> DEFINE T == {n \in Nat : n \in 0 .. K => Q(n)}
<1>12. 0 \in T
  <2>1. IsTrim(c, c) /\ Len(c) - Len(c) <= 0
    BY <1>1 DEF IsTrim
  <2> QED
    BY <1>11, <2>1
<1>13. ASSUME NEW n \in Nat, n \in T PROVE n + 1 \in T
  <2> SUFFICES ASSUME n + 1 \in 0 .. K PROVE IsTrim(c, g[n + 1]) /\ Len(c) - Len(g[n + 1]) <= n + 1
    <3>1. n + 1 \in Nat
      OBVIOUS
    <3>2. n + 1 \in 0 .. K => Q(n + 1)
      OBVIOUS
    <3> HIDE DEF Q
    <3> QED
      BY <3>1, <3>2
  <2>1. n \in 0 .. K /\ g[n + 1] = At(g[n], n + 1)
    BY <1>11
  <2> DEFINE s == g[n]
  <2> DEFINE k == (n + 1) + 2 - (Len(c) - Len(s))
  <2>2. IsTrim(c, s) /\ Len(c) - Len(s) <= n
    BY <1>13, <2>1
  <2>3. At(s, n + 1) = M!TrimAt(s, k)
    BY DEF At
  <2> HIDE DEF s, T
  <2>4. /\ IsClause(s) /\ s[1] = c[1] /\ s[2] = c[2] /\ Len(s) <= Len(c) /\ Len(s) \in Nat
        /\ M!ToClause(s) \subseteq M!ToClause(c) /\ M!ToClause(c) \ M!ToClause(s) \subseteq M!False
    BY <2>2, ClauseIs DEF IsTrim
  <2>5. k \in 3 .. Len(s)
    BY <1>1, <2>1, <2>2, <2>4
  <2> HIDE DEF k
  <2>6. CASE s[k] \in M!False
    <3> DEFINE b == M!Popped(s, k)
    <3>1. /\ IsClause(b) /\ Len(b) = Len(s) - 1 /\ b[1] = s[1] /\ b[2] = s[2]
          /\ M!ToClause(b) \subseteq M!ToClause(s) /\ M!ToClause(s) \ M!ToClause(b) \subseteq {s[k]}
      BY <2>4, <2>5, PoppedIs
    <3>2. g[n + 1] = b
      BY <2>1, <2>3, <2>6 DEF M!TrimAt, s
    <3> HIDE DEF b
    <3>3. Len(b) <= Len(c) /\ Len(c) - Len(b) <= n + 1
      BY <1>1, <2>2, <2>4, <3>1
    <3>4. M!ToClause(b) \subseteq M!ToClause(c) /\ M!ToClause(c) \ M!ToClause(b) \subseteq M!False
      BY <2>4, <2>6, <3>1
    <3> QED
      BY <2>4, <3>1, <3>2, <3>3, <3>4 DEF IsTrim
  <2>7. CASE s[k] \notin M!False
    <3>1. g[n + 1] = s
      BY <2>1, <2>3, <2>7 DEF M!TrimAt, s
    <3> QED
      BY <1>1, <2>2, <2>4, <3>1
  <2> QED
    BY <2>6, <2>7
<1> HIDE DEF T
<1>14. \A n \in Nat : n \in T
  BY <1>12, <1>13, SetInduction
<1> QED
  BY <1>1, <1>10, <1>14 DEF T
LEMMA SimplifyInv == ASSUME MinisatInv, M!simplify PROVE MinisatInv'
<1>1. /\ M!Quiet /\ M!decisionLevel = 0
      /\ db' = [i \in M!Live \ M!Satisfied |-> M!Trim(db[i])] /\ learnts' = learnts \ M!Satisfied
      /\ vardata' = [v \in M!Var |-> [vardata[v] EXCEPT !.reason = IF @ \in M!Satisfied THEN 0 ELSE @]]
      /\ UNCHANGED <<todo, formula, ok, trail, trail_lim, qhead, visit, confl, out_learnt, assumptions, conflict, model, status, pc>>
  BY DEF M!simplify, M!input, M!queue, M!answer
<1>2. pc = "search" /\ confl = 0 /\ visit = {} /\ qhead = Len(trail) /\ ok
  BY <1>1 DEF M!Quiet, MinisatInv, Search, Control
<1>3. TrailOK(trail, trail_lim, vardata) /\ ReasonsOK(trail, trail_lim, vardata, db)
  BY DEF MinisatInv, Trail
<1>4. M!Live' = M!Live \ M!Satisfied /\ \A i \in M!Live \ M!Satisfied : db'[i] = M!Trim(db[i])
  BY <1>1 DEF M!Live
<1>5. \A i \in M!Live : IsClause(db[i]) /\ IsTrim(db[i], M!Trim(db[i]))
  BY TrimIs DEF MinisatInv, Typed, DatabaseTyped
<1>6. ASSUME NEW i \in M!Live \ M!Satisfied
      PROVE  /\ IsClause(db'[i]) /\ db'[i][1] = db[i][1] /\ db'[i][2] = db[i][2]
             /\ M!ToClause(db'[i]) \subseteq M!ToClause(db[i]) /\ M!ToClause(db[i]) \ M!ToClause(db'[i]) \subseteq M!False
  BY <1>4, <1>5 DEF IsTrim
<1>7. Typed'
  <2>1. DatabaseTyped'
    BY <1>1, <1>4, <1>6 DEF MinisatInv, Typed, DatabaseTyped
  <2> QED
    BY <1>1, <2>1 DEF MinisatInv, Typed, OtherTyped
<1>8. vardata \in [M!Var -> [level : Nat, reason : Nat]]
  BY <1>3 DEF TrailOK
<1>9. ASSUME NEW v \in M!Var
      PROVE  /\ vardata'[v] \in [level : Nat, reason : Nat] /\ vardata'[v].level = vardata[v].level
             /\ vardata'[v].reason = IF vardata[v].reason \in M!Satisfied THEN 0 ELSE vardata[v].reason
  BY <1>1, <1>8
<1>10. vardata' \in [M!Var -> [level : Nat, reason : Nat]]
  <2>1. vardata' = [v \in M!Var |-> vardata'[v]]
    BY <1>1
  <2> QED
    BY <1>9, <2>1
<1>11. \A k \in 1 .. Len(trail) : trail[k] \in M!Lit /\ M!VarOf(trail[k]) \in M!Var /\ vardata[M!VarOf(trail[k])].level = 0
  BY <1>1, <1>3, TrailFacts DEF M!decisionLevel
<1>12. \A k \in 1 .. Len(trail) : vardata'[M!VarOf(trail[k])].level = 0
  BY <1>9, <1>11
<1>13. ASSUME NEW k \in 1 .. Len(trail) PROVE vardata'[M!VarOf(trail[k])].reason = 0
  <2> DEFINE r == vardata[M!VarOf(trail[k])].reason
  <2>1. CASE r = 0
    BY <1>9, <1>11, <2>1
  <2>2. CASE r # 0
    <3>1. r \in M!Live /\ db[r][1] = trail[k]
      BY <1>3, <2>2 DEF ReasonsOK, ReasonOK, M!Live
    <3>2. trail[k] \in M!ToClause(db[r]) /\ trail[k] \in M!True
      <4>1. IsClause(db[r]) /\ trail[k] \in M!Lit
        BY <1>5, <1>11, <3>1
      <4> QED
        BY <1>3, <3>1, <4>1, ClauseIs, TrueIs
    <3>3. r \in M!Satisfied
      BY <3>1, <3>2 DEF M!Satisfied
    <3> QED
      BY <1>9, <1>11, <3>3
  <2> QED
    BY <2>1, <2>2
<1>14. Trail'
  <2>1. TrailOK(trail, trail_lim, vardata')
    BY <1>3, <1>10, <1>11, <1>12, TrailData
  <2>2. \A k \in 1 .. Len(trail) : ReasonOK(trail, trail_lim, vardata', db', k)
    BY <1>12, <1>13 DEF ReasonOK
  <2>3. ReasonsOK(trail, trail_lim, vardata', db')
    BY <2>2 DEF ReasonsOK
  <2> QED
    BY <1>1, <2>1, <2>3 DEF Trail
<1>15. Control' /\ Propagation' /\ InConflict' /\ Analyzing' /\ Assumed'
  BY <1>1, <1>2 DEF Control, Propagation, InConflict, Analyzing, Assumed, MinisatInv, Search, M!decisionLevel
<1>16. Watched'
  <2> SUFFICES ASSUME NEW i \in M!Live \ M!Satisfied, NEW k \in 1 .. Len(trail), -trail[k] \in {db[i][1], db[i][2]} PROVE FALSE
    BY <1>1, <1>4, <1>6 DEF Watched
  <2>1. Visited(k, i)
    BY <1>2, <1>3, TrailFacts DEF Visited
  <2>2. PICK j \in 1 .. Len(trail) : trail[j] \in M!ToClause(db[i])
    BY <1>2, <2>1 DEF MinisatInv, Search, Watched
  <2>3. trail[j] \in M!True
    BY <1>3, <1>11, TrueIs
  <2> QED
    BY <2>2, <2>3 DEF M!Satisfied
<1>17. Derived'
  <2> SUFFICES ASSUME NEW m \in M!Models(formula)
               PROVE  /\ \A i \in M!Live \ M!Satisfied : m \cap M!ToClause(db'[i]) # {}
                      /\ \A k \in 1 .. Len(trail) : trail[k] \in m
    BY <1>1, <1>2, <1>4 DEF Derived, M!Models
  <2>1. ASSUME NEW i \in M!Live \ M!Satisfied PROVE m \cap M!ToClause(db'[i]) # {}
    <3>1. PICK q \in m : q \in M!ToClause(db[i])
      BY DEF MinisatInv, Derived
    <3>2. ASSUME q \in M!False PROVE FALSE
      <4>1. M!level(q) = 0
        BY <1>3, <1>11, <3>2, FalseAt DEF M!level
      <4> QED
        BY <3>2, <4>1, RootFalse
    <3> QED
      BY <1>6, <3>1, <3>2
  <2>2. \A k \in 1 .. Len(trail) : trail[k] \in m
    BY <1>11 DEF MinisatInv, Derived, M!level
  <2> QED
    BY <2>1, <2>2
<1>18. Covered'
  <2> SUFFICES ASSUME NEW c \in formula
               PROVE  \/ M!Tautology(c)
                      \/ \E k \in 1 .. Len(trail) : trail[k] \in c
                      \/ \E i \in (M!Live \ M!Satisfied) \ learnts : M!ToClause(db'[i]) \subseteq c
    BY <1>1, <1>4, <1>12 DEF Covered, M!level
  <2>1. \/ M!Tautology(c)
        \/ \E k \in 1 .. Len(trail) : trail[k] \in c
        \/ \E i \in M!Live \ learnts : M!ToClause(db[i]) \subseteq c
    BY <1>2 DEF MinisatInv, Covered
  <2>2. ASSUME NEW i \in M!Live \ learnts, M!ToClause(db[i]) \subseteq c, i \in M!Satisfied
        PROVE  \E k \in 1 .. Len(trail) : trail[k] \in c
    <3>1. PICK q \in M!True : q \in M!ToClause(db[i])
      BY <2>2 DEF M!Satisfied
    <3>2. q \in M!Lit
      BY <1>3, TrueIs
    <3> QED
      BY <1>3, <2>2, <3>1, <3>2, TrueIs
  <2>3. ASSUME NEW i \in M!Live \ learnts, M!ToClause(db[i]) \subseteq c, i \notin M!Satisfied
        PROVE  M!ToClause(db'[i]) \subseteq c
    BY <1>6, <2>3
  <2> QED
    BY <2>1, <2>2, <2>3
<1>19. AnswerKept'
  BY <1>1, <1>2 DEF AnswerKept
<1> QED
  BY <1>7, <1>14, <1>15, <1>16, <1>17, <1>18, <1>19 DEF MinisatInv, Search
-----------------------------------------------------------------------------
LEMMA IndexIs ==
  /\ \A l \in M!Lit : M!Index(l) \in Nat /\ M!Index(l) \in 1 .. 2 * N + 1
  /\ \A k, l \in M!Lit : M!Index(k) = M!Index(l) => k = l
BY NAssumption DEF M!Index, M!VarOf, M!Lit

Increasing(s, n) == \A i, j \in 1 .. n : i < j => M!Index(s[i]) < M!Index(s[j])

LEMMA SortedExists ==
  ASSUME NEW Z \in SUBSET M!Lit
  PROVE  Cardinality(Z) \in Nat /\ \E s \in [1 .. Cardinality(Z) -> Z] : Increasing(s, Cardinality(Z))
<1> DEFINE T == {n \in Nat : \A R \in SUBSET M!Lit : Cardinality(R) = n => \E s \in [1 .. n -> R] : Increasing(s, n)}
<1>0. \A R \in SUBSET M!Lit : IsFiniteSet(R) /\ Cardinality(R) \in Nat
  BY LitFinite, FS_CardinalityType
<1>1. 0 \in T
  <2> SUFFICES ASSUME NEW R \in SUBSET M!Lit PROVE \E s \in [1 .. 0 -> R] : Increasing(s, 0)
    OBVIOUS
  <2>1. \A i \in 1 .. 0 : FALSE
    OBVIOUS
  <2>2. [i \in 1 .. 0 |-> 0] \in [1 .. 0 -> R] /\ Increasing([i \in 1 .. 0 |-> 0], 0)
    BY <2>1 DEF Increasing
  <2> QED
    BY <2>2
<1>2. ASSUME NEW n \in Nat, n \in T PROVE n + 1 \in T
  <2> SUFFICES ASSUME NEW R \in SUBSET M!Lit, Cardinality(R) = n + 1
               PROVE  \E s \in [1 .. n + 1 -> R] : Increasing(s, n + 1)
    OBVIOUS
  <2>1. R # {} /\ IsFiniteSet(R)
    <3>1. Cardinality({}) = 0
      BY FS_EmptySet
    <3> QED
      BY <1>0, <3>1
  <2> DEFINE I == {M!Index(l) : l \in R}
  <2>2. I \in SUBSET (1 .. 2 * N + 1) /\ I # {} /\ 2 * N + 1 \in Nat
    BY <2>1, IndexIs, NAssumption
  <2>3. PICK x \in I : \A y \in I : y <= x
    <3> HIDE DEF I
    <3> QED
      BY <2>2, GreatestElement
  <2>4. PICK l \in R : x = M!Index(l)
    OBVIOUS
  <2>5. \A k \in R \ {l} : M!Index(k) < M!Index(l)
    <3> SUFFICES ASSUME NEW k \in R \ {l} PROVE M!Index(k) < M!Index(l)
      OBVIOUS
    <3>1. M!Index(k) <= M!Index(l)
      BY <2>3, <2>4
    <3>2. M!Index(k) # M!Index(l) /\ M!Index(k) \in Nat /\ M!Index(l) \in Nat
      BY IndexIs
    <3> QED
      BY <3>1, <3>2
  <2>6. Cardinality(R \ {l}) = n /\ R \ {l} \in SUBSET M!Lit
    <3>1. Cardinality(R \ {l}) = Cardinality(R) - 1
      BY <2>1, FS_RemoveElement
    <3> QED
      BY <3>1
  <2>7. PICK s \in [1 .. n -> R \ {l}] : Increasing(s, n)
    BY <1>2, <2>6
  <2> DEFINE u == [i \in 1 .. n + 1 |-> IF i = n + 1 THEN l ELSE s[i]]
  <2>8. \A i \in 1 .. n + 1 : i = n + 1 \/ i \in 1 .. n
    OBVIOUS
  <2>9. u \in [1 .. n + 1 -> R]
    BY <2>8
  <2>10. ASSUME NEW i \in 1 .. n + 1, NEW j \in 1 .. n + 1, i < j PROVE M!Index(u[i]) < M!Index(u[j])
    <3>1. i \in 1 .. n /\ i # n + 1 /\ u[i] = s[i]
      BY <2>10
    <3>2. CASE j = n + 1
      <4>1. u[j] = l /\ s[i] \in R \ {l}
        BY <3>1, <3>2
      <4> HIDE DEF u
      <4> QED
        BY <2>5, <3>1, <4>1
    <3>3. CASE j \in 1 .. n
      <4>1. u[j] = s[j]
        BY <3>3
      <4> HIDE DEF u
      <4> QED
        BY <2>7, <2>10, <3>1, <3>3, <4>1 DEF Increasing
    <3> QED
      BY <2>8, <3>2, <3>3
  <2> HIDE DEF u
  <2>11. Increasing(u, n + 1)
    BY <2>10 DEF Increasing
  <2> QED
    BY <2>9, <2>11
<1> HIDE DEF T
<1>3. \A n \in Nat : n \in T
  BY <1>1, <1>2, SetInduction
<1> QED
  BY <1>0, <1>3 DEF T

(* An injection of 1 .. n into a set of n elements is a sequence of all of *)
(* them.                                                                   *)
Listing(s, Z) ==
  /\ s \in Seq(Z) /\ Len(s) = Cardinality(Z) /\ M!ToClause(s) = Z
  /\ \A j, k \in 1 .. Len(s) : s[j] = s[k] => j = k

LEMMA ListingIs ==
  ASSUME NEW Z, IsFiniteSet(Z), NEW s \in [1 .. Cardinality(Z) -> Z],
         \A j, k \in 1 .. Cardinality(Z) : s[j] = s[k] => j = k
  PROVE  Listing(s, Z)
<1> DEFINE n == Cardinality(Z)
<1>1. n \in Nat
  BY FS_CardinalityType
<1>2. s \in Injection(1 .. n, Z)
  BY DEF Injection, IsInjective
<1>3. IsFiniteSet(1 .. n) /\ Cardinality(1 .. n) = n
  <2> HIDE DEF n
  <2>1. IsFiniteSet(1 .. n) /\ Cardinality(1 .. n) = IF 1 > n THEN 0 ELSE n - 1 + 1
    BY <1>1, FS_Interval
  <2> QED
    BY <1>1, <2>1
<1>4. s \in Surjection(1 .. n, Z)
  BY <1>2, <1>3, FS_Injection
<1>5. \A x \in Z : \E j \in 1 .. n : s[j] = x
  BY <1>4 DEF Surjection
<1> HIDE DEF n
<1>6. s \in [1 .. n -> Z]
  BY DEF n
<1>7. s \in Seq(Z) /\ Len(s) = n
  BY <1>1, <1>6
<1>8. M!ToClause(s) = Z
  <2>1. M!ToClause(s) = {s[j] : j \in 1 .. n}
    BY <1>6 DEF M!ToClause
  <2>2. \A j \in 1 .. n : s[j] \in Z
    BY <1>6
  <2>3. \A x \in Z : x \in M!ToClause(s)
    BY <1>5, <2>1
  <2>4. \A x \in M!ToClause(s) : x \in Z
    BY <2>1, <2>2
  <2> QED
    BY <2>3, <2>4
<1> QED
  BY <1>7, <1>8 DEF Listing, n

LEMMA SortedIs ==
  ASSUME NEW Z \in SUBSET M!Lit
  PROVE  Listing(M!Sorted(Z), Z) /\ IsFiniteSet(Z)
<1> DEFINE n == Cardinality(Z)
<1> DEFINE s == M!Sorted(Z)
<1>1. n \in Nat /\ \E u \in [1 .. n -> Z] : Increasing(u, n)
  BY SortedExists
<1>2. s \in [1 .. n -> Z] /\ Increasing(s, n)
  <2>1. s = CHOOSE u \in [1 .. n -> Z] : Increasing(u, n)
    BY SameNotions DEF M!Sorted, Increasing
  <2> HIDE DEF s
  <2> QED
    BY <1>1, <2>1
<1> HIDE DEF s
<1>3. ASSUME NEW j \in 1 .. n, NEW k \in 1 .. n, s[j] = s[k] PROVE j = k
  <2> HIDE DEF n
  <2>1. ~(j < k) /\ ~(k < j)
    <3>1. M!Index(s[j]) = M!Index(s[k]) /\ M!Index(s[j]) \in Nat
      BY <1>2, <1>3, IndexIs
    <3> QED
      BY <1>2, <3>1 DEF Increasing
  <2> QED
    BY <1>1, <2>1
<1>4. IsFiniteSet(Z)
  BY LitFinite
<1> QED
  BY <1>2, <1>3, <1>4, ListingIs DEF s

LEMMA FreshIs == ASSUME MinisatInv PROVE M!Fresh \in Nat /\ M!Fresh # 0 /\ M!Fresh \notin M!Live /\ \E n \in Nat : M!Live \cup {M!Fresh} \subseteq 1 .. n
<1>1. PICK n \in Nat : M!Live \subseteq 1 .. n
  BY DEF MinisatInv, Typed, DatabaseTyped
<1>2. CASE M!Live = {}
  BY <1>2 DEF M!Fresh
<1>3. CASE M!Live # {}
  <2> DEFINE x == M!Max(M!Live)
  <2>1. \E y \in M!Live : \A z \in M!Live : z <= y
    BY <1>1, <1>3, GreatestElement
  <2>2. \E y \in M!Live : \A z \in M!Live : y >= z
    BY <1>1, <2>1
  <2>3. x \in M!Live /\ \A z \in M!Live : x >= z
    BY <2>2 DEF M!Max
  <2>4. M!Fresh = x + 1
    BY <1>3 DEF M!Fresh
  <2> HIDE DEF x
  <2>5. x \in 1 .. n /\ x + 1 \notin M!Live
    BY <1>1, <2>3
  <2>6. M!Live \cup {x + 1} \subseteq 1 .. n + 1
    BY <1>1, <2>5
  <2> QED
    BY <2>4, <2>5, <2>6
<1> QED
  BY <1>2, <1>3

LEMMA WithIs ==
  ASSUME MinisatInv, NEW c, IsClause(c), NEW i, i = M!Fresh, db' = M!With(db, i, c)
  PROVE  /\ M!Live' = M!Live \cup {i} /\ db'[i] = c /\ \A j \in M!Live : db'[j] = db[j]
         /\ \E n \in Nat : M!Live' \subseteq 1 .. n
         /\ \A j \in M!Live' : IsClause(db'[j])
         /\ ReasonClausesKept(trail, vardata, db, Len(trail), db')
<1>1. i \notin M!Live /\ \E n \in Nat : M!Live \cup {i} \subseteq 1 .. n
  BY FreshIs
<1>2. M!Live' = M!Live \cup {i} /\ db'[i] = c /\ \A j \in M!Live : db'[j] = db[j]
  BY <1>1 DEF M!With, M!Live
<1>3. \A j \in M!Live : IsClause(db[j])
  BY DEF MinisatInv, Typed, DatabaseTyped
<1>4. ReasonClausesKept(trail, vardata, db, Len(trail), db')
  <2>1. \A k \in 1 .. Len(trail) : vardata[M!VarOf(trail[k])].reason # 0 => vardata[M!VarOf(trail[k])].reason \in M!Live
    BY DEF MinisatInv, Trail, ReasonsOK, ReasonOK, M!Live
  <2>2. DOMAIN db' = M!Live \cup {i}
    BY <1>2 DEF M!Live
  <2> QED
    BY <1>2, <2>1, <2>2 DEF ReasonClausesKept
<1> QED
  BY <1>1, <1>2, <1>3, <1>4
(* addClause_ takes the next clause. *)
Taken(c) ==
  /\ MinisatInv /\ pc = "idle" /\ todo # <<>> /\ c = Head(todo) /\ todo' = Tail(todo) /\ formula' = formula \cup {c}
  /\ status' = "none" /\ UNCHANGED <<learnts, trail_lim, qhead, visit, confl, out_learnt, assumptions, conflict, model>>

TakenOK(c) ==
  /\ c \in SUBSET M!Lit /\ todo' \in Seq(SUBSET M!Lit) /\ formula' \in SUBSET SUBSET M!Lit
  /\ trail_lim = <<>> /\ visit = {} /\ confl = 0 /\ (ok => qhead = Len(trail))
  /\ \A k \in 1 .. Len(trail) : vardata[M!VarOf(trail[k])].level = 0
  /\ \A m \in M!Models(formula') : /\ m \in M!Models(formula) /\ m \cap c # {}
                                   /\ m \cap M!Strip(c) # {} /\ \A q \in M!False : q \notin m

LEMMA TakenIs == ASSUME NEW c, Taken(c) PROVE TakenOK(c)
<1>1. /\ MinisatInv /\ pc = "idle" /\ todo # <<>> /\ c = Head(todo) /\ todo' = Tail(todo) /\ formula' = formula \cup {c}
  BY DEF Taken
<1>2. c \in SUBSET M!Lit /\ todo' \in Seq(SUBSET M!Lit) /\ formula' \in SUBSET SUBSET M!Lit
  BY <1>1 DEF MinisatInv, Typed, OtherTyped
<1>3. trail_lim = <<>> /\ visit = {} /\ confl = 0 /\ (ok => qhead = Len(trail))
  BY <1>1 DEF MinisatInv, Search, Control
<1>4. TrailOK(trail, trail_lim, vardata)
  BY <1>1 DEF MinisatInv, Trail
<1>5. \A k \in 1 .. Len(trail) : vardata[M!VarOf(trail[k])].level = 0
  BY <1>3, <1>4, TrailFacts
<1>6. ASSUME NEW m \in M!Models(formula')
      PROVE  m \in M!Models(formula) /\ m \cap c # {} /\ m \cap M!Strip(c) # {} /\ \A q \in M!False : q \notin m
  <2>1. m \in M!Models(formula) /\ m \cap c # {}
    BY <1>1 DEF M!Models, M!Satisfies
  <2>2. ASSUME NEW q \in M!False PROVE q \notin m
    <3>1. M!level(q) = 0
      BY <1>4, <1>5, FalseAt DEF M!level
    <3> QED
      BY <1>1, <2>1, <3>1, RootFalse
  <2> QED
    BY <2>1, <2>2 DEF M!Strip
<1> QED
  BY <1>2, <1>3, <1>5, <1>6 DEF TakenOK

(* The parts of the invariant that hold at level 0 between two calls. *)
LEMMA TakenKeeps ==
  ASSUME NEW c, Taken(c), pc' \in {"idle", "adding"}, ok' \in BOOLEAN, pc' = "adding" => ok',
         pc' = "idle" /\ ok' => qhead = Len(trail'),
         DatabaseTyped', TrailOK(trail', trail_lim, vardata'), Len(trail) <= Len(trail')
  PROVE  Typed' /\ Control' /\ Propagation' /\ InConflict' /\ Analyzing' /\ Assumed' /\ AnswerKept'
<1>1. TakenOK(c)
  BY TakenIs
<1>2. /\ todo' \in Seq(SUBSET M!Lit) /\ formula' \in SUBSET SUBSET M!Lit /\ trail_lim = <<>> /\ visit = {} /\ confl = 0
  BY <1>1 DEF TakenOK
<1>3. /\ MinisatInv /\ status' = "none"
      /\ UNCHANGED <<learnts, trail_lim, qhead, visit, confl, out_learnt, assumptions, conflict, model>>
  BY DEF Taken
<1>4. Typed'
  <2>1. qhead \in 0 .. Len(trail) /\ assumptions \in Seq(M!Lit)
    BY <1>3 DEF MinisatInv, Typed, OtherTyped
  <2>2. Len(trail) \in Nat /\ Len(trail') \in Nat
    BY <1>3, TrailFacts DEF MinisatInv, Trail
  <2>3. qhead' \in 0 .. Len(trail')
    BY <1>3, <2>1, <2>2
  <2> QED
    BY <1>2, <1>3, <2>1, <2>3 DEF Typed, OtherTyped
<1>5. Control'
  BY <1>2, <1>3 DEF Control
<1>6. Propagation' /\ InConflict' /\ Analyzing' /\ Assumed' /\ AnswerKept'
  BY <1>2, <1>3 DEF Propagation, InConflict, Analyzing, Assumed, AnswerKept, M!decisionLevel
<1> QED
  BY <1>4, <1>5, <1>6

LEMMA DroppedInv ==
  ASSUME NEW c, Taken(c), UNCHANGED <<db, trail, vardata, pc>>, ok' \in BOOLEAN,
         \/ UNCHANGED ok /\ (~ok \/ M!Tautology(c) \/ c \cap M!True # {})
         \/ ok' = FALSE /\ M!Strip(c) = {}
  PROVE  MinisatInv'
<1>0. /\ MinisatInv /\ pc = "idle" /\ formula' = formula \cup {c} /\ UNCHANGED <<learnts, trail_lim, qhead, visit, confl>>
  BY DEF Taken
<1>1. TakenOK(c)
  BY TakenIs
<1>2. ok' => ok /\ (M!Tautology(c) \/ c \cap M!True # {})
  BY <1>0 DEF MinisatInv, Typed, OtherTyped
<1>3. DatabaseTyped' /\ Trail' /\ TrailOK(trail', trail_lim, vardata') /\ Len(trail) <= Len(trail')
  BY <1>0, TrailFacts DEF MinisatInv, Typed, DatabaseTyped, Trail, M!Live
<1>4. pc' = "idle" /\ ok' => qhead = Len(trail')
  BY <1>0, <1>1, <1>2 DEF TakenOK
<1>5. Typed' /\ Control' /\ Propagation' /\ InConflict' /\ Analyzing' /\ Assumed' /\ AnswerKept'
  <2>1. pc' \in {"idle", "adding"} /\ (pc' = "adding" => ok')
    BY <1>0
  <2> QED
    BY <1>3, <1>4, <2>1, TakenKeeps
<1>6. Watched'
  <2> SUFFICES ASSUME ok' PROVE Watched'
    BY DEF Watched
  <2>1. ok
    BY <1>2
  <2> QED
    BY <1>0, <2>1 DEF MinisatInv, Search, Watched, Visited, M!Live, M!level, M!decisionLevel
<1>7. Derived'
  <2> SUFFICES ASSUME NEW m \in M!Models(formula') PROVE ok' /\ m \in M!Models(formula)
    BY <1>0 DEF Derived, MinisatInv, M!Live, M!level
  <2>1. m \in M!Models(formula) /\ m \cap M!Strip(c) # {}
    BY <1>1 DEF TakenOK
  <2>2. ok
    BY <1>0, <2>1 DEF MinisatInv, Derived
  <2> QED
    BY <2>1, <2>2
<1>8. Covered'
  <2> SUFFICES ASSUME ok', NEW x \in formula \cup {c}
               PROVE  \/ M!Tautology(x)
                      \/ \E k \in 1 .. Len(trail) : trail[k] \in x /\ M!level(trail[k]) = 0
                      \/ \E i \in M!Live \ learnts : M!ToClause(db[i]) \subseteq x
    BY <1>0 DEF Covered, M!Live, M!level
  <2>1. CASE x \in formula
    BY <1>0, <1>2, <2>1 DEF MinisatInv, Covered
  <2>2. CASE x = c /\ c \cap M!True # {}
    <3>1. PICK q \in c : q \in M!True
      BY <2>2
    <3>2. TrailOK(trail, trail_lim, vardata)
      BY <1>0 DEF MinisatInv, Trail
    <3>3. PICK k \in 1 .. Len(trail) : trail[k] = q
      BY <3>1, <3>2, TrueIs
    <3>4. M!level(trail[k]) = 0
      BY <1>1 DEF TakenOK, M!level
    <3> QED
      BY <2>2, <3>1, <3>3, <3>4
  <2> QED
    BY <1>2, <2>1, <2>2
<1> QED
  BY <1>3, <1>5, <1>6, <1>7, <1>8 DEF MinisatInv, Search
LEMMA AddedInv ==
  ASSUME NEW c, Taken(c), UNCHANGED <<trail, vardata, pc>>, ok, ok' = TRUE,
         c \cap M!True = {}, Cardinality(M!Strip(c)) > 1, db' = M!With(db, M!Fresh, M!Sorted(M!Strip(c)))
  PROVE  MinisatInv'
<1> DEFINE ps == M!Strip(c)
<1> DEFINE b == M!Sorted(ps)
<1> DEFINE i == M!Fresh
<1>0. /\ MinisatInv /\ pc = "idle" /\ formula' = formula \cup {c} /\ UNCHANGED <<learnts, trail_lim, qhead, visit, confl>>
  BY DEF Taken
<1>1. TakenOK(c)
  BY TakenIs
<1>2. ps \in SUBSET M!Lit /\ ps \subseteq c /\ ps \cap M!False = {}
  BY <1>1 DEF TakenOK, M!Strip
<1>3. Listing(b, ps)
  BY <1>2, SortedIs
<1>4. IsClause(b) /\ M!ToClause(b) = ps
  <2>1. b \in Seq(ps) /\ Len(b) = Cardinality(ps) /\ M!ToClause(b) = ps /\ \A j, k \in 1 .. Len(b) : b[j] = b[k] => j = k
    BY <1>3 DEF Listing
  <2> HIDE DEF b, ps
  <2>2. b \in Seq(M!Lit) /\ Len(b) \in Nat /\ DOMAIN b = 1 .. Len(b)
    BY <1>2, <2>1
  <2>3. Len(b) >= 2
    BY <2>1, <2>2 DEF ps
  <2> QED
    BY <2>1, <2>2, <2>3 DEF IsClause
<1> HIDE DEF b, ps
<1>5. db' = M!With(db, i, b)
  BY DEF b, ps
<1>6. i \notin M!Live
  BY <1>0, FreshIs
<1> HIDE DEF i
<1>7. /\ M!Live' = M!Live \cup {i} /\ db'[i] = b /\ (\A j \in M!Live : db'[j] = db[j])
      /\ (\E n \in Nat : M!Live' \subseteq 1 .. n) /\ (\A j \in M!Live' : IsClause(db'[j]))
      /\ ReasonClausesKept(trail, vardata, db, Len(trail), db')
  BY <1>0, <1>4, <1>5, WithIs DEF i
<1>8. learnts \subseteq M!Live
  BY <1>0 DEF MinisatInv, Typed, DatabaseTyped
<1>9. DatabaseTyped'
  BY <1>0, <1>7, <1>8 DEF DatabaseTyped
<1>10. TrailOK(trail, trail_lim, vardata) /\ ReasonsOK(trail, trail_lim, vardata, db)
  BY <1>0 DEF MinisatInv, Trail
<1>11. ReasonsOK(trail, trail_lim, vardata, db')
  <2>1. Len(trail) \in 0 .. Len(trail) /\ KeptBelow(trail, trail_lim, vardata, Len(trail), trail, trail_lim, vardata)
    BY <1>10, TrailFacts DEF KeptBelow
  <2> QED
    BY <1>7, <1>10, <2>1, ReasonsKept DEF ReasonsOK
<1>12. Trail'
  BY <1>0, <1>10, <1>11 DEF Trail
<1>13. pc' = "idle" /\ ok' => qhead = Len(trail')
  BY <1>0, <1>1 DEF TakenOK
<1>14. Typed' /\ Control' /\ Propagation' /\ InConflict' /\ Analyzing' /\ Assumed' /\ AnswerKept'
  <2>1. pc' \in {"idle", "adding"} /\ (pc' = "adding" => ok') /\ ok' \in BOOLEAN
    BY <1>0
  <2>2. TrailOK(trail', trail_lim, vardata') /\ Len(trail) <= Len(trail')
    BY <1>10, TrailFacts
  <2> QED
    BY <1>9, <1>13, <2>1, <2>2, TakenKeeps
<1>15. Watched'
  <2> SUFFICES ASSUME NEW j \in M!Live \cup {i}, NEW k \in 1 .. Len(trail), -trail[k] \in {db'[j][1], db'[j][2]}, Visited(k, j)'
               PROVE  \E x \in 1 .. Len(trail) : trail[x] \in M!ToClause(db'[j]) /\ M!level(trail[x]) <= M!level(trail[k])
    BY <1>7 DEF Watched, M!level
  <2>1. CASE j \in M!Live
    <3>1. Visited(k, j)
      BY <1>0 DEF Visited, M!decisionLevel
    <3> QED
      BY <1>0, <1>7, <2>1, <3>1 DEF MinisatInv, Search, Watched
  <2>2. CASE j = i
    <3>1. -trail[k] \in ps
      BY <1>4, <1>7, <2>2, ClauseIs
    <3>2. trail[k] \in M!Lit /\ -trail[k] \in M!Lit /\ trail[k] = -(-trail[k])
      BY <1>10, TrailFacts, LitFacts
    <3>3. -trail[k] \in M!False
      BY <1>10, <3>2, TrueIs
    <3> QED
      BY <1>2, <3>1, <3>3
  <2> QED
    BY <2>1, <2>2
<1>16. Derived'
  <2> SUFFICES ASSUME NEW m \in M!Models(formula')
               PROVE  /\ \A j \in M!Live \cup {i} : m \cap M!ToClause(db'[j]) # {}
                      /\ \A k \in 1 .. Len(trail) : M!level(trail[k]) = 0 => trail[k] \in m
    BY <1>0, <1>7 DEF Derived, M!level
  <2>1. m \in M!Models(formula) /\ m \cap ps # {}
    BY <1>1 DEF TakenOK, ps
  <2> QED
    BY <1>0, <1>4, <1>7, <2>1 DEF MinisatInv, Derived
<1>17. Covered'
  <2> SUFFICES ASSUME NEW x \in formula \cup {c}
               PROVE  \/ M!Tautology(x)
                      \/ \E k \in 1 .. Len(trail) : trail[k] \in x /\ M!level(trail[k]) = 0
                      \/ \E j \in (M!Live \cup {i}) \ learnts : M!ToClause(db'[j]) \subseteq x
    BY <1>0, <1>7 DEF Covered, M!level
  <2>1. CASE x \in formula
    BY <1>0, <1>7, <2>1 DEF MinisatInv, Covered
  <2>2. CASE x = c
    BY <1>2, <1>4, <1>6, <1>7, <1>8, <2>2
  <2> QED
    BY <2>1, <2>2
<1> QED
  BY <1>12, <1>14, <1>15, <1>16, <1>17 DEF MinisatInv, Search

LEMMA UnitInv ==
  ASSUME NEW c, Taken(c), UNCHANGED db, ok, ok' = TRUE, pc' = "adding",
         c \cap M!True = {}, Cardinality(M!Strip(c)) = 1, NEW p \in M!Strip(c), M!Enqueue(trail, p, 0, 0)
  PROVE  MinisatInv'
<1> DEFINE n == Len(trail)
<1>0. /\ MinisatInv /\ pc = "idle" /\ formula' = formula \cup {c} /\ UNCHANGED <<learnts, trail_lim, qhead, visit, confl>>
  BY DEF Taken
<1>1. TakenOK(c)
  BY TakenIs
<1>2. /\ c \in SUBSET M!Lit /\ trail_lim = <<>> /\ visit = {} /\ confl = 0 /\ qhead = n
      /\ \A k \in 1 .. n : vardata[M!VarOf(trail[k])].level = 0
  BY <1>1 DEF TakenOK
<1>3. TrailOK(trail, trail_lim, vardata) /\ ReasonsOK(trail, trail_lim, vardata, db)
  BY <1>0 DEF MinisatInv, Trail
<1>4. trail \in Seq(M!Lit) /\ vardata \in [M!Var -> [level : Nat, reason : Nat]] /\ n \in Nat
  BY <1>3, TrailFacts DEF TrailOK
<1>5. p \in c /\ p \in M!Lit /\ p \notin M!True \cup M!False /\ M!Strip(c) \in SUBSET M!Lit
  BY <1>2 DEF M!Strip
<1>6. Unassigned(trail, p)
  BY <1>3, <1>5, UnassignedIs
<1>7. trail' = Append(trail, p) /\ Fits(trail, vardata, vardata') /\ vardata'[M!VarOf(p)].level = 0 /\ vardata'[M!VarOf(p)].reason = 0
  BY <1>4, <1>5, <1>6, EnqueueFits
<1>8. ReasonClausesKept(trail, vardata, db, n, db)
  BY <1>3 DEF ReasonsOK, ReasonOK, ReasonClausesKept
<1>9. ImpliedBy(trail, trail_lim, p, 0, db) /\ Len(trail_lim) = 0
  BY <1>2 DEF ImpliedBy
<1>10. TrailOK(trail', trail_lim, vardata') /\ ReasonsOK(trail', trail_lim, vardata', db)
  BY <1>3, <1>5, <1>6, <1>7, <1>8, <1>9, ReasonsPush
<1>11. Len(trail') = n + 1 /\ trail'[n + 1] = p /\ \A k \in 1 .. n : trail'[k] = trail[k]
  BY <1>4, <1>5, <1>7, AppendIs
<1>12. \A k \in 1 .. n : vardata'[M!VarOf(trail[k])] = vardata[M!VarOf(trail[k])]
  BY <1>7 DEF Fits
<1>13. Trail' /\ DatabaseTyped'
  BY <1>0, <1>10 DEF Trail, MinisatInv, Typed, DatabaseTyped, M!Live
<1> HIDE DEF n
<1>14. \A k \in 1 .. n + 1 : k = n + 1 \/ k \in 1 .. n
  BY <1>4
<1>15. \A k \in 1 .. n + 1 : vardata'[M!VarOf(trail'[k])].level = 0
  BY <1>2, <1>7, <1>11, <1>12, <1>14
<1>16. Typed' /\ Control' /\ Propagation' /\ InConflict' /\ Analyzing' /\ Assumed' /\ AnswerKept'
  <2>1. pc' \in {"idle", "adding"} /\ (pc' = "adding" => ok') /\ ok' \in BOOLEAN /\ (pc' = "idle" /\ ok' => qhead = Len(trail'))
    OBVIOUS
  <2>2. Len(trail) <= Len(trail')
    BY <1>4, <1>11 DEF n
  <2> QED
    BY <1>10, <1>13, <2>1, <2>2, TakenKeeps
<1>17. Watched'
  <2> SUFFICES ASSUME NEW j \in M!Live, NEW k \in 1 .. n + 1, -trail'[k] \in {db[j][1], db[j][2]}, Visited(k, j)'
               PROVE  \E x \in 1 .. n + 1 : /\ trail'[x] \in M!ToClause(db[j])
                                            /\ vardata'[M!VarOf(trail'[x])].level <= vardata'[M!VarOf(trail'[k])].level
    BY <1>11 DEF Watched, M!level, M!Live
  <2>1. k \in 1 .. n
    BY <1>0, <1>2, <1>4 DEF Visited
  <2>2. Visited(k, j)
    BY <1>0, <1>2, <1>4, <2>1 DEF Visited
  <2>3. \E x \in 1 .. n : trail[x] \in M!ToClause(db[j])
    BY <1>0, <1>11, <2>1, <2>2 DEF MinisatInv, Search, Watched, n
  <2>4. PICK x \in 1 .. n : trail[x] \in M!ToClause(db[j])
    BY <2>3
  <2>5. x \in 1 .. n + 1 /\ trail'[x] = trail[x] /\ vardata'[M!VarOf(trail'[x])].level = 0 /\ vardata'[M!VarOf(trail'[k])].level = 0
    BY <1>4, <1>11, <1>15
  <2> QED
    BY <2>4, <2>5
<1>18. Derived'
  <2> SUFFICES ASSUME NEW m \in M!Models(formula')
               PROVE  /\ \A j \in M!Live : m \cap M!ToClause(db[j]) # {}
                      /\ \A k \in 1 .. n + 1 : trail'[k] \in m
    BY <1>11 DEF Derived, M!Live
  <2>1. m \in M!Models(formula) /\ m \cap M!Strip(c) # {}
    BY <1>1 DEF TakenOK
  <2>2. M!Strip(c) = {p}
    <3>1. IsFiniteSet(M!Strip(c))
      BY <1>5, LitFinite
    <3>2. \E q : M!Strip(c) = {q}
      BY <3>1, FS_Singleton
    <3> QED
      BY <3>2
  <2>3. p \in m
    BY <2>1, <2>2
  <2>4. \A k \in 1 .. n : trail[k] \in m
    BY <1>0, <1>2, <2>1 DEF MinisatInv, Derived, M!level, n
  <2>5. \A k \in 1 .. n + 1 : trail'[k] \in m
    BY <1>11, <1>14, <2>3, <2>4
  <2> QED
    BY <1>0, <2>1, <2>5 DEF MinisatInv, Derived
<1>19. Covered'
  <2> SUFFICES ASSUME NEW x \in formula \cup {c}
               PROVE  \/ M!Tautology(x)
                      \/ \E k \in 1 .. n + 1 : trail'[k] \in x
                      \/ \E j \in M!Live \ learnts : M!ToClause(db[j]) \subseteq x
    BY <1>0, <1>11, <1>15 DEF Covered, M!level, M!Live
  <2>1. CASE x \in formula
    <3>1. \/ M!Tautology(x)
          \/ \E k \in 1 .. n : trail[k] \in x
          \/ \E j \in M!Live \ learnts : M!ToClause(db[j]) \subseteq x
      BY <1>0, <2>1 DEF MinisatInv, Covered, n
    <3>2. \A k \in 1 .. n : k \in 1 .. n + 1 /\ trail'[k] = trail[k]
      BY <1>4, <1>11
    <3> QED
      BY <3>1, <3>2
  <2>2. CASE x = c
    <3>1. n + 1 \in 1 .. n + 1
      BY <1>4
    <3> QED
      BY <1>5, <1>11, <2>2, <3>1
  <2> QED
    BY <2>1, <2>2
<1> QED
  BY <1>13, <1>16, <1>17, <1>18, <1>19 DEF MinisatInv, Search

LEMMA AddClauseInv == ASSUME MinisatInv, M!addClause PROVE MinisatInv'
<1> DEFINE c == Head(todo)
<1> DEFINE ps == M!Strip(c)
<1>1. Taken(c)
  BY DEF M!addClause, Taken, M!queue
<1>2. \/ /\ ~ok \/ M!Tautology(c) \/ c \cap M!True # {}
         /\ UNCHANGED <<db, ok, trail, vardata, pc>>
      \/ /\ ok /\ ~M!Tautology(c) /\ c \cap M!True = {} /\ ok' = (ps # {})
         /\ \/ ps = {} /\ UNCHANGED <<db, trail, vardata, pc>>
            \/ Cardinality(ps) = 1 /\ pc' = "adding" /\ (\E l \in ps : M!Enqueue(trail, l, 0, 0)) /\ UNCHANGED db
            \/ Cardinality(ps) > 1 /\ db' = M!With(db, M!Fresh, M!Sorted(ps)) /\ UNCHANGED <<trail, vardata, pc>>
  BY SameNotions DEF M!addClause
<1>3. ok \in BOOLEAN
  BY DEF MinisatInv, Typed, OtherTyped
<1> HIDE DEF c
<1>4. CASE (~ok \/ M!Tautology(c) \/ c \cap M!True # {}) /\ UNCHANGED <<db, ok, trail, vardata, pc>>
  <2>1. UNCHANGED <<db, trail, vardata, pc>> /\ UNCHANGED ok /\ ok' \in BOOLEAN
    BY <1>3, <1>4
  <2> QED
    BY <1>1, <1>4, <2>1, DroppedInv
<1>5. CASE ok' = (ps # {}) /\ ps = {} /\ UNCHANGED <<db, trail, vardata, pc>>
  <2>1. UNCHANGED <<db, trail, vardata, pc>> /\ ok' = FALSE /\ ok' \in BOOLEAN /\ ps = {}
    BY <1>5
  <2> QED
    BY <1>1, <2>1, DroppedInv
<1>6. CASE /\ ok /\ c \cap M!True = {} /\ ok' = (ps # {})
           /\ Cardinality(ps) = 1 /\ pc' = "adding" /\ (\E l \in ps : M!Enqueue(trail, l, 0, 0)) /\ UNCHANGED db
  <2>1. PICK l \in ps : M!Enqueue(trail, l, 0, 0)
    BY <1>6
  <2>2. ok' = TRUE /\ ok /\ c \cap M!True = {} /\ Cardinality(ps) = 1 /\ pc' = "adding" /\ UNCHANGED db
    BY <1>6, <2>1
  <2> QED
    BY <1>1, <2>1, <2>2, UnitInv
<1>7. CASE /\ ok /\ c \cap M!True = {} /\ ok' = (ps # {})
           /\ Cardinality(ps) > 1 /\ db' = M!With(db, M!Fresh, M!Sorted(ps)) /\ UNCHANGED <<trail, vardata, pc>>
  <2>1. ps # {}
    <3>1. Cardinality({}) = 0
      BY FS_EmptySet
    <3> QED
      BY <1>7, <3>1
  <2>2. ok' = TRUE /\ ok /\ c \cap M!True = {} /\ Cardinality(ps) > 1 /\ db' = M!With(db, M!Fresh, M!Sorted(ps))
    BY <1>7, <2>1
  <2>3. UNCHANGED <<trail, vardata, pc>>
    BY <1>7
  <2> QED
    BY <1>1, <2>2, <2>3, AddedInv
<1> QED
  BY <1>2, <1>4, <1>5, <1>6, <1>7
-----------------------------------------------------------------------------
LEMMA QuietFacts ==
  ASSUME MinisatInv, M!Quiet
  PROVE  /\ pc = "search" /\ confl = 0 /\ visit = {} /\ qhead = Len(trail) /\ ok /\ conflict = {}
         /\ status \in {"none", "sat", "unsat"} /\ ok \in BOOLEAN
         /\ TrailOK(trail, trail_lim, vardata) /\ ReasonsOK(trail, trail_lim, vardata, db)
         /\ Len(trail) \in Nat /\ M!decisionLevel \in Nat /\ M!decisionLevel = Len(trail_lim)
         /\ trail \in Seq(M!Lit) /\ vardata \in [M!Var -> [level : Nat, reason : Nat]]
         /\ assumptions \in Seq(M!Lit)
<1>1. TrailOK(trail, trail_lim, vardata) /\ ReasonsOK(trail, trail_lim, vardata, db)
  BY DEF MinisatInv, Trail
<1>2. Len(trail) \in Nat /\ M!decisionLevel \in Nat /\ M!decisionLevel = Len(trail_lim)
  BY <1>1, TrailFacts DEF M!decisionLevel
<1> QED
  BY <1>1, <1>2 DEF M!Quiet, MinisatInv, Search, Control, TrailOK, Typed, OtherTyped

LEMMA DecidingInv ==
  ASSUME MinisatInv, M!Quiet, NEW l \in M!Lit, l \notin M!True \cup M!False, M!Deciding(l),
         M!decisionLevel + 1 <= Len(assumptions) => l = assumptions[M!decisionLevel + 1]
  PROVE  MinisatInv'
<1> DEFINE n == Len(trail)
<1> DEFINE e == M!decisionLevel
<1> DEFINE Off == UNCHANGED <<todo, formula, db, learnts, ok, qhead, visit, confl, out_learnt, assumptions, conflict, model, status, pc>>
<1>0. trail_lim' = Append(trail_lim, n) /\ M!Enqueue(trail, l, e + 1, 0) /\ Off
  BY DEF M!Deciding, M!input, M!clauses, M!queue, M!answer
<1>1. /\ pc = "search" /\ confl = 0 /\ visit = {} /\ qhead = n /\ ok
      /\ TrailOK(trail, trail_lim, vardata) /\ ReasonsOK(trail, trail_lim, vardata, db)
      /\ n \in Nat /\ e \in Nat /\ e = Len(trail_lim) /\ trail \in Seq(M!Lit)
      /\ vardata \in [M!Var -> [level : Nat, reason : Nat]] /\ assumptions \in Seq(M!Lit)
  BY QuietFacts
<1>2. Unassigned(trail, l)
  BY <1>1, UnassignedIs
<1>3. /\ trail' = Append(trail, l) /\ Fits(trail, vardata, vardata')
      /\ vardata'[M!VarOf(l)].level = e + 1 /\ vardata'[M!VarOf(l)].reason = 0
  BY <1>0, <1>1, <1>2, EnqueueFits
<1>4. TrailOK(trail, trail_lim', vardata) /\ IsPush(trail_lim, n, trail_lim')
  BY <1>0, <1>1, TrailLevel
<1>5. ReasonsOK(trail, trail_lim', vardata, db)
  BY <1>0, <1>1, ReasonsLevel
<1>6. Len(trail_lim') = e + 1 /\ trail_lim'[e + 1] = n /\ \A d \in 1 .. e : trail_lim'[d] = trail_lim[d]
  BY <1>1, <1>4 DEF IsPush
<1>7. ReasonClausesKept(trail, vardata, db, n, db)
  BY <1>1 DEF ReasonsOK, ReasonOK, ReasonClausesKept
<1>8. ImpliedBy(trail, trail_lim', l, 0, db)
  BY <1>6 DEF ImpliedBy
<1>9. TrailOK(trail', trail_lim', vardata') /\ ReasonsOK(trail', trail_lim', vardata', db)
  BY <1>2, <1>3, <1>4, <1>5, <1>6, <1>7, <1>8, ReasonsPush
<1>10. Len(trail') = n + 1 /\ trail'[n + 1] = l /\ \A k \in 1 .. n : trail'[k] = trail[k]
  BY <1>1, <1>3, AppendIs
<1>11. \A k \in 1 .. n : vardata'[M!VarOf(trail[k])] = vardata[M!VarOf(trail[k])]
  BY <1>3 DEF Fits
<1>12. M!Live' = M!Live /\ M!decisionLevel' = e + 1 /\ db' = db
  BY <1>0, <1>6 DEF M!Live, M!decisionLevel
<1>13. \A k \in 1 .. n : vardata[M!VarOf(trail[k])].level \in 0 .. e
  BY <1>1, TrailFacts
<1>14. Trail'
  BY <1>0, <1>9 DEF Trail
<1> HIDE DEF n, e, M!decisionLevel, M!Live
<1>15. Typed'
  <2>1. DatabaseTyped'
    BY <1>0, <1>12 DEF MinisatInv, Typed, DatabaseTyped
  <2>2. qhead \in 0 .. n + 1
    BY <1>1
  <2> QED
    BY <1>0, <1>10, <2>1, <2>2 DEF MinisatInv, Typed, OtherTyped
<1>16. Control' /\ InConflict' /\ Analyzing'
  BY <1>0, <1>1 DEF MinisatInv, Search, Control, InConflict, Analyzing
<1>17. Propagation'
  BY <1>0, <1>1, <1>6, <1>12 DEF Propagation
<1>18. \A k \in 1 .. n + 1 : k = n + 1 \/ k \in 1 .. n
  BY <1>1
<1>19. Watched'
  <2> SUFFICES ASSUME NEW j \in M!Live, NEW k \in 1 .. n + 1, -trail'[k] \in {db[j][1], db[j][2]}, Visited(k, j)'
               PROVE  \E x \in 1 .. n + 1 : /\ trail'[x] \in M!ToClause(db[j])
                                            /\ vardata'[M!VarOf(trail'[x])].level <= vardata'[M!VarOf(trail'[k])].level
    BY <1>10, <1>12 DEF Watched, M!level
  <2>1. k \in 1 .. n
    BY <1>0, <1>1, <1>18 DEF Visited
  <2>2. Visited(k, j)
    BY <1>1, <2>1 DEF Visited
  <2>3. \E x \in 1 .. n : trail[x] \in M!ToClause(db[j]) /\ M!level(trail[x]) <= M!level(trail[k])
    BY <1>1, <1>10, <2>1, <2>2 DEF MinisatInv, Search, Watched, n
  <2>4. PICK x \in 1 .. n : trail[x] \in M!ToClause(db[j]) /\ M!level(trail[x]) <= M!level(trail[k])
    BY <2>3
  <2>5. /\ x \in 1 .. n + 1 /\ trail'[x] = trail[x] /\ trail'[k] = trail[k]
        /\ vardata'[M!VarOf(trail[x])] = vardata[M!VarOf(trail[x])] /\ vardata'[M!VarOf(trail[k])] = vardata[M!VarOf(trail[k])]
    <3>1. x \in 1 .. n + 1
      BY <1>1
    <3> QED
      BY <1>10, <1>11, <2>1, <3>1
  <2> QED
    BY <2>4, <2>5 DEF M!level
<1>20. trail' \in Seq(M!Lit)
  BY <1>9 DEF TrailOK
<1>21. \A k \in 1 .. n + 1 : trail'[k] \in M!True'
  BY <1>10, <1>20 DEF M!True, M!ToClause
<1>22. Assumed'
  <2> SUFFICES ASSUME NEW d \in 1 .. e + 1, d <= Len(assumptions)
               PROVE  /\ assumptions[d] \in M!True' /\ vardata'[M!VarOf(assumptions[d])].level <= d
                      /\ \A k \in 1 .. n + 1 : vardata'[M!VarOf(trail'[k])].level = d /\ vardata'[M!VarOf(trail'[k])].reason = 0
                                               => trail'[k] = assumptions[d]
    BY <1>0, <1>10, <1>12 DEF Assumed, M!level, M!reason
  <2>0. \A k \in 1 .. n : k \in 1 .. n + 1 /\ n + 1 \in 1 .. n + 1
    BY <1>1
  <2>1. CASE d \in 1 .. e
    <3>1. /\ assumptions[d] \in M!True /\ M!level(assumptions[d]) <= d
          /\ \A k \in 1 .. n : M!level(trail[k]) = d /\ M!reason(trail[k]) = 0 => trail[k] = assumptions[d]
      BY <1>1, <2>1 DEF MinisatInv, Search, Assumed, n, e
    <3>2. assumptions[d] \in M!Lit
      BY <1>1, <3>1, TrueIs
    <3>3. PICK k \in 1 .. n : trail[k] = assumptions[d]
      BY <1>1, <3>1, <3>2, TrueIs DEF n
    <3>4. assumptions[d] \in M!True' /\ vardata'[M!VarOf(assumptions[d])].level <= d
      BY <1>10, <1>11, <1>21, <2>0, <3>1, <3>3 DEF M!level
    <3>5. ASSUME NEW x \in 1 .. n + 1, vardata'[M!VarOf(trail'[x])].level = d, vardata'[M!VarOf(trail'[x])].reason = 0
          PROVE  trail'[x] = assumptions[d]
      <4>1. x \in 1 .. n
        BY <1>1, <1>3, <1>10, <1>18, <2>1, <3>5
      <4> QED
        BY <1>10, <1>11, <3>1, <3>5, <4>1 DEF M!level, M!reason
    <3> QED
      BY <3>4, <3>5
  <2>2. CASE d = e + 1
    <3>1. l = assumptions[d]
      BY <2>2 DEF e
    <3>2. n + 1 \in 1 .. n + 1 /\ e + 1 <= e + 1
      BY <1>1
    <3>3. l \in M!True' /\ vardata'[M!VarOf(l)].level <= d
      BY <1>3, <1>10, <1>21, <2>2, <3>2 DEF M!level
    <3>4. ASSUME NEW x \in 1 .. n + 1, vardata'[M!VarOf(trail'[x])].level = d
          PROVE  trail'[x] = l
      <4>1. ASSUME x \in 1 .. n PROVE FALSE
        <5>1. vardata[M!VarOf(trail[x])].level = e + 1
          BY <1>10, <1>11, <2>2, <3>4, <4>1
        <5> QED
          BY <1>1, <1>13, <4>1, <5>1
      <4> QED
        BY <1>10, <1>18, <4>1
    <3> QED
      BY <3>1, <3>3, <3>4
  <2> QED
    BY <1>1, <2>1, <2>2
<1>23. Derived'
  <2> SUFFICES ASSUME NEW m \in M!Models(formula)
               PROVE  /\ \A j \in M!Live : m \cap M!ToClause(db[j]) # {}
                      /\ \A k \in 1 .. n + 1 : vardata'[M!VarOf(trail'[k])].level = 0 => trail'[k] \in m
    BY <1>0, <1>1, <1>10, <1>12 DEF Derived, M!level, M!Models
  <2>1. /\ \A j \in M!Live : m \cap M!ToClause(db[j]) # {}
        /\ \A k \in 1 .. n : M!level(trail[k]) = 0 => trail[k] \in m
    BY DEF MinisatInv, Derived, n
  <2>2. ASSUME NEW k \in 1 .. n + 1, vardata'[M!VarOf(trail'[k])].level = 0 PROVE trail'[k] \in m
    <3>1. k \in 1 .. n
      BY <1>1, <1>3, <1>10, <1>18, <2>2
    <3> QED
      BY <1>10, <1>11, <2>1, <2>2, <3>1 DEF M!level
  <2> QED
    BY <2>1, <2>2
<1>24. Covered'
  <2> SUFFICES ASSUME NEW x \in formula
               PROVE  \/ M!Tautology(x)
                      \/ \E k \in 1 .. n + 1 : trail'[k] \in x /\ vardata'[M!VarOf(trail'[k])].level = 0
                      \/ \E j \in M!Live \ learnts : M!ToClause(db[j]) \subseteq x
    BY <1>0, <1>10, <1>12 DEF Covered, M!level
  <2>1. \/ M!Tautology(x)
        \/ \E k \in 1 .. n : trail[k] \in x /\ M!level(trail[k]) = 0
        \/ \E j \in M!Live \ learnts : M!ToClause(db[j]) \subseteq x
    BY <1>1 DEF MinisatInv, Covered, n
  <2>2. ASSUME NEW k \in 1 .. n, trail[k] \in x, M!level(trail[k]) = 0
        PROVE  k \in 1 .. n + 1 /\ trail'[k] \in x /\ vardata'[M!VarOf(trail'[k])].level = 0
    BY <1>1, <1>10, <1>11, <2>2 DEF M!level
  <2> QED
    BY <2>1, <2>2
<1>25. AnswerKept'
  BY <1>0, <1>1 DEF AnswerKept
<1> QED
  BY <1>14, <1>15, <1>16, <1>17, <1>19, <1>22, <1>23, <1>24, <1>25 DEF MinisatInv, Search

LEMMA PickBranchLitInv == ASSUME MinisatInv, M!pickBranchLit PROVE MinisatInv'
<1>1. PICK l \in M!Lit \ (M!True \cup M!False) : M!Deciding(l)
  BY DEF M!pickBranchLit
<1>2. M!Quiet /\ M!decisionLevel >= Len(assumptions)
  BY DEF M!pickBranchLit
<1>3. ~(M!decisionLevel + 1 <= Len(assumptions))
  <2>1. M!decisionLevel \in Nat /\ Len(assumptions) \in Nat
    BY <1>2, QuietFacts
  <2> HIDE DEF M!decisionLevel
  <2> QED
    BY <1>2, <2>1
<1>4. M!decisionLevel + 1 <= Len(assumptions) => l = assumptions[M!decisionLevel + 1]
  BY <1>3
<1> QED
  BY <1>1, <1>2, <1>4, DecidingInv
LEMMA DummyLevelInv ==
  ASSUME MinisatInv, M!Quiet, M!decisionLevel < Len(assumptions), assumptions[M!decisionLevel + 1] \in M!True,
         trail_lim' = Append(trail_lim, Len(trail)),
         UNCHANGED <<todo, formula, db, learnts, ok, trail, vardata, qhead, visit, confl, out_learnt, assumptions, conflict, model, status, pc>>
  PROVE  MinisatInv'
<1> DEFINE n == Len(trail)
<1> DEFINE e == M!decisionLevel
<1> DEFINE Off == UNCHANGED <<todo, formula, db, learnts, ok, trail, vardata, qhead, visit, confl, out_learnt, assumptions, conflict, model, status, pc>>
<1>0. trail_lim' = Append(trail_lim, n) /\ Off
  OBVIOUS
<1>1. /\ pc = "search" /\ confl = 0 /\ visit = {} /\ qhead = n /\ ok
      /\ TrailOK(trail, trail_lim, vardata) /\ ReasonsOK(trail, trail_lim, vardata, db)
      /\ n \in Nat /\ e \in Nat /\ e = Len(trail_lim) /\ assumptions \in Seq(M!Lit)
  BY QuietFacts
<1>2. TrailOK(trail, trail_lim', vardata) /\ IsPush(trail_lim, n, trail_lim')
  BY <1>0, <1>1, TrailLevel
<1>3. ReasonsOK(trail, trail_lim', vardata, db)
  BY <1>0, <1>1, ReasonsLevel
<1>4. Len(trail_lim') = e + 1 /\ trail_lim'[e + 1] = n
  BY <1>1, <1>2 DEF IsPush
<1>5. Trail'
  BY <1>2, <1>3 DEF Trail
<1>6. Typed'
  BY DEF MinisatInv, Typed, OtherTyped, DatabaseTyped, M!Live
<1>7. M!decisionLevel' = e + 1
  BY <1>4 DEF M!decisionLevel
<1>8. \A k \in 1 .. n : vardata[M!VarOf(trail[k])].level \in 0 .. e
  BY <1>1, TrailFacts
<1>9. assumptions[e + 1] \in M!True /\ e < Len(assumptions)
  OBVIOUS
<1>10. Watched' /\ Derived' /\ Covered' /\ AnswerKept'
  BY <1>1 DEF MinisatInv, Search, Watched, Visited, Derived, Covered, AnswerKept, M!Live, M!level, M!Models
<1> HIDE DEF n, e, M!decisionLevel
<1>11. Control' /\ InConflict' /\ Analyzing'
  BY <1>1 DEF MinisatInv, Search, Control, InConflict, Analyzing
<1>12. Propagation'
  BY <1>1, <1>4, <1>7 DEF Propagation
<1>13. Assumed'
  <2> SUFFICES ASSUME NEW d \in 1 .. e + 1, d <= Len(assumptions)
               PROVE  /\ assumptions[d] \in M!True /\ M!level(assumptions[d]) <= d
                      /\ \A k \in 1 .. n : M!level(trail[k]) = d /\ M!reason(trail[k]) = 0 => trail[k] = assumptions[d]
    BY <1>7 DEF Assumed, M!level, M!reason, M!True, n
  <2>1. CASE d \in 1 .. e
    BY <1>1, <2>1 DEF MinisatInv, Search, Assumed, n, e
  <2>2. CASE d = e + 1
    <3>1. assumptions[d] \in M!Lit
      BY <1>1, <1>9, <2>2, TrueIs
    <3>2. PICK k \in 1 .. n : trail[k] = assumptions[d]
      BY <1>1, <1>9, <2>2, <3>1, TrueIs DEF n
    <3>3. M!level(assumptions[d]) \in 0 .. e
      BY <1>8, <3>2 DEF M!level
    <3>4. \A x \in 1 .. n : M!level(trail[x]) # d
      BY <1>1, <1>8, <2>2 DEF M!level
    <3>5. M!level(assumptions[d]) <= d
      <4> DEFINE y == M!level(assumptions[d])
      <4>1. y \in 0 .. e
        BY <3>3
      <4> HIDE DEF y
      <4>2. y <= d
        BY <1>1, <2>2, <4>1
      <4> QED
        BY <4>2 DEF y
    <3> QED
      BY <1>9, <2>2, <3>4, <3>5
  <2> QED
    BY <1>1, <2>1, <2>2
<1> QED
  BY <1>5, <1>6, <1>10, <1>11, <1>12, <1>13 DEF MinisatInv, Search

(* A clause whose watches have been visited has a true literal when the    *)
(* assignment is complete.                                                 *)
LEMMA CompleteSatisfies ==
  ASSUME MinisatInv, M!Quiet, M!True \cup M!False = M!Lit, NEW i \in M!Live
  PROVE  M!ToClause(db[i]) \cap M!True # {}
<1>1. /\ confl = 0 /\ visit = {} /\ qhead = Len(trail) /\ ok /\ pc = "search"
      /\ TrailOK(trail, trail_lim, vardata) /\ Len(trail) \in Nat
  BY QuietFacts
<1>2. IsClause(db[i])
  BY DEF MinisatInv, Typed, DatabaseTyped
<1> DEFINE w == db[i][1]
<1>3. w \in M!Lit /\ w \in M!ToClause(db[i]) /\ M!ToClause(db[i]) \in SUBSET M!Lit
  BY <1>2, ClauseIs
<1>4. CASE w \in M!True
  BY <1>3, <1>4
<1>5. CASE w \in M!False
  <2>1. PICK k \in 1 .. Len(trail) : trail[k] = -w
    BY <1>1, <1>3, <1>5, TrueIs
  <2>2. -trail[k] = w
    BY <1>3, <2>1, LitFacts
  <2>3. Visited(k, i)
    BY <1>1 DEF Visited
  <2>4. PICK j \in 1 .. Len(trail) : trail[j] \in M!ToClause(db[i])
    BY <1>1, <2>2, <2>3 DEF MinisatInv, Search, Watched
  <2>5. trail[j] \in M!True
    BY <1>1, <1>3, <2>4, TrueIs
  <2> QED
    BY <2>4, <2>5
<1> QED
  BY <1>3, <1>4, <1>5

LEMMA ModelFoundInv == ASSUME MinisatInv, M!ModelFound PROVE MinisatInv'
<1>1. /\ M!Quiet /\ M!decisionLevel >= Len(assumptions) /\ M!True \cup M!False = M!Lit /\ conflict' = conflict
      /\ status' = "sat" /\ model' = M!True /\ ok' = ok /\ M!cancelUntil(0) /\ pc' = "idle" /\ confl' = 0
      /\ UNCHANGED <<todo, formula, db, learnts, visit, assumptions>>
  <2>1. ok \in BOOLEAN
    BY DEF MinisatInv, Typed, OtherTyped
  <2> QED
    BY <2>1 DEF M!ModelFound, M!Finish, M!input, M!clauses
<1>2. /\ pc = "search" /\ confl = 0 /\ visit = {} /\ ok /\ conflict = {} /\ ok \in BOOLEAN
      /\ TrailOK(trail, trail_lim, vardata) /\ assumptions \in Seq(M!Lit) /\ M!decisionLevel \in Nat
  BY <1>1, QuietFacts
<1>3. Back
  BY <1>1, <1>2 DEF Back
<1>4. M!True \in M!Total
  <2>1. \A l \in M!Lit : l \in M!True <=> -l \notin M!True
    BY <1>1, <1>2, TrueIs
  <2>2. M!True \in SUBSET M!Lit
    BY <1>2, TrueIs
  <2> QED
    BY <2>1, <2>2, TotalIf
<1>5. ASSUME NEW c \in formula PROVE M!True \cap c # {}
  <2>1. \/ M!Tautology(c)
        \/ \E k \in 1 .. Len(trail) : trail[k] \in c
        \/ \E i \in M!Live \ learnts : M!ToClause(db[i]) \subseteq c
    BY <1>2 DEF MinisatInv, Covered
  <2>2. c \in SUBSET M!Lit
    BY DEF MinisatInv, Typed, OtherTyped
  <2>3. CASE M!Tautology(c)
    BY <1>4, <2>2, <2>3, TautologyHolds
  <2>4. CASE \E k \in 1 .. Len(trail) : trail[k] \in c
    BY <1>2, <2>2, <2>4, TrueIs
  <2>5. CASE \E i \in M!Live \ learnts : M!ToClause(db[i]) \subseteq c
    BY <1>1, <2>5, CompleteSatisfies
  <2> QED
    BY <2>1, <2>3, <2>4, <2>5
<1>6. M!True \in M!Models(formula)
  BY <1>4, <1>5 DEF M!Models, M!Satisfies
<1>7. M!ToClause(assumptions) \subseteq M!True
  <2> SUFFICES ASSUME NEW d \in 1 .. Len(assumptions) PROVE assumptions[d] \in M!True
    BY <1>2 DEF M!ToClause
  <2>1. d \in 1 .. M!decisionLevel /\ d <= Len(assumptions)
    <3>1. Len(assumptions) \in Nat
      BY <1>2
    <3> HIDE DEF M!decisionLevel
    <3> QED
      BY <1>1, <1>2, <3>1
  <2> QED
    BY <1>2, <2>1 DEF MinisatInv, Search, Assumed
<1>8. AnswerKept'
  BY <1>1, <1>6, <1>7 DEF AnswerKept, M!Models
<1> QED
  BY <1>3, <1>8, BackKeeps DEF MinisatInv
-----------------------------------------------------------------------------
(* The literals an implied literal rests on, level 0 left out. *)
Rests(p) == M!Negated(M!Raised(M!ToClause(db[M!reason(p)]) \ {p}))

LEMMA RestsBefore ==
  ASSUME MinisatInv, NEW k \in 1 .. Len(trail), M!reason(trail[k]) # 0
  PROVE  /\ \A y \in Rests(trail[k]) : \E j \in 1 .. k - 1 : trail[j] = y
         /\ \A q \in M!ToClause(db[M!reason(trail[k])]) \ {trail[k]} : q \in M!Lit /\ \E j \in 1 .. k - 1 : trail[j] = -q
         /\ M!reason(trail[k]) \in M!Live /\ Rests(trail[k]) \in SUBSET M!True
<1> DEFINE p == trail[k]
<1> DEFINE r == M!reason(p)
<1>1. TrailOK(trail, trail_lim, vardata) /\ ReasonOK(trail, trail_lim, vardata, db, k)
  BY DEF MinisatInv, Trail, ReasonsOK
<1>2. r \in M!Live /\ \A q \in M!ToClause(db[r]) \ {p} : \E j \in 1 .. k - 1 : trail[j] = -q
  BY <1>1 DEF ReasonOK, M!reason, M!Live
<1>3. IsClause(db[r])
  BY <1>2 DEF MinisatInv, Typed, DatabaseTyped
<1>4. M!ToClause(db[r]) \in SUBSET M!Lit
  BY <1>3, ClauseIs
<1>5. \A y \in Rests(p) : \E j \in 1 .. k - 1 : trail[j] = y
  BY <1>2 DEF Rests, M!Negated, M!Raised
<1>6. Rests(p) \in SUBSET M!True
  <2> SUFFICES ASSUME NEW y \in Rests(p) PROVE y \in M!True
    OBVIOUS
  <2>1. PICK j \in 1 .. k - 1 : trail[j] = y
    BY <1>5
  <2>2. j \in 1 .. Len(trail)
    BY <1>1, TrailFacts
  <2>3. trail[j] \in M!Lit
    BY <1>1, <2>2, TrailFacts
  <2> QED
    BY <1>1, <2>1, <2>2, <2>3, TrueIs
<1> QED
  BY <1>2, <1>4, <1>5, <1>6

Closed(Z) == \A k \in 1 .. Len(trail) : trail[k] \in Z /\ M!level(trail[k]) # 0 /\ M!reason(trail[k]) # 0 => Rests(trail[k]) \subseteq Z

IsFinal(l, Z) ==
  /\ Z \in SUBSET M!True /\ l \in Z /\ Closed(Z)
  /\ M!analyzeFinal(l) = {l} \cup {-p : p \in {q \in Z : M!level(q) > 0 /\ M!reason(q) = 0}}

LEMMA FinalIs == ASSUME MinisatInv, NEW l \in M!True PROVE \E Z : IsFinal(l, Z)
<1> DEFINE n == Len(trail)
<1> DEFINE V == SUBSET M!True
<1> DEFINE At(Z, k) == LET p == trail[n + 1 - k]
                       IN IF p \notin Z \/ M!level(p) = 0 \/ M!reason(p) = 0 THEN Z
                          ELSE Z \cup M!Negated(M!Raised(M!ToClause(db[M!reason(p)]) \ {p}))
<1> DEFINE st == [x \in (1 .. n) \X V |-> At(x[2], x[1])]
<1>1. TrailOK(trail, trail_lim, vardata) /\ n \in Nat
  BY TrailFacts DEF MinisatInv, Trail
<1>2. ASSUME NEW k \in 1 .. n PROVE n + 1 - k \in 1 .. n
  BY <1>1
<1>3. ASSUME NEW k \in 1 .. n, NEW Z \in V PROVE At(Z, k) \in V
  BY <1>2, RestsBefore DEF Rests
<1>4. st \in [(1 .. n) \X V -> V]
  BY <1>3
<1>5. \A k \in 1 .. n, Z \in V : st[<<k, Z>>] = At(Z, k)
  OBVIOUS
<1> DEFINE Fin(Z) == {l} \cup {-p : p \in {q \in Z : M!level(q) > 0 /\ M!reason(q) = 0}}
<1>6. M!analyzeFinal(l) = Fin((CHOOSE s : s = [k \in 0 .. n |-> IF k = 0 THEN {l} ELSE At(s[k - 1], k)])[n])
  BY DEF M!analyzeFinal
<1>7. ASSUME NEW k \in 1 .. n, NEW Z \in V
      PROVE  LET p == trail[n + 1 - k]
             IN /\ Z \subseteq At(Z, k) /\ (\A y \in At(Z, k) : y \in Z \/ \E j \in 1 .. n - k : trail[j] = y)
                /\ p \in Z /\ M!level(p) # 0 /\ M!reason(p) # 0 => Rests(p) \subseteq At(Z, k)
  <2> DEFINE x == n + 1 - k
  <2>1. x \in 1 .. n /\ x - 1 = n - k
    BY <1>1
  <2>2. CASE trail[x] \notin Z \/ M!level(trail[x]) = 0 \/ M!reason(trail[x]) = 0
    BY <2>2
  <2>3. CASE ~(trail[x] \notin Z \/ M!level(trail[x]) = 0 \/ M!reason(trail[x]) = 0)
    <3>1. At(Z, k) = Z \cup Rests(trail[x])
      BY <2>3 DEF Rests
    <3>2. \A y \in Rests(trail[x]) : \E j \in 1 .. n - k : trail[j] = y
      BY <2>1, <2>3, RestsBefore
    <3> HIDE DEF At
    <3> QED
      BY <3>1, <3>2
  <2> QED
    BY <2>2, <2>3
<1>8. {l} \in V /\ n \in 0 .. n
  BY <1>1
<1>9. \A k \in 0 .. n : k # 0 => k - 1 \in 0 .. n /\ k \in 1 .. n
  BY <1>1
<1>10. \A j, k \in 1 .. n : trail[j] = trail[k] => j = k
  BY DEF MinisatInv, Trail, TrailOK
<1> HIDE DEF n, V, At, st, Fin
<1>11. PICK f : Recursive(n, V, {l}, st, f)
  BY <1>1, <1>4, <1>8, Recursion
<1> DEFINE Eq(g) == g = [k \in 0 .. n |-> IF k = 0 THEN {l} ELSE At(g[k - 1], k)]
<1>12. f \in [0 .. n -> V] /\ \A k \in 0 .. n : f[k] = IF k = 0 THEN {l} ELSE At(f[k - 1], k)
  BY <1>5, <1>9, <1>11 DEF Recursive
<1>13. Eq(f)
  BY <1>12
<1> DEFINE g == CHOOSE g : Eq(g)
<1>14. M!analyzeFinal(l) = Fin(g[n]) /\ Eq(g)
  BY <1>6, <1>13
<1> HIDE DEF g
<1>15. g[0] = {l} /\ \A k \in Nat : k + 1 \in 0 .. n => k \in 0 .. n /\ g[k + 1] = At(g[k], k + 1)
  <2>1. g[0] = {l}
    BY <1>1, <1>14
  <2>2. ASSUME NEW k \in Nat, k + 1 \in 0 .. n PROVE k \in 0 .. n /\ g[k + 1] = At(g[k], k + 1)
    <3>1. k \in 0 .. n /\ k + 1 # 0 /\ (k + 1) - 1 = k
      BY <1>1, <2>2
    <3> QED
      BY <1>14, <2>2, <3>1
  <2> QED
    BY <2>1, <2>2
<1> DEFINE Gathered(k) == \A x \in n + 1 - k .. n : trail[x] \in g[k] /\ M!level(trail[x]) # 0 /\ M!reason(trail[x]) # 0 => Rests(trail[x]) \subseteq g[k]
<1> DEFINE Q(k) == g[k] \in V /\ l \in g[k] /\ Gathered(k)
<1> DEFINE T == {k \in Nat : k \in 0 .. n => Q(k)}
<1>16. 0 \in T
  <2>1. Gathered(0)
    BY <1>1
  <2> QED
    BY <1>8, <1>15, <2>1
<1>17. ASSUME NEW k \in Nat, k \in T PROVE k + 1 \in T
  <2> SUFFICES ASSUME k + 1 \in 0 .. n PROVE Q(k + 1)
    OBVIOUS
  <2>1. k \in 0 .. n /\ k + 1 \in 1 .. n /\ g[k + 1] = At(g[k], k + 1)
    BY <1>1, <1>15
  <2>2. g[k] \in V /\ l \in g[k] /\ Gathered(k)
    BY <1>17, <2>1
  <2> DEFINE Z == g[k]
  <2> DEFINE R == g[k + 1]
  <2> DEFINE z == n + 1 - (k + 1)
  <2>3. /\ R \in V /\ Z \subseteq R /\ (\A y \in R : y \in Z \/ \E j \in 1 .. n - (k + 1) : trail[j] = y)
        /\ trail[z] \in Z /\ M!level(trail[z]) # 0 /\ M!reason(trail[z]) # 0 => Rests(trail[z]) \subseteq R
    BY <1>3, <1>7, <2>1, <2>2
  <2>4. ASSUME NEW x \in n + 1 - (k + 1) .. n, trail[x] \in R, M!level(trail[x]) # 0, M!reason(trail[x]) # 0
        PROVE  Rests(trail[x]) \subseteq R
    <3>1. x \in 1 .. n /\ x \notin 1 .. n - (k + 1) /\ \A j \in 1 .. n - (k + 1) : j \in 1 .. n
      BY <1>1, <2>1
    <3>2. trail[x] \in Z
      BY <1>10, <2>3, <2>4, <3>1
    <3>3. CASE x = z
      BY <2>3, <2>4, <3>2, <3>3
    <3>4. CASE x \in n + 1 - k .. n
      BY <2>2, <2>3, <2>4, <3>2, <3>4
    <3>5. x = z \/ x \in n + 1 - k .. n
      BY <1>1, <2>1
    <3> QED
      BY <3>3, <3>4, <3>5
  <2> QED
    BY <2>2, <2>3, <2>4
<1> HIDE DEF T
<1>18. \A k \in Nat : k \in T
  BY <1>16, <1>17, SetInduction
<1>19. Q(n)
  BY <1>1, <1>8, <1>18 DEF T
<1>20. Closed(g[n])
  <2>1. n + 1 - n = 1
    BY <1>1
  <2> QED
    BY <1>19, <2>1 DEF Closed, n
<1>21. IsFinal(l, g[n])
  BY <1>14, <1>19, <1>20 DEF IsFinal, Fin, V
<1> QED
  BY <1>21
(* A model with the decisions in a closed set has all of the set. *)
LEMMA ClosedHolds ==
  ASSUME MinisatInv, NEW Z \in SUBSET M!True, Closed(Z), NEW m \in M!Models(formula),
         \A q \in Z : M!level(q) > 0 /\ M!reason(q) = 0 => q \in m
  PROVE  Z \subseteq m
<1> DEFINE n == Len(trail)
<1>1. TrailOK(trail, trail_lim, vardata) /\ n \in Nat
  BY TrailFacts DEF MinisatInv, Trail
<1> DEFINE T == {k \in Nat : k \in 1 .. n /\ trail[k] \in Z => trail[k] \in m}
<1>2. ASSUME NEW k \in Nat, \A j \in 0 .. k - 1 : j \in T PROVE k \in T
  <2> SUFFICES ASSUME k \in 1 .. n, trail[k] \in Z, trail[k] \notin m PROVE FALSE
    OBVIOUS
  <2> DEFINE p == trail[k]
  <2>1. p \in M!Lit /\ M!level(p) \in Nat
    BY <1>1, TrailFacts, LevelType
  <2>2. M!level(p) # 0 /\ M!level(p) > 0
    <3>1. M!level(p) # 0
      BY DEF MinisatInv, Derived
    <3> DEFINE x == M!level(p)
    <3> HIDE DEF x
    <3>2. x # 0 => x > 0
      BY <2>1 DEF x
    <3> QED
      BY <3>1, <3>2 DEF x
  <2>3. M!reason(p) # 0
    BY <2>2
  <2> DEFINE c == M!ToClause(db[M!reason(p)])
  <2>4. /\ M!reason(p) \in M!Live /\ (\A q \in c \ {p} : q \in M!Lit /\ \E j \in 1 .. k - 1 : trail[j] = -q)
    BY <2>3, RestsBefore
  <2>5. Rests(p) \subseteq Z
    BY <2>2, <2>3 DEF Closed
  <2>6. PICK q \in m : q \in c
    BY <2>4 DEF MinisatInv, Derived
  <2>7. q \in c \ {p}
    BY <2>6
  <2>8. q \in M!Lit /\ \E j \in 1 .. k - 1 : trail[j] = -q
    BY <2>4, <2>7
  <2>9. PICK j \in 1 .. k - 1 : trail[j] = -q
    BY <2>8
  <2>10. j \in 1 .. n /\ j \in 0 .. k - 1
    BY <1>1
  <2>11. q \in M!False
    BY <1>1, <2>8, <2>9, <2>10, TrueIs
  <2>12. M!level(q) # 0 /\ M!level(q) \in Nat
    BY <2>8, <2>11, RootFalse, LevelType
  <2>13. M!level(q) > 0
    BY <2>12
  <2>14. -q \in Rests(p)
    BY <2>7, <2>13 DEF Rests, M!Negated, M!Raised
  <2>15. trail[j] \in m
    BY <1>2, <2>5, <2>9, <2>10, <2>14
  <2> QED
    BY <2>8, <2>9, <2>15, ModelsTotal
<1> HIDE DEF T
<1>3. \A k \in Nat : k \in T
  BY <1>2, SetStrongInduction
<1> SUFFICES ASSUME NEW q \in Z PROVE q \in m
  OBVIOUS
<1>4. q \in M!Lit /\ \E k \in 1 .. n : trail[k] = q
  BY <1>1, TrueIs
<1>5. PICK k \in 1 .. n : trail[k] = q
  BY <1>4
<1>6. k \in T
  BY <1>1, <1>3
<1> QED
  BY <1>5, <1>6 DEF T

LEMMA FailedInv ==
  ASSUME MinisatInv, M!Quiet, M!decisionLevel < Len(assumptions), NEW a, a = assumptions[M!decisionLevel + 1], a \in M!False,
         conflict' = M!analyzeFinal(-a), M!Finish("unsat")
  PROVE  MinisatInv'
<1>1. /\ pc = "search" /\ confl = 0 /\ visit = {} /\ ok /\ ok \in BOOLEAN /\ M!decisionLevel \in Nat
      /\ TrailOK(trail, trail_lim, vardata) /\ assumptions \in Seq(M!Lit) /\ M!decisionLevel = Len(trail_lim)
  BY QuietFacts
<1>2. a \in M!Lit /\ -a \in M!True /\ -a \in M!Lit
  BY <1>1, TrueIs
<1>3. PICK Z : IsFinal(-a, Z)
  BY <1>2, FinalIs
<1>4. /\ Z \in SUBSET M!True /\ -a \in Z /\ Closed(Z)
      /\ conflict' = {-a} \cup {-p : p \in {q \in Z : M!level(q) > 0 /\ M!reason(q) = 0}}
  BY <1>3 DEF IsFinal
<1>5. conflict' # {}
  BY <1>4
<1>6. /\ status' = "unsat" /\ ok' = ok /\ M!cancelUntil(0) /\ pc' = "idle" /\ confl' = 0
      /\ UNCHANGED <<todo, formula, db, learnts, visit, assumptions>>
  BY <1>1, <1>5 DEF M!Finish, M!input, M!clauses
<1>7. Back
  BY <1>1, <1>6 DEF Back
<1>8. \A m \in M!Models(formula) : m \cap conflict' # {}
  <2> SUFFICES ASSUME NEW m \in M!Models(formula), m \cap conflict' = {} PROVE FALSE
    OBVIOUS
  <2>1. ASSUME NEW q \in Z, M!level(q) > 0, M!reason(q) = 0 PROVE q \in m
    <3>1. -q \in conflict'
      BY <1>4, <2>1
    <3>2. q \in M!Lit
      BY <1>1, <1>4, TrueIs
    <3> QED
      BY <3>1, <3>2, ModelsTotal
  <2>2. -a \in m
    BY <1>4, <2>1, ClosedHolds
  <2> QED
    BY <1>4, <2>2
<1>9. conflict' \subseteq M!Negated(M!ToClause(assumptions))
  <2>0. \A d \in 1 .. Len(assumptions) : -assumptions[d] \in M!Negated(M!ToClause(assumptions))
    BY <1>1 DEF M!Negated, M!ToClause
  <2>1. M!decisionLevel + 1 \in 1 .. Len(assumptions) /\ \A d \in 1 .. M!decisionLevel : d \in 1 .. Len(assumptions) /\ d <= Len(assumptions)
    <3>1. Len(assumptions) \in Nat
      BY <1>1
    <3> HIDE DEF M!decisionLevel
    <3> QED
      BY <1>1, <3>1
  <2>2. -a \in M!Negated(M!ToClause(assumptions))
    BY <2>0, <2>1
  <2>3. ASSUME NEW q \in Z, M!level(q) > 0, M!reason(q) = 0 PROVE -q \in M!Negated(M!ToClause(assumptions))
    <3>1. q \in M!Lit /\ \E k \in 1 .. Len(trail) : trail[k] = q
      BY <1>1, <1>4, TrueIs
    <3>2. PICK k \in 1 .. Len(trail) : trail[k] = q
      BY <3>1
    <3>3. M!level(q) \in 0 .. M!decisionLevel
      BY <1>1, <3>2, TrailFacts DEF M!level
    <3> DEFINE d == M!level(q)
    <3>4. d \in 1 .. M!decisionLevel
      <4>1. d \in 0 .. M!decisionLevel /\ d > 0
        BY <2>3, <3>3
      <4> HIDE DEF d, M!decisionLevel
      <4> QED
        BY <1>1, <4>1
    <3>5. q = assumptions[d]
      BY <1>1, <2>1, <2>3, <3>2, <3>4 DEF MinisatInv, Search, Assumed
    <3> QED
      BY <2>0, <2>1, <3>4, <3>5
  <2> QED
    BY <1>4, <2>2, <2>3
<1>10. AnswerKept'
  BY <1>6, <1>8, <1>9 DEF AnswerKept, M!Models
<1> QED
  BY <1>7, <1>10, BackKeeps DEF MinisatInv

LEMMA AssumeInv == ASSUME MinisatInv, M!Assume PROVE MinisatInv'
<1> DEFINE a == assumptions[M!decisionLevel + 1]
<1>1. M!Quiet /\ M!decisionLevel < Len(assumptions)
  BY DEF M!Assume
<1>2. \/ /\ a \in M!True /\ trail_lim' = Append(trail_lim, Len(trail))
         /\ UNCHANGED <<todo, formula, db, learnts, ok, trail, vardata, qhead, visit, confl, out_learnt, assumptions, conflict, model, status, pc>>
      \/ a \in M!False /\ conflict' = M!analyzeFinal(-a) /\ M!Finish("unsat")
      \/ a \notin M!True \cup M!False /\ M!Deciding(a)
  BY DEF M!Assume, M!input, M!clauses, M!queue, M!answer
<1>3. a \in M!Lit
  <2>1. M!decisionLevel \in Nat /\ assumptions \in Seq(M!Lit)
    BY <1>1, QuietFacts
  <2>2. M!decisionLevel + 1 \in 1 .. Len(assumptions)
    <3>1. Len(assumptions) \in Nat
      BY <2>1
    <3> HIDE DEF M!decisionLevel
    <3> QED
      BY <1>1, <2>1, <3>1
  <2> QED
    BY <2>1, <2>2
<1>4. CASE /\ a \in M!True /\ trail_lim' = Append(trail_lim, Len(trail))
           /\ UNCHANGED <<todo, formula, db, learnts, ok, trail, vardata, qhead, visit, confl, out_learnt, assumptions, conflict, model, status, pc>>
  BY <1>1, <1>4, DummyLevelInv
<1>5. CASE a \in M!False /\ conflict' = M!analyzeFinal(-a) /\ M!Finish("unsat")
  <2> HIDE DEF M!Finish
  <2> QED
    BY <1>1, <1>5, FailedInv
<1>6. CASE a \notin M!True \cup M!False /\ M!Deciding(a)
  <2>1. M!decisionLevel + 1 <= Len(assumptions) => a = assumptions[M!decisionLevel + 1]
    OBVIOUS
  <2> QED
    BY <1>1, <1>3, <1>6, <2>1, DecidingInv
<1> QED
  BY <1>2, <1>4, <1>5, <1>6
-----------------------------------------------------------------------------
(* litRedundant: the literals whose reasons lead back to the clause. *)
LeadsBack(c, R, k) == M!reason(trail[k]) # 0 /\ M!Raised(M!ToClause(db[M!reason(trail[k])]) \ {trail[k]}) \subseteq c \cup R

IsRedundant(c, R) ==
  /\ M!Redundant(c) = c \cap R
  /\ \A y \in R : \E k \in 1 .. Len(trail) : y = -trail[k] /\ LeadsBack(c, R, k)

LEMMA RedundantIs == ASSUME MinisatInv, NEW c PROVE \E R : IsRedundant(c, R)
<1> DEFINE n == Len(trail)
<1> DEFINE V == SUBSET M!Lit
<1> DEFINE At(R, k) == IF LeadsBack(c, R, k) THEN R \cup {-trail[k]} ELSE R
<1> DEFINE st == [x \in (1 .. n) \X V |-> At(x[2], x[1])]
<1>1. TrailOK(trail, trail_lim, vardata) /\ n \in Nat
  BY TrailFacts DEF MinisatInv, Trail
<1>2. \A k \in 1 .. n : -trail[k] \in M!Lit
  BY <1>1, TrailFacts
<1>3. \A k \in 1 .. n, R \in V : At(R, k) \in V
  BY <1>2
<1>4. st \in [(1 .. n) \X V -> V]
  BY <1>3
<1>5. \A k \in 1 .. n, R \in V : st[<<k, R>>] = At(R, k)
  OBVIOUS
<1>6. M!Redundant(c) = c \cap (CHOOSE g : g = [k \in 0 .. n |-> IF k = 0 THEN {} ELSE At(g[k - 1], k)])[n]
  BY DEF M!Redundant, LeadsBack
<1>7. \A R, k : /\ R \subseteq At(R, k)
                /\ \A y \in At(R, k) : y \in R \/ (y = -trail[k] /\ LeadsBack(c, R, k))
  OBVIOUS
<1>8. {} \in V /\ n \in 0 .. n
  BY <1>1
<1>9. \A k \in 0 .. n : k # 0 => k - 1 \in 0 .. n /\ k \in 1 .. n
  BY <1>1
<1> HIDE DEF n, V, At, st
<1>11. PICK f : Recursive(n, V, {}, st, f)
  BY <1>1, <1>4, <1>8, Recursion
<1> DEFINE Eq(g) == g = [k \in 0 .. n |-> IF k = 0 THEN {} ELSE At(g[k - 1], k)]
<1>12. f \in [0 .. n -> V] /\ \A k \in 0 .. n : f[k] = IF k = 0 THEN {} ELSE At(f[k - 1], k)
  BY <1>5, <1>9, <1>11 DEF Recursive
<1>13. Eq(f)
  BY <1>12
<1> DEFINE g == CHOOSE g : Eq(g)
<1>14. M!Redundant(c) = c \cap g[n] /\ Eq(g)
  BY <1>6, <1>13
<1> HIDE DEF g
<1>15. g[0] = {} /\ \A k \in Nat : k + 1 \in 0 .. n => k \in 0 .. n /\ g[k + 1] = At(g[k], k + 1)
  <2>1. g[0] = {}
    BY <1>1, <1>14
  <2>2. ASSUME NEW k \in Nat, k + 1 \in 0 .. n PROVE k \in 0 .. n /\ g[k + 1] = At(g[k], k + 1)
    <3>1. k \in 0 .. n /\ k + 1 # 0 /\ (k + 1) - 1 = k
      BY <1>1, <2>2
    <3> QED
      BY <1>14, <2>2, <3>1
  <2> QED
    BY <2>1, <2>2
<1> DEFINE Q(R) == \A y \in R : \E k \in 1 .. n : y = -trail[k] /\ LeadsBack(c, R, k)
<1> DEFINE T == {k \in Nat : k \in 0 .. n => Q(g[k])}
<1>16. 0 \in T
  BY <1>15
<1>17. ASSUME NEW k \in Nat, k \in T PROVE k + 1 \in T
  <2> SUFFICES ASSUME k + 1 \in 0 .. n, NEW y \in g[k + 1]
               PROVE  \E j \in 1 .. n : y = -trail[j] /\ LeadsBack(c, g[k + 1], j)
    OBVIOUS
  <2>1. k \in 0 .. n /\ k + 1 \in 1 .. n /\ g[k + 1] = At(g[k], k + 1)
    BY <1>1, <1>15
  <2>2. Q(g[k])
    BY <1>17, <2>1
  <2>3. g[k] \subseteq g[k + 1] /\ (y \in g[k] \/ (y = -trail[k + 1] /\ LeadsBack(c, g[k], k + 1)))
    BY <1>7, <2>1
  <2>4. \A j : LeadsBack(c, g[k], j) => LeadsBack(c, g[k + 1], j)
    BY <2>3 DEF LeadsBack
  <2> QED
    BY <2>1, <2>2, <2>3, <2>4
<1> HIDE DEF T
<1>18. \A k \in Nat : k \in T
  BY <1>16, <1>17, SetInduction
<1>19. Q(g[n])
  BY <1>1, <1>8, <1>18 DEF T
<1>20. IsRedundant(c, g[n])
  BY <1>14, <1>19 DEF IsRedundant, n
<1> QED
  BY <1>20

(* The clause that is left after minimization is a consequence as well. *)
LEMMA MinimizedHolds ==
  ASSUME MinisatInv, NEW c, NEW b, c \ M!Redundant(c) \subseteq b, NEW m \in M!Models(formula), m \cap c # {}
  PROVE  m \cap b # {}
<1> SUFFICES ASSUME m \cap b = {} PROVE FALSE
  OBVIOUS
<1>1. PICK R : IsRedundant(c, R)
  BY RedundantIs
<1>2. M!Redundant(c) = c \cap R /\ \A y \in R : \E k \in 1 .. Len(trail) : y = -trail[k] /\ LeadsBack(c, R, k)
  BY <1>1 DEF IsRedundant
<1> DEFINE n == Len(trail)
<1>3. TrailOK(trail, trail_lim, vardata) /\ n \in Nat
  BY TrailFacts DEF MinisatInv, Trail
<1>4. \A j, k \in 1 .. n : -trail[j] = -trail[k] => j = k
  <2>1. \A j \in 1 .. n : trail[j] \in M!Lit
    BY <1>3, TrailFacts
  <2>2. \A j, k \in 1 .. n : M!VarOf(trail[j]) = M!VarOf(trail[k]) => j = k
    BY <1>3 DEF TrailOK
  <2> SUFFICES ASSUME NEW j \in 1 .. n, NEW k \in 1 .. n, -trail[j] = -trail[k] PROVE j = k
    OBVIOUS
  <2>3. trail[j] = trail[k]
    BY <2>1, LitFacts
  <2> QED
    BY <2>2, <2>3
<1> DEFINE T == {k \in Nat : k \in 1 .. n /\ -trail[k] \in R => -trail[k] \notin m}
<1>5. ASSUME NEW k \in Nat, \A j \in 0 .. k - 1 : j \in T PROVE k \in T
  <2> SUFFICES ASSUME k \in 1 .. n, -trail[k] \in R, -trail[k] \in m PROVE FALSE
    OBVIOUS
  <2> DEFINE p == trail[k]
  <2> DEFINE d == M!ToClause(db[M!reason(p)])
  <2>1. p \in M!Lit
    BY <1>3, TrailFacts
  <2>2. M!reason(p) # 0 /\ M!Raised(d \ {p}) \subseteq c \cup R
    BY <1>2, <1>4 DEF LeadsBack
  <2>4. /\ M!reason(p) \in M!Live /\ (\A q \in d \ {p} : q \in M!Lit /\ \E j \in 1 .. k - 1 : trail[j] = -q)
    BY <2>2, RestsBefore
  <2>6. PICK q \in m : q \in d
    BY <2>4 DEF MinisatInv, Derived
  <2>7. q \in d \ {p}
    BY <2>1, <2>6, ModelsTotal
  <2>8. q \in M!Lit /\ \E j \in 1 .. k - 1 : trail[j] = -q
    BY <2>4, <2>7
  <2>9. PICK j \in 1 .. k - 1 : trail[j] = -q
    BY <2>8
  <2>10. j \in 1 .. n /\ j \in 0 .. k - 1 /\ -trail[j] = q
    BY <1>3, <2>8, <2>9, LitFacts
  <2>11. q \in M!False
    BY <1>3, <2>8, <2>9, <2>10, TrueIs
  <2>12. M!level(q) # 0 /\ M!level(q) \in Nat
    BY <2>8, <2>11, RootFalse, LevelType
  <2>13. M!level(q) > 0
    BY <2>12
  <2>14. q \in c \cup R
    BY <2>2, <2>7, <2>13 DEF M!Raised
  <2>15. CASE q \in R
    BY <1>5, <2>10, <2>15
  <2>16. CASE q \in c /\ q \notin R
    BY <1>2, <2>16
  <2> QED
    BY <2>14, <2>15, <2>16
<1> HIDE DEF T
<1>6. \A k \in Nat : k \in T
  BY <1>5, SetStrongInduction
<1>7. PICK q \in m : q \in c
  OBVIOUS
<1>8. q \in R
  BY <1>2, <1>7
<1>9. PICK k \in 1 .. n : q = -trail[k]
  BY <1>2, <1>8
<1>10. k \in T
  BY <1>3, <1>6
<1> QED
  BY <1>7, <1>8, <1>9, <1>10 DEF T

LEMMA HighestIs ==
  ASSUME NEW c, c # {}, NEW n \in Nat, \A l \in c : M!level(l) \in 1 .. n
  PROVE  M!Highest(c) \in c /\ \A l \in c : M!level(l) <= M!level(M!Highest(c))
<1> DEFINE T == {M!level(l) : l \in c}
<1>1. T \in SUBSET (1 .. n) /\ T # {}
  OBVIOUS
<1>2. PICK x \in T : \A y \in T : y <= x
  <2> HIDE DEF T
  <2> QED
    BY <1>1, GreatestElement
<1>3. PICK h \in c : x = M!level(h)
  OBVIOUS
<1>4. \E l \in c : \A k \in c : M!level(l) >= M!level(k)
  <2>1. \A k \in c : M!level(k) \in 1 .. n /\ M!level(k) <= M!level(h)
    BY <1>2, <1>3
  <2> QED
    BY <2>1
<1>5. M!Highest(c) \in c /\ \A k \in c : M!level(M!Highest(c)) >= M!level(k)
  BY <1>4 DEF M!Highest
<1> QED
  BY <1>5

LEMMA SetToSeqIs == ASSUME NEW Z \in SUBSET M!Lit PROVE Listing(M!SetToSeq(Z), Z)
<1> DEFINE n == Cardinality(Z)
<1> DEFINE s == M!SetToSeq(Z)
<1>1. IsFiniteSet(Z) /\ n \in Nat /\ \E u \in [1 .. n -> Z] : Increasing(u, n)
  BY SortedExists, LitFinite
<1>2. PICK u \in [1 .. n -> Z] : Increasing(u, n)
  BY <1>1
<1>3. ASSUME NEW j \in 1 .. n, NEW k \in 1 .. n, u[j] = u[k] PROVE j = k
  <2> HIDE DEF n
  <2>1. ~(j < k) /\ ~(k < j)
    <3>1. M!Index(u[j]) = M!Index(u[k]) /\ M!Index(u[j]) \in Nat
      BY <1>2, <1>3, IndexIs
    <3> QED
      BY <1>2, <3>1 DEF Increasing
  <2> QED
    BY <1>1, <2>1
<1> DEFINE Inj(f) == \A a, b \in DOMAIN f : f[a] = f[b] => a = b
<1>4. u \in [1 .. n -> Z] /\ Inj(u)
  BY <1>3
<1>5. s = CHOOSE f \in [1 .. n -> Z] : Inj(f)
  BY SameNotions DEF M!SetToSeq, M!IsInjective
<1> HIDE DEF s, Inj
<1>6. s \in [1 .. n -> Z] /\ Inj(s)
  BY <1>4, <1>5
<1>7. \A j, k \in 1 .. n : s[j] = s[k] => j = k
  BY <1>6 DEF Inj
<1> QED
  BY <1>1, <1>6, <1>7, ListingIs DEF s
IsLearnt(b, u, h, Z) == IsClause(b) /\ b[1] = u /\ b[2] = h /\ M!ToClause(b) = {u} \cup Z

(* u and h before the literals of s. *)
Prefixed(b, u, h, s) ==
  /\ b \in Seq(M!Lit) /\ Len(b) = Len(s) + 2 /\ Len(s) \in Nat /\ b[1] = u /\ b[2] = h
  /\ \A k \in 1 .. Len(s) : b[k + 2] = s[k]

LEMMA PrefixedIs ==
  ASSUME NEW s \in Seq(M!Lit), NEW u \in M!Lit, NEW h \in M!Lit
  PROVE  Prefixed(<<u, h>> \o s, u, h, s)
<1> DEFINE p == <<u, h>>
<1> DEFINE b == p \o s
<1>1. p \in Seq(M!Lit) /\ Len(p) = 2 /\ p[1] = u /\ p[2] = h
  OBVIOUS
<1> HIDE DEF p
<1>2. b \in Seq(M!Lit) /\ Len(b) = Len(p) + Len(s) /\ Len(s) \in Nat
  <2>1. Len(s) \in Nat
    OBVIOUS
  <2>2. b \in Seq(M!Lit) /\ Len(b) = Len(p) + Len(s)
    BY <1>1, ConcatProperties
  <2> QED
    BY <2>1, <2>2
<1>3. \A k \in 1 .. Len(p) + Len(s) : b[k] = IF k <= Len(p) THEN p[k] ELSE s[k - Len(p)]
  BY <1>1, ConcatProperties
<1> HIDE DEF b
<1>4. Len(b) = Len(s) + 2 /\ b[1] = u /\ b[2] = h
  BY <1>1, <1>2, <1>3
<1>5. ASSUME NEW k \in 1 .. Len(s) PROVE b[k + 2] = s[k]
  <2>1. k + 2 \in 1 .. Len(p) + Len(s) /\ ~(k + 2 <= Len(p)) /\ (k + 2) - Len(p) = k
    BY <1>1, <1>2
  <2> QED
    BY <1>3, <2>1
<1> QED
  BY <1>2, <1>4, <1>5 DEF Prefixed, b, p

LEMMA PrefixedListing ==
  ASSUME NEW Z \in SUBSET M!Lit, NEW h \in Z, NEW u \in M!Lit, u \notin Z, NEW s, NEW b,
         Listing(s, Z \ {h}), Prefixed(b, u, h, s)
  PROVE  IsLearnt(b, u, h, Z)
<1> DEFINE n == Len(s)
<1>2. s \in Seq(M!Lit) /\ M!ToClause(s) = Z \ {h} /\ (\A j, k \in 1 .. n : s[j] = s[k] => j = k) /\ n \in Nat
  <2>1. s \in Seq(Z \ {h}) /\ M!ToClause(s) = Z \ {h} /\ \A j, k \in 1 .. n : s[j] = s[k] => j = k
    BY DEF Listing
  <2>2. Z \ {h} \subseteq M!Lit
    OBVIOUS
  <2> QED
    BY <2>1, <2>2
<1>3. \A x : x \in Z \ {h} <=> \E k \in 1 .. n : s[k] = x
  BY <1>2, ToClauseIs
<1>5. b \in Seq(M!Lit) /\ Len(b) = n + 2 /\ b[1] = u /\ b[2] = h /\ \A k \in 1 .. n : b[k + 2] = s[k]
  BY DEF Prefixed
<1> HIDE DEF n
<1>6. \A k \in 1 .. n + 2 : k = 1 \/ k = 2 \/ (k - 2 \in 1 .. n /\ k = (k - 2) + 2)
  BY <1>2
<1>7. \A k \in 1 .. n + 2 : k # 1 /\ k # 2 => k - 2 \in 1 .. n /\ b[k] = s[k - 2] /\ b[k] \in Z \ {h}
  <2> SUFFICES ASSUME NEW k \in 1 .. n + 2, k # 1, k # 2 PROVE k - 2 \in 1 .. n /\ b[k] = s[k - 2] /\ b[k] \in Z \ {h}
    OBVIOUS
  <2>1. k - 2 \in 1 .. n /\ k = (k - 2) + 2
    BY <1>6
  <2>2. b[(k - 2) + 2] = s[k - 2]
    BY <1>5, <2>1
  <2>3. s[k - 2] \in Z \ {h}
    BY <1>3, <2>1
  <2> QED
    BY <2>1, <2>2, <2>3
<1>8. u # h /\ u \notin Z \ {h} /\ h \notin Z \ {h}
  OBVIOUS
<1>9. ASSUME NEW j \in 1 .. n + 2, NEW k \in 1 .. n + 2, b[j] = b[k] PROVE j = k
  <2>1. CASE j \in {1, 2} \/ k \in {1, 2}
    BY <1>5, <1>7, <1>8, <1>9, <2>1
  <2>2. CASE j \notin {1, 2} /\ k \notin {1, 2}
    <3>1. j - 2 \in 1 .. n /\ k - 2 \in 1 .. n /\ s[j - 2] = s[k - 2]
      BY <1>7, <1>9, <2>2
    <3>2. j - 2 = k - 2
      BY <1>2, <3>1
    <3> QED
      BY <1>2, <3>2
  <2> QED
    BY <2>1, <2>2
<1>10. IsClause(b)
  BY <1>2, <1>5, <1>9 DEF IsClause
<1>11. \A x : x \in M!ToClause(b) <=> \E k \in 1 .. n + 2 : b[k] = x
  BY <1>5, ToClauseIs
<1>12. \A x \in {u} \cup Z : x \in M!ToClause(b)
  <2>1. 1 \in 1 .. n + 2 /\ 2 \in 1 .. n + 2
    BY <1>2
  <2>2. ASSUME NEW x \in Z \ {h} PROVE x \in M!ToClause(b)
    <3>1. PICK k \in 1 .. n : s[k] = x
      BY <1>3
    <3>2. k + 2 \in 1 .. n + 2 /\ b[k + 2] = x
      BY <1>2, <1>5, <3>1
    <3> QED
      BY <1>11, <3>2
  <2>3. u \in M!ToClause(b) /\ h \in M!ToClause(b)
    BY <1>5, <1>11, <2>1
  <2> QED
    BY <2>2, <2>3
<1>13. \A x \in M!ToClause(b) : x \in {u} \cup Z
  <2> SUFFICES ASSUME NEW k \in 1 .. n + 2 PROVE b[k] \in {u} \cup Z
    BY <1>11
  <2> QED
    BY <1>5, <1>7
<1>14. M!ToClause(b) = {u} \cup Z
  BY <1>12, <1>13
<1> QED
  BY <1>5, <1>10, <1>14 DEF IsLearnt

LEMMA LearntIs ==
  ASSUME NEW Z \in SUBSET M!Lit, NEW h \in Z, NEW u \in M!Lit, u \notin Z
  PROVE  IsLearnt(<<u, h>> \o M!SetToSeq(Z \ {h}), u, h, Z)
<1> DEFINE s == M!SetToSeq(Z \ {h})
<1>1. Listing(s, Z \ {h})
  BY SetToSeqIs
<1> HIDE DEF s
<1>2. s \in Seq(M!Lit)
  <2>1. s \in Seq(Z \ {h})
    BY <1>1 DEF Listing
  <2> QED
    BY <2>1
<1>3. Prefixed(<<u, h>> \o s, u, h, s)
  BY <1>2, PrefixedIs
<1>4. IsLearnt(<<u, h>> \o s, u, h, Z)
  BY <1>1, <1>3, PrefixedListing
<1> QED
  BY <1>4 DEF s

(* Where LearnClause goes back to. *)
BackTo(uip, rest, h, back, n, t, lim) ==
  /\ uip \in M!Lit /\ uip \in M!False /\ M!level(uip) = M!decisionLevel /\ uip \notin rest /\ rest \in SUBSET M!Lit
  /\ M!decisionLevel \in Nat /\ M!decisionLevel > 0 /\ back \in 0 .. M!decisionLevel - 1
  /\ rest = {} => back = 0
  /\ rest # {} => h \in rest /\ M!level(h) = back /\ back > 0
  /\ IsCut(trail, trail_lim, vardata, back, n, t, lim)
  /\ TrailOK(t, lim, vardata) /\ ReasonsOK(t, lim, vardata, db)
  /\ Unassigned(t, uip)
  /\ \A q \in rest : \E j \in 1 .. n : t[j] = -q
  /\ n <= trail_lim[M!decisionLevel] /\ trail_lim[M!decisionLevel] \in Nat
  /\ back > 0 => lim[back] <= n

LEMMA BackToIs ==
  ASSUME MinisatInv, pc = "analyze", NEW uip, M!Current(out_learnt) = {uip},
         NEW rest, rest = (out_learnt \ {uip}) \ M!Redundant(out_learnt), NEW h, h = M!Highest(rest),
         NEW back, back = IF rest = {} THEN 0 ELSE M!level(h), NEW n, n = trail_lim[back + 1],
         NEW t, t = SubSeq(trail, 1, n), NEW lim, lim = SubSeq(trail_lim, 1, back)
  PROVE  BackTo(uip, rest, h, back, n, t, lim)
<1> DEFINE e == M!decisionLevel
<1>1. /\ e > 0 /\ out_learnt \subseteq M!False /\ (\A q \in out_learnt : M!level(q) > 0)
      /\ TrailOK(trail, trail_lim, vardata) /\ ReasonsOK(trail, trail_lim, vardata, db)
  BY DEF MinisatInv, Search, Analyzing, Trail
<1>2. e \in Nat /\ e = Len(trail_lim) /\ Len(trail) \in Nat /\ M!False \in SUBSET M!Lit
  BY <1>1, TrailFacts, TrueIs DEF M!decisionLevel
<1>3. uip \in out_learnt /\ M!level(uip) = e /\ \A q \in out_learnt : M!level(q) = e => q = uip
  BY DEF M!Current
<1>4. uip \in M!Lit /\ uip \in M!False /\ uip \notin rest /\ rest \in SUBSET M!Lit /\ rest \subseteq out_learnt
  BY <1>1, <1>2, <1>3
<1>5. \A q \in out_learnt : M!level(q) \in 0 .. e /\ M!level(q) > 0
  BY <1>1, FalseAt, TrailFacts DEF M!level, M!decisionLevel
<1>6. \A q \in rest : M!level(q) \in 1 .. e - 1
  <2> SUFFICES ASSUME NEW q \in rest PROVE M!level(q) \in 1 .. e - 1
    OBVIOUS
  <2>1. M!level(q) \in 0 .. e /\ M!level(q) > 0 /\ M!level(q) # e
    BY <1>3, <1>4, <1>5
  <2> DEFINE x == M!level(q)
  <2> HIDE DEF x, e
  <2>2. x \in 1 .. e - 1
    BY <1>2, <2>1 DEF x
  <2> QED
    BY <2>2 DEF x
<1>7. /\ back \in 0 .. e - 1 /\ (rest = {} => back = 0) /\ (rest # {} => h \in rest /\ M!level(h) = back /\ back > 0)
      /\ \A q \in rest : M!level(q) <= back
  <2>0. e - 1 \in Nat
    BY <1>1, <1>2
  <2>1. CASE rest = {}
    BY <2>0, <2>1
  <2>2. CASE rest # {}
    <3>1. h \in rest /\ \A q \in rest : M!level(q) <= M!level(h)
      <4> HIDE DEF e
      <4> QED
        BY <1>6, <2>0, <2>2, HighestIs
    <3>2. back = M!level(h) /\ back \in 1 .. e - 1
      BY <1>6, <2>2, <3>1
    <3>3. back \in 0 .. e - 1 /\ back > 0
      <4> HIDE DEF e
      <4> QED
        BY <2>0, <3>2
    <3> QED
      BY <2>2, <3>1, <3>2, <3>3
  <2> QED
    BY <2>1, <2>2
<1> HIDE DEF e
<1>8. back \in 0 .. Len(trail_lim) - 1
  BY <1>2, <1>7
<1>9. TrailOK(t, lim, vardata) /\ IsCut(trail, trail_lim, vardata, back, n, t, lim)
  BY <1>1, <1>8, TrailCut
<1>10. Fits(t, vardata, vardata)
  BY <1>1 DEF TrailOK, Fits
<1>11. ReasonsOK(t, lim, vardata, db)
  BY <1>1, <1>8, <1>10, ReasonsCut
<1>12. /\ n \in 0 .. Len(trail) /\ Len(t) = n /\ Len(lim) = back /\ (\A k \in 1 .. n : t[k] = trail[k])
       /\ \A k \in 1 .. Len(trail) : vardata[M!VarOf(trail[k])].level <= back <=> k <= n
  BY <1>9 DEF IsCut
<1>13. Unassigned(t, uip)
  <2> SUFFICES ASSUME NEW k \in 1 .. n, M!VarOf(trail[k]) = M!VarOf(uip) PROVE FALSE
    BY <1>12 DEF Unassigned
  <2>1. k \in 1 .. Len(trail) /\ k <= n
    BY <1>2, <1>12
  <2>2. vardata[M!VarOf(uip)].level <= back
    BY <1>12, <2>1
  <2>3. e <= back
    BY <1>3, <2>2 DEF M!level
  <2> QED
    BY <1>2, <1>7, <2>3
<1>14. ASSUME NEW q \in rest PROVE \E j \in 1 .. n : t[j] = -q
  <2>1. q \in M!False
    BY <1>1, <1>4
  <2>2. PICK k \in 1 .. Len(trail) : trail[k] = -q /\ M!VarOf(trail[k]) = M!VarOf(q)
    BY <1>1, <2>1, FalseAt
  <2>3. vardata[M!VarOf(trail[k])].level <= back
    BY <1>7, <2>2 DEF M!level
  <2>4. k <= n
    BY <1>12, <2>3
  <2>5. k \in Nat /\ n \in Nat /\ k >= 1
    BY <1>2, <1>12
  <2>6. k \in 1 .. n
    BY <2>4, <2>5
  <2> QED
    BY <1>12, <2>2, <2>6
<1>15. /\ n <= trail_lim[e] /\ trail_lim[e] \in Nat
       /\ back > 0 => lim[back] <= n
  <2>1. \A d, f \in 1 .. Len(trail_lim) : d <= f => trail_lim[d] <= trail_lim[f]
    BY <1>1 DEF TrailOK
  <2>2. e \in 1 .. Len(trail_lim) /\ back + 1 \in 1 .. Len(trail_lim) /\ back + 1 <= e
    BY <1>1, <1>2, <1>7 DEF e
  <2>3. n <= trail_lim[e] /\ trail_lim[e] \in Nat
    BY <1>1, <2>1, <2>2, TrailFacts
  <2>4. back > 0 => lim[back] <= n
    <3>1. \A d \in 1 .. Len(lim) : lim[d] <= Len(t)
      BY <1>9, TrailFacts
    <3>2. back \in Nat
      BY <1>7
    <3>3. back > 0 => back \in 1 .. back
      BY <3>2
    <3>4. Len(lim) = back /\ Len(t) = n
      BY <1>12
    <3>5. \A d \in 1 .. back : lim[d] <= n
      BY <3>1, <3>4
    <3> QED
      BY <3>3, <3>5
  <2> QED
    BY <2>3, <2>4
<1>16. e > 0
  BY <1>1 DEF e
<1> QED
  BY <1>2, <1>3, <1>4, <1>7, <1>9, <1>11, <1>13, <1>14, <1>15, <1>16 DEF BackTo, e
(* What LearnClause leaves: the clauses, the trail, the control. *)
JumpedClauses(uip, rest, h, back, r) ==
  /\ uip \in M!Lit /\ rest \in SUBSET M!Lit /\ back \in Nat /\ r \in Nat
  /\ rest = {} => back = 0 /\ r = 0 /\ learnts' = learnts
  /\ rest # {} => /\ h \in rest /\ M!level(h) = back /\ back > 0 /\ r # 0 /\ r \in M!Live' /\ learnts' = learnts \cup {r}
                  /\ IsLearnt(db'[r], uip, h, rest)
  /\ \A i \in M!Live : i \in M!Live' /\ db'[i] = db[i] /\ (rest # {} => i # r)
  /\ \A i \in M!Live' : i \in M!Live \/ (i = r /\ rest # {})
  /\ DatabaseTyped'

LEMMA JumpedClausesIs ==
  ASSUME MinisatInv, NEW uip \in M!Lit, NEW rest \in SUBSET M!Lit, uip \notin rest, NEW h, NEW back \in Nat,
         rest = {} => back = 0, rest # {} => h \in rest /\ M!level(h) = back /\ back > 0,
         NEW r, r = (IF rest = {} THEN 0 ELSE M!Fresh),
         IF rest = {} THEN UNCHANGED M!clauses
         ELSE db' = M!With(db, M!Fresh, <<uip, h>> \o M!SetToSeq(rest \ {h})) /\ learnts' = learnts \cup {M!Fresh}
  PROVE  JumpedClauses(uip, rest, h, back, r)
<1>1. DatabaseTyped
  BY DEF MinisatInv, Typed
<1>2. CASE rest = {}
  <2>1. r = 0 /\ db' = db /\ learnts' = learnts /\ M!Live' = M!Live
    BY <1>2 DEF M!clauses, M!Live
  <2>2. DatabaseTyped'
    BY <1>1, <2>1 DEF DatabaseTyped
  <2> QED
    BY <1>2, <2>1, <2>2 DEF JumpedClauses
<1>3. CASE rest # {}
  <2> DEFINE c == <<uip, h>> \o M!SetToSeq(rest \ {h})
  <2>1. r = M!Fresh /\ db' = M!With(db, r, c) /\ learnts' = learnts \cup {r}
    BY <1>3
  <2>2. IsLearnt(c, uip, h, rest)
    BY <1>3, LearntIs
  <2> HIDE DEF c
  <2>3. IsClause(c)
    BY <2>2 DEF IsLearnt
  <2>4. /\ M!Live' = M!Live \cup {r} /\ db'[r] = c /\ \A j \in M!Live : db'[j] = db[j]
        /\ \E n \in Nat : M!Live' \subseteq 1 .. n
        /\ \A j \in M!Live' : IsClause(db'[j])
    BY <2>1, <2>3, WithIs
  <2>5. r \in Nat /\ r # 0 /\ r \notin M!Live
    BY <2>1, FreshIs
  <2>6. DatabaseTyped'
    BY <1>1, <2>1, <2>4 DEF DatabaseTyped
  <2> QED
    BY <1>3, <2>1, <2>2, <2>4, <2>5, <2>6 DEF JumpedClauses
<1> QED
  BY <1>2, <1>3

JumpedTrail(uip, rest, back, r, n) ==
  /\ n \in 0 .. Len(trail) /\ Len(trail') = n + 1 /\ trail'[n + 1] = uip
  /\ \A k \in 1 .. n : trail'[k] = trail[k] /\ vardata'[M!VarOf(trail[k])] = vardata[M!VarOf(trail[k])]
  /\ vardata'[M!VarOf(uip)].level = back /\ vardata'[M!VarOf(uip)].reason = r
  /\ \A k \in 1 .. Len(trail) : vardata[M!VarOf(trail[k])].level <= back <=> k <= n
  /\ \A q \in rest : \E j \in 1 .. n : trail[j] = -q
  /\ Len(trail_lim') = back /\ \A d \in 1 .. back : trail_lim'[d] = trail_lim[d]
  /\ M!decisionLevel \in Nat /\ back \in 0 .. M!decisionLevel - 1
  /\ n <= trail_lim[M!decisionLevel] /\ trail_lim[M!decisionLevel] \in Nat
  /\ back > 0 => trail_lim'[back] <= n
  /\ Trail'

LEMMA JumpedTrailIs ==
  ASSUME MinisatInv, NEW uip, NEW rest, NEW h, NEW back, NEW n, NEW t, NEW lim, BackTo(uip, rest, h, back, n, t, lim),
         NEW r, JumpedClauses(uip, rest, h, back, r), M!Enqueue(t, uip, back, r), trail_lim' = lim
  PROVE  JumpedTrail(uip, rest, back, r, n)
<1>1. /\ uip \in M!Lit /\ TrailOK(t, lim, vardata) /\ ReasonsOK(t, lim, vardata, db) /\ Unassigned(t, uip)
      /\ \A q \in rest : \E j \in 1 .. n : t[j] = -q
  BY DEF BackTo
<1>2. /\ n \in 0 .. Len(trail) /\ Len(t) = n /\ Len(lim) = back
      /\ \A k \in 1 .. n : t[k] = trail[k]
      /\ \A d \in 1 .. back : lim[d] = trail_lim[d]
      /\ \A k \in 1 .. Len(trail) : vardata[M!VarOf(trail[k])].level <= back <=> k <= n
  BY DEF BackTo, IsCut
<1>3. t \in Seq(M!Lit) /\ vardata \in [M!Var -> [level : Nat, reason : Nat]]
  BY <1>1 DEF TrailOK
<1>4. back \in Nat /\ r \in Nat
  BY DEF JumpedClauses
<1>5. /\ trail' = Append(t, uip) /\ Fits(t, vardata, vardata')
      /\ vardata'[M!VarOf(uip)].level = back /\ vardata'[M!VarOf(uip)].reason = r
  BY <1>1, <1>3, <1>4, EnqueueFits
<1>6. ReasonClausesKept(t, vardata, db, Len(t), db')
  <2> SUFFICES ASSUME NEW k \in 1 .. Len(t), vardata[M!VarOf(t[k])].reason # 0
               PROVE  LET x == vardata[M!VarOf(t[k])].reason
                      IN x \in DOMAIN db' /\ db'[x][1] = db[x][1] /\ M!ToClause(db'[x]) = M!ToClause(db[x])
    BY DEF ReasonClausesKept
  <2> DEFINE x == vardata[M!VarOf(t[k])].reason
  <2>1. x \in M!Live
    BY <1>1 DEF ReasonsOK, ReasonOK, M!Live
  <2>2. x \in M!Live' /\ db'[x] = db[x]
    BY <2>1 DEF JumpedClauses
  <2> QED
    BY <2>2 DEF M!Live
<1>7. ImpliedBy(t, lim, uip, vardata'[M!VarOf(uip)].reason, db')
  <2>1. ASSUME r # 0
        PROVE  r \in DOMAIN db' /\ db'[r][1] = uip /\ \A q \in M!ToClause(db'[r]) \ {uip} : \E j \in 1 .. Len(t) : t[j] = -q
    <3>1. rest # {} /\ r \in M!Live' /\ IsLearnt(db'[r], uip, h, rest)
      BY <2>1 DEF JumpedClauses
    <3>2. r \in DOMAIN db' /\ db'[r][1] = uip /\ M!ToClause(db'[r]) = {uip} \cup rest
      BY <3>1 DEF IsLearnt, M!Live
    <3> QED
      BY <1>1, <1>2, <3>2
  <2>2. r = 0 => Len(lim) = 0
    BY <1>2 DEF JumpedClauses
  <2> QED
    BY <1>2, <1>4, <1>5, <2>1, <2>2 DEF ImpliedBy
<1>8. vardata'[M!VarOf(uip)].level = Len(lim)
  BY <1>2, <1>5
<1>9. TrailOK(trail', lim, vardata') /\ ReasonsOK(trail', lim, vardata', db')
  BY <1>1, <1>5, <1>6, <1>7, <1>8, ReasonsPush
<1>10. IsPush(t, uip, trail')
  BY <1>1, <1>5, <1>8, TrailPush
<1>11. Trail'
  BY <1>9 DEF Trail
<1>12. Len(trail') = n + 1 /\ trail'[n + 1] = uip /\ \A k \in 1 .. n : trail'[k] = trail[k]
  BY <1>2, <1>10 DEF IsPush
<1>13. \A k \in 1 .. n : vardata'[M!VarOf(trail[k])] = vardata[M!VarOf(trail[k])]
  BY <1>2, <1>5 DEF Fits
<1>14. \A q \in rest : \E j \in 1 .. n : trail[j] = -q
  BY <1>1, <1>2
<1>15. /\ M!decisionLevel \in Nat /\ back \in 0 .. M!decisionLevel - 1
       /\ n <= trail_lim[M!decisionLevel] /\ trail_lim[M!decisionLevel] \in Nat
       /\ back > 0 => lim[back] <= n
  BY DEF BackTo
<1> QED
  BY <1>2, <1>5, <1>11, <1>12, <1>13, <1>14, <1>15 DEF JumpedTrail

JumpedRest(n) ==
  /\ MinisatInv /\ pc = "analyze" /\ pc' = "search" /\ out_learnt' = {} /\ qhead' = n
  /\ UNCHANGED <<todo, formula, ok, visit, confl, assumptions, conflict, model, status>>
LEMMA JumpedInv ==
  ASSUME NEW uip, NEW rest, NEW h, NEW back, NEW r, NEW n, JumpedRest(n),
         JumpedClauses(uip, rest, h, back, r), JumpedTrail(uip, rest, back, r, n),
         \A m \in M!Models(formula) : m \cap out_learnt # {} => m \cap ({uip} \cup rest) # {}
  PROVE  MinisatInv'
<1> DEFINE e == M!decisionLevel
<1>1. /\ MinisatInv /\ pc = "analyze" /\ pc' = "search" /\ out_learnt' = {} /\ qhead' = n
      /\ UNCHANGED <<todo, formula, ok, visit, confl, assumptions, conflict, model, status>>
  BY DEF JumpedRest
<1>2. /\ uip \in M!Lit /\ rest \in SUBSET M!Lit /\ back \in Nat /\ r \in Nat
      /\ (rest = {} => back = 0 /\ r = 0 /\ learnts' = learnts)
      /\ rest # {} => h \in rest /\ M!level(h) = back /\ back > 0 /\ r # 0 /\ r \in M!Live' /\ learnts' = learnts \cup {r}
      /\ \A i \in M!Live : i \in M!Live' /\ db'[i] = db[i] /\ (rest # {} => i # r)
      /\ \A i \in M!Live' : i \in M!Live \/ (i = r /\ rest # {})
      /\ DatabaseTyped'
  BY DEF JumpedClauses
<1>3. rest # {} => db'[r][1] = uip /\ db'[r][2] = h /\ M!ToClause(db'[r]) = {uip} \cup rest
  BY DEF JumpedClauses, IsLearnt
<1>4. /\ n \in 0 .. Len(trail) /\ Len(trail') = n + 1 /\ trail'[n + 1] = uip
      /\ (\A k \in 1 .. n : trail'[k] = trail[k] /\ vardata'[M!VarOf(trail[k])] = vardata[M!VarOf(trail[k])])
      /\ vardata'[M!VarOf(uip)].level = back /\ vardata'[M!VarOf(uip)].reason = r
      /\ (\A k \in 1 .. Len(trail) : vardata[M!VarOf(trail[k])].level <= back <=> k <= n)
      /\ (\A q \in rest : \E j \in 1 .. n : trail[j] = -q)
      /\ Len(trail_lim') = back
      /\ e \in Nat /\ back \in 0 .. e - 1 /\ n <= trail_lim[e] /\ trail_lim[e] \in Nat
      /\ (back > 0 => trail_lim'[back] <= n)
      /\ Trail'
  BY DEF JumpedTrail
<1>5. M!decisionLevel' = back /\ e > 0
  BY <1>4 DEF M!decisionLevel
<1>6. visit = {} /\ confl = 0 /\ ok /\ conflict = {} /\ status \in {"none", "sat", "unsat"} /\ visit' = {} /\ confl' = 0 /\ ok'
  BY <1>1 DEF MinisatInv, Search, Control
<1>7. TrailOK(trail, trail_lim, vardata) /\ Len(trail) \in Nat /\ n \in Nat
  BY <1>1, <1>4, TrailFacts DEF MinisatInv, Trail
<1>8. TrailOK(trail', trail_lim', vardata') /\ trail' \in Seq(M!Lit)
  BY <1>4 DEF Trail, TrailOK
<1> HIDE DEF e, M!decisionLevel, M!Live
<1>9. \A k \in 1 .. n : k \in 1 .. Len(trail) /\ k \in 1 .. n + 1 /\ k <= n /\ n + 1 \in 1 .. n + 1
  BY <1>4, <1>7
<1>10. \A k \in 1 .. n + 1 : k = n + 1 \/ k \in 1 .. n
  BY <1>7
<1>11. Typed'
  <2>1. qhead' \in 0 .. Len(trail')
    BY <1>1, <1>4, <1>7
  <2> QED
    BY <1>1, <1>2, <2>1 DEF MinisatInv, Typed, OtherTyped
<1>12. Control' /\ InConflict' /\ Analyzing'
  BY <1>1, <1>6 DEF Control, InConflict, Analyzing
<1>13. Propagation'
  BY <1>1, <1>4, <1>5, <1>6 DEF Propagation
<1>14. \A k \in 1 .. Len(trail) : vardata[M!VarOf(trail[k])].level <= back => k \in 1 .. n
  <2> SUFFICES ASSUME NEW k \in 1 .. Len(trail), vardata[M!VarOf(trail[k])].level <= back PROVE k \in 1 .. n
    OBVIOUS
  <2>1. k <= n
    BY <1>4
  <2> QED
    BY <1>7, <2>1
<1>15. Watched'
  <2> SUFFICES ASSUME NEW i \in M!Live', NEW k \in 1 .. n + 1, -trail'[k] \in {db'[i][1], db'[i][2]}, Visited(k, i)'
               PROVE  \E j \in 1 .. n + 1 : /\ trail'[j] \in M!ToClause(db'[i])
                                            /\ vardata'[M!VarOf(trail'[j])].level <= vardata'[M!VarOf(trail'[k])].level
    BY <1>4 DEF Watched, M!level
  <2>1. k <= n
    BY <1>1, <1>6, <1>7 DEF Visited
  <2>2. k \in 1 .. n /\ k \in 1 .. Len(trail) /\ trail'[k] = trail[k] /\ vardata'[M!VarOf(trail[k])] = vardata[M!VarOf(trail[k])]
    BY <1>4, <1>7, <1>9, <2>1
  <2>3. CASE i \in M!Live
    <3>1. db'[i] = db[i]
      BY <1>2, <2>3
    <3>2. k <= trail_lim[e]
      BY <1>4, <1>7, <2>1
    <3>3. Visited(k, i)
      BY <1>1, <1>5, <3>2 DEF Visited, e
    <3>4. PICK j \in 1 .. Len(trail) : trail[j] \in M!ToClause(db[i]) /\ M!level(trail[j]) <= M!level(trail[k])
      BY <1>1, <1>6, <2>2, <2>3, <3>1, <3>3 DEF MinisatInv, Search, Watched
    <3>5. vardata[M!VarOf(trail[k])].level <= back
      BY <1>4, <2>1, <2>2
    <3>6. vardata[M!VarOf(trail[k])].level \in Nat /\ vardata[M!VarOf(trail[j])].level \in Nat
      BY <1>7, <2>2, TrailFacts
    <3>7. vardata[M!VarOf(trail[j])].level <= back
      <4> DEFINE x == vardata[M!VarOf(trail[k])].level
      <4> DEFINE y == vardata[M!VarOf(trail[j])].level
      <4>1. x \in Nat /\ y \in Nat /\ x <= back /\ y <= x
        BY <3>4, <3>5, <3>6 DEF M!level
      <4> HIDE DEF x, y
      <4>2. y <= back
        BY <1>2, <4>1
      <4> QED
        BY <4>2 DEF y
    <3>8. j \in 1 .. n
      BY <1>14, <3>7
    <3>9. j \in 1 .. n + 1 /\ trail'[j] = trail[j] /\ vardata'[M!VarOf(trail[j])] = vardata[M!VarOf(trail[j])]
      BY <1>4, <1>9, <3>8
    <3> QED
      BY <2>2, <3>1, <3>4, <3>9 DEF M!level
  <2>4. CASE i = r /\ rest # {}
    <3>1. -trail'[k] \in {uip, h} /\ uip \in M!ToClause(db'[i])
      BY <1>3, <2>4
    <3>2. -trail'[k] # uip
      <4> SUFFICES ASSUME -trail'[k] = uip PROVE FALSE
        OBVIOUS
      <4>1. trail'[k] \in M!Lit
        BY <1>4, <1>8, TrailFacts
      <4>2. M!VarOf(trail'[k]) = M!VarOf(trail'[n + 1])
        BY <1>4, <4>1, LitFacts
      <4>3. k = n + 1
        BY <1>4, <1>8, <1>9, <2>2, <4>2 DEF TrailOK
      <4> QED
        BY <1>7, <2>1, <4>3
    <3>3. -trail[k] = h /\ trail[k] \in M!Lit
      BY <1>7, <2>2, <3>1, <3>2, TrailFacts
    <3>4. vardata[M!VarOf(trail[k])].level = back
      BY <1>2, <2>4, <3>3, LitFacts DEF M!level
    <3>5. n + 1 \in 1 .. n + 1 /\ back <= back
      BY <1>2, <1>7
    <3> QED
      BY <1>4, <2>2, <3>1, <3>4, <3>5
  <2> QED
    BY <1>2, <2>3, <2>4
<1>16. \A k \in 1 .. n + 1 : trail'[k] \in M!True'
  BY <1>4, <1>8 DEF M!True, M!ToClause
<1>17. Assumed'
  <2> SUFFICES ASSUME NEW d \in 1 .. back, d <= Len(assumptions)
               PROVE  /\ assumptions[d] \in M!True' /\ vardata'[M!VarOf(assumptions[d])].level <= d
                      /\ \A k \in 1 .. n + 1 : vardata'[M!VarOf(trail'[k])].level = d /\ vardata'[M!VarOf(trail'[k])].reason = 0
                                               => trail'[k] = assumptions[d]
    BY <1>1, <1>4, <1>5 DEF Assumed, M!level, M!reason
  <2>1. d \in 1 .. e /\ d <= back /\ back > 0
    BY <1>2, <1>4
  <2>2. /\ assumptions[d] \in M!True /\ M!level(assumptions[d]) <= d
        /\ \A k \in 1 .. Len(trail) : M!level(trail[k]) = d /\ M!reason(trail[k]) = 0 => trail[k] = assumptions[d]
    BY <1>1, <2>1 DEF MinisatInv, Search, Assumed, e
  <2>3. assumptions[d] \in M!Lit
    BY <1>7, <2>2, TrueIs
  <2>4. PICK k \in 1 .. Len(trail) : trail[k] = assumptions[d]
    BY <1>7, <2>2, <2>3, TrueIs
  <2>5. vardata[M!VarOf(trail[k])].level <= d
    BY <2>2, <2>4 DEF M!level
  <2>6. vardata[M!VarOf(trail[k])].level <= back
    <3> DEFINE x == vardata[M!VarOf(trail[k])].level
    <3>1. x \in Nat /\ x <= d
      BY <1>7, <2>5, TrailFacts
    <3> HIDE DEF x
    <3>2. x <= back
      BY <1>2, <2>1, <3>1
    <3> QED
      BY <3>2 DEF x
  <2>7. k \in 1 .. n
    BY <1>14, <2>6
  <2>8. assumptions[d] \in M!True' /\ vardata'[M!VarOf(assumptions[d])].level <= d
    BY <1>4, <1>9, <1>16, <2>4, <2>5, <2>7
  <2>9. ASSUME NEW x \in 1 .. n + 1, vardata'[M!VarOf(trail'[x])].level = d, vardata'[M!VarOf(trail'[x])].reason = 0
        PROVE  trail'[x] = assumptions[d]
    <3>1. x # n + 1
      BY <1>2, <1>4, <2>1, <2>9
    <3>2. x \in 1 .. n
      BY <1>10, <3>1
    <3>3. trail'[x] = trail[x] /\ vardata'[M!VarOf(trail[x])] = vardata[M!VarOf(trail[x])] /\ x \in 1 .. Len(trail)
      BY <1>4, <1>9, <3>2
    <3>4. M!level(trail[x]) = d /\ M!reason(trail[x]) = 0
      BY <2>9, <3>3 DEF M!level, M!reason
    <3> QED
      BY <2>2, <3>3, <3>4
  <2> QED
    BY <2>8, <2>9
<1>18. Derived'
  <2> SUFFICES ASSUME NEW m \in M!Models(formula)
               PROVE  /\ \A i \in M!Live' : m \cap M!ToClause(db'[i]) # {}
                      /\ \A k \in 1 .. n + 1 : vardata'[M!VarOf(trail'[k])].level = 0 => trail'[k] \in m
    BY <1>1, <1>4, <1>6 DEF Derived, M!level, M!Models
  <2>1. /\ \A i \in M!Live : m \cap M!ToClause(db[i]) # {}
        /\ \A k \in 1 .. Len(trail) : M!level(trail[k]) = 0 => trail[k] \in m
        /\ m \cap out_learnt # {}
    BY <1>1 DEF MinisatInv, Derived
  <2>2. m \cap ({uip} \cup rest) # {}
    BY <2>1
  <2>3. ASSUME NEW i \in M!Live' PROVE m \cap M!ToClause(db'[i]) # {}
    <3>1. CASE i \in M!Live
      BY <1>2, <2>1, <3>1
    <3>2. CASE i = r /\ rest # {}
      BY <1>3, <2>2, <3>2
    <3> QED
      BY <1>2, <3>1, <3>2
  <2>4. ASSUME NEW k \in 1 .. n + 1, vardata'[M!VarOf(trail'[k])].level = 0 PROVE trail'[k] \in m
    <3>1. CASE k = n + 1
      <4>1. back = 0
        BY <1>4, <2>4, <3>1
      <4>2. rest = {}
        BY <1>2, <4>1
      <4>3. uip \in m
        BY <2>2, <4>2
      <4> QED
        BY <1>4, <3>1, <4>3
    <3>2. CASE k \in 1 .. n
      BY <1>4, <1>9, <2>1, <2>4, <3>2 DEF M!level
    <3> QED
      BY <1>10, <3>1, <3>2
  <2> QED
    BY <2>3, <2>4
<1>19. Covered'
  <2> SUFFICES ASSUME NEW c \in formula
               PROVE  \/ M!Tautology(c)
                      \/ \E k \in 1 .. n + 1 : trail'[k] \in c /\ vardata'[M!VarOf(trail'[k])].level = 0
                      \/ \E i \in M!Live' \ learnts' : M!ToClause(db'[i]) \subseteq c
    BY <1>1, <1>4 DEF Covered, M!level
  <2>1. \/ M!Tautology(c)
        \/ \E k \in 1 .. Len(trail) : trail[k] \in c /\ M!level(trail[k]) = 0
        \/ \E i \in M!Live \ learnts : M!ToClause(db[i]) \subseteq c
    BY <1>1, <1>6 DEF MinisatInv, Covered
  <2>2. ASSUME NEW k \in 1 .. Len(trail), trail[k] \in c, M!level(trail[k]) = 0
        PROVE  k \in 1 .. n + 1 /\ trail'[k] \in c /\ vardata'[M!VarOf(trail'[k])].level = 0
    <3>1. vardata[M!VarOf(trail[k])].level <= back
      BY <1>2, <2>2 DEF M!level
    <3>2. k \in 1 .. n
      BY <1>14, <3>1
    <3> QED
      BY <1>4, <1>9, <2>2, <3>2 DEF M!level
  <2>3. ASSUME NEW i \in M!Live \ learnts, M!ToClause(db[i]) \subseteq c
        PROVE  i \in M!Live' \ learnts' /\ M!ToClause(db'[i]) \subseteq c
    BY <1>2, <2>3
  <2> QED
    BY <2>1, <2>2, <2>3
<1>20. AnswerKept'
  BY <1>1 DEF AnswerKept
<1> QED
  BY <1>4, <1>11, <1>12, <1>13, <1>15, <1>17, <1>18, <1>19, <1>20 DEF MinisatInv, Search

LEMMA LearnClauseInv == ASSUME MinisatInv, M!LearnClause PROVE MinisatInv'
<1> DEFINE rest(u) == (out_learnt \ {u}) \ M!Redundant(out_learnt)
<1> DEFINE h(u) == M!Highest(rest(u))
<1> DEFINE back(u) == IF rest(u) = {} THEN 0 ELSE M!level(h(u))
<1> DEFINE r(u) == IF rest(u) = {} THEN 0 ELSE M!Fresh
<1> DEFINE n(u) == trail_lim[back(u) + 1]
<1> DEFINE t(u) == SubSeq(trail, 1, n(u))
<1> DEFINE lim(u) == SubSeq(trail_lim, 1, back(u))
<1>1. PICK uip \in M!Current(out_learnt) :
        /\ M!Current(out_learnt) = {uip}
        /\ M!Enqueue(t(uip), uip, back(uip), r(uip)) /\ trail_lim' = lim(uip) /\ qhead' = n(uip)
        /\ IF rest(uip) = {} THEN UNCHANGED M!clauses
           ELSE /\ db' = M!With(db, M!Fresh, <<uip, h(uip)>> \o M!SetToSeq(rest(uip) \ {h(uip)}))
                /\ learnts' = learnts \cup {M!Fresh}
  BY DEF M!LearnClause
<1>2. /\ pc = "analyze" /\ pc' = "search" /\ out_learnt' = {}
      /\ UNCHANGED <<todo, formula, ok, visit, confl, assumptions, conflict, model, status>>
  BY DEF M!LearnClause, M!input, M!answer
<1>3. BackTo(uip, rest(uip), h(uip), back(uip), n(uip), t(uip), lim(uip))
  BY <1>1, <1>2, BackToIs
<1>4. \A m \in M!Models(formula) : m \cap out_learnt # {} => m \cap ({uip} \cup rest(uip)) # {}
  <2>1. out_learnt \ M!Redundant(out_learnt) \subseteq {uip} \cup rest(uip)
    OBVIOUS
  <2> HIDE DEF rest
  <2> QED
    BY <2>1, MinimizedHolds
<1>5. JumpedRest(n(uip))
  BY <1>1, <1>2 DEF JumpedRest
<1>6. r(uip) = (IF rest(uip) = {} THEN 0 ELSE M!Fresh)
  OBVIOUS
<1> HIDE DEF rest, h, back, n, t, lim, r
<1>7. /\ uip \in M!Lit /\ rest(uip) \in SUBSET M!Lit /\ uip \notin rest(uip) /\ back(uip) \in Nat
      /\ (rest(uip) = {} => back(uip) = 0)
      /\ (rest(uip) # {} => h(uip) \in rest(uip) /\ M!level(h(uip)) = back(uip) /\ back(uip) > 0)
  BY <1>3 DEF BackTo
<1>8. JumpedClauses(uip, rest(uip), h(uip), back(uip), r(uip))
  BY <1>1, <1>6, <1>7, JumpedClausesIs
<1>9. JumpedTrail(uip, rest(uip), back(uip), r(uip), n(uip))
  BY <1>1, <1>3, <1>8, JumpedTrailIs
<1> QED
  BY <1>4, <1>5, <1>8, <1>9, JumpedInv
-----------------------------------------------------------------------------
LEMMA InitInv == M!Init => MinisatInv
<1> SUFFICES ASSUME M!Init PROVE MinisatInv
  OBVIOUS
<1>1. /\ todo \in Inputs /\ formula = {} /\ db = <<>> /\ learnts = {} /\ ok = TRUE
      /\ trail = <<>> /\ trail_lim = <<>> /\ vardata = [v \in M!Var |-> M!NoData]
      /\ qhead = 0 /\ visit = {} /\ confl = 0 /\ out_learnt = {}
      /\ assumptions = <<>> /\ conflict = {} /\ model = {} /\ status = "none" /\ pc = "idle"
  BY DEF M!Init
<1>2. M!Live = {} /\ M!decisionLevel = 0 /\ Len(trail) = 0
  BY <1>1 DEF M!Live, M!decisionLevel
<1>3. Typed
  <2>1. DatabaseTyped
    BY <1>1, <1>2 DEF DatabaseTyped
  <2>2. todo \in Seq(SUBSET M!Lit)
    BY <1>1, InputsTyped
  <2> QED
    BY <1>1, <1>2, <2>1, <2>2 DEF Typed, OtherTyped
<1>4. Trail
  BY <1>1 DEF Trail, TrailOK, ReasonsOK, M!NoData
<1>5. Search
  BY <1>1, <1>2 DEF Search, Control, Propagation, Watched, InConflict, Analyzing, Assumed
<1>6. Derived /\ Covered /\ AnswerKept
  BY <1>1, <1>2 DEF Derived, Covered, AnswerKept
<1> QED
  BY <1>3, <1>4, <1>5, <1>6 DEF MinisatInv

LEMMA StutterInv == ASSUME MinisatInv, UNCHANGED M!vars PROVE MinisatInv'
<1>1. UNCHANGED <<todo, formula, db, learnts, ok, trail, trail_lim, vardata, qhead, visit, confl, out_learnt,
                  assumptions, conflict, model, status, pc>>
  BY DEF M!vars, M!input, M!clauses, M!queue, M!answer
<1>2. Typed' /\ Trail'
  BY <1>1 DEF MinisatInv, Typed, DatabaseTyped, OtherTyped, Trail, M!Live
<1>3. Search'
  BY <1>1 DEF MinisatInv, Search, Control, Propagation, Watched, Visited, InConflict, Analyzing, Assumed, M!Current,
              M!True, M!False, M!Live, M!decisionLevel, M!level, M!reason
<1>4. Derived' /\ Covered' /\ AnswerKept'
  BY <1>1 DEF MinisatInv, Derived, Covered, AnswerKept, M!Live, M!level, M!Models
<1> QED
  BY <1>2, <1>3, <1>4 DEF MinisatInv

LEMMA NextInv == ASSUME MinisatInv, [M!Next]_(M!vars) PROVE MinisatInv'
BY AddClauseInv, AddedUnitInv, PropagateLitInv, VisitInv, SolveInv, RootConflictInv, AnalyzeStartInv, ResolveInv,
   LearnClauseInv, RestartInv, SimplifyInv, ReduceDBInv, AssumeInv, PickBranchLitInv, ModelFoundInv, StutterInv
   DEF M!Next, M!Idle

LEMMA ImpliesIs ==
  ASSUME NEW F, NEW c
  PROVE  /\ M!Implies(F, c) <=> \A m \in M!Models(F) : m \cap c # {}
         /\ M!Satisfiable(F) <=> M!Models(F) # {}
BY DEF M!Implies, M!Satisfiable, M!Models

LEMMA InvSound == MinisatInv => M!TypeOK /\ M!WatchInvariant /\ M!Learning /\ M!AnswerSound
<1> SUFFICES ASSUME MinisatInv PROVE M!TypeOK /\ M!WatchInvariant /\ M!Learning /\ M!AnswerSound
  OBVIOUS
<1>1. TrailOK(trail, trail_lim, vardata) /\ ReasonsOK(trail, trail_lim, vardata, db)
  BY DEF MinisatInv, Trail
<1>2. M!TypeOK
  <2>1. ~M!Conflicts(M!True)
    BY <1>1, TrueIs, LitFacts DEF M!Conflicts, M!False, M!Negated
  <2>2. \A i \in M!Live : Len(db[i]) >= 2
    BY DEF MinisatInv, Typed, DatabaseTyped, IsClause
  <2>3. ASSUME NEW l \in M!True, M!reason(l) # 0 PROVE M!reason(l) \in M!Live /\ l = db[M!reason(l)][1]
    <3>1. PICK k \in 1 .. Len(trail) : trail[k] = l
      BY <1>1, TrueIs
    <3> QED
      BY <1>1, <2>3, <3>1 DEF ReasonsOK, ReasonOK, M!reason, M!Live
  <2> QED
    BY <2>1, <2>2, <2>3 DEF M!TypeOK, MinisatInv, Typed, OtherTyped, Search, Control
<1>3. M!WatchInvariant
  <2> SUFFICES ASSUME M!Quiet, NEW i \in M!Live, NEW w \in {db[i][1], db[i][2]}, w \in M!False
               PROVE  \E l \in M!ToClause(db[i]) \cap M!True : M!level(l) <= M!level(w)
    BY DEF M!WatchInvariant
  <2>1. PICK k \in 1 .. Len(trail) : trail[k] = -w /\ M!VarOf(trail[k]) = M!VarOf(w)
    BY <1>1, FalseAt
  <2>2. w \in M!Lit
    BY <1>1, FalseAt
  <2>3. -trail[k] \in {db[i][1], db[i][2]}
    BY <2>1, <2>2, LitFacts
  <2>4. ok /\ pc = "search" /\ confl = 0 /\ visit = {} /\ qhead = Len(trail) /\ Len(trail) \in Nat
    BY QuietFacts
  <2>5. Visited(k, i)
    BY <2>4 DEF Visited
  <2>6. PICK j \in 1 .. Len(trail) : trail[j] \in M!ToClause(db[i]) /\ M!level(trail[j]) <= M!level(trail[k])
    BY <2>3, <2>4, <2>5 DEF MinisatInv, Search, Watched
  <2>7. trail[j] \in M!True /\ M!level(trail[k]) = M!level(w)
    BY <1>1, <2>1, TrailFacts, TrueIs DEF M!level
  <2> QED
    BY <2>6, <2>7
<1>4. M!Learning
  <2>1. \A i \in learnts : i \in M!Live
    BY DEF MinisatInv, Typed, DatabaseTyped
  <2>2. \A m \in M!Models(formula) : /\ \A i \in M!Live : m \cap M!ToClause(db[i]) # {}
                                     /\ pc = "analyze" => m \cap out_learnt # {}
    BY DEF MinisatInv, Derived
  <2>3. pc = "analyze" => out_learnt \subseteq M!False /\ M!Current(out_learnt) # {}
    BY DEF MinisatInv, Search, Analyzing
  <2>4. ASSUME pc = "analyze" PROVE M!Implies(formula, out_learnt)
    <3>1. \A m \in M!Models(formula) : m \cap out_learnt # {}
      BY <2>2, <2>4
    <3> QED
      BY <3>1, ImpliesIs
  <2>5. ASSUME NEW i \in learnts PROVE M!Implies(formula, M!ToClause(db[i]))
    <3> DEFINE c == M!ToClause(db[i])
    <3>1. \A m \in M!Models(formula) : m \cap c # {}
      BY <2>1, <2>2
    <3> HIDE DEF c
    <3>2. M!Implies(formula, c)
      BY <3>1, ImpliesIs
    <3> QED
      BY <3>2 DEF c
  <2> QED
    BY <2>3, <2>4, <2>5 DEF M!Learning
<1>5. M!AnswerSound
  <2>1. ~ok => M!Models(formula) = {}
    BY DEF MinisatInv, Derived
  <2>2. ~ok => ~M!Satisfiable(formula)
    BY <2>1, ImpliesIs
  <2>3. pc = "idle" => /\ status = "sat" => model \in M!Models(formula) /\ M!ToClause(assumptions) \subseteq model
                       /\ status = "unsat" => /\ conflict \subseteq M!Negated(M!ToClause(assumptions))
                                              /\ \A m \in M!Models(formula) : m \cap conflict # {}
    BY DEF MinisatInv, AnswerKept
  <2>4. pc = "idle" /\ status = "unsat" => M!Implies(formula, conflict)
    BY <2>3, ImpliesIs
  <2> QED
    BY <2>2, <2>3, <2>4 DEF M!AnswerSound
<1> QED
  BY <1>2, <1>3, <1>4, <1>5

(* The other parts do not step while MiniSat runs. *)
LEMMA MinisatStutters == ASSUME UNCHANGED allVars PROVE UNCHANGED (M!vars)
BY DEF allVars, vars, notInCdcl, result, bounds, queue, assigned, clauses,
   M!vars, M!input, M!clauses, M!queue, M!answer, M!bounds

(* For any clauses and assumptions, any number of variables, solves and    *)
(* restarts, and any choice of decisions, watchers and clauses to forget:  *)
(* reasons are clauses of the database with what they imply in front, no   *)
(* unit and no conflict is missed by propagate, also after backjumps,      *)
(* restarts, simplify and reduceDB; clauses analyze derives, minimizes and *)
(* learns follow from the clauses added; a model solve reports satisfies   *)
(* them and the assumptions; the final conflict is a set of negated        *)
(* assumptions that follows from them.                                     *)
THEOREM MinisatIsSound == MCSpec => []MinisatSound
<1> DEFINE J == part = "Minisat" => MinisatInv
<1>1. MCInit => J
  <2> SUFFICES ASSUME MCInit, part = "Minisat" PROVE MinisatInv
    OBVIOUS
  <2>1. M!Init
    BY DEF MCInit
  <2> QED
    BY <2>1, InitInv
<1>2. J /\ [MCNext]_allVars => J'
  <2> SUFFICES ASSUME J, [MCNext]_allVars, part' = "Minisat" PROVE MinisatInv'
    OBVIOUS
  <2>1. part' = part
    BY DEF MCNext, CdclStep, MinisatStep, ElimStep, SolverStep, allVars
  <2>2. CASE MinisatStep
    BY <2>1, <2>2, NextInv DEF MinisatStep
  <2>3. CASE UNCHANGED allVars
    BY <2>1, <2>3, MinisatStutters, NextInv
  <2> QED
    BY <2>1, <2>2, <2>3 DEF MCNext, CdclStep, SolverStep, ElimStep
<1>3. J => MinisatSound
  BY InvSound DEF MinisatSound
<1> HIDE DEF J
<1> QED
  BY <1>1, <1>2, <1>3, PTL DEF MCSpec
=============================================================================
