SPECIFICATION MCSpec
CONSTANTS
  N = 3
  Formulas <- MCFormulas
  MaxLearned = 1
  UserFrozen = {}
  ElimBound = 0
  ElimClsLim = 3
  ElimGates = {"equiv", "and", "xor"}
  ElimBackward = TRUE
  BlockMinClsLim = 2
  BlockMaxClsLim = 3
  CoverMinClsLim = 2
  Addable <- MCAddable
  Assumable <- MCAssumable
  RestoreAll = 0
  Cover = TRUE
  MaxCalls = 2
  MaxOps = 1
  MaxTechniques = 1
  MaxFlips = 2
  MaxRounds = 2
  MaxExternal = 3
  MaxFreeze = 1
  MaxCompacts = 2
INVARIANTS
  DerivesConsequences
  ModelsKept
  InactiveGone
  GuessesRight
PROPERTIES
  CompactInvisible
CHECK_DEADLOCK FALSE
