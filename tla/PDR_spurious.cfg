SPECIFICATION Spec
CONSTANTS
  Lit <- MCLit
  State <- MCState
  Input <- Bit
  Circuits <- SpuriousCircuits
  UsePr = FALSE
  Parallel = FALSE
  CtgTries = 1
  MaxJoins = 1
  PunishSizes <- MCPunish
  PunishLimit = 2
  EsfDepth = 1
  EsfPeriod = 2
INVARIANTS
  WitnessReal
