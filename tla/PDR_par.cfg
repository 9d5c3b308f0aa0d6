SPECIFICATION FairSpec
CONSTANTS
  Lit <- MCLit
  State <- MCState
  Input <- Bit
  Circuits <- SmallCircuits
  UsePr = TRUE
  Parallel = TRUE
  CtgTries = 1
  MaxJoins = 1
  PunishSizes <- MCPunish
  PunishLimit = 2
  EsfDepth = 1
  EsfPeriod = 2
INVARIANTS
  QueueEmptyAtPropagate
PROPERTIES
  ImplementsAnswer
