SPECIFICATION FairSpec
CONSTANTS
  Lit <- Lit2
  State <- State2
  Input <- Closed2
  Circuits <- Circuits2
  UsePr = FALSE
  Parallel = FALSE
  CtgTries = 1
  MaxJoins = 1
  PunishSizes <- MCPunish
  PunishLimit = 2
  EsfDepth = 1
  EsfPeriod = 2
INVARIANTS
  VerdictSound
  CertificateInductive
PROPERTIES
  Terminates
