SPECIFICATION MCSpec
CONSTANTS
  N = 8
  Grow = 0
  ClauseLim = 20
  Encodings <- MCEncodings
  Engines = {1, 2}
  Top = 2
  MaxStates <- MCMaxStates
INVARIANTS
  TranslationExact
  ModelExtended
PROPERTIES
  NewStateQueued
  SimplifyReturns
