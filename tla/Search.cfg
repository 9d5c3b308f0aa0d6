SPECIFICATION MCSpec
CONSTANTS
  N = 5
  Queries <- MCQueries
  Inputs <- MCInputs
  Assumptions <- MCAssumptions
  MaxRestarts = 1
  MaxReduce = 1
  MaxSolves = 1
  MaxLater = 1
  MaxMinisatRestarts = 1
  UserLiterals = {1}
  MaxClauses = 1
  MaxCalls = 3
INVARIANTS
  WatchesKept
  AnswerRight
  MinisatSound
  
PROPERTIES
  SearchReturns
  TerminateReturns
