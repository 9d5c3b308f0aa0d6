SPECIFICATION MCSpec
CONSTANTS
  Circuits <- MCCircuits
  nframes = 3
  ThreadCounts = {1, 2}
INVARIANTS
  UnfoldingExact
  QueryExact
  WitnessReal
