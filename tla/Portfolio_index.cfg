SPECIFICATION Spec
CONSTANTS
  PdrThread = {}
  BmcThread = {b1, b2}
  find_bug_only = TRUE
  num_property = 2
  propertyIndex = 0
  nframes = 1
  Circuits <- AllCircuits
INVARIANTS
  EveryBugFound
