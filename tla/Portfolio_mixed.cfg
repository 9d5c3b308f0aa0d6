SPECIFICATION FairSpec
CONSTANTS
  PdrThread = {p1, p2}
  BmcThread = {b1, b2}
  find_bug_only = FALSE
  num_property = 1
  propertyIndex = 0
  nframes = 2
  Circuits <- AllCircuits
INVARIANTS
  TypeOK
  OneWitness
  IndexInRange
  CoveredBugFound
PROPERTIES
  ImplementsAnswer
  Answers
