SPECIFICATION MCSpec
CONSTANTS
  MaxExternal = 4
  UserClauses = {}
  UserConstraints = {}
  MaxFreeze = 1
  MaxCompacts = 2
INVARIANTS
  FrozenProtected
