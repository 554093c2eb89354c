SPECIFICATION BuilderSpec
CONSTANTS
  INITIAL_CAPACITY = 2
  MAX_CAPACITY = 2
  NewValues <- MixedValues
  CloneInto = {"arena", "partial"}
  Keys <- MixedKeys
  MaxMade = 4
  MaxRoots = 2
  MaxEntries = 2
INVARIANTS
  Ownership
  Detached
PROPERTIES
  ImplementsForest
CHECK_DEADLOCK FALSE
