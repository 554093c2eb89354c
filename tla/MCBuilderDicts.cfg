SPECIFICATION BuilderSpec
CONSTANTS
  INITIAL_CAPACITY = 1
  MAX_CAPACITY = 4
  NewValues <- DictValues
  CloneInto = {}
  Keys <- DictKeys
  MaxMade = 4
  MaxRoots = 2
  MaxEntries = 4
INVARIANTS
  EveryKeyFound
PROPERTIES
  ImplementsForest
CHECK_DEADLOCK FALSE
