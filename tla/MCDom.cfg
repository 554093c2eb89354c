SPECIFICATION DomSpec
CONSTANTS
  MaxTokens = 3
  MaxEntries = 3
  Calls <- MCCalls
  Options <- MCOptions
  CallbackErrors = {"INVALID_ARG", "NOMEM", "NESTING_TOO_DEEP"}
  INTERNAL_MAX_DEPTH = 3
  DEFAULT_MAX_DEPTH = 2
  UINT64_RANGE = 64
  INT64_MAX = 31
  SIZE_MAX = 40
  INITIAL_CAPACITY = 1
  MAX_CAPACITY = 4
INVARIANTS
  Mirror
  Spine
  Owned
  Searchable
  TreeSpells
  AcceptsDocument
  DomInv
CHECK_DEADLOCK FALSE
