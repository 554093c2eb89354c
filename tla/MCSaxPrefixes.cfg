SPECIFICATION FairSpec
CONSTANTS
  MaxTokens = 4
  MaxEntries = 4
  MaxDepths = {0}
  Calls <- PrefixCalls
  CallbackErrors = {"USER_ABORTED"}
  INTERNAL_MAX_DEPTH = 3
  DEFAULT_MAX_DEPTH = 2
  UINT64_RANGE = 64
  INT64_MAX = 31
  SIZE_MAX = 40
INVARIANTS
  PrefixesRunOut
  CursorInBounds
PROPERTY
  Termination
CHECK_DEADLOCK FALSE
