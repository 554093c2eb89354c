SPECIFICATION Spec
CONSTANTS
  Alphabet = {45, 48, 49, 50, 51, 58, 100, 101, 105, 108}
  MaxLength = 5
  MaxDepths = {0}
  Calls <- MCCalls
  CallbackErrors = {}
  INTERNAL_MAX_DEPTH = 3
  DEFAULT_MAX_DEPTH = 2
  UINT64_RANGE = 64
  INT64_MAX = 31
  SIZE_MAX = 40
INVARIANTS
  TypeOK
  NumbersInRange
  RoundTrip
  AcceptsCanonical
PROPERTIES
  Progress
CHECK_DEADLOCK FALSE
