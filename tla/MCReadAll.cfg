SPECIFICATION ReadSpec
CONSTANTS
  READ_INITIAL = 2
  READ_MAX = 31
  MaxLength = 17
  Contents <- MCContents
INVARIANTS
  WholeInput
  Accounted
  NothingKept
CHECK_DEADLOCK FALSE
