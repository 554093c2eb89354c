SPECIFICATION CliSpec
CONSTANTS
  Argvs <- MCArgvs
  Contents <- MCContents
  READ_INITIAL = 4
  READ_MAX = 31
  Calls <- NoCalls
  Options <- NoOptions
  CallbackErrors = {"INVALID_ARG", "NOMEM", "NESTING_TOO_DEEP"}
  INTERNAL_MAX_DEPTH = 3
  DEFAULT_MAX_DEPTH = 2
  UINT64_RANGE = 64
  INT64_MAX = 31
  SIZE_MAX = 40
  INITIAL_CAPACITY = 1
  MAX_CAPACITY = 4
  Trees <- NoTrees
  Targets <- RoundtripTarget
  SinkErrors = {}
  SINK_INITIAL = 4
  SINK_MAX = 31
INVARIANTS
  WriteErrorsReported
CHECK_DEADLOCK FALSE
