SPECIFICATION EmitSpec
CONSTANTS
  INITIAL_CAPACITY = 1
  MAX_CAPACITY = 4
  SINK_INITIAL = 4
  SINK_MAX = 31
  SinkErrors = {"IO", "USER_ABORTED"}
  INTERNAL_MAX_DEPTH = 2
  Trees <- MCTrees
  Targets <- MCTargets
INVARIANTS
  ParseAccepts
CHECK_DEADLOCK FALSE
