CONSTANTS
  p1 = p1
  p2 = p2
  Proc <- MCProc
  options <- MCoptions
  LOG_MAX_FILE_SIZE = 5
  MaxId = 2
  MaxCalls = 1
SPECIFICATION Spec
CHECK_DEADLOCK FALSE
INVARIANTS TypeOK LinesAreKept ServesAsOwner
PROPERTY LeavesWhenAsked
