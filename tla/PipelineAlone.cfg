CONSTANTS
  Job = {j1}
  j1 = j1
  Length = 3
  PipeSize = 1
  MaxFailures = 3
SPECIFICATION FairSpec
PROPERTY CallsReturn
CHECK_DEADLOCK FALSE
