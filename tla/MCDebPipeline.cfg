CONSTANTS
  j1 = j1
  j2 = j2
  Job = {j1, j2}
  Length = 2
  PipeSize = 1
  MaxFailures = 1
SYMMETRY Threads
SPECIFICATION Spec
INVARIANTS TypeOK ReturnMeansQuiet CompleteUnlessFailed NoCircle HangNeedsFailureAndCompany
CHECK_DEADLOCK FALSE
