CONSTANTS
  t1 = t1
  t2 = t2
  Thread = {t1, t2}
  NameLength = 1
  PipeSize = 1
  MaxOutput = 2
  MaxFailures = 1
  BUF_CHUNK = 2
SPECIFICATION FairSpec
INVARIANTS TypeOK BuffersHold TextIsComplete NothingLeftOpen
PROPERTY ReturnsUnlessCrossed
CHECK_DEADLOCK FALSE
