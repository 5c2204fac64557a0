CONSTANTS
  r1 = r1
  s1 = s1
  d1 = d1
  d2 = d2
  x1 = x1
  r2 = r2
  NoFile = NoFile
  Rpms = {r1}
  SrcRpms = {s1}
  Debs = {d1}
  Others = {x1}
  MaxCalls = 3
  MaxDebs = 1
SPECIFICATION Spec
INVARIANTS TypeOK FaultNeedsOverlap ListWholeAtRest LockExcludesInstalls
