CONSTANTS
  r1 = r1
  r2 = r2
  s1 = s1
  d1 = d1
  d2 = d2
  w1 = w1
  w2 = w2
  NoFile = NoFile
  Rpms = {r1, r2}
  SrcRpms = {s1}
  Debs = {d1, d2}
  Others = {}
  MaxCalls = 4
  MaxDebs = 2
  Windows = {w1}
  Arguments <- TwoDebs
  NameOf <- NamesDiffer
  LabelOf <- NamesDiffer
  MaxOpen = 1
SPECIFICATION SessionSpec
INVARIANT DebsAreConverted
