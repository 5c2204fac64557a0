CONSTANTS
  c1 = c1
  c2 = c2
  d1 = d1
  d2 = d2
  Conversion = {c1, c2}
  Deb = {d1, d2}
  Undescribed = {d2}
SYMMETRY Threads
SPECIFICATION Spec
INVARIANTS TypeOK  OwnFilesOnly ReportedWhole NothingLeft
