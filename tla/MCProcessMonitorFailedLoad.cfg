\* Violated: records made before the exit probe failed.
CONSTANTS
  Pid = {p1, p2}
  Rec = {r1, r2, r3}
  NoRec = NoRec
  MaxRecords = 2
  MaxJiffies = 0
  MaxCreated = 3
  ULongMax = 7
SPECIFICATION Spec
SYMMETRY Symmetry
INVARIANT FailedLoadFreesAll
