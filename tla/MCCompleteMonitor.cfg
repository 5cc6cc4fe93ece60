\* Two processes, two records at a time, a third allocation in flight.
CONSTANTS
  Pid = {p1, p2}
  Rec = {r1, r2, r3}
  NoRec = NoRec
  MaxRecords = 2
  HZ = 1
  MaxJiffies = 1
  MaxCreated = 3
  ULongMax = 15
SPECIFICATION Spec
SYMMETRY Symmetry
INVARIANTS
  TypeOK
  IndexesAgree
  RecordsOwnedOnce
  UnloadLeavesNothing
  CountsConserved
PROPERTIES
  StopBoundsCreations
  ImplementsLog
