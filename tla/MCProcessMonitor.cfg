\* Two processes, two records at a time, a third allocation in flight.
CONSTANTS
  Pid = {p1, p2}
  Rec = {r1, r2, r3}
  NoRec = NoRec
  MaxRecords = 2
  MaxJiffies = 2
  MaxCreated = 4
  ULongMax = 7
SPECIFICATION Spec
SYMMETRY Symmetry
INVARIANTS
  TypeOK
  RecordsOwnedOnce
  Accounting
  ExitsInForkOrder
  UnloadFreesAll
PROPERTY ImplementsLog
