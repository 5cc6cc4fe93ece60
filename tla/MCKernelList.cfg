\* One command after the other, at a limit of two.
CONSTANTS
  User = {u1, u2}
  Module = Module
  Record = {r1, r2, r3, r4}
  NULL = NULL
  MAX_RECORDS = 2
  MaxId = 7
SPECIFICATION SessionSpec
SYMMETRY Symmetry
INVARIANTS
  TypeOK
  IdsAscend
  LimitKept
  MemoryCounted
  TouchesOnlyRecords
