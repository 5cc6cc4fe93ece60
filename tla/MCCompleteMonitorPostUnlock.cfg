\* Violated: a record is read after the unlock and after it was freed.
CONSTANTS
  Pid = {p1, p2}
  Rec = {r1, r2}
  NoRec = NoRec
  MaxRecords = 1
  HZ = 1
  MaxJiffies = 1
  MaxCreated = 3
  ULongMax = 15
SPECIFICATION Spec
SYMMETRY Symmetry
INVARIANT PostUnlockReadsLive
