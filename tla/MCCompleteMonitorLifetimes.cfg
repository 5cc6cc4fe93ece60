\* Two processes and one record to keep, the clock of lifetimes 0 to 2; without
\* symmetry, for the liveness.
CONSTANTS
  Pid = {p1, p2}
  Rec = {r1, r2}
  NoRec = NoRec
  MaxRecords = 1
  HZ = 1
  MaxJiffies = 2
  MaxCreated = 3
  ULongMax = 15
SPECIFICATION FairSpec
INVARIANT LifetimesOrdered
PROPERTY UnloadTerminates
