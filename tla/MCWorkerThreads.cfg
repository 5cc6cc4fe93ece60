\* One command after the other, as the tests give them; two starts of two.
CONSTANTS
  Writer = {w1, w2}
  Rmmod = Rmmod
  Thread = {t1, t2, t3, t4}
  NULL = NULL
  ERR = ERR
  MAX_WORKERS = 2
SPECIFICATION FairSession
INVARIANTS
  TypeOK
  WorkersReachable
  StoppedMeansNone
  StopsOnlyThreads
PROPERTY StopEnds
