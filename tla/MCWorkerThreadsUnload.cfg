\* One command after the other, the unload among them.
CONSTANTS
  Writer = {w1, w2}
  Rmmod = Rmmod
  Thread = {t1, t2, t3, t4}
  NULL = NULL
  ERR = ERR
  MAX_WORKERS = 2
SPECIFICATION SessionSpec
SYMMETRY Symmetry
INVARIANT NoWorkerOutlivesModule
