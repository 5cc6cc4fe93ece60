\* A user of the spin lock and one of the mutex.
CONSTANTS
  Worker = {w1}
  User = {u1}
  Rmmod = Rmmod
  Item = {n1, n2, n3, n4}
  NULL = NULL
  MAX_DATA_ITEMS = 2
  SHOWN_ITEMS = 1
  Families <- Mixed
  InTurn <- None
  MaxCalls = 5
SPECIFICATION Spec
INVARIANT CountIsLength
