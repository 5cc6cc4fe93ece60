\* Each lock with the operations that use it, and all of them in turn; room
\* for evictions and for two readers at once.
CONSTANTS
  Worker = {w1, w2}
  User = {u1}
  Rmmod = Rmmod
  Item = {n1, n2, n3, n4}
  NULL = NULL
  MAX_DATA_ITEMS = 2
  SHOWN_ITEMS = 1
  Families <- Safe
  InTurn <- AllLocks
  MaxCalls = 5
SPECIFICATION Spec
SYMMETRY Symmetry
INVARIANTS
  TypeOK
  CountIsLength
  ItemsOwnedOnce
  TouchesOnlyItems
  WalkSeesAll
  SharedCountersNeverAhead
