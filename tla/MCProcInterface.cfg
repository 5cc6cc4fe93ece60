\* Two users, messages of up to two bytes, and a counter that can wrap.
CONSTANTS
  User = {u1, u2}
  Module = Module
  NUL = NUL
  BufferSize = 3
  IntMax = 3
  Values = {0, 2}
  MaxShows = 4
SPECIFICATION Spec
SYMMETRY Symmetry
INVARIANTS
  TypeOK
  RemovedOnceAndAll
  MessageTerminated
  MessageWhole
  CounterNeverAhead
