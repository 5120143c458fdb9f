SPECIFICATION Spec
CONSTANTS
  g_size = 4
  MaxRequests = 6
  MaxCycles = 3
  MaxOutstanding = 6
  MaxOverlap = 3
INVARIANTS
  OnceAndInOrder
  CyclesKeptApart
PROPERTIES FifosFindSpace
