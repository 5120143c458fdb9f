SPECIFICATION LiveSpec
CONSTANTS
  g_NUM_INTERRUPTS = 2
  Vectors = {0, 1}
  Dummy = 120
  EmuLen = 1
  RetryTimeout = 2
  RetryLow = 1
  MaxRaises = 2
  MaxSoft = 1
INVARIANTS
  VectorIsCurrent

PROPERTY RequestsServed
