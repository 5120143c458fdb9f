SPECIFICATION Spec
CONSTANTS
  Size = 4
  Modes = {"registered", "comb", "ahead", "legacy_ahead"}
  Data = {d0, d1}
  AlmostEmpty = 1
  AlmostFull = 2
INVARIANTS
  FullMeansFull
  FlagsAgree
  WordOnOutput
PROPERTY IsFifo
