SPECIFICATION LiveSpec
CONSTANTS
  Size = 2
  Data = {d0, d1}
  ZeroWord = d0
  ShowAhead = TRUE
  MaxWidth = 6
INVARIANTS
  PointersInOrder
  FlagsAreConservative
  HeadOnDisplay
PROPERTIES IsFifo FlagsCatchUp
