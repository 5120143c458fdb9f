SPECIFICATION DrSpec
CONSTANTS
  Size = 2
  Data = {d0, d1}
  ZeroWord = d0
  ShowAhead = FALSE
  MinEdges = 3
INVARIANT SoundOnceFlushed
PROPERTY IsLagged
