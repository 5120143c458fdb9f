SPECIFICATION Spec
CONSTANTS
  g_num_masters = 3
  g_num_slaves = 1
  MaxOwed = 2
INVARIANTS
  GrantsAreExclusive
  RepliesFindTheirMaster
  CycleGoesWhereAddressed
PROPERTY LockedWhileCycle
