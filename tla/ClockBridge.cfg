SPECIFICATION LiveSpec
CONSTANTS
  g_SIZE = 4
  MaxRequests = 4
  MaxOutstanding = 4
INVARIANTS
  OnceAndInOrder
  CycleCoversReplies
PROPERTIES
  EveryRequestAnswered
