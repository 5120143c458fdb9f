SPECIFICATION MCSpec
CONSTANTS
  Transfers <- MCTransfers
  Buses = {0, 1}
  MaxPos = 3
  Messages <- MCMessages
  Slaves = {0, 1}
INVARIANTS WireFollowsMessages ResultTrue WordsInOrder
PROPERTIES BusReleased XferReturns FinalizedWhenDone MessageFinalized
