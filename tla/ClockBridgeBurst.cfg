SPECIFICATION Spec
CONSTANTS
  g_SIZE = 4
  MaxRequests = 5
  MaxOutstanding = 5
PROPERTIES
  RepliesFindSpace
CHECK_DEADLOCK FALSE
