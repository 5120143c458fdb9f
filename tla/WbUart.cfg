SPECIFICATION Spec
CONSTANTS
  PAGE_SIZE = 2
  MAX_NBR_OF_BYTES_PER_IRQ = 2
  TxSize = 1
  RxSize = 1
  Files = {f1, f2}
  MaxWrite = 2
  MaxTx = 3
  MaxRx = 2
INVARIANTS BytesOnceInOrder PendingHasInterrupt ControlFollowsPort
PROPERTIES WritesGoOut WriterWoken
CHECK_DEADLOCK FALSE
