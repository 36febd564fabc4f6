CONSTANTS
  TxCount = 1
  RxCount = 1
  MaxConn = 1
  Batch = 2
  MaxPending = 1
  Faults <- Survivable
SPECIFICATION FairSpec
INVARIANTS PostedSlotHasWr NoLostCompletion
PROPERTIES CallReturns CleanClose
