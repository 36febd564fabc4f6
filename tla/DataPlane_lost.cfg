CONSTANTS
  TxCount = 1
  RxCount = 2
  MaxConn = 1
  Batch = 2
  MaxPending = 1
  Faults <- NoFaults
SPECIFICATION Spec
INVARIANTS NoLostCompletion
