CONSTANTS
  TxCount = 1
  RxCount = 2
  MaxConn = 2
  Batch = 2
  MaxPending = 1
  Faults <- LeftBehind
SPECIFICATION Spec
INVARIANTS TypeOK WrOwnsSlot InFlightOnce TrackedExactly JettyOutlivesWrs
PROPERTY ImplementsOwnership
