CONSTANTS
  ConnSpan = 3
  GenSpan = 2
  OpSpan = 3
  SlotSpan = 2
  MaxJetty = 2
  NumSlots = 3
  Faults <- AllFaults
SPECIFICATION Spec
INVARIANTS TypeOK LayersAgree CountsExact WrsKeepNatives CtxIdentifies LeakExplained
CHECK_DEADLOCK FALSE
