CONSTANTS
  Transports = {"ub", "ib", "negative"}
  Unusable = {"negative"}
  Faults <- AllFaults
SPECIFICATION FairSpec
CHECK_DEADLOCK FALSE
INVARIANTS TypeOK ReadyPeer ReadyTogether FramesInStep
PROPERTIES BothReturn ChildFollows
