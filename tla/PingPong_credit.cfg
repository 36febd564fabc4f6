CONSTANTS
  Rounds = 3
  MayTimeOut = TRUE
SPECIFICATION FairSpec
INVARIANTS TypeOK CreditAhead InStep
PROPERTY BothEnd
CHECK_DEADLOCK FALSE
