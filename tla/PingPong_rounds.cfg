CONSTANTS
  Rounds = 2
  MayTimeOut = FALSE
SPECIFICATION Spec
INVARIANTS NeverFails
CHECK_DEADLOCK FALSE
