CONSTANTS
  r1 = r1
  r2 = r2
  r3 = r3
  Runtimes <- TwoRuntimes
  Ends <- DropOnly
  Faults <- Uninit
SPECIFICATION Spec
SYMMETRY Symmetric
INVARIANTS NoUseAfterFree
CHECK_DEADLOCK FALSE
