CONSTANTS
  r1 = r1
  r2 = r2
  r3 = r3
  Runtimes <- ThreeRuntimes
  Ends <- BothEnds
  Faults <- StartBetween
SPECIFICATION Spec
SYMMETRY Symmetric
INVARIANTS OneRuntime
CHECK_DEADLOCK FALSE
