CONSTANTS
  r1 = r1
  r2 = r2
  r3 = r3
  Runtimes <- ThreeRuntimes
  Ends <- BothEnds
  Faults <- NoStartBetween
SPECIFICATION Spec
SYMMETRY Symmetric
INVARIANTS TypeOK OneRuntime GuardCoversNative SuccessMeansReleased
CHECK_DEADLOCK FALSE
