---- MODULE MCRuntimeLifecycle ----
\* Model checking of RuntimeLifecycle: sets of runtimes and of faults.
EXTENDS RuntimeLifecycle, TLC

CONSTANTS r1, r2, r3
ThreeRuntimes == {r1, r2, r3}
TwoRuntimes == {r1, r2}
Symmetric == Permutations(Runtimes)

BothEnds == {"shutdown", "drop"}
DropOnly == {"drop"}
NoStartBetween == AllFaults \ {"startBetween"}
StartBetween == {"startBetween"}
Uninit == {"uninitFails"}
====
