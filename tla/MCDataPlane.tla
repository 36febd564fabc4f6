---- MODULE MCDataPlane ----
\* Model checking of DataPlane: sets of faults.
EXTENDS DataPlane

NoFaults == {}

\* For the safety of slots, WRs and Jetties: all that leaves something behind.
LeftBehind == {"error", "badLength", "done", "markErrorFails", "closeFails",
               "timeout", "postFails"}

\* For lost slots and completions, and for the calls that must return: without a
\* refused length, which loses a slot; without markers of a flush, which share a
\* batch with the record of a live WR; and without failures of the teardown.
Survivable == AllFaults \ {"badLength", "done", "closeFails"}
====
