---- MODULE MCOobHandshake ----
EXTENDS OobHandshake

NoFaults == {}
Failures == {"native", "stream"}
AllFaults == {"native", "stream", "invalid"}
====
