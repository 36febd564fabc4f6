---- MODULE MCPingPong ----
\* Model checking of PingPong; the constants are given in the configurations.
EXTENDS PingPong
====
