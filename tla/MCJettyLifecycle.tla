---- MODULE MCJettyLifecycle ----
\* Model checking of JettyLifecycle: every fault.
EXTENDS JettyLifecycle
====
