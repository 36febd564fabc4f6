---- MODULE MCFileTransfer ----
\* Model checking of FileTransfer: all files of up to MaxLen blocks of two values.
EXTENDS FileTransfer

CONSTANT MaxLen
TwoBlocks == {"a", "b"}
AllFiles == UNION {[1 .. n -> TwoBlocks] : n \in 0 .. MaxLen}
AllFaults == {"timeout", "io", "post", "rnr"}
====
