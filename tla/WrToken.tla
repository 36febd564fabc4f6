---- MODULE WrToken ----
(***************************************************************************)
(* The packing of a work-request token into the 64 bits of user_ctx        *)
(* (src/src/wr.rs):  [connection:16][generation:8][operation:8][slot:32].  *)
(* A field of n bits is a digit below its span, which is 2^n in the code;  *)
(* a shift is a product or a quotient, and | is a sum, since each field    *)
(* stays below its span.                                                   *)
(***************************************************************************)
EXTENDS Integers

CONSTANTS ConnSpan, GenSpan, OpSpan, SlotSpan  \* 2^16, 2^8, 2^8, 2^32

ASSUME SpanAssumption ==
  /\ ConnSpan \in Nat \ {0} /\ GenSpan \in Nat \ {0} /\ SlotSpan \in Nat \ {0}
  /\ OpSpan \in Nat /\ OpSpan > 2

OperationType == {1, 2}  \* Send, Recv

\* connection_id and generation have the width of their fields; a slot index is
\* a usize.
Tokens == [conn : 0 .. ConnSpan - 1, gen : 0 .. GenSpan - 1, op : OperationType,
           slot : Nat]

\* The shift distances.
SlotsEnd == SlotSpan
OpEnd == OpSpan * SlotsEnd
GenEnd == GenSpan * OpEnd
WordSpan == ConnSpan * GenEnd  \* 2^64

\* encode refuses a zero identity and a slot wider than its field.
Encodes(t) == t.conn # 0 /\ t.gen # 0 /\ t.slot < SlotSpan

EncodeOverlapping(t) ==
  t.conn * GenEnd + t.gen * OpSpan + t.op * SlotsEnd + t.slot
EncodeWide(t) ==
  t.conn * GenEnd * SlotSpan + t.gen * OpEnd + t.op * SlotsEnd + t.slot
Encode(t) == t.conn * GenEnd + t.gen * OpEnd + t.op * SlotsEnd + t.slot

Decode(v) == [conn |-> v \div GenEnd, gen |-> (v \div OpEnd) % GenSpan,
              op |-> (v \div SlotsEnd) % OpSpan, slot |-> v % SlotSpan]

\* decode refuses an unknown operation and a zero identity.
Decodes(v) == /\ Decode(v).op \in OperationType
              /\ Decode(v).conn # 0 /\ Decode(v).gen # 0
====
