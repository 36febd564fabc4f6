---- MODULE MCWireMessages ----
(***************************************************************************)
(* An instance of WireMessages for TLC.  CrcSpan is 12, so that 11 is the  *)
(* largest checksum; MaxDigest is 2, so that two hexadecimal bytes make a  *)
(* SHA-256 and three bytes are too long for any digest; a task_id of five  *)
(* bytes passes MaxPayload, and a descriptor of three MaxOpaque.           *)
(***************************************************************************)
EXTENDS WireMessages

SmallNumbers == {0, 1}
SmallTexts == {<<>>, <<0>>, <<1, 1>>, <<0, 1>>, <<1, 2>>, <<10, 1>>, <<11>>, <<12>>,
               <<1, 0, 1>>, <<1, 1, 1, 1, 1>>}
SmallUnits == {0, 1, 2, 3, 5, 12}
====
