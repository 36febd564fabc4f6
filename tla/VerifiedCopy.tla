---- MODULE VerifiedCopy ----
(***************************************************************************)
(* What a file transfer promises its receiver: once a content has been     *)
(* announced, the copy only grows, never beyond the announced length, and  *)
(* it is reported complete only when it is the announced content.          *)
(***************************************************************************)
EXTENDS Sequences, Naturals

VARIABLES copy,      \* what has been written
          announced, \* the announced content, its length and digest
          verdict    \* what the receiver has reported

vars == <<copy, announced, verdict>>

CONSTANTS Contents,  \* the contents a sender may announce
          Unknown    \* nothing announced yet

Init == copy = <<>> /\ announced = Unknown /\ verdict = "none"

Announce ==
  /\ announced = Unknown /\ verdict = "none" /\ copy = <<>>
  /\ announced' \in Contents /\ UNCHANGED <<copy, verdict>>

Write ==
  /\ announced # Unknown /\ verdict = "none"
  /\ Len(copy') \in Len(copy) + 1 .. Len(announced)
  /\ SubSeq(copy', 1, Len(copy)) = copy
  /\ UNCHANGED <<announced, verdict>>

Complete ==
  /\ verdict = "none" /\ copy = announced
  /\ verdict' = "complete" /\ UNCHANGED <<copy, announced>>

\* Also in the middle of a write.
GiveUp ==
  /\ verdict = "none" /\ verdict' = "failed"
  /\ \/ UNCHANGED copy
     \/ /\ announced # Unknown
        /\ Len(copy') <= Len(announced) /\ SubSeq(copy', 1, Len(copy)) = copy
  /\ UNCHANGED announced

Next == Announce \/ Write \/ Complete \/ GiveUp

Spec == Init /\ [][Next]_vars
====
