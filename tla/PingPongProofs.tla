---- MODULE PingPongProofs ----
(***************************************************************************)
(* Proofs about PingPong for any number of rounds, with or without         *)
(* deadlines: the ranges of its variables, the credit that is always       *)
(* posted before the peer's SEND, the step of the two programs, that they  *)
(* never wait for each other, which of them can fail and over what, what a *)
(* program leaves behind, and a bound on the work of both.                 *)
(*                                                                         *)
(* The argument counts messages.  A ping that the child has sent is one    *)
(* that the parent has consumed or one still on its way, and so are the    *)
(* pongs; each program consumes one message before it sends the next.      *)
(***************************************************************************)
EXTENDS PingPong, TLAPS

\* The counters without their bounds, which follow from the counting.
Ranges ==
  /\ pc \in [Ends -> Labels] /\ round \in [Ends -> 0 .. Rounds - 1]
  /\ rx \in [Ends -> Nat] /\ out \subseteq Ends
  /\ inbox \in [Ends -> Nat] /\ wire \in [Ends -> Nat]
  /\ acked \subseteq Ends
  /\ sendCq \in [Ends -> Nat] /\ recvCq \in [Ends -> Nat]

\* An end with a SEND outstanding has it in one place, the others in none.
InOnePlace(p) ==
  /\ p \in acked => p \in out /\ wire[Peer(p)] + sendCq[p] = 0
  /\ p \in out /\ p \notin acked => wire[Peer(p)] + sendCq[p] = 1
  /\ p \notin out => wire[Peer(p)] + sendCq[p] = 0

\* Receive credit in whatever state, and messages sent and not yet consumed.
Held(p) == rx[p] + recvCq[p] + inbox[p]
Arriving(p) == wire[p] + recvCq[p] + inbox[p]

\* Pings sent, and pongs sent: those consumed and those that arrive.
Pings == IF pc["child"] = "Send" THEN round["child"] ELSE round["child"] + 1
Pongs == Arriving("child")
           + (IF pc["child"] \in {"Repost", "Done"} THEN round["child"] + 1
              ELSE round["child"])

ChildCounts ==
  /\ pc["child"] \notin {"Drain", "DrainRecv"}
  /\ pc["child"] = "Done" => round["child"] = Rounds - 1
  /\ pc["child"] \in {"Send", "Repost", "Done"} => "child" \notin out
  /\ pc["child"] \in {"Repost", "Done"} => Held("child") = 0
  /\ pc["child"] \notin {"Repost", "Done"} => Held("child") = 1

\* A RECV is posted for the next round, if there is one.
Ahead(p) == IF round[p] + 1 < Rounds THEN 1 ELSE 0

ParentAsks ==
  pc["parent"] \in {"Wait", "WaitRecv"} =>
    /\ "parent" \notin out
    /\ Pongs = round["parent"] /\ round["parent"] + Arriving("parent") = Pings
    /\ Held("parent") = 1

ParentAnswers ==
  pc["parent"] \in {"Repost", "Send"} =>
    /\ "parent" \notin out
    /\ Pongs = round["parent"] /\ round["parent"] + 1 + Arriving("parent") = Pings
    /\ pc["parent"] = "Repost" => Held("parent") = 0
    /\ pc["parent"] = "Send" => Held("parent") = Ahead("parent")

ParentDrains ==
  pc["parent"] \in {"Drain", "DrainRecv", "Done"} =>
    /\ Pongs = round["parent"] + 1 /\ Pongs + Arriving("parent") = Pings
    /\ Held("parent") = Ahead("parent")
    /\ pc["parent"] = "Done" => round["parent"] = Rounds - 1

\* A parent that has failed leaves its RECV posted, or has dropped the ping that
\* came while it drained, and then no further ping can come.
ParentGaveUp ==
  pc["parent"] = "Failed" =>
    /\ Pongs = round["parent"] \/ Pongs = round["parent"] + 1
    /\ \/ /\ Pongs + Arriving("parent") = Pings
          /\ Held("parent") = 1 \/ (Held("parent") = 0 /\ Pongs = Rounds)
       \/ Pongs + 1 = Pings /\ Held("parent") = 0 /\ wire["parent"] = 0

ParentCounts == ParentAsks /\ ParentAnswers /\ ParentDrains /\ ParentGaveUp

IInv ==
  /\ Ranges /\ InOnePlace("parent") /\ InOnePlace("child")
  /\ ChildCounts /\ ParentCounts

\* The constants, as the leaves need them.
LEMMA RoundsPositive == Rounds \in Nat /\ Rounds >= 1
  BY PingPongAssumption

\* What the two programs have exchanged, in terms of their rounds.
LEMMA Exchanged ==
  ASSUME IInv
  PROVE  /\ round["child"] \in Nat /\ round["parent"] \in Nat
         /\ Pings \in {round["child"], round["child"] + 1}
         /\ Pongs - Arriving("child") \in {round["child"], round["child"] + 1}
         /\ Arriving("child") \in Nat /\ Arriving("parent") \in Nat
         /\ Pings \in Nat /\ Pongs \in Nat
         /\ Pongs \in {round["parent"], round["parent"] + 1}
         /\ Pongs <= Pings /\ Pings <= Pongs + Arriving("parent") + 1
         /\ Arriving("parent") > 0 => Pongs + Arriving("parent") <= Pings
<1>1. /\ round["child"] \in Nat /\ round["parent"] \in Nat
      /\ Arriving("child") \in Nat /\ Arriving("parent") \in Nat
      /\ pc["parent"] \in Labels
  BY RoundsPositive DEF IInv, Ranges, Arriving, Ends
<1>2. /\ Pings \in {round["child"], round["child"] + 1}
      /\ Pongs - Arriving("child") \in {round["child"], round["child"] + 1}
      /\ Pongs \in Nat /\ Pings \in Nat
  BY <1>1 DEF Pings, Pongs
<1>3. CASE pc["parent"] # "Failed"
  <2>1. /\ Pongs \in {round["parent"], round["parent"] + 1}
        /\ Pongs <= Pings /\ Pings <= Pongs + Arriving("parent") + 1
        /\ Pongs + Arriving("parent") <= Pings
    BY <1>1, <1>2, <1>3 DEF IInv, ParentCounts, ParentAsks, ParentAnswers, ParentDrains, Labels
  <2> QED
    BY <1>1, <1>2, <2>1
<1>4. CASE pc["parent"] = "Failed"
  <2>1. /\ Pongs \in {round["parent"], round["parent"] + 1}
        /\ Pongs <= Pings /\ Pings <= Pongs + Arriving("parent") + 1
    BY <1>1, <1>2, <1>4 DEF IInv, ParentCounts, ParentGaveUp
  <2>2. Arriving("parent") > 0 => Pongs + Arriving("parent") <= Pings
    BY <1>1, <1>2, <1>4 DEF IInv, Ranges, ParentCounts, ParentGaveUp, Arriving, Held, Ends
  <2> QED
    BY <1>1, <1>2, <2>1, <2>2
<1> QED
  BY <1>3, <1>4

\* The counting gives the bounds that Ranges leaves out.
LEMMA CountingBounds == IInv => TypeOK
<1> SUFFICES ASSUME IInv PROVE TypeOK
  OBVIOUS
<1>1. \A p \in Ends : rx[p] <= 1 /\ inbox[p] <= 1 /\ recvCq[p] <= 1
  BY RoundsPositive DEF IInv, Ranges, ChildCounts, ParentCounts, ParentAsks, ParentAnswers,
     ParentDrains, ParentGaveUp, Held, Ahead, Ends, Labels
<1>2. \A p \in Ends : wire[p] <= 1 /\ sendCq[p] <= 1
  BY DEF IInv, Ranges, InOnePlace, Peer, Ends
<1> QED
  BY <1>1, <1>2 DEF IInv, Ranges, TypeOK

\* A message on its way finds a RECV, and one receive slot is enough.
LEMMA CountingCredit == IInv => CreditAhead
<1> SUFFICES ASSUME IInv PROVE CreditAhead
  OBVIOUS
<1>0. /\ \A p \in Ends : rx[p] \in Nat /\ recvCq[p] \in Nat /\ inbox[p] \in Nat
                         /\ wire[p] \in Nat /\ round[p] \in 0 .. Rounds - 1
      /\ pc["parent"] \in Labels /\ Ends = {"parent", "child"}
  BY DEF IInv, Ranges, Ends
<1>1. ASSUME wire["parent"] > 0 PROVE rx["parent"] > 0
  <2>1. Arriving("parent") > 0 /\ Arriving("parent") >= wire["parent"]
    BY <1>0, <1>1 DEF Arriving
  <2>2. Arriving("parent") = 1 /\ Pings = Pongs + 1 /\ Pings <= Rounds
    <3>1. round["child"] <= Rounds - 1 /\ round["child"] \in Nat /\ Rounds \in Nat
      BY <1>0, RoundsPositive
    <3>2. /\ Pings \in {round["child"], round["child"] + 1}
          /\ Pings <= Pongs + Arriving("parent") + 1 /\ Pongs + Arriving("parent") <= Pings
          /\ Pongs - Arriving("child") \in {round["child"], round["child"] + 1}
          /\ Arriving("child") \in Nat /\ Arriving("parent") \in Nat
          /\ Pings \in Nat /\ Pongs \in Nat
      BY <2>1, Exchanged
    <3> QED
      BY <2>1, <3>1, <3>2
  <2>3. Held("parent") = rx["parent"]
    BY <1>0, <1>1, <2>2 DEF Arriving, Held
  <2>4. Held("parent") >= 1
    BY <1>0, <1>1, <2>2, Exchanged, RoundsPositive
    DEF IInv, ParentCounts, ParentAsks, ParentAnswers, ParentDrains, ParentGaveUp, Ahead, Labels
  <2> QED
    BY <1>0, <2>3, <2>4
<1>2. ASSUME wire["child"] > 0 PROVE rx["child"] > 0
  <2>1. Arriving("child") > 0 /\ Arriving("child") >= wire["child"]
    BY <1>0, <1>2 DEF Arriving
  <2>2. Pings = round["child"] + 1 /\ Arriving("child") = 1
        /\ pc["child"] \notin {"Repost", "Done"}
    BY <1>0, <2>1, Exchanged DEF Pongs
  <2> QED
    BY <1>0, <1>2, <2>2 DEF IInv, ChildCounts, Arriving, Held
<1>3. \A p \in Ends : rx[p] + recvCq[p] <= 1
  BY <1>0, RoundsPositive DEF IInv, ChildCounts, ParentCounts, ParentAsks, ParentAnswers,
     ParentDrains, ParentGaveUp, Held, Ahead, Labels
<1> QED
  BY <1>0, <1>1, <1>2, <1>3 DEF CreditAhead

\* Rounds follow from messages exchanged.
LEMMA CountingStep == IInv => InStep
<1> SUFFICES ASSUME IInv PROVE InStep
  OBVIOUS
<1>0. /\ \A p \in Ends : round[p] \in 0 .. Rounds - 1
      /\ Ends = {"parent", "child"} /\ Peer("parent") = "child" /\ Peer("child") = "parent"
  BY DEF IInv, Ranges, Ends, Peer
<1>1. round["parent"] - round["child"] \in {-1, 0, 1}
  BY Exchanged
<1>2. pc["parent"] = "Done" => round["child"] = Rounds - 1
  BY <1>0, Exchanged, RoundsPositive DEF IInv, ParentCounts, ParentDrains
<1>3. pc["child"] = "Done" => round["parent"] = Rounds - 1
  <2> HAVE pc["child"] = "Done"
  <2>1. round["child"] = Rounds - 1 /\ Pongs = Arriving("child") + round["child"] + 1
    BY <1>0, Exchanged DEF IInv, ChildCounts, Pongs
  <2>2. /\ Pongs \in {round["parent"], round["parent"] + 1}
        /\ Arriving("child") \in Nat /\ round["parent"] \in Nat /\ Rounds \in Nat
        /\ round["parent"] <= Rounds - 1
    BY <1>0, Exchanged, RoundsPositive
  <2> QED
    BY <2>1, <2>2
<1> QED
  BY <1>0, <1>1, <1>2, <1>3 DEF InStep

-----------------------------------------------------------------------------
\* The initial state: one RECV on either side, nothing sent.
LEMMA InitCounts == Init => IInv
<1> SUFFICES ASSUME Init PROVE IInv
  OBVIOUS
<1>1. Ranges
  BY RoundsPositive DEF Init, Ranges, Ends, Labels
<1>2. InOnePlace("parent") /\ InOnePlace("child")
  BY DEF Init, InOnePlace, Ends, Peer
<1>3. /\ Held("parent") = 1 /\ Held("child") = 1
      /\ Arriving("parent") = 0 /\ Arriving("child") = 0
      /\ pc["child"] = "Send" /\ pc["parent"] = "Wait"
      /\ round["child"] = 0 /\ round["parent"] = 0 /\ out = {}
  BY DEF Init, Held, Arriving, Ends
<1>4. Pings = 0 /\ Pongs = 0
  BY <1>3 DEF Pings, Pongs
<1>5. ChildCounts
  BY <1>3 DEF ChildCounts
<1>6. ParentCounts
  BY <1>3, <1>4 DEF ParentCounts, ParentAsks, ParentAnswers, ParentDrains, ParentGaveUp
<1> QED
  BY <1>1, <1>2, <1>5, <1>6 DEF IInv

\* A program keeps its place, or moves within one of its loops, or a child gives up:
\* what it has sent and consumed stays the same.
SamePhase(p) ==
  \/ pc'[p] = pc[p]
  \/ {pc[p], pc'[p]} = {"Wait", "WaitRecv"}
  \/ {pc[p], pc'[p]} = {"Drain", "DrainRecv"} /\ p = "parent"
  \/ pc[p] = "Wait" /\ pc'[p] = "Failed" /\ p = "child"

\* The provider, and the polls that return nothing, move messages and credits
\* between the places that are counted together.
LEMMA Unmoved ==
  ASSUME IInv, round' = round, out' \subseteq out,
         \A p \in Ends : /\ Held(p)' = Held(p) /\ Arriving(p)' = Arriving(p)
                         /\ SamePhase(p),
         wire["parent"] = 0 => wire'["parent"] = 0
  PROVE  ChildCounts' /\ ParentCounts'
<1>1. /\ Held("parent")' = Held("parent") /\ Held("child")' = Held("child")
      /\ Arriving("parent")' = Arriving("parent") /\ Arriving("child")' = Arriving("child")
      /\ SamePhase("parent") /\ SamePhase("child")
  BY DEF Ends
<1>2. ChildCounts'
  BY <1>1 DEF IInv, ChildCounts, SamePhase
<1>3. Pings' = Pings /\ Pongs' = Pongs
  BY <1>1 DEF IInv, ChildCounts, SamePhase, Pings, Pongs
<1>4. Ahead("parent")' = Ahead("parent")
  BY DEF Ahead
<1>5. /\ ParentAsks /\ ParentAnswers /\ ParentDrains /\ ParentGaveUp
  BY DEF IInv, ParentCounts
<1>6. ParentAsks'
  BY <1>1, <1>3, <1>5 DEF ParentAsks, SamePhase
<1>7. ParentAnswers'
  BY <1>1, <1>3, <1>4, <1>5 DEF ParentAnswers, SamePhase
<1>8. ParentDrains'
  BY <1>1, <1>3, <1>4, <1>5 DEF ParentDrains, SamePhase
<1>9. ParentGaveUp'
  BY <1>1, <1>3, <1>5 DEF ParentGaveUp, SamePhase
<1> QED
  BY <1>2, <1>6, <1>7, <1>8, <1>9 DEF ParentCounts

\* The numbers of a state, for the leaves.
LEMMA Numbers ==
  ASSUME IInv
  PROVE  /\ Ends = {"parent", "child"}
         /\ Peer("parent") = "child" /\ Peer("child") = "parent"
         /\ \A p \in Ends : /\ rx[p] \in Nat /\ recvCq[p] \in Nat /\ inbox[p] \in Nat
                            /\ wire[p] \in Nat /\ sendCq[p] \in Nat
                            /\ round[p] \in 0 .. Rounds - 1 /\ pc[p] \in Labels
                            /\ Held(p) \in Nat /\ Arriving(p) \in Nat
         /\ Pings \in Nat /\ Pongs \in Nat
  BY Exchanged DEF IInv, Ranges, Ends, Peer, Held, Arriving

\* The provider delivers a message to a posted RECV.
LEMMA DeliverCounts == ASSUME IInv, NEW p \in Ends, Deliver(p) PROVE IInv'
<1>1. Ranges'
  BY Numbers DEF IInv, Ranges, Deliver, Ends, Peer
<1>2. InOnePlace("parent")' /\ InOnePlace("child")'
  <2>1. CASE p = "parent"
    BY <2>1, Numbers DEF IInv, Ranges, InOnePlace, Deliver
  <2>2. CASE p = "child"
    BY <2>2, Numbers DEF IInv, Ranges, InOnePlace, Deliver
  <2> QED
    BY <2>1, <2>2 DEF Ends
<1>3. \A q \in Ends : /\ Held(q)' = Held(q) /\ Arriving(q)' = Arriving(q)
                      /\ SamePhase(q)
  BY Numbers DEF IInv, Ranges, Deliver, Held, Arriving, SamePhase
<1>4. wire["parent"] = 0 => wire'["parent"] = 0
  BY Numbers DEF IInv, Ranges, Deliver
<1>5. ChildCounts' /\ ParentCounts'
  BY <1>3, <1>4, Unmoved DEF Deliver
<1> QED
  BY <1>1, <1>2, <1>5 DEF IInv

\* The provider completes a SEND.
LEMMA CompleteSendCounts == ASSUME IInv, NEW p \in Ends, CompleteSend(p) PROVE IInv'
<1>1. Ranges'
  BY Numbers DEF IInv, Ranges, CompleteSend
<1>2. InOnePlace("parent")' /\ InOnePlace("child")'
  BY Numbers DEF IInv, Ranges, InOnePlace, CompleteSend
<1>3. \A q \in Ends : /\ Held(q)' = Held(q) /\ Arriving(q)' = Arriving(q)
                      /\ SamePhase(q)
  BY DEF CompleteSend, Held, Arriving, SamePhase
<1>4. ChildCounts' /\ ParentCounts'
  BY <1>3, Unmoved DEF CompleteSend
<1> QED
  BY <1>1, <1>2, <1>4 DEF IInv

\* The first poll of a loop.
LEMMA PollSendCounts == ASSUME IInv, NEW p \in Ends, PollSend(p) PROVE IInv'
<1>0. p = "child" => pc[p] # "Drain"
  BY DEF IInv, ChildCounts
<1>1. Ranges'
  BY Numbers DEF IInv, Ranges, PollSend, Goto, Labels
<1>2. InOnePlace("parent")' /\ InOnePlace("child")'
  <2>1. CASE p = "parent"
    BY <2>1, Numbers DEF IInv, Ranges, InOnePlace, PollSend
  <2>2. CASE p = "child"
    BY <2>2, Numbers DEF IInv, Ranges, InOnePlace, PollSend
  <2> QED
    BY <2>1, <2>2 DEF Ends
<1>3. \A q \in Ends : /\ Held(q)' = Held(q) /\ Arriving(q)' = Arriving(q)
                      /\ SamePhase(q)
  BY <1>0, Numbers DEF IInv, Ranges, PollSend, Goto, Held, Arriving, SamePhase
<1>4. ChildCounts' /\ ParentCounts'
  BY <1>3, Unmoved DEF PollSend
<1> QED
  BY <1>1, <1>2, <1>4 DEF IInv

\* A deadline has passed.
LEMMA TimesOutCounts == ASSUME IInv, NEW p \in Ends, TimesOut(p) PROVE IInv'
<1>0. /\ pc' = [pc EXCEPT ![p] = "Failed"] /\ pc[p] \in {"Wait", "Drain"}
      /\ UNCHANGED <<round, rx, out, inbox, wire, acked, sendCq, recvCq>>
  BY DEF TimesOut, Goto, provider
<1>1. Ranges'
  BY <1>0, Numbers DEF IInv, Ranges, Labels
<1>2. InOnePlace("parent")' /\ InOnePlace("child")'
  BY <1>0 DEF IInv, InOnePlace
<1>3. /\ \A q \in Ends : Held(q)' = Held(q) /\ Arriving(q)' = Arriving(q)
      /\ Ahead("parent")' = Ahead("parent")
  BY <1>0 DEF Held, Arriving, Ahead
<1>4. CASE p = "child"
  <2>1. \A q \in Ends : SamePhase(q)
    BY <1>0, <1>4, Numbers DEF IInv, Ranges, ChildCounts, SamePhase
  <2> QED
    BY <1>0, <1>1, <1>2, <1>3, <2>1, Unmoved DEF IInv
<1>5. CASE p = "parent"
  <2>1. pc'["child"] = pc["child"] /\ pc'["parent"] = "Failed"
    BY <1>0, <1>5, Numbers DEF IInv, Ranges
  <2>2. Pings' = Pings /\ Pongs' = Pongs
    BY <1>0, <1>3, <2>1, Numbers DEF Pings, Pongs
  <2>3. ChildCounts'
    BY <1>0, <1>3, <2>1, Numbers DEF IInv, ChildCounts
  <2>4. ParentGaveUp'
    BY <1>0, <1>3, <1>5, <2>1, <2>2, Numbers, RoundsPositive
    DEF IInv, ParentCounts, ParentAsks, ParentDrains, ParentGaveUp, Ahead
  <2> QED
    BY <1>1, <1>2, <2>1, <2>3, <2>4
    DEF IInv, ParentCounts, ParentAsks, ParentAnswers, ParentDrains
<1> QED
  BY <1>4, <1>5 DEF Ends

\* The parent sends a pong, the child a ping.
LEMMA SendCounts == ASSUME IInv, NEW p \in Ends, Send(p) PROVE IInv'
<1>1. Ranges'
  BY Numbers DEF IInv, Ranges, Send, Goto, Labels
<1>2. InOnePlace("parent")' /\ InOnePlace("child")'
  <2>0. p \notin out
    BY Numbers DEF IInv, ChildCounts, ParentCounts, ParentAnswers, Send
  <2>1. CASE p = "parent"
    BY <2>0, <2>1, Numbers DEF IInv, Ranges, InOnePlace, Send
  <2>2. CASE p = "child"
    BY <2>0, <2>2, Numbers DEF IInv, Ranges, InOnePlace, Send
  <2> QED
    BY <2>1, <2>2 DEF Ends
<1>3. /\ \A q \in Ends : Held(q)' = Held(q)
      /\ Arriving(p)' = Arriving(p) /\ Arriving(Peer(p))' = Arriving(Peer(p)) + 1
      /\ round' = round /\ Ahead("parent")' = Ahead("parent")
  BY Numbers DEF IInv, Ranges, Send, Held, Arriving, Ahead
<1>4. CASE p = "child"
  <2>1. /\ pc["child"] = "Send" /\ pc'["child"] = "Wait" /\ pc'["parent"] = pc["parent"]
        /\ "parent" \in out' <=> "parent" \in out
    BY <1>4, Numbers DEF IInv, Ranges, Send, Goto
  <2>2. Pings' = Pings + 1 /\ Pongs' = Pongs /\ Pings = round["child"]
    BY <1>3, <1>4, <2>1, Numbers DEF Pings, Pongs
  <2>3. ChildCounts'
    BY <1>3, <2>1, Numbers DEF IInv, ChildCounts
  <2>4. ParentAsks' /\ ParentAnswers' /\ ParentDrains'
    BY <1>3, <1>4, <2>1, <2>2, Numbers
    DEF IInv, ParentCounts, ParentAsks, ParentAnswers, ParentDrains
  <2>5. ParentGaveUp'
    <3>1. Pings <= Pongs /\ Pings < Rounds
      BY <2>2, Exchanged, Numbers, RoundsPositive
    <3> QED
      BY <1>3, <1>4, <2>1, <2>2, <3>1, Numbers DEF IInv, ParentCounts, ParentGaveUp
  <2> QED
    BY <1>1, <1>2, <2>3, <2>4, <2>5 DEF IInv, ParentCounts
<1>5. CASE p = "parent"
  <2>1. /\ pc["parent"] = "Send" /\ pc'["parent"] = "Drain" /\ pc'["child"] = pc["child"]
        /\ "child" \in out' <=> "child" \in out
    BY <1>5, Numbers DEF IInv, Ranges, Send, Goto
  <2>2. Pings' = Pings /\ Pongs' = Pongs + 1
    BY <1>3, <1>5, <2>1, Numbers DEF Pings, Pongs
  <2>3. ChildCounts'
    BY <1>3, <2>1, Numbers DEF IInv, ChildCounts
  <2>4. ParentDrains'
    BY <1>3, <1>5, <2>1, <2>2, Numbers DEF IInv, ParentCounts, ParentAnswers, ParentDrains
  <2> QED
    BY <1>1, <1>2, <2>1, <2>3, <2>4
    DEF IInv, ParentCounts, ParentAsks, ParentAnswers, ParentGaveUp
<1> QED
  BY <1>4, <1>5 DEF Ends

\* A wait takes the message, or keeps what it has polled.
LEMMA WaitRecvCounts == ASSUME IInv, NEW p \in Ends, WaitRecv(p) PROVE IInv'
<1> DEFINE n == inbox[p] + recvCq[p]
<1>0. n \in Nat /\ pc[p] = "WaitRecv" /\ round' = round /\ out' = out /\ wire' = wire
      /\ rx' = rx
  BY Numbers DEF WaitRecv
<1>1. InOnePlace("parent")' /\ InOnePlace("child")'
  BY DEF IInv, InOnePlace, WaitRecv
<1>2. CASE ~ReturnsWith(p, n)
  <2>0. /\ inbox' = [inbox EXCEPT ![p] = n] /\ recvCq' = [recvCq EXCEPT ![p] = 0]
        /\ pc' = [pc EXCEPT ![p] = "Wait"] /\ acked' = acked /\ sendCq' = sendCq
    BY <1>2 DEF WaitRecv, Goto
  <2>1. Ranges'
    BY <1>0, <2>0 DEF IInv, Ranges, Labels
  <2>2. \A q \in Ends : /\ Held(q)' = Held(q) /\ Arriving(q)' = Arriving(q)
                        /\ SamePhase(q)
    <3>2. \A q \in Ends : Held(q)' = Held(q) /\ Arriving(q)' = Arriving(q)
      <4>1. ASSUME NEW q \in Ends, q # p
            PROVE  inbox'[q] = inbox[q] /\ recvCq'[q] = recvCq[q]
        BY <2>0, <4>1
      <4>2. inbox'[p] = inbox[p] + recvCq[p] /\ recvCq'[p] = 0
        BY <2>0 DEF IInv, Ranges
      <4>3. Held(p)' = Held(p) /\ Arriving(p)' = Arriving(p)
        <5>1. /\ inbox[p] \in Nat /\ recvCq[p] \in Nat /\ wire[p] \in Nat /\ rx[p] \in Nat
              /\ wire'[p] = wire[p] /\ rx'[p] = rx[p]
          BY <1>0, Numbers
        <5> QED
          BY <4>2, <5>1 DEF Held, Arriving
      <4>4. ASSUME NEW q \in Ends, q # p
            PROVE  Held(q)' = Held(q) /\ Arriving(q)' = Arriving(q)
        BY <1>0, <4>1, <4>4 DEF Held, Arriving
      <4> QED
        BY <4>3, <4>4
    <3>3. \A q \in Ends : SamePhase(q)
      BY <1>0, <2>0, Numbers DEF IInv, Ranges, SamePhase
    <3> QED
      BY <3>2, <3>3
  <2> QED
    BY <1>0, <1>1, <2>1, <2>2, Unmoved DEF IInv
<1>3. CASE ReturnsWith(p, n)
  <2>0. n > 0 /\ p \notin out
    BY <1>3 DEF ReturnsWith
  <2>1. Ranges'
    BY <1>0, <1>3, <2>0, Numbers DEF IInv, Ranges, WaitRecv, Goto, Labels
  <2>2. \A q \in Ends \ {p} : /\ Held(q)' = Held(q) /\ Arriving(q)' = Arriving(q)
                              /\ pc'[q] = pc[q]
    BY <1>0, <1>3, Numbers DEF IInv, Ranges, WaitRecv, Goto, Held, Arriving
  <2>3. /\ Held(p)' = Held(p) - 1 /\ Arriving(p)' = Arriving(p) - 1
        /\ pc'[p] = "Repost"
    BY <1>0, <1>3, <2>0, Numbers DEF IInv, Ranges, WaitRecv, Goto, Held, Arriving
  <2>4. Ahead("parent")' = Ahead("parent")
    BY <1>0 DEF Ahead
  <2>5. CASE p = "child"
    <3>1. /\ pc'["parent"] = pc["parent"] /\ Held("parent")' = Held("parent")
          /\ Arriving("parent")' = Arriving("parent")
      BY <2>2, <2>5, Numbers
    <3>2. Pings' = Pings /\ Pongs' = Pongs
      BY <1>0, <2>3, <2>5, Numbers DEF Pings, Pongs
    <3>3. ChildCounts'
      BY <1>0, <2>0, <2>3, <2>5, Numbers DEF IInv, ChildCounts
    <3>4. ParentCounts'
      BY <1>0, <2>4, <3>1, <3>2
      DEF IInv, ParentCounts, ParentAsks, ParentAnswers, ParentDrains, ParentGaveUp
    <3> QED
      BY <1>1, <2>1, <3>3, <3>4 DEF IInv
  <2>6. CASE p = "parent"
    <3>1. /\ pc'["child"] = pc["child"] /\ Held("child")' = Held("child")
          /\ Arriving("child")' = Arriving("child")
      BY <2>2, <2>6, Numbers
    <3>2. Pings' = Pings /\ Pongs' = Pongs
      BY <1>0, <3>1 DEF Pings, Pongs
    <3>3. ChildCounts'
      BY <1>0, <3>1 DEF IInv, ChildCounts
    <3>4. ParentAnswers'
      BY <1>0, <2>0, <2>3, <2>6, <3>2, Numbers DEF IInv, ParentCounts, ParentAsks, ParentAnswers
    <3> QED
      BY <1>1, <2>1, <2>3, <2>6, <3>3, <3>4
      DEF IInv, ParentCounts, ParentAsks, ParentDrains, ParentGaveUp
  <2> QED
    BY <2>5, <2>6 DEF Ends
<1> QED
  BY <1>2, <1>3

\* recv_ready, if there is another round.
LEMMA RepostCounts == ASSUME IInv, NEW p \in Ends, Repost(p) PROVE IInv'
<1>0. /\ pc[p] = "Repost" /\ rx' = Credit(p)
      /\ UNCHANGED <<out, inbox, wire, acked, sendCq, recvCq>>
  BY DEF Repost, provider
<1>1. Ranges'
  BY <1>0, Numbers, RoundsPositive
  DEF IInv, Ranges, Repost, NextRound, Goto, Credit, Labels
<1>2. InOnePlace("parent")' /\ InOnePlace("child")'
  BY <1>0 DEF IInv, InOnePlace
<1>3. /\ \A q \in Ends : Arriving(q)' = Arriving(q)
      /\ \A q \in Ends \ {p} : Held(q)' = Held(q)
      /\ Held(p)' = Held(p) + Ahead(p)
  BY <1>0, Numbers DEF IInv, Ranges, Arriving, Held, Credit, Ahead
<1>4. CASE p = "child"
  <2>1. /\ pc'["parent"] = pc["parent"] /\ round'["parent"] = round["parent"]
        /\ Held("parent")' = Held("parent") /\ Arriving("parent")' = Arriving("parent")
        /\ Ahead("parent")' = Ahead("parent")
    BY <1>3, <1>4, Numbers DEF IInv, Ranges, Repost, NextRound, Goto, Ahead
  <2>2. CASE round["child"] + 1 < Rounds
    <3>1. pc'["child"] = "Send" /\ round'["child"] = round["child"] + 1
      BY <1>4, <2>2, Numbers DEF IInv, Ranges, Repost, NextRound, Goto
    <3>2. Pings' = Pings /\ Pongs' = Pongs
      BY <1>0, <1>3, <1>4, <3>1, Numbers DEF Pings, Pongs
    <3>3. ChildCounts'
      BY <1>0, <1>3, <1>4, <2>2, <3>1, Numbers DEF IInv, ChildCounts, Ahead
    <3>4. ParentCounts'
      BY <1>0, <2>1, <3>2
      DEF IInv, ParentCounts, ParentAsks, ParentAnswers, ParentDrains, ParentGaveUp
    <3> QED
      BY <1>1, <1>2, <3>3, <3>4 DEF IInv
  <2>3. CASE ~(round["child"] + 1 < Rounds)
    <3>1. pc'["child"] = "Done" /\ round'["child"] = round["child"]
      BY <1>4, <2>3, Numbers DEF IInv, Ranges, Repost, NextRound, Goto
    <3>2. Pings' = Pings /\ Pongs' = Pongs
      BY <1>0, <1>3, <1>4, <3>1, Numbers DEF Pings, Pongs
    <3>3. ChildCounts'
      BY <1>0, <1>3, <1>4, <2>3, <3>1, Numbers, RoundsPositive DEF IInv, ChildCounts, Ahead
    <3>4. ParentCounts'
      BY <1>0, <2>1, <3>2
      DEF IInv, ParentCounts, ParentAsks, ParentAnswers, ParentDrains, ParentGaveUp
    <3> QED
      BY <1>1, <1>2, <3>3, <3>4 DEF IInv
  <2> QED
    BY <2>2, <2>3
<1>5. CASE p = "parent"
  <2>1. /\ pc'["child"] = pc["child"] /\ round' = round /\ pc'["parent"] = "Send"
        /\ Held("child")' = Held("child") /\ Ahead("parent")' = Ahead("parent")
        /\ Arriving("child")' = Arriving("child")
        /\ Arriving("parent")' = Arriving("parent")
    BY <1>3, <1>5, Numbers DEF IInv, Ranges, Repost, Goto, Ahead
  <2>2. Pings' = Pings /\ Pongs' = Pongs
    BY <2>1 DEF Pings, Pongs
  <2>3. ChildCounts'
    BY <1>0, <2>1 DEF IInv, ChildCounts
  <2>4. ParentAnswers'
    BY <1>0, <1>3, <1>5, <2>1, <2>2, Numbers, RoundsPositive
    DEF IInv, ParentCounts, ParentAnswers, Ahead
  <2> QED
    BY <1>1, <1>2, <2>1, <2>3, <2>4
    DEF IInv, ParentCounts, ParentAsks, ParentDrains, ParentGaveUp
<1> QED
  BY <1>4, <1>5 DEF Ends

\* The parent's drain meets a ping, and fails, or nothing.
LEMMA DrainRecvCounts == ASSUME IInv, NEW p \in Ends, DrainRecv(p) PROVE IInv'
<1>0. /\ pc[p] = "DrainRecv" /\ p = "parent" /\ "parent" \in Ends
      /\ UNCHANGED <<round, rx, out, inbox, wire, acked, sendCq>>
      /\ recvCq' = [recvCq EXCEPT !["parent"] = 0]
  BY DEF DrainRecv, IInv, ChildCounts, Ends
<1>1. Ranges'
  BY <1>0, Numbers DEF IInv, Ranges, DrainRecv, Goto, Labels
<1>2. InOnePlace("parent")' /\ InOnePlace("child")'
  BY <1>0 DEF IInv, InOnePlace
<1>3. CASE recvCq["parent"] = 0
  <2>1. \A q \in Ends : /\ Held(q)' = Held(q) /\ Arriving(q)' = Arriving(q)
                        /\ SamePhase(q)
    BY <1>0, <1>3, Numbers DEF IInv, Ranges, DrainRecv, Goto, Held, Arriving, SamePhase
  <2> QED
    BY <1>0, <1>1, <1>2, <2>1, Unmoved DEF IInv
<1>4. CASE recvCq["parent"] > 0
  <2>1. /\ pc'["parent"] = "Failed" /\ pc'["child"] = pc["child"]
        /\ Held("child")' = Held("child") /\ Arriving("child")' = Arriving("child")
    BY <1>0, <1>4, Numbers DEF IInv, Ranges, DrainRecv, Goto, Held, Arriving
  <2>2. Pings' = Pings /\ Pongs' = Pongs
    BY <1>0, <2>1 DEF Pings, Pongs
  <2>3. ChildCounts'
    BY <1>0, <2>1 DEF IInv, ChildCounts
  <2>4. ParentGaveUp'
    <3>1. /\ Pongs = round["parent"] + 1 /\ Pongs + Arriving("parent") = Pings
          /\ Held("parent") <= 1
      BY <1>0, Numbers, RoundsPositive DEF IInv, ParentCounts, ParentDrains, Ahead
    <3>2. Arriving("parent") = 1
      <4>1. Arriving("parent") >= 1 /\ round["parent"] \in Nat
        BY <1>0, <1>4, Numbers, Exchanged DEF Arriving
      <4>2. Pings <= round["child"] + 1 /\ round["child"] <= Pongs /\ round["child"] \in Nat
        BY Exchanged
      <4> QED
        BY <3>1, <4>1, <4>2, Numbers
    <3>3. /\ wire["parent"] = 0 /\ rx["parent"] = 0 /\ inbox["parent"] = 0
      <4>1. /\ wire["parent"] \in Nat /\ rx["parent"] \in Nat
            /\ inbox["parent"] \in Nat /\ recvCq["parent"] \in Nat
        BY <1>0, Numbers
      <4>2. wire["parent"] + recvCq["parent"] + inbox["parent"] = 1
        BY <3>2 DEF Arriving
      <4>3. rx["parent"] + recvCq["parent"] + inbox["parent"] <= 1
        BY <3>1 DEF Held
      <4> QED
        BY <1>4, <4>1, <4>2, <4>3
    <3>4. Held("parent")' = 0
      BY <1>0, <3>3, Numbers DEF IInv, Ranges, Held
    <3> QED
      BY <1>0, <2>2, <3>1, <3>2, <3>3, <3>4, Numbers DEF ParentGaveUp
  <2> QED
    BY <1>1, <1>2, <2>1, <2>3, <2>4
    DEF IInv, ParentCounts, ParentAsks, ParentAnswers, ParentDrains
<1> QED
  BY <1>0, <1>3, <1>4, Numbers

\* The pong has completed.
LEMMA DrainedCounts == ASSUME IInv, NEW p \in Ends, Drained(p) PROVE IInv'
<1>0. /\ pc[p] = "Drain" /\ p = "parent" /\ "parent" \in Ends /\ "parent" \notin out
      /\ UNCHANGED <<rx, out, inbox, wire, acked, sendCq, recvCq>>
  BY DEF Drained, IInv, ChildCounts, Ends, provider
<1>1. Ranges'
  BY <1>0, Numbers, RoundsPositive DEF IInv, Ranges, Drained, NextRound, Goto, Labels
<1>2. InOnePlace("parent")' /\ InOnePlace("child")'
  BY <1>0 DEF IInv, InOnePlace
<1>3. /\ pc'["child"] = pc["child"] /\ round'["child"] = round["child"]
  BY <1>0, Numbers DEF IInv, Ranges, Drained, NextRound, Goto
<1>4. \A q \in Ends : Held(q)' = Held(q) /\ Arriving(q)' = Arriving(q)
  BY <1>0 DEF Held, Arriving
<1>5. Pings' = Pings /\ Pongs' = Pongs
  BY <1>3, <1>4, Numbers DEF Pings, Pongs
<1>6. ChildCounts'
  BY <1>0, <1>3, <1>4, Numbers DEF IInv, ChildCounts
<1>7. /\ Pongs = round["parent"] + 1 /\ Pongs + Arriving("parent") = Pings
      /\ Held("parent") = Ahead("parent")
  BY <1>0 DEF IInv, ParentCounts, ParentDrains
<1>8. CASE round["parent"] + 1 < Rounds
  <2>1. pc'["parent"] = "Wait" /\ round'["parent"] = round["parent"] + 1
    BY <1>0, <1>8, Numbers DEF IInv, Ranges, Drained, NextRound, Goto
  <2>2. ParentAsks'
    BY <1>0, <1>4, <1>5, <1>7, <1>8, <2>1, Numbers DEF ParentAsks, Ahead
  <2> QED
    BY <1>1, <1>2, <1>6, <2>1, <2>2
    DEF IInv, ParentCounts, ParentAnswers, ParentDrains, ParentGaveUp
<1>9. CASE ~(round["parent"] + 1 < Rounds)
  <2>1. pc'["parent"] = "Done" /\ round'["parent"] = round["parent"]
    BY <1>0, <1>9, Numbers DEF IInv, Ranges, Drained, NextRound, Goto
  <2>2. ParentDrains'
    BY <1>0, <1>4, <1>5, <1>7, <1>9, <2>1, Numbers, RoundsPositive DEF ParentDrains, Ahead
  <2> QED
    BY <1>1, <1>2, <1>6, <2>1, <2>2
    DEF IInv, ParentCounts, ParentAsks, ParentAnswers, ParentGaveUp
<1> QED
  BY <1>8, <1>9

-----------------------------------------------------------------------------
\* Every step of either program, of the provider and of time keeps the counts.
LEMMA StepCounts == IInv /\ [Next]_vars => IInv'
<1> SUFFICES ASSUME IInv, [Next]_vars PROVE IInv'
  OBVIOUS
<1>1. CASE Network
  BY <1>1, DeliverCounts, CompleteSendCounts DEF Network
<1>2. ASSUME NEW p \in Ends, Program(p) PROVE IInv'
  BY <1>2, SendCounts, PollSendCounts, WaitRecvCounts, RepostCounts, DrainRecvCounts,
     DrainedCounts DEF Program
<1>3. ASSUME NEW p \in Ends, TimesOut(p) PROVE IInv'
  BY <1>3, TimesOutCounts
<1>4. CASE UNCHANGED vars
  <2>1. UNCHANGED <<pc, round, rx, out, inbox, wire, acked, sendCq, recvCq>>
    BY <1>4 DEF vars
  <2>2. Ranges' /\ InOnePlace("parent")' /\ InOnePlace("child")'
    BY <2>1 DEF IInv, Ranges, InOnePlace
  <2>3. \A p \in Ends : /\ Held(p)' = Held(p) /\ Arriving(p)' = Arriving(p)
                        /\ SamePhase(p)
    BY <2>1 DEF Held, Arriving, SamePhase
  <2> QED
    BY <2>1, <2>2, <2>3, Unmoved DEF IInv
<1> QED
  BY <1>1, <1>2, <1>3, <1>4 DEF Next

\* The counts hold in every state.
LEMMA Counting == Spec => []IInv
  BY InitCounts, StepCounts, PTL DEF Spec

\* The variables stay in their ranges: one message on the way to each side at most,
\* one RECV, one record on each JFC.
THEOREM RangesKept == Spec => []TypeOK
  BY Counting, CountingBounds, PTL

\* run_ping_pong of both programs: however the two interleave with the provider, and
\* whichever of them gives up, a message on its way has a posted RECV waiting, and
\* one receive slot per side is enough.
THEOREM CreditPosted == Spec => []CreditAhead
  BY Counting, CountingCredit, PTL

\* run_ping_pong of both programs: the rounds differ by one at most, and a program
\* that is done has had its partner in the last round.
THEOREM RoundsTogether == Spec => []InStep
  BY Counting, CountingStep, PTL

-----------------------------------------------------------------------------
\* Nobody waits for nothing, and who fails without deadlines.

\* A program that can only go on once it is told of something: in wait_for_message with
\* no message it may return, in drain_completions with its SEND outstanding, or done.
Waiting(p) ==
  \/ pc[p] = "Done"
  \/ pc[p] \in {"Wait", "WaitRecv"} /\ (inbox[p] = 0 \/ p \in out)
  \/ pc[p] \in {"Drain", "DrainRecv"} /\ p \in out

\* The provider has nothing for it: no message, no completion, now or later.
NothingFor(p) == wire[p] = 0 /\ recvCq[p] = 0 /\ p \notin acked /\ sendCq[p] = 0

\* The programs never wait for each other: as long as neither has failed, one of them can
\* go on or something is on its way to one, until both are done.
NoStandoff ==
  (\A p \in Ends : Waiting(p) /\ NothingFor(p)) => (\A p \in Ends : pc[p] = "Done")

\* Who gives up while no deadline passes: never the child, and the parent only over a
\* ping of the next round, whose sender then waits for a pong that will not come.
OnlyOvertaken ==
  /\ pc["child"] # "Failed"
  /\ pc["parent"] = "Failed" => /\ round["child"] = round["parent"] + 1
                                /\ pc["child"] \in {"Wait", "WaitRecv"}

\* The counting excludes a standoff: with nothing on its way a waiting parent has had as
\* many pings as there are, and a waiting child as many pongs.
LEMMA CountingMeets == IInv => NoStandoff
<1> SUFFICES ASSUME IInv, \A p \in Ends : Waiting(p) /\ NothingFor(p)
             PROVE  \A p \in Ends : pc[p] = "Done"
  BY DEF NoStandoff
<1>1. "parent" \notin out /\ "child" \notin out
  BY Numbers DEF IInv, InOnePlace, NothingFor
<1>2. /\ pc["parent"] \in {"Wait", "WaitRecv", "Done"}
      /\ pc["child"] \in {"Wait", "WaitRecv", "Done"}
  BY <1>1, Numbers DEF Waiting
<1>3. \A p \in Ends : pc[p] # "Done" => Arriving(p) = 0
  BY <1>1, <1>2, Numbers DEF Waiting, NothingFor, Arriving
<1>4. Pings = round["child"] + 1
  BY <1>2 DEF Pings
<1>5. CASE pc["child"] = "Done"
  <2>1. round["child"] = Rounds - 1 /\ Pongs = Arriving("child") + Rounds
    BY <1>5, Numbers, RoundsPositive DEF IInv, ChildCounts, Pongs
  <2>2. pc["parent"] = "Done"
    <3>1. Pongs >= Rounds /\ round["parent"] <= Rounds - 1 /\ round["parent"] \in Nat
      BY <2>1, Numbers, RoundsPositive
    <3> QED
      BY <1>2, <3>1, RoundsPositive DEF IInv, ParentCounts, ParentAsks
  <2> QED
    BY <1>5, <2>2, Numbers
<1>6. CASE pc["child"] # "Done"
  <2>1. Pongs = round["child"]
    BY <1>2, <1>3, <1>6, Numbers DEF Pongs
  <2>2. round["child"] \in Nat /\ round["child"] <= Rounds - 1
    BY Numbers, RoundsPositive
  <2>3. CASE pc["parent"] = "Done"
    BY <2>1, <2>2, <2>3, RoundsPositive, Numbers DEF IInv, ParentCounts, ParentDrains
  <2>4. CASE pc["parent"] # "Done"
    <3>1. Pongs = round["parent"] /\ round["parent"] + 0 = Pings
      BY <1>2, <1>3, <2>4, Numbers DEF IInv, ParentCounts, ParentAsks
    <3> QED
      BY <1>4, <2>1, <2>2, <3>1
  <2> QED
    BY <2>3, <2>4
<1> QED
  BY <1>5, <1>6

\* run_ping_pong of both programs never comes to a standstill in which each waits for the
\* other: the deadlines are needed only after one of them has failed.
THEOREM NobodyWaitsInVain == Spec => []NoStandoff
  BY Counting, CountingMeets, PTL

-----------------------------------------------------------------------------
\* A ping that meets the drain of the parent is the one of the next round.
LEMMA OvertakenRound ==
  ASSUME IInv, pc["parent"] \in {"DrainRecv", "Failed"}, pc["child"] # "Failed",
         Pongs = round["parent"] + 1, Pongs + 1 = Pings
  PROVE  /\ round["child"] = round["parent"] + 1 /\ Arriving("child") = 0
         /\ pc["child"] \in {"Wait", "WaitRecv"}
<1>1. /\ round["child"] \in Nat /\ round["parent"] \in Nat /\ Pongs \in Nat
      /\ Arriving("child") \in Nat
  BY Exchanged
<1>2. Pings = IF pc["child"] = "Send" THEN round["child"] ELSE round["child"] + 1
  BY DEF Pings
<1>3. Pongs = Arriving("child") + (IF pc["child"] \in {"Repost", "Done"}
                                   THEN round["child"] + 1 ELSE round["child"])
  BY DEF Pongs
<1>4. /\ round["child"] = Pongs /\ Arriving("child") = 0
      /\ pc["child"] \notin {"Send", "Repost", "Done"}
  BY <1>1, <1>2, <1>3
<1>5. pc["child"] \in {"Wait", "WaitRecv"}
  BY <1>4, Numbers DEF IInv, ChildCounts, Labels
<1> QED
  BY <1>1, <1>4, <1>5

\* A parent that fails leaves one ping unanswered.
OneUnanswered == pc["parent"] = "Failed" => Pongs = round["parent"] + 1 /\ Pongs + 1 = Pings

\* Without deadlines every step keeps it: only a drain that meets a ping fails.
LEMMA OvertakenStep ==
  ASSUME ~MayTimeOut, IInv, IInv', OneUnanswered, pc["child"] # "Failed", Next
  PROVE  OneUnanswered' /\ pc'["child"] # "Failed"
<1>1. pc["parent"] = "Failed" => /\ Arriving("child") = 0
                                 /\ pc["child"] \in {"Wait", "WaitRecv"}
  BY OvertakenRound DEF OneUnanswered
<1>2. ASSUME NEW p \in Ends, DrainRecv(p) PROVE OneUnanswered' /\ pc'["child"] # "Failed"
  <2>1. p = "parent" /\ pc["parent"] = "DrainRecv" /\ round' = round
    BY <1>2 DEF DrainRecv, IInv, ChildCounts, Ends
  <2>2. /\ pc'["child"] = pc["child"]
        /\ pc'["parent"] = IF recvCq["parent"] > 0 THEN "Failed" ELSE "Drain"
        /\ wire' = wire /\ inbox' = inbox /\ recvCq'["child"] = recvCq["child"]
    BY <1>2, <2>1, Numbers DEF DrainRecv, Goto, IInv, Ranges
  <2>3. Pings' = Pings /\ Pongs' = Pongs
    BY <2>1, <2>2 DEF Pings, Pongs, Arriving
  <2>4. Pongs = round["parent"] + 1 /\ Pongs + Arriving("parent") = Pings
    BY <2>1 DEF IInv, ParentCounts, ParentDrains
  <2>5. recvCq["parent"] > 0 => Arriving("parent") = 1
    <3> HAVE recvCq["parent"] > 0
    <3>1. Arriving("parent") >= 1 /\ Arriving("parent") \in Nat
      BY Numbers DEF Arriving
    <3>2. Pings <= Pongs + 1
      <4>1. /\ Pings \in {round["child"], round["child"] + 1} /\ round["child"] \in Nat
            /\ Pongs - Arriving("child") \in {round["child"], round["child"] + 1}
            /\ Arriving("child") \in Nat /\ Pongs \in Nat
        BY Exchanged
      <4> QED
        BY <4>1
    <3> QED
      BY <2>4, <3>1, <3>2, Numbers
  <2> QED
    BY <2>1, <2>2, <2>3, <2>4, <2>5 DEF OneUnanswered
<1>3. ASSUME NEW p \in Ends,
             Send(p) \/ PollSend(p) \/ WaitRecv(p) \/ Repost(p) \/ Drained(p) \/ Deliver(p)
               \/ CompleteSend(p)
      PROVE  OneUnanswered' /\ pc'["child"] # "Failed"
  <2>1. pc'["child"] # "Failed" /\ (pc'["parent"] = "Failed" => pc["parent"] = "Failed")
    BY <1>3, Numbers DEF IInv, Ranges, Send, PollSend, WaitRecv, Repost, Drained, Deliver,
       CompleteSend, Goto, NextRound
  <2>2. ASSUME pc["parent"] = "Failed" PROVE OneUnanswered'
    <3>1. Arriving("child") = 0 /\ pc["child"] \in {"Wait", "WaitRecv"}
      BY <1>1, <2>2
    <3>2. wire["child"] = 0 /\ recvCq["child"] = 0 /\ inbox["child"] = 0
      <4>1. /\ wire["child"] \in Nat /\ recvCq["child"] \in Nat /\ inbox["child"] \in Nat
            /\ wire["child"] + recvCq["child"] + inbox["child"] = 0
        BY <3>1, Numbers DEF Arriving
      <4> QED
        BY <4>1
    <3>3. \/ PollSend("child") \/ WaitRecv("child") \/ Deliver(p) \/ CompleteSend(p)
      <4>1. CASE p = "parent"
        BY <1>3, <2>2, <4>1 DEF Send, PollSend, WaitRecv, Repost, Drained
      <4>2. CASE p = "child"
        BY <1>3, <3>1, <4>2 DEF Send, PollSend, WaitRecv, Repost, Drained
      <4> QED
        BY <4>1, <4>2 DEF Ends
    <3>4. round' = round /\ pc'["child"] \in {"Wait", "WaitRecv"}
      <4>1. CASE PollSend("child")
        BY <3>1, <4>1, Numbers DEF IInv, Ranges, PollSend, Goto
      <4>2. CASE WaitRecv("child")
        BY <3>1, <3>2, <4>2, Numbers DEF IInv, Ranges, WaitRecv, Goto, ReturnsWith
      <4>3. CASE Deliver(p) \/ CompleteSend(p)
        BY <3>1, <4>3 DEF Deliver, CompleteSend
      <4> QED
        BY <3>3, <4>1, <4>2, <4>3
    <3>5. wire'["child"] = 0 /\ recvCq'["child"] = 0 /\ inbox'["child"] = 0
      <4>1. CASE PollSend("child")
        BY <3>2, <4>1 DEF PollSend
      <4>2. CASE WaitRecv("child")
        BY <3>2, <4>2, Numbers DEF IInv, Ranges, WaitRecv, ReturnsWith
      <4>3. CASE Deliver(p) \/ CompleteSend(p)
        BY <3>2, <4>3, Numbers DEF IInv, Ranges, Deliver, CompleteSend
      <4> QED
        BY <3>3, <4>1, <4>2, <4>3
    <3>6. Pings' = Pings /\ Pongs' = Pongs
      BY <3>1, <3>2, <3>4, <3>5 DEF Pings, Pongs, Arriving
    <3> QED
      BY <2>2, <3>4, <3>6 DEF OneUnanswered
  <2> QED
    BY <2>1, <2>2 DEF OneUnanswered
<1> QED
  BY <1>2, <1>3 DEF Next, Network, Program, TimesOut

\* Without deadlines the invariant behind OnlyOvertaken holds in every state.
LEMMA Unanswered == ASSUME ~MayTimeOut PROVE Spec => [](OneUnanswered /\ pc["child"] # "Failed")
<1>1. Init => OneUnanswered /\ pc["child"] # "Failed"
  BY DEF Init, OneUnanswered, Ends
<1>2. IInv /\ IInv' /\ OneUnanswered /\ pc["child"] # "Failed" /\ [Next]_vars
        => (OneUnanswered /\ pc["child"] # "Failed")'
  <2>1. ASSUME OneUnanswered, pc["child"] # "Failed", UNCHANGED vars
        PROVE  (OneUnanswered /\ pc["child"] # "Failed")'
    BY <2>1 DEF OneUnanswered, Pings, Pongs, Arriving, vars
  <2> QED
    BY <2>1, OvertakenStep
<1> QED
  BY <1>1, <1>2, InitCounts, StepCounts, PTL DEF Spec

\* drain_completions (connection.rs:228) is the only failure of a ping-pong that meets no
\* deadline: the child never fails, and the parent fails only over a ping of the next
\* round, for any number of rounds.
THEOREM OvertakenOnly == ASSUME ~MayTimeOut PROVE Spec => []OnlyOvertaken
<1>1. IInv /\ OneUnanswered /\ pc["child"] # "Failed" => OnlyOvertaken
  BY OvertakenRound DEF OneUnanswered, OnlyOvertaken
<1> QED
  BY <1>1, Counting, Unanswered, PTL

\* With a single round there is no next one, and neither program fails.
THEOREM OneRoundSucceeds == ASSUME ~MayTimeOut, Rounds = 1 PROVE Spec => []NeverFails
<1>1. IInv /\ OnlyOvertaken => NeverFails
  BY Numbers DEF OnlyOvertaken, NeverFails
<1> QED
  BY <1>1, Counting, OvertakenOnly, PTL

-----------------------------------------------------------------------------
\* What a program that is done leaves behind: no WR of its connection, no message for
\* either end and no completion of its own, so that close has nothing to wait for.
CleanEnd ==
  \A p \in Ends : pc[p] = "Done" =>
    /\ rx[p] = 0 /\ p \notin out /\ inbox[p] = 0
    /\ NothingFor(p) /\ wire[Peer(p)] = 0

\* A parent that goes on has drained its SEND.
Drains == pc["parent"] = "Done" => "parent" \notin out

\* Every step keeps it: Drained is the only way there.
LEMMA DrainsStep == IInv /\ Drains /\ [Next]_vars => Drains'
<1> SUFFICES ASSUME IInv, Drains, [Next]_vars, pc'["parent"] = "Done"
             PROVE  "parent" \notin out'
  BY DEF Drains
<1>1. CASE UNCHANGED vars
  BY <1>1 DEF vars, Drains
<1>2. ASSUME NEW p \in Ends, Deliver(p) \/ CompleteSend(p) PROVE "parent" \notin out'
  BY <1>2 DEF Deliver, CompleteSend, Drains
<1>3. ASSUME NEW p \in Ends, Program(p) \/ TimesOut(p), p = "child"
      PROVE  "parent" \notin out'
  BY <1>3, Numbers DEF Drains, Program, TimesOut, Send, PollSend, WaitRecv, Repost, DrainRecv,
     Drained, Goto, NextRound, IInv, Ranges
<1>4. ASSUME NEW p \in Ends, Program(p) \/ TimesOut(p), p = "parent"
      PROVE  "parent" \notin out'
  <2>1. Drained(p)
    BY <1>4, Numbers DEF Program, TimesOut, Send, PollSend, WaitRecv, Repost, DrainRecv,
       Goto, IInv, Ranges
  <2> QED
    BY <1>4, <2>1 DEF Drained
<1> QED
  BY <1>1, <1>2, <1>3, <1>4 DEF Next, Network, Ends

\* Counts that sum to zero.
LEMMA AllZero ==
  ASSUME NEW a \in Nat, NEW b \in Nat, NEW c \in Nat, a + b + c = 0
  PROVE  a = 0 /\ b = 0 /\ c = 0
  OBVIOUS

\* The addends of Held and Arriving.
LEMMA Addends ==
  ASSUME IInv, NEW p \in Ends
  PROVE  /\ Held(p) = 0 => rx[p] = 0 /\ recvCq[p] = 0 /\ inbox[p] = 0
         /\ Arriving(p) = 0 => wire[p] = 0
<1>1. rx[p] \in Nat /\ recvCq[p] \in Nat /\ inbox[p] \in Nat /\ wire[p] \in Nat
  BY DEF IInv, Ranges
<1>2. ASSUME Held(p) = 0 PROVE rx[p] = 0 /\ recvCq[p] = 0 /\ inbox[p] = 0
  BY <1>1, <1>2, AllZero DEF Held
<1>3. ASSUME Arriving(p) = 0 PROVE wire[p] = 0
  BY <1>1, <1>3, AllZero DEF Arriving
<1> QED
  BY <1>2, <1>3

\* The counts of the last round leave nothing.
LEMMA EndIsClean == IInv /\ Drains => CleanEnd
<1> SUFFICES ASSUME IInv, Drains PROVE CleanEnd
  OBVIOUS
<1>1. ASSUME pc["child"] = "Done"
      PROVE  /\ rx["child"] = 0 /\ "child" \notin out /\ inbox["child"] = 0
             /\ NothingFor("child") /\ wire["parent"] = 0
  <2>1. "child" \notin out /\ Held("child") = 0 /\ round["child"] = Rounds - 1
    BY <1>1 DEF IInv, ChildCounts
  <2>2. rx["child"] = 0 /\ recvCq["child"] = 0 /\ inbox["child"] = 0
    BY <2>1, Addends DEF Ends
  <2>3. "child" \notin acked /\ wire["parent"] = 0 /\ sendCq["child"] = 0
    BY <2>1, Numbers DEF IInv, InOnePlace
  <2>4. Pongs = Arriving("child") + Rounds /\ Pings = Rounds
    BY <1>1, <2>1, RoundsPositive DEF Pongs, Pings
  <2>5. Arriving("child") = 0
    BY <2>4, Exchanged, RoundsPositive
  <2>6. wire["child"] = 0
    BY <2>5, Addends DEF Ends
  <2> QED
    BY <2>1, <2>2, <2>3, <2>6 DEF NothingFor
<1>2. ASSUME pc["parent"] = "Done"
      PROVE  /\ rx["parent"] = 0 /\ "parent" \notin out /\ inbox["parent"] = 0
             /\ NothingFor("parent") /\ wire["child"] = 0
  <2>1. /\ "parent" \notin out /\ Held("parent") = 0
        /\ Pongs = Rounds /\ Pongs + Arriving("parent") = Pings
    BY <1>2, RoundsPositive DEF IInv, ParentCounts, ParentDrains, Drains, Ahead
  <2>2. rx["parent"] = 0 /\ recvCq["parent"] = 0 /\ inbox["parent"] = 0
    BY <2>1, Addends DEF Ends
  <2>3. "parent" \notin acked /\ wire["child"] = 0 /\ sendCq["parent"] = 0
    BY <2>1, Numbers DEF IInv, InOnePlace
  <2>4. Pings <= Rounds
    <3>1. Pings \in {round["child"], round["child"] + 1}
      BY Exchanged
    <3>2. round["child"] \in 0 .. Rounds - 1
      BY Numbers
    <3> QED
      BY <3>1, <3>2, RoundsPositive
  <2>5. Arriving("parent") = 0
    BY <2>1, <2>4, Exchanged, RoundsPositive
  <2>6. wire["parent"] = 0
    BY <2>5, Addends DEF Ends
  <2> QED
    BY <2>1, <2>2, <2>3, <2>6 DEF NothingFor
<1> QED
  BY <1>1, <1>2 DEF CleanEnd, Ends, Peer

\* run_ping_pong of both programs, whether or not deadlines pass: a program that returns
\* Ok has no SEND or RECV of its connection outstanding, no message unread and none on
\* the wire in either direction.  close (connection.rs:333) has only its own work to do.
THEOREM EndsClean == Spec => []CleanEnd
<1>1. Init => Drains
  BY DEF Init, Drains, Ends
<1> QED
  BY <1>1, DrainsStep, EndIsClean, InitCounts, StepCounts, PTL DEF Spec

-----------------------------------------------------------------------------
\* The work that is left: the rest of the round of each program, the rounds after it,
\* and the way of each message and of its completion.
StepsLeft(p) ==
  CASE pc[p] = "Send" -> IF p = "child" THEN 12 ELSE 10
    [] pc[p] \in {"Wait", "WaitRecv"} -> IF p = "child" THEN 4 ELSE 12
    [] pc[p] = "Repost" -> IF p = "child" THEN 2 ELSE 11
    [] pc[p] \in {"Drain", "DrainRecv"} -> 1
    [] OTHER -> 0
Confirming(p) == IF p \in acked THEN 2 ELSE 0
Work(p) ==
  20 * (Rounds - round[p]) + StepsLeft(p)
    + 5 * wire[p] + 2 * recvCq[p] + inbox[p] + sendCq[p] + Confirming(p)
WorkLeft == Work("child") + Work("parent")

\* A poll_once half that finds nothing: it only turns a loop of p.
EmptyPoll(p) ==
  /\ UNCHANGED <<round, rx, out, inbox, wire, acked, sendCq, recvCq>>
  /\ pc'[Peer(p)] = pc[Peer(p)]
  /\ {pc[p], pc'[p]} \in {{"Wait", "WaitRecv"}, {"Drain", "DrainRecv"}}

\* A step makes progress, or polls an empty JFC.
Shrinks == WorkLeft' < WorkLeft
Descends == Shrinks \/ \E p \in Ends : EmptyPoll(p)

\* The addends of Work.
LEMMA StepsNumber == \A p \in Ends : StepsLeft(p) \in Nat
  BY DEF StepsLeft, Ends

\* A completion on its way counts two.
LEMMA ConfirmingNumber == \A p \in Ends : Confirming(p) \in {0, 2}
  BY DEF Confirming

\* The work left is never negative.
LEMMA WorkNumber == IInv => WorkLeft \in Nat
<1> SUFFICES ASSUME IInv PROVE \A p \in Ends : Work(p) \in Nat
  BY DEF WorkLeft, Ends
<1> TAKE p \in Ends
<1>1. /\ Rounds - round[p] \in Nat /\ wire[p] \in Nat /\ recvCq[p] \in Nat
      /\ inbox[p] \in Nat /\ sendCq[p] \in Nat
  BY RoundsPositive DEF IInv, Ranges
<1> QED
  BY <1>1, StepsNumber, ConfirmingNumber DEF Work

\* Only what changes in one end, or what passes to the other, makes a difference.
LEMMA WorkAt ==
  ASSUME IInv, IInv', NEW p \in Ends, Work(p)' + Work(Peer(p))' < Work(p) + Work(Peer(p))
  PROVE  Shrinks
<1>1. \/ WorkLeft = Work(p) + Work(Peer(p)) /\ WorkLeft' = Work(p)' + Work(Peer(p))'
      \/ /\ WorkLeft = Work(Peer(p)) + Work(p)
         /\ WorkLeft' = Work(Peer(p))' + Work(p)'
  BY DEF WorkLeft, Ends, Peer
<1>2. \A q \in Ends : Work(q) \in Int /\ Work(q)' \in Int
  <2> TAKE q \in Ends
  <2>1. /\ Rounds - round[q] \in Int /\ wire[q] \in Int /\ recvCq[q] \in Int
        /\ inbox[q] \in Int /\ sendCq[q] \in Int
        /\ Rounds - round'[q] \in Int /\ wire'[q] \in Int /\ recvCq'[q] \in Int
        /\ inbox'[q] \in Int /\ sendCq'[q] \in Int
    BY RoundsPositive DEF IInv, Ranges
  <2>2. StepsLeft(q) \in Int /\ StepsLeft(q)' \in Int
    BY DEF StepsLeft, Ends
  <2>3. Confirming(q) \in Int /\ Confirming(q)' \in Int
    BY DEF Confirming
  <2> QED
    BY <2>1, <2>2, <2>3 DEF Work
<1>3. Peer(p) \in Ends
  BY DEF Peer, Ends
<1> QED
  BY <1>1, <1>2, <1>3 DEF Shrinks

\* The provider brings a message or a completion further.
LEMMA NetworkShrinks ==
  ASSUME IInv, IInv', NEW p \in Ends, Deliver(p) \/ CompleteSend(p)
  PROVE  Shrinks
<1>1. \A q \in Ends : StepsLeft(q)' = StepsLeft(q) /\ StepsLeft(q) \in Nat
  BY StepsNumber DEF Deliver, CompleteSend, StepsLeft
<1>2. Peer(p) \in Ends /\ Peer(p) # p
  BY DEF Peer, Ends
<1>3. \A q \in Ends : Confirming(q) \in {0, 2} /\ Confirming(q)' \in {0, 2}
  BY DEF Confirming
<1>4. CASE Deliver(p)
  <2>1. Confirming(p)' = Confirming(p)
    BY <1>2, <1>4 DEF Confirming, Deliver
  <2>2. /\ round' = round /\ inbox' = inbox /\ sendCq' = sendCq
        /\ wire'[p] = wire[p] - 1 /\ recvCq'[p] = recvCq[p] + 1
        /\ wire'[Peer(p)] = wire[Peer(p)] /\ recvCq'[Peer(p)] = recvCq[Peer(p)]
    BY <1>2, <1>4 DEF Deliver, IInv, Ranges
  <2>3. Work(p)' = Work(p) - 3
    <3>1. /\ Rounds - round[p] \in Int /\ wire[p] \in Nat /\ recvCq[p] \in Nat
          /\ inbox[p] \in Nat /\ sendCq[p] \in Nat
      BY Numbers, RoundsPositive
    <3> QED
      BY <1>1, <1>3, <2>1, <2>2, <3>1 DEF Work
  <2>4. Work(Peer(p))' <= Work(Peer(p)) + 2
    BY <1>1, <1>2, <1>3, <2>2, Numbers, RoundsPositive DEF Work
  <2>5. Work(p) \in Int /\ Work(Peer(p)) \in Int /\ Work(Peer(p))' \in Int
    BY <1>1, <1>2, <1>3, <2>2, Numbers, RoundsPositive DEF Work
  <2> QED
    BY <2>3, <2>4, <2>5, WorkAt
<1>5. CASE CompleteSend(p)
  <2>1. Confirming(p) = 2 /\ Confirming(p)' = 0 /\ Confirming(Peer(p))' = Confirming(Peer(p))
    BY <1>2, <1>5 DEF Confirming, CompleteSend
  <2>2. /\ round' = round /\ inbox' = inbox /\ wire' = wire /\ recvCq' = recvCq
        /\ sendCq'[p] = sendCq[p] + 1 /\ sendCq'[Peer(p)] = sendCq[Peer(p)]
    BY <1>2, <1>5 DEF CompleteSend, IInv, Ranges
  <2>3. Work(p)' = Work(p) - 1 /\ Work(p) \in Int
    BY <1>1, <2>1, <2>2, Numbers, RoundsPositive DEF Work
  <2>4. Work(Peer(p))' = Work(Peer(p)) /\ Work(Peer(p)) \in Int
    BY <1>1, <1>2, <1>3, <2>1, <2>2, Numbers, RoundsPositive DEF Work
  <2> QED
    BY <2>3, <2>4, WorkAt
<1> QED
  BY <1>4, <1>5

\* A step of a program changes its own share, and sends a message at the most.
LEMMA ProgramShrinks ==
  ASSUME IInv, IInv', NEW p \in Ends, Program(p) \/ TimesOut(p)
  PROVE  Shrinks \/ EmptyPoll(p)
<1> DEFINE q == Peer(p)
<1>1. q \in Ends /\ q # p
  BY DEF Peer, Ends
<1>2. /\ acked' = acked /\ pc'[q] = pc[q] /\ round'[q] = round[q]
      /\ recvCq'[q] = recvCq[q] /\ inbox'[q] = inbox[q] /\ sendCq'[q] = sendCq[q]
  BY <1>1 DEF Program, TimesOut, Send, PollSend, WaitRecv, Repost, DrainRecv, Drained, Goto,
     NextRound, provider, IInv, Ranges
<1>3. /\ Confirming(p)' = Confirming(p) /\ Confirming(q)' = Confirming(q)
      /\ Confirming(p) \in {0, 2} /\ Confirming(q) \in {0, 2}
  BY <1>2 DEF Confirming
<1>4. StepsLeft(q)' = StepsLeft(q) /\ StepsLeft(q) \in Nat /\ StepsLeft(p) \in Nat
  BY <1>1, <1>2, StepsNumber DEF StepsLeft
<1>5. /\ Work(p) \in Int /\ Work(q) \in Int
      /\ Work(q)' = Work(q) + 5 * (wire'[q] - wire[q]) /\ wire'[q] \in Nat
  BY <1>1, <1>2, <1>3, <1>4, Numbers, RoundsPositive DEF Work, IInv, Ranges
<1>6. CASE Send(p)
  <2>1. /\ wire'[q] = wire[q] + 1 /\ wire'[p] = wire[p] /\ round' = round
        /\ recvCq' = recvCq /\ inbox' = inbox /\ sendCq' = sendCq
    BY <1>1, <1>6 DEF Send, IInv, Ranges
  <2>2. StepsLeft(p)' <= StepsLeft(p) - 8 /\ StepsLeft(p)' \in Nat
    BY <1>6 DEF Send, Goto, StepsLeft, IInv, Ranges, Ends
  <2>3. Work(p)' <= Work(p) - 8 /\ Work(p)' \in Int
    BY <1>3, <1>4, <2>1, <2>2, Numbers, RoundsPositive DEF Work
  <2>4. Work(q)' = Work(q) + 5
    BY <1>1, <1>5, <2>1, Numbers
  <2>5. Shrinks
    BY <1>5, <2>3, <2>4, WorkAt
  <2> QED
    BY <2>5
<1>7. ASSUME ~Send(p), Program(p) \/ TimesOut(p), Work(p)' < Work(p), Work(p)' \in Int
      PROVE  Shrinks
  <2>1. wire' = wire
    BY <1>7 DEF Program, TimesOut, PollSend, WaitRecv, Repost, DrainRecv, Drained, provider
  <2>2. Work(q)' = Work(q)
    BY <1>1, <1>5, <2>1, Numbers
  <2> QED
    BY <1>5, <1>7, <2>2, WorkAt
<1>8. CASE PollSend(p)
  <2>1. /\ round' = round /\ inbox' = inbox /\ wire' = wire /\ recvCq' = recvCq
        /\ sendCq'[p] = 0 /\ rx' = rx /\ sendCq' = [sendCq EXCEPT ![p] = 0]
    BY <1>8 DEF PollSend, IInv, Ranges
  <2>2. StepsLeft(p)' = StepsLeft(p)
    BY <1>8 DEF PollSend, Goto, StepsLeft, IInv, Ranges, Ends
  <2>3. CASE sendCq[p] > 0
    <3>1. Work(p)' < Work(p) /\ Work(p)' \in Int
      BY <1>3, <1>4, <2>1, <2>2, <2>3, Numbers, RoundsPositive DEF Work
    <3>2. ~Send(p)
      BY <1>8 DEF PollSend, Send
    <3> QED
      BY <1>7, <3>1, <3>2
  <2>4. CASE sendCq[p] = 0
    <3>1. sendCq' = sendCq /\ out' = out
      BY <1>8, <2>1, <2>4, Numbers DEF PollSend, IInv, Ranges
    <3>2. {pc[p], pc'[p]} \in {{"Wait", "WaitRecv"}, {"Drain", "DrainRecv"}}
      BY <1>8 DEF PollSend, Goto, IInv, Ranges
    <3> QED
      BY <1>2, <2>1, <3>1, <3>2 DEF EmptyPoll
  <2> QED
    BY <2>3, <2>4, Numbers
<1>9. CASE WaitRecv(p)
  <2>1. /\ round' = round /\ sendCq' = sendCq /\ wire' = wire /\ rx' = rx /\ out' = out
        /\ recvCq' = [recvCq EXCEPT ![p] = 0] /\ recvCq'[p] = 0
    BY <1>9 DEF WaitRecv, IInv, Ranges
  <2>2. StepsLeft(p)' <= StepsLeft(p) /\ StepsLeft(p)' \in Nat
    BY <1>9 DEF WaitRecv, Goto, StepsLeft, IInv, Ranges, Ends
  <2>3. \/ inbox'[p] = inbox[p] + recvCq[p] - 1 /\ inbox[p] + recvCq[p] > 0
        \/ inbox' = [inbox EXCEPT ![p] = @ + recvCq[p]] /\ pc'[p] = "Wait"
    BY <1>9, Numbers DEF WaitRecv, ReturnsWith, Goto, IInv, Ranges
  <2>4. CASE recvCq[p] > 0 \/ inbox'[p] < inbox[p]
    <3>1. inbox'[p] <= inbox[p] + recvCq[p] /\ inbox'[p] \in Int
      BY <2>3, Numbers DEF IInv, Ranges
    <3>2. Work(p)' < Work(p) /\ Work(p)' \in Int
      BY <1>3, <1>4, <2>1, <2>2, <2>4, <3>1, Numbers, RoundsPositive DEF Work
    <3>3. ~Send(p)
      BY <1>9 DEF WaitRecv, Send
    <3> QED
      BY <1>7, <3>2, <3>3
  <2>5. CASE recvCq[p] = 0 /\ ~(inbox'[p] < inbox[p])
    <3>1. recvCq' = recvCq /\ inbox' = inbox /\ pc'[p] = "Wait"
      BY <2>1, <2>3, <2>5, Numbers DEF IInv, Ranges
    <3>2. {pc[p], pc'[p]} = {"Wait", "WaitRecv"}
      BY <1>9, <3>1 DEF WaitRecv
    <3> QED
      BY <1>2, <2>1, <3>1, <3>2 DEF EmptyPoll
  <2> QED
    BY <2>4, <2>5, Numbers
<1>10. CASE DrainRecv(p)
  <2>1. /\ round' = round /\ sendCq' = sendCq /\ wire' = wire /\ rx' = rx /\ out' = out
        /\ inbox' = inbox /\ recvCq' = [recvCq EXCEPT ![p] = 0] /\ recvCq'[p] = 0
    BY <1>10 DEF DrainRecv, IInv, Ranges
  <2>2. CASE recvCq[p] > 0
    <3>1. StepsLeft(p)' <= StepsLeft(p) /\ StepsLeft(p)' \in Nat
      BY <1>10 DEF DrainRecv, Goto, StepsLeft, IInv, Ranges, Ends
    <3>2. Work(p)' < Work(p) /\ Work(p)' \in Int
      BY <1>3, <1>4, <2>1, <2>2, <3>1, Numbers, RoundsPositive DEF Work
    <3>3. ~Send(p)
      BY <1>10 DEF DrainRecv, Send
    <3> QED
      BY <1>7, <3>2, <3>3
  <2>3. CASE recvCq[p] = 0
    <3>1. recvCq' = recvCq /\ {pc[p], pc'[p]} = {"Drain", "DrainRecv"}
      BY <1>10, <2>1, <2>3, Numbers DEF DrainRecv, Goto, IInv, Ranges
    <3> QED
      BY <1>2, <2>1, <3>1 DEF EmptyPoll
  <2> QED
    BY <2>2, <2>3, Numbers
<1>11. CASE Repost(p) \/ Drained(p) \/ TimesOut(p)
  <2>1. /\ recvCq' = recvCq /\ inbox' = inbox /\ sendCq' = sendCq /\ wire' = wire
    BY <1>11 DEF Repost, Drained, TimesOut, provider
  <2>2. \/ round'[p] = round[p] /\ StepsLeft(p)' < StepsLeft(p)
        \/ round'[p] = round[p] + 1 /\ StepsLeft(p)' <= 12
    BY <1>11 DEF Repost, Drained, TimesOut, NextRound, Goto, StepsLeft, IInv, Ranges, Ends
  <2>3. StepsLeft(p)' \in Nat
    BY DEF StepsLeft, Ends
  <2>4. Work(p)' < Work(p) /\ Work(p)' \in Int
    BY <1>3, <1>4, <2>1, <2>2, <2>3, Numbers, RoundsPositive DEF Work
  <2>5. ~Send(p)
    BY <1>11 DEF Repost, Drained, TimesOut, Send
  <2> QED
    BY <1>7, <2>4, <2>5
<1> QED
  BY <1>6, <1>8, <1>9, <1>10, <1>11 DEF Program

\* run_ping_pong of both programs and the provider: every step but a poll that finds
\* nothing uses up some of a number that the rounds bound, so that neither program can go
\* on for ever in any other way than by polling an empty JFC.
THEOREM BoundedWork == Spec => [](WorkLeft \in Nat) /\ [][Descends]_vars
<1>1. IInv /\ IInv' /\ [Next]_vars => [Descends]_vars
  <2>1. ASSUME IInv, IInv', Next PROVE Descends
    BY <2>1, NetworkShrinks, ProgramShrinks DEF Next, Network, Descends
  <2> QED
    BY <2>1
<1> QED
  BY <1>1, Counting, WorkNumber, PTL DEF Spec

\* The number to start with is linear in the rounds.
THEOREM WorkAtFirst == Init => WorkLeft = 40 * Rounds + 24
  BY RoundsPositive DEF Init, WorkLeft, Work, StepsLeft, Confirming, Ends

=============================================================================
