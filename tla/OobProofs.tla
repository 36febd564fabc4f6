---- MODULE OobProofs ----
(***************************************************************************)
(* Proofs about OobHandshake for every set of transports and every fault:  *)
(* the types, with at most one frame under way in each direction; that a   *)
(* side that may send has a peer that can receive; that the child is never *)
(* ready alone, and never left behind by a parent that is; that every      *)
(* frame meets the step that expects it; that no side waits in vain; and   *)
(* that the two are through after a bounded number of steps.               *)
(*                                                                         *)
(* The argument relates the positions of the two sides: each frame that is *)
(* read bounds the position of its sender from below.                      *)
(***************************************************************************)
EXTENDS OobHandshake, SequenceTheorems, TLAPS

-----------------------------------------------------------------------------
\* The steps by their numbers.
LEMMA Tables ==
  /\ Len(Steps["child"]) = 9 /\ Len(Steps["parent"]) = 9
  /\ Steps["child"][1] = "Export" /\ Steps["child"][2] = "SendHello"
  /\ Steps["child"][3] = "ReadHelloAck" /\ Steps["child"][4] = "Import"
  /\ Steps["child"][5] = "Bind" /\ Steps["child"][6] = "RecvReady"
  /\ Steps["child"][7] = "SendReady" /\ Steps["child"][8] = "ReadReadyAck"
  /\ Steps["child"][9] = "MarkReady"
  /\ Steps["parent"][1] = "ReadHello" /\ Steps["parent"][2] = "Export"
  /\ Steps["parent"][3] = "Import" /\ Steps["parent"][4] = "Bind"
  /\ Steps["parent"][5] = "RecvReady" /\ Steps["parent"][6] = "SendHelloAck"
  /\ Steps["parent"][7] = "ReadReady" /\ Steps["parent"][8] = "SendReadyAck"
  /\ Steps["parent"][9] = "MarkReady"
  BY DEF Steps, Ends, ChildSteps, ParentSteps

\* The frames by their steps.
LEMMA FrameTables ==
  /\ DOMAIN Reads = {"ReadHello", "ReadHelloAck", "ReadReady", "ReadReadyAck"}
  /\ Reads["ReadHello"] = "HELLO" /\ Reads["ReadHelloAck"] = "HELLO_ACK"
  /\ Reads["ReadReady"] = "READY" /\ Reads["ReadReadyAck"] = "READY_ACK"
  /\ DOMAIN Sends = {"SendHello", "SendHelloAck", "SendReady", "SendReadyAck"}
  /\ Sends["SendHello"] = "HELLO" /\ Sends["SendHelloAck"] = "HELLO_ACK"
  /\ Sends["SendReady"] = "READY" /\ Sends["SendReadyAck"] = "READY_ACK"
  BY DEF Reads, Sends

\* The ends.
LEMMA TwoEnds ==
  Ends = {"parent", "child"} /\ Peer("parent") = "child" /\ Peer("child") = "parent"
  BY DEF Ends, Peer

Positions == pc \in [Ends -> 0 .. 10]

\* Where each side stands, in numbers.
LEMMA ChildAt ==
  ASSUME Positions
  PROVE  /\ InHandshake("child") <=> pc["child"] \in 1 .. 9
         /\ Finished("child") <=> pc["child"] = 10
         /\ At("child", "Export") => pc["child"] = 1
         /\ At("child", "Import") => pc["child"] = 4
         /\ At("child", "Bind") => pc["child"] = 5
         /\ At("child", "RecvReady") => pc["child"] = 6
         /\ At("child", "MarkReady") <=> pc["child"] = 9
         /\ Reading("child") <=> pc["child"] \in {3, 8}
         /\ InHandshake("child") /\ Steps["child"][pc["child"]] \in DOMAIN Sends
              => pc["child"] \in {2, 7}
<1>1. pc["child"] \in 0 .. 10
  BY TwoEnds DEF Positions
<1>2. InHandshake("child") <=> pc["child"] \in 1 .. 9
  BY <1>1, Tables DEF InHandshake
<1>3. Finished("child") <=> pc["child"] = 10
  BY <1>1, Tables DEF Finished
<1>4. CASE pc["child"] \in 1 .. 9
  <2>1. \/ pc["child"] = 1 \/ pc["child"] = 2 \/ pc["child"] = 3
        \/ pc["child"] = 4 \/ pc["child"] = 5 \/ pc["child"] = 6
        \/ pc["child"] = 7 \/ pc["child"] = 8 \/ pc["child"] = 9
    BY <1>4
  <2> QED
    BY <1>2, <1>3, <1>4, <2>1, Tables, FrameTables DEF At, Reading
<1>5. CASE pc["child"] \notin 1 .. 9
  BY <1>2, <1>3, <1>5 DEF At, Reading
<1> QED
  BY <1>4, <1>5

\* The same of the parent.
LEMMA ParentAt ==
  ASSUME Positions
  PROVE  /\ InHandshake("parent") <=> pc["parent"] \in 1 .. 9
         /\ Finished("parent") <=> pc["parent"] = 10
         /\ At("parent", "Export") => pc["parent"] = 2
         /\ At("parent", "Import") => pc["parent"] = 3
         /\ At("parent", "Bind") => pc["parent"] = 4
         /\ At("parent", "RecvReady") => pc["parent"] = 5
         /\ At("parent", "MarkReady") <=> pc["parent"] = 9
         /\ Reading("parent") <=> pc["parent"] \in {1, 7}
         /\ InHandshake("parent") /\ Steps["parent"][pc["parent"]] \in DOMAIN Sends
              => pc["parent"] \in {6, 8}
<1>1. pc["parent"] \in 0 .. 10
  BY TwoEnds DEF Positions
<1>2. InHandshake("parent") <=> pc["parent"] \in 1 .. 9
  BY <1>1, Tables DEF InHandshake
<1>3. Finished("parent") <=> pc["parent"] = 10
  BY <1>1, Tables DEF Finished
<1>4. CASE pc["parent"] \in 1 .. 9
  <2>1. \/ pc["parent"] = 1 \/ pc["parent"] = 2 \/ pc["parent"] = 3
        \/ pc["parent"] = 4 \/ pc["parent"] = 5 \/ pc["parent"] = 6
        \/ pc["parent"] = 7 \/ pc["parent"] = 8 \/ pc["parent"] = 9
    BY <1>4
  <2> QED
    BY <1>2, <1>3, <1>4, <2>1, Tables, FrameTables DEF At, Reading
<1>5. CASE pc["parent"] \notin 1 .. 9
  BY <1>2, <1>3, <1>5 DEF At, Reading
<1> QED
  BY <1>4, <1>5
-----------------------------------------------------------------------------
\* What a side has done when it stands at a position; b is the position of Bind, with
\* Import before it and RecvReady after it.
Local(p, b) ==
  /\ pc[p] \in 1 .. b => state[p] \in Unbound /\ rx[p] = 0
  /\ pc[p] = b + 1 => state[p] = "Bound" /\ rx[p] = 0
  /\ pc[p] \in b + 2 .. 9 => state[p] = "Bound" /\ rx[p] = 1
  /\ pc[p] = 10 => (state[p] = "Ready" /\ rx[p] = 1) \/ state[p] = "Closed"
  /\ pc[p] = 0 => state[p] \in {"Failed", "Closed"}
  /\ pc[p] >= b => transport[p] \notin Unusable

\* How far apart the two can be.
Abreast ==
  /\ pc["parent"] >= 2 => pc["child"] = 0 \/ pc["child"] >= 3
  /\ pc["child"] >= 4 => pc["parent"] = 0 \/ pc["parent"] >= 7
  /\ pc["parent"] >= 8 => pc["child"] = 0 \/ pc["child"] >= 8
  /\ pc["child"] >= 9 => pc["parent"] >= 9
  /\ pc["parent"] >= 2 \/ pc["child"] >= 4 => transport["parent"] = transport["child"]

\* The one frame that can be on its way to each side, and where the two then are.
ToParent(f) ==
  /\ f.transport = transport["child"]
  /\ \/ f.type = "HELLO" /\ pc["parent"] \in {0, 1} /\ pc["child"] \in {0, 3}
     \/ f.type = "READY" /\ pc["parent"] \in {0, 7} /\ pc["child"] \in {0, 8}
ToChild(f) ==
  /\ f.transport = transport["parent"]
  /\ \/ f.type = "HELLO_ACK" /\ pc["child"] \in {0, 3} /\ pc["parent"] \in {0, 7}
     \/ f.type = "READY_ACK" /\ pc["child"] \in {0, 8} /\ pc["parent"] \in {9, 10}

Inboxes ==
  /\ wire["parent"] = <<>> \/ \E f \in Frames : wire["parent"] = <<f>> /\ ToParent(f)
  /\ wire["child"] = <<>> \/ \E f \in Frames : wire["child"] = <<f>> /\ ToChild(f)
  /\ wire["parent"] = <<>> \/ wire["child"] = <<>>

Ranges ==
  /\ transport \in [Ends -> Transports] /\ peerType \in [Ends -> Transports]
  /\ Positions
  /\ state \in [Ends -> States]
  /\ rx \in [Ends -> 0 .. 1]
  /\ wire \in [Ends -> Seq(Frames)]
  /\ open \in [Ends -> BOOLEAN] /\ reset \in {"nobody", "end", "network"}

IInv ==
  /\ Ranges
  /\ Local("child", 5) /\ Local("parent", 4)
  /\ Abreast
  /\ Inboxes

\* It holds at the start.
LEMMA Starts == Init => IInv
<1> SUFFICES ASSUME Init PROVE IInv
  OBVIOUS
<1>1. Ranges
  BY TwoEnds DEF Init, Ranges, Positions, States
<1>2. pc["child"] = 1 /\ pc["parent"] = 1 /\ rx["child"] = 0 /\ rx["parent"] = 0
  BY TwoEnds DEF Init
<1>3. state["child"] = "JettyCreated" /\ state["parent"] = "JettyCreated"
  BY TwoEnds DEF Init
<1>4. Local("child", 5) /\ Local("parent", 4) /\ Abreast
  BY <1>2, <1>3 DEF Local, Abreast, Unbound
<1>5. Inboxes
  BY TwoEnds DEF Init, Inboxes
<1> QED
  BY <1>1, <1>4, <1>5 DEF IInv

\* What the invariant says of the positions, as numbers.
LEMMA Numbers ==
  ASSUME Ranges
  PROVE  /\ pc["child"] \in 0 .. 10 /\ pc["parent"] \in 0 .. 10
         /\ rx["child"] \in 0 .. 1 /\ rx["parent"] \in 0 .. 1
         /\ pc["child"] \in Int /\ pc["parent"] \in Int
  BY TwoEnds DEF Ranges, Positions

\* An end of the handshake with an error keeps the invariant, wherever it may happen:
\* a parent at MarkReady has nothing left to fail at.
LEMMA FailKeeps ==
  ASSUME IInv, NEW p \in Ends, Fails(p),
         wire' = wire \/ wire' = [wire EXCEPT ![p] = <<>>],
         p = "parent" => pc["parent"] # 9
  PROVE  IInv'
<1> USE TwoEnds
<1>r. Ranges
  BY DEF IInv
<1>n. pc["child"] \in 0 .. 10 /\ pc["parent"] \in 0 .. 10
  BY <1>r, Numbers
<1>1. /\ pc' = [pc EXCEPT ![p] = 0] /\ state' = [state EXCEPT ![p] = "Failed"]
      /\ transport' = transport /\ peerType' = peerType /\ rx' = rx
      /\ open' = [open EXCEPT ![p] = FALSE]
      /\ reset' \in {reset, "end"}
  BY DEF Fails, Becomes, Closes, ResetByEnd
<1>2. InHandshake(p)
  BY DEF Fails
<1>3. Ranges'
  <2>e. <<>> \in Seq(Frames)
    BY EmptySeq
  <2>1. wire' \in [Ends -> Seq(Frames)]
    <3>1. CASE wire' = wire
      BY <1>r, <3>1 DEF Ranges
    <3>2. CASE wire' = [wire EXCEPT ![p] = <<>>]
      <4> DEFINE S == Seq(Frames)
      <4>1. wire \in [Ends -> S] /\ <<>> \in S
        BY <1>r, <2>e DEF Ranges
      <4> HIDE DEF S
      <4>2. wire' \in [Ends -> S]
        BY <3>2, <4>1
      <4> QED
        BY <4>2 DEF S
    <3> QED
      BY <3>1, <3>2
  <2>2. pc' \in [Ends -> 0 .. 10]
    BY <1>r, <1>1 DEF Ranges, Positions
  <2>3. state' \in [Ends -> States]
    BY <1>r, <1>1 DEF Ranges, States
  <2>4. open' \in [Ends -> BOOLEAN]
    BY <1>r, <1>1, Zenon DEF Ranges
  <2> QED
    BY <1>r, <1>1, <2>1, <2>2, <2>3, <2>4 DEF Ranges, Positions
<1>4. pc[p] \in 1 .. 9
  BY <1>r, <1>2, ChildAt, ParentAt DEF Ranges
<1>5. Local("child", 5)' /\ Local("parent", 4)'
  BY <1>r, <1>n, <1>1 DEF IInv, Local, Ranges, Positions
<1>6. Abreast'
  BY <1>r, <1>n, <1>1, <1>4 DEF IInv, Abreast, Ranges, Positions
<1>7. Inboxes'
  <2>1. /\ wire'["parent"] \in {wire["parent"], <<>>}
        /\ wire'["child"] \in {wire["child"], <<>>}
    BY <1>r DEF Ranges
  <2>2. ASSUME NEW f \in Frames, ToParent(f) PROVE ToParent(f)'
    BY <1>r, <1>n, <1>1, <1>4, <2>2 DEF ToParent, Ranges, Positions
  <2>3. ASSUME NEW f \in Frames, ToChild(f) PROVE ToChild(f)'
    BY <1>r, <1>n, <1>1, <1>4, <2>3 DEF ToChild, Ranges, Positions
  <2> QED
    BY <2>1, <2>2, <2>3 DEF IInv, Inboxes
<1> QED
  BY <1>3, <1>5, <1>6, <1>7 DEF IInv

\* The operations of the connection keep it.  None of them is a step that another side
\* waits for, so the positions stay as far apart as they were allowed to be.
LocalActs(p) == Export(p) \/ Import(p) \/ Bind(p) \/ RecvReady(p) \/ MarkReady(p)

LEMMA LocalKeeps ==
  ASSUME IInv, NEW p \in Ends, LocalActs(p)
  PROVE  IInv'
<1> USE TwoEnds
<1>r. Ranges
  BY DEF IInv
<1>n. pc["child"] \in 0 .. 10 /\ pc["parent"] \in 0 .. 10
  BY <1>r, Numbers
<1>1. /\ pc' = [pc EXCEPT ![p] = @ + 1] /\ transport' = transport /\ peerType' = peerType
      /\ wire' = wire /\ open' = open /\ reset' = reset
  BY DEF LocalActs, Export, Import, Bind, RecvReady, MarkReady, LocalStep, Advance
<1>2. /\ state[p] \in States
      /\ state' = [state EXCEPT ![p] = state'[p]] /\ state'[p] \in States
      /\ rx' = [rx EXCEPT ![p] = rx'[p]]
  <2>1. CASE Export(p)
    BY <1>r, <2>1 DEF Export, LocalStep, Becomes, Ranges, States
  <2>2. CASE Import(p)
    BY <1>r, <2>2 DEF Import, LocalStep, Becomes, Ranges, States
  <2>3. CASE Bind(p)
    BY <1>r, <2>3 DEF Bind, LocalStep, Becomes, Ranges, States
  <2>4. CASE RecvReady(p)
    BY <1>r, <2>4 DEF RecvReady, LocalStep, Becomes, Ranges, States
  <2>5. CASE MarkReady(p)
    BY <1>r, <2>5 DEF MarkReady, LocalStep, Becomes, Ranges, States
  <2> QED
    BY <2>1, <2>2, <2>3, <2>4, <2>5 DEF LocalActs
<1>3. ASSUME NEW b \in {4, 5}, Local(p, b), pc[p] \in 0 .. 10,
             At(p, "Export") => pc[p] < b - 1, At(p, "Import") => pc[p] = b - 1,
             At(p, "Bind") => pc[p] = b, At(p, "RecvReady") => pc[p] = b + 1,
             At(p, "MarkReady") => pc[p] = 9, InHandshake(p) => pc[p] \in 1 .. 9
      PROVE  Local(p, b)' /\ rx'[p] \in 0 .. 1 /\ pc[p] \in 1 .. 9
  <2>0. pc'[p] = pc[p] + 1 /\ transport'[p] = transport[p]
    BY <1>r, <1>1 DEF Ranges, Positions
  <2>1. CASE Export(p)
    BY <1>3, <1>r, <2>0, <2>1
      DEF Export, LocalStep, Becomes, At, Ranges, Local, Unbound
  <2>2. CASE Import(p)
    BY <1>3, <1>r, <2>0, <2>2
      DEF Import, LocalStep, Becomes, At, Ranges, Local, Unbound
  <2>3. CASE Bind(p)
    BY <1>3, <1>r, <2>0, <2>3
      DEF Bind, LocalStep, Becomes, At, Ranges, Local, Unbound
  <2>4. CASE RecvReady(p)
    BY <1>3, <1>r, <2>0, <2>4
      DEF RecvReady, LocalStep, Becomes, At, Ranges, Local, Unbound
  <2>5. CASE MarkReady(p)
    BY <1>3, <1>r, <2>0, <2>5
      DEF MarkReady, LocalStep, Becomes, At, Ranges, Local, Unbound
  <2> QED
    BY <2>1, <2>2, <2>3, <2>4, <2>5 DEF LocalActs
<1>c. CASE p = "child"
  <2>1. /\ Local("child", 5)' /\ rx'["child"] \in 0 .. 1 /\ pc["child"] \in 1 .. 9
    BY <1>c, <1>3, <1>r, <1>n, ChildAt DEF IInv, Ranges
  <2>2. pc["child"] \in {1, 4, 5, 6, 9}
    BY <1>c, <1>r, ChildAt DEF LocalActs, Export, Import, Bind, RecvReady, MarkReady,
      LocalStep, Ranges
  <2>3. /\ pc'["child"] = pc["child"] + 1 /\ pc'["parent"] = pc["parent"]
        /\ state'["parent"] = state["parent"] /\ rx'["parent"] = rx["parent"]
    BY <1>c, <1>r, <1>1, <1>2 DEF Ranges, Positions
  <2>4. Local("parent", 4)'
    BY <1>1, <2>3 DEF IInv, Local
  <2>5. Abreast'
    BY <1>1, <1>n, <2>2, <2>3 DEF IInv, Abreast
  <2>6. Inboxes'
    <3>1. \A f \in Frames : ToParent(f) => ToParent(f)'
      BY <1>1, <1>n, <2>2, <2>3 DEF ToParent
    <3>2. \A f \in Frames : ToChild(f) => ToChild(f)'
      BY <1>1, <1>n, <2>2, <2>3 DEF ToChild
    <3> QED
      BY <1>1, <3>1, <3>2 DEF IInv, Inboxes
  <2>7. Ranges'
    <3>1. pc' \in [Ends -> 0 .. 10]
      BY <1>c, <1>r, <1>1, <1>n, <2>2 DEF Ranges, Positions
    <3>2. state' \in [Ends -> States]
      BY <1>r, <1>2 DEF Ranges
    <3>3. rx' \in [Ends -> 0 .. 1]
      BY <1>c, <1>r, <1>2, <2>1 DEF Ranges
    <3> QED
      BY <1>r, <1>1, <3>1, <3>2, <3>3 DEF Ranges, Positions
  <2> QED
    BY <2>1, <2>4, <2>5, <2>6, <2>7 DEF IInv
<1>p. CASE p = "parent"
  <2>1. /\ Local("parent", 4)' /\ rx'["parent"] \in 0 .. 1 /\ pc["parent"] \in 1 .. 9
    BY <1>p, <1>3, <1>r, <1>n, ParentAt DEF IInv, Ranges
  <2>2. pc["parent"] \in {2, 3, 4, 5, 9}
    BY <1>p, <1>r, ParentAt DEF LocalActs, Export, Import, Bind, RecvReady, MarkReady,
      LocalStep, Ranges
  <2>3. /\ pc'["parent"] = pc["parent"] + 1 /\ pc'["child"] = pc["child"]
        /\ state'["child"] = state["child"] /\ rx'["child"] = rx["child"]
    BY <1>p, <1>r, <1>1, <1>2 DEF Ranges, Positions
  <2>4. Local("child", 5)'
    BY <1>1, <2>3 DEF IInv, Local
  <2>5. Abreast'
    BY <1>1, <1>n, <2>2, <2>3 DEF IInv, Abreast
  <2>6. Inboxes'
    <3>1. \A f \in Frames : ToParent(f) => ToParent(f)'
      BY <1>1, <1>n, <2>2, <2>3 DEF ToParent
    <3>2. \A f \in Frames : ToChild(f) => ToChild(f)'
      BY <1>1, <1>n, <2>2, <2>3 DEF ToChild
    <3> QED
      BY <1>1, <3>1, <3>2 DEF IInv, Inboxes
  <2>7. Ranges'
    <3>1. pc' \in [Ends -> 0 .. 10]
      BY <1>p, <1>r, <1>1, <1>n, <2>2 DEF Ranges, Positions
    <3>2. state' \in [Ends -> States]
      BY <1>r, <1>2 DEF Ranges
    <3>3. rx' \in [Ends -> 0 .. 1]
      BY <1>p, <1>r, <1>2, <2>1 DEF Ranges
    <3> QED
      BY <1>r, <1>1, <3>1, <3>2, <3>3 DEF Ranges, Positions
  <2> QED
    BY <2>1, <2>4, <2>5, <2>6, <2>7 DEF IInv
<1> QED
  BY <1>c, <1>p

\* The end of a process and a reset of the stream move no position.
LEMMA RestKeeps ==
  ASSUME IInv, Reset \/ \E p \in Ends : Exit(p)
  PROVE  IInv'
<1> USE TwoEnds
<1>r. Ranges
  BY DEF IInv
<1>1. CASE Reset
  <2>1. Ranges'
    BY <1>r, <1>1 DEF Reset, Ranges, Positions
  <2> QED
    BY <1>1, <2>1 DEF Reset, IInv, Local, Abreast, Inboxes, ToParent, ToChild
<1>2. ASSUME NEW p \in Ends, Exit(p) PROVE IInv'
  <2>1. /\ transport' = transport /\ pc' = pc /\ peerType' = peerType /\ wire' = wire
        /\ pc[p] = 0 \/ Finished(p)
        /\ state' = [state EXCEPT ![p] = "Closed"] /\ rx' = [rx EXCEPT ![p] = 0]
        /\ open' = [open EXCEPT ![p] = FALSE] /\ reset' \in {reset, "end"}
    BY <1>2 DEF Exit, Becomes, Closes, ResetByEnd
  <2>2. pc[p] \in {0, 10}
    BY <1>r, <2>1, ChildAt, ParentAt DEF Ranges
  <2>3. Ranges'
    <3>1. state' \in [Ends -> States]
      BY <1>r, <2>1 DEF Ranges, States
    <3>2. open' \in [Ends -> BOOLEAN]
      BY <1>r, <2>1, Zenon DEF Ranges
    <3>3. rx' \in [Ends -> 0 .. 1]
      BY <1>r, <2>1 DEF Ranges
    <3> QED
      BY <1>r, <2>1, <3>1, <3>2, <3>3 DEF Ranges, Positions
  <2>4. Local("child", 5)' /\ Local("parent", 4)'
    BY <1>r, <2>1, <2>2 DEF IInv, Local, Ranges, Positions
  <2> QED
    BY <2>1, <2>3, <2>4 DEF IInv, Abreast, Inboxes, ToParent, ToChild
<1> QED
  BY <1>1, <1>2

\* The position of a reader and of a writer.
LEMMA FrameSteps ==
  ASSUME Ranges
  PROVE  /\ Reading("child") => pc["child"] \in {3, 8}
         /\ Reading("parent") => pc["parent"] \in {1, 7}
         /\ \A p \in Ends : Write(p) \/ WriteFails(p) =>
              pc[p] \in IF p = "child" THEN {2, 7} ELSE {6, 8}
  BY TwoEnds, ChildAt, ParentAt DEF Ranges, Write, WriteFails

\* Every error of a step meets FailKeeps.
LEMMA ErrorKeeps ==
  ASSUME IInv, NEW p \in Ends, ReadFails(p) \/ WriteFails(p) \/ StepFails(p)
  PROVE  IInv'
<1>r. Ranges
  BY DEF IInv
<1>1. Fails(p) /\ wire' = wire
  BY DEF ReadFails, WriteFails, StepFails
<1>2. ASSUME p = "parent", pc["parent"] = 9 PROVE FALSE
  <2>1. CASE ReadFails(p)
    BY <1>r, <1>2, <2>1, FrameSteps DEF ReadFails
  <2>2. CASE WriteFails(p)
    BY <1>r, <1>2, <2>2, FrameSteps, TwoEnds
  <2>3. CASE StepFails(p)
    <3>1. state["parent"] = "Bound"
      BY <1>2 DEF IInv, Local
    <3> QED
      BY <1>r, <1>2, <2>3, <3>1, ParentAt DEF StepFails, Refused, NativeSteps, Ranges
  <2> QED
    BY <2>1, <2>2, <2>3
<1> QED
  BY <1>1, <1>2, FailKeeps

\* A frame that is read was the only one, and says where its sender stood.
LEMMA ReadKeeps ==
  ASSUME IInv, NEW p \in Ends, Read(p)
  PROVE  IInv'
<1> USE TwoEnds
<1>r. Ranges
  BY DEF IInv
<1>n. pc["child"] \in 0 .. 10 /\ pc["parent"] \in 0 .. 10
  BY <1>r, Numbers
<1>0. PICK f \in Frames : wire[p] = <<f>> /\ (IF p = "child" THEN ToChild(f) ELSE ToParent(f))
  BY DEF IInv, Inboxes, Read
<1>1. /\ Head(wire[p]) = f /\ Tail(wire[p]) = <<>>
  BY <1>0
<1>2. wire' = [wire EXCEPT ![p] = <<>>] /\ Reading(p)
  BY <1>1 DEF Read
<1>3. wire'["child"] = <<>> /\ wire'["parent"] = <<>>
  BY <1>0, <1>2, <1>r DEF IInv, Inboxes, Ranges
<1>4. CASE Accepts(p, f)
  <2>1. /\ peerType' = [peerType EXCEPT ![p] = f.transport]
        /\ pc' = [pc EXCEPT ![p] = @ + 1]
        /\ transport' = transport /\ state' = state /\ rx' = rx /\ open' = open
        /\ reset' = reset
    BY <1>1, <1>4 DEF Read, Advance
  <2>2. f.type \in {"HELLO", "HELLO_ACK"} => f.transport = transport[p]
    BY <1>4 DEF Accepts
  <2>3. Ranges'
    <3>1. wire' \in [Ends -> Seq(Frames)]
      <4> DEFINE S == Seq(Frames)
      <4>1. wire \in [Ends -> S] /\ <<>> \in S
        BY <1>r, EmptySeq DEF Ranges
      <4> HIDE DEF S
      <4>2. wire' \in [Ends -> S]
        BY <1>2, <4>1
      <4> QED
        BY <4>2 DEF S
    <3>2. f.transport \in Transports
      BY DEF Frames
    <3>3. peerType' \in [Ends -> Transports]
      BY <1>r, <2>1, <3>2 DEF Ranges
    <3>4. pc[p] \in 1 .. 9
      BY <1>r, <1>2, FrameSteps
    <3>5. pc' \in [Ends -> 0 .. 10]
      BY <1>r, <1>n, <2>1, <3>4 DEF Ranges, Positions
    <3> QED
      BY <1>r, <2>1, <3>1, <3>3, <3>5 DEF Ranges, Positions
  <2>4. Inboxes'
    BY <1>3 DEF Inboxes
  <2>c. CASE p = "child"
    <3>1. pc["child"] \in {3, 8} /\ ToChild(f)
      BY <1>0, <1>2, <1>r, <2>c, FrameSteps
    <3>2. pc'["child"] = pc["child"] + 1 /\ pc'["parent"] = pc["parent"]
      BY <1>r, <2>1, <2>c DEF Ranges, Positions
    <3>3. Local("child", 5)' /\ Local("parent", 4)'
      BY <1>n, <2>1, <3>1, <3>2 DEF IInv, Local
    <3>4. Abreast'
      BY <1>n, <2>1, <2>2, <2>c, <3>1, <3>2 DEF IInv, Abreast, ToChild
    <3> QED
      BY <2>3, <2>4, <3>3, <3>4 DEF IInv
  <2>p. CASE p = "parent"
    <3>1. pc["parent"] \in {1, 7} /\ ToParent(f)
      BY <1>0, <1>2, <1>r, <2>p, FrameSteps
    <3>2. pc'["parent"] = pc["parent"] + 1 /\ pc'["child"] = pc["child"]
      BY <1>r, <2>1, <2>p DEF Ranges, Positions
    <3>3. Local("child", 5)' /\ Local("parent", 4)'
      BY <1>n, <2>1, <3>1, <3>2 DEF IInv, Local
    <3>4. Abreast'
      BY <1>n, <2>1, <2>2, <2>p, <3>1, <3>2 DEF IInv, Abreast, ToParent
    <3> QED
      BY <2>3, <2>4, <3>3, <3>4 DEF IInv
  <2> QED
    BY <2>c, <2>p
<1>5. CASE ~Accepts(p, f)
  <2>1. Fails(p)
    BY <1>1, <1>5 DEF Read
  <2>2. p = "parent" => pc["parent"] # 9
    BY <1>2, <1>r, FrameSteps
  <2> QED
    BY <1>2, <2>1, <2>2, FailKeeps
<1> QED
  BY <1>4, <1>5

\* A frame that is written finds both directions empty.
LEMMA WriteKeeps ==
  ASSUME IInv, NEW p \in Ends, Write(p)
  PROVE  IInv'
<1> USE TwoEnds
<1>r. Ranges
  BY DEF IInv
<1>n. pc["child"] \in 0 .. 10 /\ pc["parent"] \in 0 .. 10
  BY <1>r, Numbers
<1>1. pc[p] \in IF p = "child" THEN {2, 7} ELSE {6, 8}
  BY <1>r, FrameSteps
<1>2. wire["child"] = <<>> /\ wire["parent"] = <<>>
  BY <1>n, <1>1 DEF IInv, Inboxes, Abreast, ToParent, ToChild
<1>3. /\ pc' = [pc EXCEPT ![p] = @ + 1]
      /\ transport' = transport /\ state' = state /\ rx' = rx /\ open' = open
      /\ peerType' = peerType /\ reset' \in {reset, "end"}
  BY DEF Write, Advance, ResetByEnd
<1> DEFINE Type == Sends[Steps[p][pc[p]]]
<1>4. /\ p = "child" /\ pc[p] = 2 => Type = "HELLO"
      /\ p = "child" /\ pc[p] = 7 => Type = "READY"
      /\ p = "parent" /\ pc[p] = 6 => Type = "HELLO_ACK"
      /\ p = "parent" /\ pc[p] = 8 => Type = "READY_ACK"
  BY Tables, FrameTables
<1>5. Type \in {"HELLO", "HELLO_ACK", "READY", "READY_ACK"}
  BY <1>1, <1>4
<1>6. \/ wire' = wire
      \/ \E f \in Frames : /\ f.type = Type /\ f.transport = transport[p]
                           /\ wire' = [wire EXCEPT ![Peer(p)] = <<f>>]
  <2>1. CASE Gone(p)
    BY <2>1 DEF Write
  <2>2. CASE ~Gone(p)
    <3>1. PICK f \in FramesOf(p, Type) : wire' = [wire EXCEPT ![Peer(p)] = Append(@, f)]
      BY <2>2 DEF Write
    <3> HIDE DEF Type
    <3>2. PICK v \in BOOLEAN : f = [type |-> Type, transport |-> transport[p], valid |-> v]
      BY DEF FramesOf
    <3>3. transport[p] \in Transports
      BY <1>r DEF Ranges
    <3>4. f \in Frames /\ f.type = Type /\ f.transport = transport[p]
      BY <1>5, <3>2, <3>3 DEF Frames
    <3>5. wire[Peer(p)] = <<>> /\ wire[Peer(p)] \in Seq(Frames)
      BY <1>2, <1>r DEF Ranges
    <3>6. Append(wire[Peer(p)], f) = <<f>>
      BY <3>5
    <3> QED
      BY <3>1, <3>4, <3>6
  <2> QED
    BY <2>1, <2>2
<1> HIDE DEF Type
<1>7. Ranges'
  <2>1. wire' \in [Ends -> Seq(Frames)]
    <3>1. CASE wire' = wire
      BY <1>r, <3>1 DEF Ranges
    <3>2. ASSUME NEW f \in Frames, wire' = [wire EXCEPT ![Peer(p)] = <<f>>]
          PROVE  wire' \in [Ends -> Seq(Frames)]
      <4> DEFINE S == Seq(Frames)
      <4>1. wire \in [Ends -> S] /\ <<f>> \in S
        BY <1>r DEF Ranges
      <4> HIDE DEF S
      <4>2. wire' \in [Ends -> S]
        BY <3>2, <4>1
      <4> QED
        BY <4>2 DEF S
    <3> QED
      BY <1>6, <3>1, <3>2
  <2>2. pc' \in [Ends -> 0 .. 10]
    BY <1>r, <1>n, <1>1, <1>3 DEF Ranges, Positions
  <2> QED
    BY <1>r, <1>3, <2>1, <2>2 DEF Ranges, Positions
<1>c. CASE p = "child"
  <2>1. pc'["child"] = pc["child"] + 1 /\ pc'["parent"] = pc["parent"]
    BY <1>r, <1>3, <1>c DEF Ranges, Positions
  <2>2. Local("child", 5)' /\ Local("parent", 4)'
    BY <1>1, <1>3, <1>c, <1>n, <2>1 DEF IInv, Local
  <2>3. Abreast'
    BY <1>1, <1>3, <1>c, <1>n, <2>1 DEF IInv, Abreast
  <2>4. wire'["child"] = <<>>
    BY <1>2, <1>6, <1>c, <1>r DEF Ranges
  <2>5. \A f \in Frames : f.type = Type /\ f.transport = transport[p] => ToParent(f)'
    BY <1>1, <1>3, <1>4, <1>c, <1>n, <2>1 DEF IInv, Abreast, ToParent
  <2>6. wire'["parent"] = <<>> \/ \E f \in Frames : wire'["parent"] = <<f>> /\ ToParent(f)'
    BY <1>2, <1>6, <1>c, <1>r, <2>5 DEF Ranges
  <2> QED
    BY <1>7, <2>2, <2>3, <2>4, <2>6 DEF IInv, Inboxes
<1>p. CASE p = "parent"
  <2>1. pc'["parent"] = pc["parent"] + 1 /\ pc'["child"] = pc["child"]
    BY <1>r, <1>3, <1>p DEF Ranges, Positions
  <2>2. Local("child", 5)' /\ Local("parent", 4)'
    BY <1>1, <1>3, <1>p, <1>n, <2>1 DEF IInv, Local
  <2>3. Abreast'
    BY <1>1, <1>3, <1>p, <1>n, <2>1 DEF IInv, Abreast
  <2>4. wire'["parent"] = <<>>
    BY <1>2, <1>6, <1>p, <1>r DEF Ranges
  <2>5. \A f \in Frames : f.type = Type /\ f.transport = transport[p] => ToChild(f)'
    BY <1>1, <1>3, <1>4, <1>p, <1>n, <2>1 DEF IInv, Abreast, ToChild
  <2>6. wire'["child"] = <<>> \/ \E f \in Frames : wire'["child"] = <<f>> /\ ToChild(f)'
    BY <1>2, <1>6, <1>p, <1>r, <2>5 DEF Ranges
  <2> QED
    BY <1>7, <2>2, <2>3, <2>4, <2>6 DEF IInv, Inboxes
<1> QED
  BY <1>c, <1>p

\* The invariant is inductive.
LEMMA StepKeeps ==
  ASSUME IInv, [Next]_vars
  PROVE  IInv'
<1>1. ASSUME NEW p \in Ends, Handshake(p) PROVE IInv'
  BY <1>1, ReadKeeps, WriteKeeps, ErrorKeeps, LocalKeeps DEF Handshake, LocalActs
<1>2. CASE Reset \/ \E p \in Ends : Exit(p)
  BY <1>2, RestKeeps
<1>3. CASE UNCHANGED vars
  <2>1. Ranges'
    BY <1>3 DEF IInv, Ranges, Positions, vars
  <2> QED
    BY <1>3, <2>1 DEF IInv, Local, Abreast, Inboxes, ToParent, ToChild, vars
<1> QED
  BY <1>1, <1>2, <1>3 DEF Next

\* It holds of every behaviour.
LEMMA Invariant == Spec => []IInv
<1>1. Init => IInv
  BY Starts
<1>2. IInv /\ [Next]_vars => IInv'
  BY StepKeeps
<1> QED
  BY <1>1, <1>2, PTL DEF Spec

-----------------------------------------------------------------------------
\* Type correctness of the two handshakes: no side posts a second RECV, and no more than
\* one frame is ever under way in each direction.
THEOREM Typed == Spec => []TypeOK
<1>1. IInv => TypeOK
  <2> SUFFICES ASSUME IInv PROVE TypeOK
    OBVIOUS
  <2>1. Ranges
    BY DEF IInv
  <2>2. \A p \in Ends : pc[p] <= Len(Steps[p]) + 1
    <3>1. pc["child"] <= 10 /\ pc["parent"] <= 10
      BY <2>1, Numbers
    <3>2. Len(Steps["child"]) + 1 = 10 /\ Len(Steps["parent"]) + 1 = 10
      BY Tables
    <3> QED
      BY <3>1, <3>2, TwoEnds
  <2>3. \A p \in Ends : Len(wire[p]) <= 1
    <3>1. Len(<<>>) = 0 /\ \A f \in Frames : Len(<<f>>) = 1
      OBVIOUS
    <3>2. \/ wire["parent"] = <<>>
          \/ \E f \in Frames : wire["parent"] = <<f>>
      BY DEF IInv, Inboxes
    <3>3. \/ wire["child"] = <<>>
          \/ \E f \in Frames : wire["child"] = <<f>>
      BY DEF IInv, Inboxes
    <3>4. Len(wire["parent"]) \in {0, 1}
      BY <3>1, <3>2, Zenon
    <3>5. Len(wire["child"]) \in {0, 1}
      BY <3>1, <3>3, Zenon
    <3>6. Len(wire["parent"]) <= 1 /\ Len(wire["child"]) <= 1
      <4>1. \A n \in {0, 1} : n <= 1
        OBVIOUS
      <4> QED
        BY <3>4, <3>5, <4>1, Zenon
    <3> QED
      BY <3>6, TwoEnds, Zenon
  <2> QED
    BY <2>1, <2>2, <2>3 DEF Ranges, Positions, TypeOK
<1> QED
  BY <1>1, Invariant, PTL

\* mark_ready: a side that may send has a peer that can receive.
THEOREM PeerIsReady == Spec => []ReadyPeer
<1>1. IInv => ReadyPeer
  <2> SUFFICES ASSUME IInv, NEW p \in Ends, state[p] = "Ready", Alive(Peer(p))
               PROVE  /\ state[Peer(p)] \in {"Bound", "Ready"} /\ rx[Peer(p)] = 1
                      /\ transport[p] = transport[Peer(p)] /\ transport[p] \notin Unusable
    BY DEF ReadyPeer
  <2>n. pc["child"] \in 0 .. 10 /\ pc["parent"] \in 0 .. 10
    BY Numbers DEF IInv
  <2>1. CASE p = "child"
    <3>1. pc["child"] = 10 /\ pc["parent"] \in {9, 10}
      BY <2>1, <2>n DEF IInv, Local, Abreast, Unbound
    <3> QED
      BY <2>1, <3>1, TwoEnds DEF IInv, Local, Abreast, Alive
  <2>2. CASE p = "parent"
    <3>1. pc["parent"] = 10 /\ pc["child"] \in {8, 9, 10}
      BY <2>2, <2>n, TwoEnds DEF IInv, Local, Abreast, Unbound, Alive
    <3> QED
      BY <2>2, <3>1, TwoEnds DEF IInv, Local, Abreast, Alive
  <2> QED
    BY <2>1, <2>2, TwoEnds
<1> QED
  BY <1>1, Invariant, PTL

\* READY_ACK is the last word: a child that has read it is not ready alone.
THEOREM NotAlone == Spec => []ReadyTogether
<1>1. IInv => ReadyTogether
  <2> SUFFICES ASSUME IInv, Finished("child")
               PROVE  Finished("parent") \/ (At("parent", "MarkReady") /\ Alive("parent"))
    BY DEF ReadyTogether
  <2>1. Positions /\ pc["parent"] \in 0 .. 10
    BY Numbers DEF IInv, Ranges
  <2>2. pc["child"] = 10
    BY <2>1, ChildAt
  <2>3. pc["parent"] \in {9, 10}
    BY <2>1, <2>2 DEF IInv, Abreast
  <2>4. pc["parent"] = 9 => state["parent"] = "Bound"
    BY DEF IInv, Local
  <2> QED
    BY <2>1, <2>3, <2>4, ParentAt DEF Alive
<1> QED
  BY <1>1, Invariant, PTL

\* expect_frame: the frame that arrives is the one its reader expects next.
THEOREM FramesMeet == Spec => []FramesInStep
<1>1. IInv => FramesInStep
  <2> SUFFICES ASSUME IInv, NEW p \in Ends, wire[p] # <<>>, Alive(p)
               PROVE  /\ InHandshake(p)
                      /\ pc[p] \in pc[p] .. Len(Steps[p])
                      /\ Steps[p][pc[p]] \in DOMAIN Reads
                      /\ Head(wire[p]).type = Reads[Steps[p][pc[p]]]
                      /\ \A j \in pc[p] .. pc[p] - 1 : Steps[p][j] \notin DOMAIN Reads
    BY DEF FramesInStep
  <2>n. Positions /\ pc["child"] \in 0 .. 10 /\ pc["parent"] \in 0 .. 10
    BY Numbers DEF IInv, Ranges
  <2>0. pc[p] # 0
    BY TwoEnds DEF IInv, Local, Alive
  <2>1. CASE p = "child"
    <3>1. PICK f \in Frames : wire["child"] = <<f>> /\ ToChild(f)
      BY <2>1 DEF IInv, Inboxes
    <3>2. \/ pc["child"] = 3 /\ f.type = "HELLO_ACK"
          \/ pc["child"] = 8 /\ f.type = "READY_ACK"
      BY <2>0, <2>1, <3>1 DEF ToChild
    <3>3. Head(wire[p]) = f
      BY <2>1, <3>1
    <3>4. /\ Steps[p][pc[p]] \in DOMAIN Reads
          /\ Head(wire[p]).type = Reads[Steps[p][pc[p]]]
      BY <2>1, <3>2, <3>3, Tables, FrameTables
    <3> QED
      BY <2>1, <2>n, <3>2, <3>4, Tables, ChildAt
  <2>2. CASE p = "parent"
    <3>1. PICK f \in Frames : wire["parent"] = <<f>> /\ ToParent(f)
      BY <2>2 DEF IInv, Inboxes
    <3>2. \/ pc["parent"] = 1 /\ f.type = "HELLO"
          \/ pc["parent"] = 7 /\ f.type = "READY"
      BY <2>0, <2>2, <3>1 DEF ToParent
    <3>3. Head(wire[p]) = f
      BY <2>2, <3>1
    <3>4. /\ Steps[p][pc[p]] \in DOMAIN Reads
          /\ Head(wire[p]).type = Reads[Steps[p][pc[p]]]
      BY <2>2, <3>2, <3>3, Tables, FrameTables
    <3> QED
      BY <2>2, <2>n, <3>2, <3>4, Tables, ParentAt
  <2> QED
    BY <2>1, <2>2, TwoEnds
<1> QED
  BY <1>1, Invariant, PTL

-----------------------------------------------------------------------------
\* Nobody waits for nothing, and a parent that is ready has a child that will be.

\* A side that can only wait: blocked in read_from on a stream that is empty and whole.
Blocked(p) == Reading(p) /\ wire[p] = <<>> /\ reset = "nobody" /\ open[Peer(p)]

\* What a blocked side waits for is still to come: its peer is in the handshake and is not
\* blocked itself.
NoStandoff == \A p \in Ends : Blocked(p) => InHandshake(Peer(p)) /\ ~Blocked(Peer(p))

\* A child whose READY the parent has taken does not fail, unless the network resets the
\* stream.
ChildSure == Finished("parent") /\ pc["child"] = 0 => reset = "network"

\* A side closes its end when it has failed or is through, and an end resets the stream
\* only over a closed one.
ClosedOver ==
  /\ \A p \in Ends : /\ pc[p] = 0 => ~open[p]
                     /\ ~open[p] => pc[p] \in {0, 10}
  /\ reset = "end" => \E p \in Ends : ~open[p]

\* As long as nobody has reset the stream, a frame that is written and not read is there.
NotLost ==
  reset = "nobody" =>
    /\ pc["parent"] = 1 /\ pc["child"] >= 3 => wire["parent"] # <<>>
    /\ pc["child"] = 3 /\ pc["parent"] >= 7 => wire["child"] # <<>>
    /\ pc["parent"] = 7 /\ pc["child"] >= 8 => wire["parent"] # <<>>
    /\ pc["child"] = 8 /\ pc["parent"] >= 9 => wire["child"] # <<>>

\* READY and READY_ACK carry nothing that the reader could refuse.
PlainFrames ==
  \A p \in Ends : wire[p] # <<>> /\ Head(wire[p]).type \in {"READY", "READY_ACK"}
                    => Head(wire[p]).valid

\* A child that has given up with its READY unread, or read, did so over a reset.
ReadyKept ==
  pc["parent"] = 7 /\ wire["parent"] # <<>> /\ pc["child"] = 0 => reset = "network"
Decided ==
  pc["parent"] >= 8 /\ reset # "network" => reset = "nobody" /\ pc["child"] >= 8

MInv == ClosedOver /\ NotLost /\ PlainFrames /\ ReadyKept /\ Decided

\* It holds at the start.
LEMMA MeetsAtStart == Init => MInv
<1> SUFFICES ASSUME Init PROVE MInv
  OBVIOUS
<1>1. /\ pc["child"] = 1 /\ pc["parent"] = 1 /\ reset = "nobody"
      /\ \A p \in Ends : open[p] /\ pc[p] = 1 /\ wire[p] = <<>>
  BY TwoEnds DEF Init
<1> QED
  BY <1>1 DEF MInv, ClosedOver, NotLost, PlainFrames, ReadyKept, Decided

\* The errors of a side.
Erring(p) ==
  \/ ReadFails(p) \/ WriteFails(p) \/ StepFails(p)
  \/ Read(p) /\ Fails(p) /\ ~Accepts(p, Head(wire[p]))

\* A child that has sent READY to a parent that has it, or will read it, can fail only
\* over a reset of the stream by the network.
LEMMA ChildGivesUp ==
  ASSUME IInv, MInv, Erring("child"), pc["child"] >= 8,
         pc["parent"] >= 8 \/ (pc["parent"] = 7 /\ wire["parent"] # <<>>)
  PROVE  reset = "network"
<1> USE TwoEnds
<1>r. Ranges /\ Positions
  BY DEF IInv, Ranges
<1>n. pc["child"] \in 0 .. 10 /\ pc["parent"] \in 0 .. 10
  BY <1>r, Numbers
<1>0. InHandshake("child") /\ pc["child"] \in {8, 9}
  BY <1>r, <1>n, ChildAt DEF Erring, Read, ReadFails, WriteFails, StepFails, Fails
<1>1. open["child"]
  BY <1>0 DEF MInv, ClosedOver
<1>2. pc["child"] = 8
  <2> SUFFICES ASSUME pc["child"] = 9 PROVE FALSE
    BY <1>0
  <2>1. StepFails("child")
    BY <1>r, FrameSteps DEF Erring, Read, ReadFails
  <2>2. state["child"] = "Bound"
    BY DEF IInv, Local
  <2> QED
    BY <1>r, <2>1, <2>2, ChildAt DEF StepFails, Refused, NativeSteps
<1>3. CASE Read("child") /\ ~Accepts("child", Head(wire["child"]))
  <2>1. PICK f \in Frames : wire["child"] = <<f>> /\ ToChild(f)
    BY <1>3 DEF IInv, Inboxes, Read
  <2>2. f.type = "READY_ACK" /\ Head(wire["child"]) = f
    BY <1>2, <2>1 DEF ToChild
  <2>3. f.valid
    BY <2>1, <2>2 DEF MInv, PlainFrames
  <2>4. Reads[Steps["child"][pc["child"]]] = "READY_ACK"
    BY <1>2, Tables, FrameTables
  <2> QED
    BY <1>3, <2>2, <2>3, <2>4 DEF Accepts
<1>4. CASE ReadFails("child")
  <2>1. CASE reset = "nobody"
    <3>1. wire["child"] = <<>> /\ ~open["parent"]
      BY <1>4, <2>1 DEF ReadFails
    <3>2. pc["parent"] \in {0, 10}
      BY <3>1 DEF MInv, ClosedOver
    <3> QED
      BY <1>2, <1>n, <2>1, <3>1, <3>2 DEF MInv, NotLost
  <2>2. CASE reset = "end"
    <3>1. ~open["parent"]
      BY <1>1, <2>2 DEF MInv, ClosedOver
    <3>2. pc["parent"] = 10
      BY <1>n, <3>1 DEF MInv, ClosedOver
    <3> QED
      BY <2>2, <3>2 DEF MInv, Decided
  <2> QED
    BY <1>r, <2>1, <2>2 DEF Ranges
<1>5. CASE WriteFails("child") \/ StepFails("child")
  <2>1. StepFails("child")
    BY <1>2, <1>5, <1>r, FrameSteps
  <2> QED
    BY <1>2, <1>r, <2>1, ChildAt DEF StepFails, Refused, NativeSteps
<1> QED
  BY <1>3, <1>4, <1>5 DEF Erring

\* An error ends the part of its side; what it decides is whether the child may have one.
LEMMA FailMeets ==
  ASSUME IInv, MInv, NEW p \in Ends, Fails(p), Erring(p),
         wire' = wire \/ wire' = [wire EXCEPT ![p] = <<>>]
  PROVE  MInv'
<1> USE TwoEnds
<1>r. Ranges /\ Positions
  BY DEF IInv, Ranges
<1>n. pc["child"] \in 0 .. 10 /\ pc["parent"] \in 0 .. 10
  BY <1>r, Numbers
<1>1. /\ pc' = [pc EXCEPT ![p] = 0] /\ open' = [open EXCEPT ![p] = FALSE]
      /\ reset' = reset \/ (reset = "nobody" /\ reset' = "end")
  BY DEF Fails, Closes, ResetByEnd
<1>2. /\ pc'[p] = 0 /\ ~open'[p] /\ pc'[Peer(p)] = pc[Peer(p)]
      /\ open'[Peer(p)] = open[Peer(p)] /\ wire'[Peer(p)] = wire[Peer(p)]
  BY <1>r, <1>1 DEF Ranges, Positions
<1>3. \A q \in Ends : wire'[q] = wire[q] \/ wire'[q] = <<>>
  BY <1>r DEF Ranges
<1>4. ClosedOver'
  BY <1>1, <1>2 DEF MInv, ClosedOver
<1>5. NotLost'
  BY <1>2 DEF NotLost
<1>6. PlainFrames'
  BY <1>3 DEF MInv, PlainFrames
<1>7. CASE p = "parent"
  BY <1>2, <1>4, <1>5, <1>6, <1>7 DEF MInv, ReadyKept, Decided
<1>8. CASE p = "child"
  <2>1. pc["child"] \in 1 .. 9
    BY <1>8, <1>r, ChildAt DEF Fails
  <2>2. ReadyKept'
    <3> SUFFICES ASSUME pc["parent"] = 7, wire["parent"] # <<>> PROVE reset' = "network"
      BY <1>2, <1>8 DEF ReadyKept
    <3>1. pc["child"] = 8
      BY <2>1 DEF IInv, Inboxes, ToParent
    <3> QED
      BY <1>1, <1>8, <3>1, ChildGivesUp
  <2>3. Decided'
    <3> SUFFICES ASSUME pc["parent"] >= 8 PROVE reset' = "network"
      BY <1>2, <1>8 DEF Decided
    <3>1. CASE reset = "network"
      BY <1>1, <3>1
    <3>2. CASE reset # "network"
      BY <1>1, <1>8, <3>2, ChildGivesUp DEF MInv, Decided
    <3> QED
      BY <3>1, <3>2
  <2> QED
    BY <1>4, <1>5, <1>6, <2>2, <2>3 DEF MInv
<1> QED
  BY <1>7, <1>8

\* The operations of the connection take their side through steps that nobody waits for.
LEMMA LocalMeets ==
  ASSUME IInv, MInv, NEW p \in Ends, LocalActs(p)
  PROVE  MInv'
<1> USE TwoEnds
<1>r. Ranges /\ Positions
  BY DEF IInv, Ranges
<1>n. pc["child"] \in 0 .. 10 /\ pc["parent"] \in 0 .. 10
  BY <1>r, Numbers
<1>1. /\ pc' = [pc EXCEPT ![p] = @ + 1] /\ wire' = wire /\ open' = open /\ reset' = reset
  BY DEF LocalActs, Export, Import, Bind, RecvReady, MarkReady, LocalStep, Advance
<1>2. /\ p = "child" => pc["child"] \in {1, 4, 5, 6, 9}
      /\ p = "parent" => pc["parent"] \in {2, 3, 4, 5, 9}
  BY <1>r, ChildAt, ParentAt DEF LocalActs, Export, Import, Bind, RecvReady, MarkReady,
     LocalStep
<1>3. pc'[p] = pc[p] + 1 /\ pc'[Peer(p)] = pc[Peer(p)]
  BY <1>r, <1>1 DEF Positions
<1>4. PlainFrames'
  BY <1>1 DEF MInv, PlainFrames
<1>5. CASE p = "child"
  <2>1. pc'["child"] = pc["child"] + 1 /\ pc'["parent"] = pc["parent"]
    BY <1>3, <1>5
  <2>2. ClosedOver'
    BY <1>1, <1>2, <1>5, <2>1 DEF MInv, ClosedOver
  <2>3. NotLost'
    BY <1>1, <1>2, <1>5, <1>n, <2>1 DEF MInv, NotLost, IInv, Abreast
  <2>4. ReadyKept' /\ Decided'
    BY <1>1, <1>2, <1>5, <1>n, <2>1 DEF MInv, ReadyKept, Decided
  <2> QED
    BY <1>4, <2>2, <2>3, <2>4 DEF MInv
<1>6. CASE p = "parent"
  <2>1. pc'["parent"] = pc["parent"] + 1 /\ pc'["child"] = pc["child"]
    BY <1>3, <1>6
  <2>2. ClosedOver'
    BY <1>1, <1>2, <1>6, <2>1 DEF MInv, ClosedOver
  <2>3. NotLost'
    BY <1>1, <1>2, <1>6, <1>n, <2>1 DEF MInv, NotLost, IInv, Abreast
  <2>4. ReadyKept' /\ Decided'
    BY <1>1, <1>2, <1>6, <1>n, <2>1 DEF MInv, ReadyKept, Decided
  <2> QED
    BY <1>4, <2>2, <2>3, <2>4 DEF MInv
<1> QED
  BY <1>5, <1>6

\* A process that ends leaves nothing unread behind a handshake that has gone well.
LEMMA RestMeets ==
  ASSUME IInv, MInv, Reset \/ \E p \in Ends : Exit(p)
  PROVE  MInv'
<1> USE TwoEnds
<1>r. Ranges /\ Positions
  BY DEF IInv, Ranges
<1>n. pc["child"] \in 0 .. 10 /\ pc["parent"] \in 0 .. 10
  BY <1>r, Numbers
<1>1. CASE Reset
  <2>1. reset' = "network" /\ UNCHANGED <<pc, wire, open>>
    BY <1>1 DEF Reset
  <2> QED
    BY <2>1 DEF MInv, ClosedOver, NotLost, PlainFrames, ReadyKept, Decided
<1>2. ASSUME NEW p \in Ends, Exit(p) PROVE MInv'
  <2>1. /\ pc' = pc /\ wire' = wire /\ open' = [open EXCEPT ![p] = FALSE]
        /\ reset' = reset \/ (reset = "nobody" /\ reset' = "end" /\ wire[p] # <<>>)
    BY <1>2 DEF Exit, Closes, ResetByEnd
  <2>2. pc[p] \in {0, 10}
    BY <1>2, <1>r, ChildAt, ParentAt DEF Exit
  <2>3. ~open'[p] /\ \A q \in Ends : ~open'[q] => q = p \/ ~open[q]
    BY <1>r, <2>1 DEF Ranges
  <2>4. ClosedOver'
    BY <2>1, <2>2, <2>3 DEF MInv, ClosedOver
  <2>5. NotLost' /\ PlainFrames' /\ ReadyKept'
    BY <2>1 DEF MInv, NotLost, PlainFrames, ReadyKept
  <2>6. Decided'
    <3> SUFFICES ASSUME pc["parent"] >= 8, reset' # "network"
                 PROVE  reset' = "nobody" /\ pc["child"] >= 8
      BY <2>1 DEF Decided
    <3>1. reset = "nobody" /\ pc["child"] >= 8
      BY <2>1 DEF MInv, Decided
    <3>2. wire[p] = <<>>
      BY <1>n, <2>2, <3>1 DEF IInv, Inboxes, ToParent, ToChild
    <3> QED
      BY <2>1, <3>1, <3>2
  <2> QED
    BY <2>4, <2>5, <2>6 DEF MInv
<1> QED
  BY <1>1, <1>2

\* A frame that is read is off the stream, and its reader past the step that waits for it.
LEMMA ReadMeets ==
  ASSUME IInv, MInv, NEW p \in Ends, Read(p)
  PROVE  MInv'
<1> USE TwoEnds
<1>r. Ranges /\ Positions
  BY DEF IInv, Ranges
<1>n. pc["child"] \in 0 .. 10 /\ pc["parent"] \in 0 .. 10
  BY <1>r, Numbers
<1>0. PICK f \in Frames : wire[p] = <<f>> /\ (IF p = "child" THEN ToChild(f) ELSE ToParent(f))
  BY DEF IInv, Inboxes, Read
<1>1. /\ Head(wire[p]) = f /\ Tail(wire[p]) = <<>>
  BY <1>0
<1>2. wire' = [wire EXCEPT ![p] = <<>>] /\ Reading(p)
  BY <1>1 DEF Read
<1>3. /\ wire'[p] = <<>> /\ wire'[Peer(p)] = wire[Peer(p)]
      /\ wire[p] # <<>> /\ wire[Peer(p)] = <<>>
  BY <1>0, <1>2, <1>r DEF IInv, Inboxes, Ranges
<1>4. CASE ~Accepts(p, f)
  <2>1. Fails(p)
    BY <1>1, <1>4 DEF Read
  <2> QED
    BY <1>1, <1>2, <1>4, <2>1, FailMeets DEF Erring
<1>5. CASE Accepts(p, f)
  <2>1. /\ pc' = [pc EXCEPT ![p] = @ + 1] /\ open' = open /\ reset' = reset
    BY <1>1, <1>5 DEF Read, Advance
  <2>2. pc'[p] = pc[p] + 1 /\ pc'[Peer(p)] = pc[Peer(p)]
    BY <1>r, <2>1 DEF Positions
  <2>3. PlainFrames'
    BY <1>3 DEF PlainFrames
  <2>c. CASE p = "child"
    <3>1. pc["child"] \in {3, 8}
      BY <1>2, <1>r, <2>c, FrameSteps
    <3>2. /\ pc'["child"] = pc["child"] + 1 /\ pc'["parent"] = pc["parent"]
          /\ wire'["parent"] = <<>> /\ pc["parent"] \in {0, 7, 9, 10}
          /\ pc["child"] = 8 => pc["parent"] \in {9, 10}
      BY <1>0, <1>3, <2>2, <2>c, <3>1 DEF ToChild
    <3>3. ClosedOver'
      BY <2>1, <3>1, <3>2 DEF MInv, ClosedOver
    <3>4. NotLost'
      BY <2>1, <3>1, <3>2 DEF NotLost
    <3>5. ReadyKept' /\ Decided'
      BY <2>1, <3>1, <3>2 DEF MInv, ReadyKept, Decided
    <3> QED
      BY <2>3, <3>3, <3>4, <3>5 DEF MInv
  <2>p. CASE p = "parent"
    <3>1. pc["parent"] \in {1, 7}
      BY <1>2, <1>r, <2>p, FrameSteps
    <3>2. /\ pc'["parent"] = pc["parent"] + 1 /\ pc'["child"] = pc["child"]
          /\ pc["parent"] = 7 => pc["child"] \in {0, 8}
      BY <1>0, <2>2, <2>p, <3>1 DEF ToParent
    <3>3. ClosedOver'
      BY <2>1, <3>1, <3>2 DEF MInv, ClosedOver
    <3>4. NotLost' /\ ReadyKept'
      BY <3>1, <3>2 DEF NotLost, ReadyKept
    <3>5. Decided'
      <4> SUFFICES ASSUME pc["parent"] = 7, reset # "network"
                   PROVE  reset = "nobody" /\ pc["child"] >= 8
        BY <2>1, <3>1, <3>2 DEF Decided
      <4>1. pc["child"] = 8
        BY <1>3, <2>p, <3>2 DEF MInv, ReadyKept
      <4>2. reset # "end"
        BY <4>1 DEF MInv, ClosedOver
      <4> QED
        BY <1>r, <4>1, <4>2 DEF Ranges
    <3> QED
      BY <2>3, <3>3, <3>4, <3>5 DEF MInv
  <2> QED
    BY <2>c, <2>p
<1> QED
  BY <1>4, <1>5

\* A frame that is written is on the stream, or the stream is no longer whole.
LEMMA WriteMeets ==
  ASSUME IInv, MInv, NEW p \in Ends, Write(p)
  PROVE  MInv'
<1> USE TwoEnds
<1>r. Ranges /\ Positions
  BY DEF IInv, Ranges
<1>n. pc["child"] \in 0 .. 10 /\ pc["parent"] \in 0 .. 10
  BY <1>r, Numbers
<1>1. pc[p] \in IF p = "child" THEN {2, 7} ELSE {6, 8}
  BY <1>r, FrameSteps
<1>2. wire["child"] = <<>> /\ wire["parent"] = <<>>
  BY <1>n, <1>1 DEF IInv, Inboxes, Abreast, ToParent, ToChild
<1>3. /\ pc' = [pc EXCEPT ![p] = @ + 1] /\ open' = open
      /\ pc'[p] = pc[p] + 1 /\ pc'[Peer(p)] = pc[Peer(p)]
  BY <1>r DEF Write, Advance, Positions
<1>4. Gone(p) => /\ wire' = wire /\ reset' # "nobody"
                 /\ reset' = reset \/ (reset = "nobody" /\ reset' = "end")
  BY DEF Write, ResetByEnd
<1> DEFINE Type == Sends[Steps[p][pc[p]]]
<1>5. ASSUME ~Gone(p)
      PROVE  /\ reset' = reset
             /\ \E f \in FramesOf(p, Type) : wire' = [wire EXCEPT ![Peer(p)] = <<f>>]
  <2>1. PICK f \in FramesOf(p, Type) : wire' = [wire EXCEPT ![Peer(p)] = Append(@, f)]
    BY <1>5 DEF Write
  <2>2. wire[Peer(p)] = <<>> /\ wire[Peer(p)] \in Seq(Frames)
    BY <1>2, <1>r DEF Ranges
  <2>3. Append(wire[Peer(p)], f) = <<f>>
    BY <2>2
  <2> QED
    BY <1>5, <2>1, <2>3 DEF Write
<1>6. \A f \in FramesOf(p, Type) : f.type \in {"READY", "READY_ACK"} => f.valid
  <2> HIDE DEF Type
  <2>1. SUFFICES ASSUME NEW f \in FramesOf(p, Type), f.type \in {"READY", "READY_ACK"}
                 PROVE  f.valid
    OBVIOUS
  <2> DEFINE Valid == IF "invalid" \in Faults /\ Type \in {"HELLO", "HELLO_ACK"}
                      THEN BOOLEAN
                      ELSE {TRUE}
  <2>2. PICK v \in Valid : f = [type |-> Type, transport |-> transport[p], valid |-> v]
    BY DEF FramesOf
  <2>3. f.type = Type /\ f.valid = v
    BY <2>2
  <2>4. Valid = {TRUE}
    BY <2>1, <2>3
  <2> QED
    BY <2>2, <2>3, <2>4
<1> HIDE DEF Type
<1>7. \A f : <<f>> # <<>> /\ Head(<<f>>) = f
  OBVIOUS
<1>8. PlainFrames' /\ wire'[p] = <<>> /\ (~Gone(p) => wire'[Peer(p)] # <<>>)
  <2>1. CASE Gone(p)
    BY <1>2, <1>4, <2>1 DEF PlainFrames
  <2>2. CASE ~Gone(p)
    <3>1. PICK f \in FramesOf(p, Type) : wire' = [wire EXCEPT ![Peer(p)] = <<f>>]
      BY <1>5, <2>2
    <3>2. wire'[Peer(p)] = <<f>> /\ wire'[p] = <<>>
      BY <1>2, <1>r, <3>1 DEF Ranges
    <3> QED
      BY <1>6, <1>7, <3>2 DEF PlainFrames
  <2> QED
    BY <2>1, <2>2
<1>9. ClosedOver'
  BY <1>1, <1>3, <1>4, <1>5 DEF MInv, ClosedOver, Gone
<1>10. reset' = "nobody" => ~Gone(p) /\ reset = "nobody"
  BY <1>4, <1>5
<1>c. CASE p = "child"
  <2>1. pc'["child"] = pc["child"] + 1 /\ pc'["parent"] = pc["parent"]
    BY <1>3, <1>c
  <2>2. NotLost'
    BY <1>1, <1>8, <1>10, <1>c, <1>n, <2>1 DEF NotLost, IInv, Abreast
  <2>3. ReadyKept'
    BY <1>1, <1>c, <2>1 DEF ReadyKept
  <2>4. Decided'
    BY <1>1, <1>c, <1>n, <2>1, <1>4, <1>5 DEF MInv, Decided, IInv, Abreast
  <2> QED
    BY <1>8, <1>9, <2>2, <2>3, <2>4 DEF MInv
<1>p. CASE p = "parent"
  <2>1. pc'["parent"] = pc["parent"] + 1 /\ pc'["child"] = pc["child"]
    BY <1>3, <1>p
  <2>2. NotLost'
    BY <1>1, <1>8, <1>10, <1>p, <1>n, <2>1 DEF NotLost, IInv, Abreast
  <2>3. ReadyKept'
    BY <1>8, <1>p DEF ReadyKept
  <2>4. Decided'
    <3> SUFFICES ASSUME pc["parent"] = 8, reset' # "network"
                 PROVE  reset' = "nobody" /\ pc["child"] >= 8
      BY <1>1, <1>p, <2>1 DEF Decided
    <3>1. reset = "nobody" /\ pc["child"] >= 8
      BY <1>4, <1>5 DEF MInv, Decided
    <3>2. open["child"]
      BY <1>n, <3>1 DEF MInv, ClosedOver, IInv, Abreast
    <3> QED
      BY <1>5, <1>p, <3>1, <3>2 DEF Gone
  <2> QED
    BY <1>8, <1>9, <2>2, <2>3, <2>4 DEF MInv
<1> QED
  BY <1>c, <1>p

\* With IInv, inductive.
LEMMA StepMeets == IInv /\ MInv /\ [Next]_vars => MInv'
<1> SUFFICES ASSUME IInv, MInv, [Next]_vars PROVE MInv'
  OBVIOUS
<1>1. ASSUME NEW p \in Ends, ReadFails(p) \/ WriteFails(p) \/ StepFails(p) PROVE MInv'
  BY <1>1, FailMeets DEF Erring, ReadFails, WriteFails, StepFails
<1>2. ASSUME NEW p \in Ends, Handshake(p) PROVE MInv'
  BY <1>1, <1>2, ReadMeets, WriteMeets, LocalMeets DEF Handshake, LocalActs
<1>3. CASE Reset \/ \E p \in Ends : Exit(p)
  BY <1>3, RestMeets
<1>4. CASE UNCHANGED vars
  BY <1>4 DEF MInv, ClosedOver, NotLost, PlainFrames, ReadyKept, Decided, vars
<1> QED
  BY <1>2, <1>3, <1>4 DEF Next

\* It holds of every behaviour.
LEMMA Meets == Spec => []MInv
  BY MeetsAtStart, Invariant, StepMeets, PTL DEF Spec

\* read_from blocks without a timeout (oob.rs), and needs none: of two sides that could
\* wait for each other one can always go on, for every set of transports and every fault.
THEOREM NobodyBlocked == Spec => []NoStandoff
<1>1. IInv /\ MInv => NoStandoff
  <2> SUFFICES ASSUME IInv, MInv, NEW p \in Ends, Blocked(p)
               PROVE  InHandshake(Peer(p)) /\ ~Blocked(Peer(p))
    BY DEF NoStandoff
  <2> USE TwoEnds
  <2>r. Ranges /\ Positions
    BY DEF IInv, Ranges
  <2>n. pc["child"] \in 0 .. 10 /\ pc["parent"] \in 0 .. 10
    BY <2>r, Numbers
  <2>0. pc[Peer(p)] # 0
    BY DEF Blocked, MInv, ClosedOver
  <2>c. CASE p = "child"
    <3>1. pc["child"] \in {3, 8} /\ wire["child"] = <<>> /\ pc["parent"] # 0
      BY <2>0, <2>c, <2>r, FrameSteps DEF Blocked
    <3>2. pc["parent"] \in 1 .. 8 /\ (pc["parent"] \in {1, 7} => wire["parent"] # <<>>)
      BY <2>n, <3>1 DEF Blocked, MInv, NotLost, IInv, Abreast
    <3> QED
      BY <2>c, <2>r, <3>2, ParentAt DEF Blocked
  <2>p. CASE p = "parent"
    <3>1. pc["parent"] \in {1, 7} /\ wire["parent"] = <<>> /\ pc["child"] # 0
      BY <2>0, <2>p, <2>r, FrameSteps DEF Blocked
    <3>2. pc["child"] \in 1 .. 7 /\ (pc["child"] = 3 => wire["child"] # <<>>)
      BY <2>n, <3>1 DEF Blocked, MInv, NotLost, IInv, Abreast
    <3> QED
      BY <2>p, <2>r, <3>2, ChildAt DEF Blocked
  <2> QED
    BY <2>c, <2>p
<1> QED
  BY <1>1, Invariant, Meets, PTL

\* finish_handshake of the child: once the parent is ready the child does not fail, unless
\* the network resets the stream.  With the fairness of the run, that is ChildFollows.
THEOREM ChildNeverFails == Spec => []ChildSure
<1>1. IInv /\ MInv => ChildSure
  <2> SUFFICES ASSUME IInv, MInv, Finished("parent"), pc["child"] = 0
               PROVE  reset = "network"
    BY DEF ChildSure
  <2>1. pc["parent"] = 10
    BY ParentAt DEF IInv, Ranges
  <2> QED
    BY <2>1 DEF MInv, Decided
<1> QED
  BY <1>1, Invariant, Meets, PTL

-----------------------------------------------------------------------------
\* The steps that are left: those of each side, its end, and a reset by the network.
StepsLeft(p) == IF pc[p] = 0 THEN 0 ELSE 10 - pc[p]
ExitLeft(p) == IF state[p] = "Closed" THEN 0 ELSE 1
ResetLeft == IF reset = "network" THEN 0 ELSE 1
Left ==
  StepsLeft("parent") + StepsLeft("child") + ExitLeft("parent") + ExitLeft("child") + ResetLeft

\* They are numbers.
LEMMA LeftNumbers ==
  IInv => /\ \A p \in Ends : StepsLeft(p) \in 0 .. 9 /\ ExitLeft(p) \in 0 .. 1
          /\ ResetLeft \in 0 .. 1 /\ Left \in 0 .. 21
<1> SUFFICES ASSUME IInv
             PROVE  /\ \A p \in Ends : StepsLeft(p) \in 0 .. 9 /\ ExitLeft(p) \in 0 .. 1
                    /\ ResetLeft \in 0 .. 1 /\ Left \in 0 .. 21
  OBVIOUS
<1>1. \A p \in Ends : StepsLeft(p) \in 0 .. 9 /\ ExitLeft(p) \in 0 .. 1
  <2> TAKE p \in Ends
  <2>1. pc[p] \in 0 .. 10
    BY DEF IInv, Ranges, Positions
  <2> QED
    BY <2>1 DEF StepsLeft, ExitLeft
<1>2. ResetLeft \in 0 .. 1
  BY DEF ResetLeft
<1>3. /\ StepsLeft("parent") \in 0 .. 9 /\ StepsLeft("child") \in 0 .. 9
      /\ ExitLeft("parent") \in 0 .. 1 /\ ExitLeft("child") \in 0 .. 1
  BY <1>1, TwoEnds
<1> QED
  BY <1>1, <1>2, <1>3 DEF Left

\* The same after a step.
LEMMA LeftNumbersNext ==
  IInv' => (/\ \A p \in Ends : StepsLeft(p) \in 0 .. 9 /\ ExitLeft(p) \in 0 .. 1
            /\ ResetLeft \in 0 .. 1)'
  BY LeftNumbers, PTL

\* A step of the handshake takes its side one step on, or to its end.
LEMMA HandshakeMoves ==
  ASSUME IInv, NEW p \in Ends, Handshake(p)
  PROVE  /\ StepsLeft(p)' < StepsLeft(p) /\ pc'[Peer(p)] = pc[Peer(p)]
         /\ ExitLeft(p)' = ExitLeft(p) /\ state'[Peer(p)] = state[Peer(p)]
         /\ ResetLeft' <= ResetLeft
<1>1. InHandshake(p) /\ (Advance(p) \/ pc' = [pc EXCEPT ![p] = 0])
  BY DEF Handshake, Read, ReadFails, Write, WriteFails, Export, Import, Bind, RecvReady,
     MarkReady, StepFails, LocalStep, At, Fails, Reading
<1>2. pc[p] \in 1 .. 9
  BY <1>1, TwoEnds, ChildAt, ParentAt DEF IInv, Ranges
<1>3. pc'[p] = pc[p] + 1 \/ pc'[p] = 0
  BY <1>1 DEF Advance, IInv, Ranges, Positions
<1>4. StepsLeft(p)' < StepsLeft(p)
  BY <1>2, <1>3 DEF StepsLeft
<1>5. pc'[Peer(p)] = pc[Peer(p)] /\ Peer(p) # p /\ Peer(p) \in Ends
  BY <1>1, TwoEnds DEF Advance, IInv, Ranges, Positions
<1>6. \/ state' = state
      \/ \E st \in {"DescriptorExchanged", "Bound", "Ready", "Failed"} : Becomes(p, st)
      \/ Becomes(p, state[p])
  BY DEF Handshake, Read, ReadFails, Write, WriteFails, Export, Import, Bind, RecvReady,
     MarkReady, StepFails, LocalStep, Fails
<1>7. state[p] # "Closed"
  <2>1. CASE p = "child"
    BY <1>2, <2>1 DEF IInv, Local, Unbound
  <2>2. CASE p = "parent"
    BY <1>2, <2>2 DEF IInv, Local, Unbound
  <2> QED
    BY <2>1, <2>2, TwoEnds
<1>8. state'[p] # "Closed" /\ state'[Peer(p)] = state[Peer(p)]
  BY <1>5, <1>6, <1>7 DEF Becomes, IInv, Ranges
<1>9. reset' = reset \/ (reset = "nobody" /\ reset' = "end")
  BY DEF Handshake, Read, ReadFails, Write, WriteFails, Export, Import, Bind, RecvReady,
     MarkReady, StepFails, LocalStep, Fails, Closes, ResetByEnd
<1>10. ResetLeft' <= ResetLeft
  BY <1>9 DEF ResetLeft
<1> QED
  BY <1>4, <1>5, <1>7, <1>8, <1>10 DEF ExitLeft

\* Every step leaves fewer.
LEMMA StepLowers == ASSUME IInv, IInv', Next PROVE Left' < Left
<1>0. /\ \A p \in Ends : /\ StepsLeft(p) \in Int /\ ExitLeft(p) \in Int
                         /\ StepsLeft(p)' \in Int /\ ExitLeft(p)' \in Int
      /\ ResetLeft \in Int /\ ResetLeft' \in Int
  BY LeftNumbers, LeftNumbersNext
<1>1. ASSUME NEW p \in Ends, Handshake(p) PROVE Left' < Left
  <2> DEFINE o == Peer(p)
  <2>1. /\ StepsLeft(p)' < StepsLeft(p) /\ ExitLeft(p)' = ExitLeft(p)
        /\ StepsLeft(o)' = StepsLeft(o) /\ ExitLeft(o)' = ExitLeft(o)
        /\ ResetLeft' <= ResetLeft
    BY <1>1, HandshakeMoves DEF StepsLeft, ExitLeft
  <2>2. CASE p = "child"
    BY <1>0, <2>1, <2>2, TwoEnds DEF Left
  <2>3. CASE p = "parent"
    BY <1>0, <2>1, <2>3, TwoEnds DEF Left
  <2> QED
    BY <2>2, <2>3, TwoEnds
<1>2. ASSUME NEW p \in Ends, Exit(p) PROVE Left' < Left
  <2> DEFINE o == Peer(p)
  <2>1. /\ pc' = pc /\ state[p] # "Closed" /\ state'[p] = "Closed" /\ state'[o] = state[o]
        /\ reset' = reset \/ (reset = "nobody" /\ reset' = "end")
    BY <1>2, TwoEnds DEF Exit, Becomes, Closes, ResetByEnd, IInv, Ranges
  <2>2. /\ StepsLeft(p)' = StepsLeft(p) /\ StepsLeft(o)' = StepsLeft(o)
        /\ ExitLeft(p)' < ExitLeft(p) /\ ExitLeft(o)' = ExitLeft(o) /\ ResetLeft' <= ResetLeft
    BY <2>1 DEF StepsLeft, ExitLeft, ResetLeft
  <2>3. CASE p = "child"
    BY <1>0, <2>2, <2>3, TwoEnds DEF Left
  <2>4. CASE p = "parent"
    BY <1>0, <2>2, <2>4, TwoEnds DEF Left
  <2> QED
    BY <2>3, <2>4, TwoEnds
<1>3. CASE Reset
  <2>1. /\ pc' = pc /\ state' = state /\ ResetLeft' < ResetLeft
    BY <1>3 DEF Reset, ResetLeft
  <2>2. \A p \in Ends : StepsLeft(p)' = StepsLeft(p) /\ ExitLeft(p)' = ExitLeft(p)
    BY <2>1 DEF StepsLeft, ExitLeft
  <2> QED
    BY <1>0, <2>1, <2>2, TwoEnds DEF Left
<1> QED
  BY <1>1, <1>2, <1>3 DEF Next

\* parent_handshake and child_handshake: no behaviour of the two has more than 21 steps,
\* whatever fails.  With NobodyBlocked, neither stops before it returns: what BothReturn
\* says, but for the fairness of the threads.
THEOREM BoundedSteps == Spec => [](Left \in 0 .. 21) /\ [][Left' < Left]_vars
<1>1. IInv /\ IInv' /\ [Next]_vars => [Left' < Left]_vars
  BY StepLowers
<1> QED
  BY <1>1, LeftNumbers, Invariant, PTL DEF Spec

=============================================================================
