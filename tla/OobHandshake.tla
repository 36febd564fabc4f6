---- MODULE OobHandshake ----
(***************************************************************************)
(* parent_handshake and child_handshake (src/src/oob.rs) in two processes  *)
(* over one TCP stream, with the connection state they drive, from accept  *)
(* to the end of both processes.                                           *)
(*                                                                         *)
(* Each side is a list of steps.  A step either advances its side or ends  *)
(* the handshake: finish_handshake fails the connection and shuts the      *)
(* stream down.  A frame is its type, the transport its sender found in    *)
(* its device, and whether role, lengths and descriptor pass the checks of *)
(* the reader: HELLO and HELLO_ACK may not, between builds that differ.    *)
(***************************************************************************)
EXTENDS Integers, Sequences

CONSTANTS Transports,  \* what capability.transport_type may be
          Unusable,    \* those that are negative
          Faults       \* what may go wrong: native, stream, invalid

ASSUME HandshakeAssumption ==
  /\ Unusable \subseteq Transports
  /\ Faults \subseteq {"native", "stream", "invalid"}

Ends == {"parent", "child"}
Peer(p) == IF p = "parent" THEN "child" ELSE "parent"

ChildLate ==
  <<"Export", "SendHello", "ReadHelloAck", "Import", "Bind", "SendReady", "RecvReady",
    "ReadReadyAck", "MarkReady">>
ChildDeaf ==
  <<"Export", "SendHello", "Import", "Bind", "RecvReady", "SendReady",
    "ReadReadyAck", "MarkReady">>
ChildSteps ==
  <<"Export", "SendHello", "ReadHelloAck", "Import", "Bind", "RecvReady", "SendReady",
    "ReadReadyAck", "MarkReady">>

ParentTwice ==
  <<"ReadHello", "Export", "Import", "Bind", "RecvReady", "RecvReady", "SendHelloAck",
    "ReadReady", "SendReadyAck", "MarkReady">>
ParentHasty ==
  <<"ReadHello", "Export", "Import", "Bind", "RecvReady", "SendHelloAck", "SendReadyAck",
    "ReadReady", "MarkReady">>
ParentTrusts ==
  <<"ReadHello", "Export", "Import", "Bind", "RecvReady", "SendHelloAck", "SendReadyAck",
    "MarkReady">>
ParentWaits ==
  <<"ReadHello", "Export", "Import", "Bind", "RecvReady", "ReadReady", "SendHelloAck",
    "SendReadyAck", "MarkReady">>
ParentSteps ==
  <<"ReadHello", "Export", "Import", "Bind", "RecvReady", "SendHelloAck", "ReadReady",
    "SendReadyAck", "MarkReady">>

Steps == [p \in Ends |-> IF p = "child" THEN ChildSteps ELSE ParentSteps]

Reads == [ReadHello |-> "HELLO", ReadHelloAck |-> "HELLO_ACK",
          ReadReady |-> "READY", ReadReadyAck |-> "READY_ACK"]
Sends == [SendHello |-> "HELLO", SendHelloAck |-> "HELLO_ACK",
          SendReady |-> "READY", SendReadyAck |-> "READY_ACK"]

VARIABLES
  transport,  \* what each device is; never changes
  pc,         \* index of the next step; 0 once the handshake has failed
  state,      \* ConnectionState
  peerType,   \* the transport in the descriptor that was read
  rx,         \* RECVs posted
  wire,       \* frames on their way to each side, or unread there
  open,       \* whether each side still has its end of the stream
  reset       \* by whom the stream was reset: nobody, an end or the network

vars == <<transport, pc, state, peerType, rx, wire, open, reset>>

Init ==
  /\ transport \in [Ends -> Transports]
  /\ pc = [p \in Ends |-> 1]
  /\ state = [p \in Ends |-> "JettyCreated"]
  /\ peerType = transport
  /\ rx = [p \in Ends |-> 0]
  /\ wire = [p \in Ends |-> <<>>]
  /\ open = [p \in Ends |-> TRUE] /\ reset = "nobody"

Finished(p) == pc[p] = Len(Steps[p]) + 1
InHandshake(p) == pc[p] \in 1 .. Len(Steps[p])
At(p, s) == InHandshake(p) /\ Steps[p][pc[p]] = s
Reading(p) == InHandshake(p) /\ Steps[p][pc[p]] \in DOMAIN Reads

Advance(p) == pc' = [pc EXCEPT ![p] = @ + 1]
Becomes(p, st) == state' = [state EXCEPT ![p] = st]

ResetByEnd == reset' = IF reset = "nobody" THEN "end" ELSE reset

\* A socket closed with unread data resets the stream.
Closes(p) ==
  /\ open' = [open EXCEPT ![p] = FALSE]
  /\ IF open[p] /\ wire'[p] # <<>> THEN ResetByEnd ELSE UNCHANGED reset

\* finish_handshake after an error; the stream is shut down and dropped.
Fails(p) ==
  /\ InHandshake(p)
  /\ pc' = [pc EXCEPT ![p] = 0] /\ Becomes(p, "Failed")
  /\ Closes(p)
  /\ UNCHANGED <<transport, peerType, rx>>

-----------------------------------------------------------------------------
\* expect_frame and the checks of what it returns; the peer's transport must equal
\* the local one where the frame carries a capability.
Accepts(p, f) ==
  /\ f.type = Reads[Steps[p][pc[p]]] /\ f.valid
  /\ f.type \in {"HELLO", "HELLO_ACK"} => f.transport = transport[p]

Read(p) ==
  /\ Reading(p) /\ wire[p] # <<>>
  /\ wire' = [wire EXCEPT ![p] = Tail(@)]
  /\ LET f == Head(wire[p]) IN
     IF Accepts(p, f)
     THEN /\ peerType' = [peerType EXCEPT ![p] = f.transport]
          /\ Advance(p)
          /\ UNCHANGED <<transport, state, rx, open, reset>>
     ELSE Fails(p)

\* The end of the stream, or its reset, which may overtake unread data.
ReadFails(p) ==
  /\ Reading(p)
  /\ reset # "nobody" \/ (wire[p] = <<>> /\ ~open[Peer(p)])
  /\ UNCHANGED wire /\ Fails(p)

FramesOf(p, type) ==
  {[type |-> type, transport |-> transport[p], valid |-> v] :
    v \in IF "invalid" \in Faults /\ type \in {"HELLO", "HELLO_ACK"} THEN BOOLEAN ELSE {TRUE}}

Gone(p) == reset # "nobody" \/ ~open[Peer(p)]

\* write_to.  What is written to a closed or a reset stream is lost; it resets the
\* former, and the error may be reported or not.
Write(p) ==
  /\ InHandshake(p) /\ Steps[p][pc[p]] \in DOMAIN Sends
  /\ IF Gone(p)
     THEN ResetByEnd /\ UNCHANGED wire
     ELSE /\ \E f \in FramesOf(p, Sends[Steps[p][pc[p]]]) :
               wire' = [wire EXCEPT ![Peer(p)] = Append(@, f)]
          /\ UNCHANGED reset
  /\ Advance(p)
  /\ UNCHANGED <<transport, state, peerType, rx, open>>

WriteFails(p) ==
  /\ InHandshake(p) /\ Steps[p][pc[p]] \in DOMAIN Sends
  /\ Gone(p)
  /\ UNCHANGED wire /\ Fails(p)

-----------------------------------------------------------------------------
\* The operations of the connection and its Jetty.
LocalStep(p, s, from, to) ==
  /\ At(p, s) /\ state[p] \in from
  /\ Becomes(p, to) /\ Advance(p)
  /\ UNCHANGED <<transport, peerType, wire, open, reset>>

Unbound == {"JettyCreated", "DescriptorExchanged"}
Export(p) == LocalStep(p, "Export", Unbound, "DescriptorExchanged") /\ UNCHANGED rx
Import(p) ==
  /\ transport[p] \notin Unusable /\ peerType[p] = transport[p]
  /\ LocalStep(p, "Import", Unbound, "DescriptorExchanged") /\ UNCHANGED rx
Bind(p) == LocalStep(p, "Bind", Unbound, "Bound") /\ UNCHANGED rx
RecvReady(p) ==
  /\ LocalStep(p, "RecvReady", {"Bound", "Ready"}, state[p])
  /\ rx' = [rx EXCEPT ![p] = @ + 1]
MarkReady(p) == LocalStep(p, "MarkReady", {"Bound"}, "Ready") /\ UNCHANGED rx

\* Each of them may fail in the provider, and is refused where its guard fails.
NativeSteps == {"Export", "Import", "Bind", "RecvReady"}
Refused(p) ==
  \/ At(p, "Export") /\ state[p] \notin Unbound
  \/ At(p, "Import") /\ ( \/ state[p] \notin Unbound \/ transport[p] \in Unusable
                          \/ peerType[p] # transport[p] )
  \/ At(p, "RecvReady") /\ state[p] \notin {"Bound", "Ready"}
  \/ At(p, "MarkReady") /\ state[p] # "Bound"

StepFails(p) ==
  /\ Refused(p) \/ ("native" \in Faults /\ \E s \in NativeSteps : At(p, s))
  /\ UNCHANGED wire /\ Fails(p)

\* The process ends: after an error at once, else when the application is through.
\* Session, connection and with it the posted RECVs are gone.
Exit(p) ==
  /\ pc[p] = 0 \/ Finished(p)
  /\ state[p] # "Closed" /\ Becomes(p, "Closed")
  /\ UNCHANGED <<transport, pc, peerType, wire>>
  /\ Closes(p)
  /\ rx' = [rx EXCEPT ![p] = 0]

\* The network resets the stream.
Reset ==
  /\ "stream" \in Faults /\ reset # "network"
  /\ reset' = "network"
  /\ UNCHANGED <<transport, pc, state, peerType, rx, wire, open>>

Handshake(p) ==
  \/ Read(p) \/ ReadFails(p) \/ Write(p) \/ WriteFails(p)
  \/ Export(p) \/ Import(p) \/ Bind(p) \/ RecvReady(p) \/ MarkReady(p) \/ StepFails(p)

Next == Reset \/ \E p \in Ends : Handshake(p) \/ Exit(p)

Spec == Init /\ [][Next]_vars

\* Both threads run, and TCP delivers or reports that it cannot.
FairSpec == Spec /\ \A p \in Ends : WF_vars(Handshake(p))

-----------------------------------------------------------------------------
States == {"JettyCreated", "DescriptorExchanged", "Bound", "Ready", "Failed", "Closed"}
Frames == [type : {"HELLO", "HELLO_ACK", "READY", "READY_ACK"},
           transport : Transports, valid : BOOLEAN]

\* Among others: one receive slot is enough, and no side runs ahead of the other by
\* more than one frame.
TypeOK ==
  /\ transport \in [Ends -> Transports] /\ peerType \in [Ends -> Transports]
  /\ pc \in [Ends -> 0 .. 10] /\ \A p \in Ends : pc[p] <= Len(Steps[p]) + 1
  /\ state \in [Ends -> States]
  /\ rx \in [Ends -> 0 .. 1]
  /\ wire \in [Ends -> Seq(Frames)] /\ \A p \in Ends : Len(wire[p]) <= 1
  /\ open \in [Ends -> BOOLEAN] /\ reset \in {"nobody", "end", "network"}

Alive(p) == state[p] \notin {"Failed", "Closed"}

\* A side that may send has a peer that can receive: bound to a Jetty of the same
\* transport, with its RECV posted, unless that peer has already given up.  This is
\* what READY and READY_ACK are for.
ReadyPeer ==
  \A p \in Ends : state[p] = "Ready" /\ Alive(Peer(p)) =>
    /\ state[Peer(p)] \in {"Bound", "Ready"} /\ rx[Peer(p)] = 1
    /\ transport[p] = transport[Peer(p)] /\ transport[p] \notin Unusable

\* The child is never ready alone: once it has read READY_ACK, nothing can keep the
\* parent from being ready too.
ReadyTogether ==
  Finished("child") => Finished("parent") \/ (At("parent", "MarkReady") /\ Alive("parent"))

\* What arrives is the frame the reader expects, and nothing follows the last one
\* (wait_for_peer_close calls that a protocol error).
FramesInStep ==
  \A p \in Ends : wire[p] # <<>> /\ Alive(p) =>
    /\ InHandshake(p)
    /\ \E i \in pc[p] .. Len(Steps[p]) :
         /\ Steps[p][i] \in DOMAIN Reads /\ Head(wire[p]).type = Reads[Steps[p][i]]
         /\ \A j \in pc[p] .. i - 1 : Steps[p][j] \notin DOMAIN Reads

\* Neither side waits for ever for the other.
BothReturn == \A p \in Ends : <>(Finished(p) \/ pc[p] = 0)

\* A parent that is ready gets a ready child, unless the network resets the stream: all
\* that the child could fail at was behind it when it sent READY.
ChildFollows == Finished("parent") ~> (Finished("child") \/ reset = "network")
====
