---- MODULE PingPong ----
(***************************************************************************)
(* run_ping_pong of both programs (src/src/bin/parent.rs, child.rs) over   *)
(* send, recv_ready, wait_for_message and drain_completions of             *)
(* src/src/connection.rs and a reliable connection of the provider: two    *)
(* processes, each polling its own two JFCs, from READY to the last round. *)
(*                                                                         *)
(* The handshake has posted one RECV on each side.  A poll_once looks at   *)
(* the send JFC and then at the receive JFC: two steps, between which the  *)
(* provider may deliver.  Payloads are abstracted: a child sends pings, a  *)
(* parent pongs.                                                           *)
(***************************************************************************)
EXTENDS Integers

CONSTANTS Rounds,     \* the command-line argument of both programs
          MayTimeOut  \* whether a 5-second deadline may pass in this run

ASSUME PingPongAssumption == Rounds \in Nat \ {0} /\ MayTimeOut \in BOOLEAN

Ends == {"parent", "child"}
Peer(p) == IF p = "parent" THEN "child" ELSE "parent"

VARIABLES
  pc, round,   \* where each program stands, and its round (0-based)
  rx,          \* RECVs posted and not yet consumed
  out,         \* the ends with poller.outstanding_send # 0
  inbox,       \* pending_messages
  wire,        \* messages on their way to an endpoint
  acked,       \* the ends whose peer has the message: its completion is on its way
  sendCq, recvCq  \* records on the two JFCs

vars == <<pc, round, rx, out, inbox, wire, acked, sendCq, recvCq>>
provider == <<wire, acked, sendCq, recvCq>>

Init ==
  /\ pc = [p \in Ends |-> IF p = "child" THEN "Send" ELSE "Wait"]
  /\ round = [p \in Ends |-> 0]
  /\ rx = [p \in Ends |-> 1]
  /\ out = {} /\ inbox = [p \in Ends |-> 0]
  /\ wire = [p \in Ends |-> 0] /\ acked = {}
  /\ sendCq = [p \in Ends |-> 0] /\ recvCq = [p \in Ends |-> 0]

Goto(p, l) == pc' = [pc EXCEPT ![p] = l]

\* The next round, or the end of the loop.
NextRoundEarly(p, first) ==
  IF round[p] + 2 < Rounds
  THEN Goto(p, first) /\ round' = [round EXCEPT ![p] = @ + 1]
  ELSE Goto(p, "Done") /\ UNCHANGED round
NextRound(p, first) ==
  IF round[p] + 1 < Rounds
  THEN Goto(p, first) /\ round' = [round EXCEPT ![p] = @ + 1]
  ELSE Goto(p, "Done") /\ UNCHANGED round

-----------------------------------------------------------------------------
\* The child waits for the pong after its ping; the parent drains its pong.
Send(p) ==
  /\ pc[p] = "Send"
  /\ out' = out \union {p}
  /\ wire' = [wire EXCEPT ![Peer(p)] = @ + 1]
  /\ Goto(p, IF p = "child" THEN "Wait" ELSE "Drain")
  /\ UNCHANGED <<round, rx, inbox, acked, sendCq, recvCq>>

\* First half of poll_once, in wait_for_message and in drain_completions.
PollSend(p) ==
  /\ \/ pc[p] = "Wait" /\ Goto(p, "WaitRecv")
     \/ pc[p] = "Drain" /\ p \in out /\ Goto(p, "DrainRecv")
  /\ out' = IF sendCq[p] > 0 THEN out \ {p} ELSE out
  /\ sendCq' = [sendCq EXCEPT ![p] = 0]
  /\ UNCHANGED <<round, rx, inbox, wire, acked, recvCq>>

\* Second half in wait_for_message, which keeps a message until its own SEND has
\* completed.
ReturnsEarly(p, n) == n > 0
ReturnsWith(p, n) == n > 0 /\ p \notin out

WaitRecv(p) ==
  /\ pc[p] = "WaitRecv"
  /\ recvCq' = [recvCq EXCEPT ![p] = 0]
  /\ LET n == inbox[p] + recvCq[p] IN
     IF ReturnsWith(p, n)
     THEN inbox' = [inbox EXCEPT ![p] = n - 1] /\ Goto(p, "Repost")
     ELSE inbox' = [inbox EXCEPT ![p] = n] /\ Goto(p, "Wait")
  /\ UNCHANGED <<round, rx, out, wire, acked, sendCq>>

\* recv_ready while rounds are left, before the parent answers and before the
\* child's next ping.
CreditForgotten(p) == rx
Credit(p) == IF round[p] + 1 < Rounds THEN [rx EXCEPT ![p] = @ + 1] ELSE rx

Repost(p) ==
  /\ pc[p] = "Repost"
  /\ rx' = Credit(p)
  /\ IF p = "parent" THEN Goto(p, "Send") /\ UNCHANGED round ELSE NextRound(p, "Send")
  /\ UNCHANGED <<out, inbox, provider>>

\* Second half in drain_completions, which refuses a received message.
DrainRecv(p) ==
  /\ pc[p] = "DrainRecv"
  /\ recvCq' = [recvCq EXCEPT ![p] = 0]
  /\ Goto(p, IF recvCq[p] > 0 THEN "Failed" ELSE "Drain")
  /\ UNCHANGED <<round, rx, out, inbox, wire, acked, sendCq>>

Drained(p) ==
  /\ pc[p] = "Drain" /\ p \notin out
  /\ NextRound(p, "Wait")
  /\ UNCHANGED <<rx, out, inbox, provider>>

\* check_deadline, at the head of either loop; drain returns before it looks.
TimesOutDraining(p) ==
  /\ MayTimeOut
  /\ pc[p] = "Drain" /\ p \in out
  /\ Goto(p, "Failed")
  /\ UNCHANGED <<round, rx, out, inbox, provider>>
TimesOut(p) ==
  /\ MayTimeOut
  /\ pc[p] = "Wait" \/ (pc[p] = "Drain" /\ p \in out)
  /\ Goto(p, "Failed")
  /\ UNCHANGED <<round, rx, out, inbox, provider>>

-----------------------------------------------------------------------------
\* The provider: in order, reliable, a message waits for a posted RECV.  The
\* receiver's record may be seen long before the sender's.
Deliver(p) ==
  /\ wire[p] > 0 /\ rx[p] > 0
  /\ wire' = [wire EXCEPT ![p] = @ - 1]
  /\ rx' = [rx EXCEPT ![p] = @ - 1]
  /\ recvCq' = [recvCq EXCEPT ![p] = @ + 1]
  /\ acked' = acked \union {Peer(p)}
  /\ UNCHANGED <<pc, round, out, inbox, sendCq>>

CompleteSend(p) ==
  /\ p \in acked
  /\ acked' = acked \ {p}
  /\ sendCq' = [sendCq EXCEPT ![p] = @ + 1]
  /\ UNCHANGED <<pc, round, rx, out, inbox, wire, recvCq>>

Program(p) ==
  Send(p) \/ PollSend(p) \/ WaitRecv(p) \/ Repost(p) \/ DrainRecv(p) \/ Drained(p)
Network == \E p \in Ends : Deliver(p) \/ CompleteSend(p)
Next == Network \/ \E p \in Ends : Program(p) \/ TimesOut(p)

Spec == Init /\ [][Next]_vars

\* Both programs run and the provider delivers.  A deadline that keeps being
\* checked passes at last: strong fairness, as the check comes and goes.
FairSpec ==
  /\ Spec /\ WF_vars(Network)
  /\ \A p \in Ends : WF_vars(Program(p)) /\ SF_vars(TimesOut(p))

-----------------------------------------------------------------------------
Labels == {"Send", "Wait", "WaitRecv", "Repost", "Drain", "DrainRecv", "Done", "Failed"}

TypeOK ==
  /\ pc \in [Ends -> Labels] /\ round \in [Ends -> 0 .. Rounds - 1]
  /\ rx \in [Ends -> 0 .. 1] /\ out \subseteq Ends
  /\ inbox \in [Ends -> 0 .. 1] /\ wire \in [Ends -> 0 .. 1]
  /\ acked \subseteq Ends
  /\ sendCq \in [Ends -> 0 .. 1] /\ recvCq \in [Ends -> 0 .. 1]

\* A message never finds its receiver without a posted RECV: the reposting order
\* of both programs keeps one credit ahead of the peer's next SEND, and no
\* receiver-not-ready retry of the provider is needed.  It is never more than one
\* ahead: one receive slot per side holds what is posted or waits on the JFC.
CreditAhead ==
  \A p \in Ends : /\ wire[p] > 0 => rx[p] > 0
                  /\ rx[p] + recvCq[p] <= 1

\* The two programs are never more than one round apart, and a program that is
\* done has had its partner in the last round.
InStep ==
  /\ round["parent"] - round["child"] \in {-1, 0, 1}
  /\ \A p \in Ends : pc[p] = "Done" => round[Peer(p)] = Rounds - 1

\* Both programs come to an end.
BothEnd == \A p \in Ends : <>(pc[p] \in {"Done", "Failed"})

\* While no deadline passes, no program fails.
NeverFails == \A p \in Ends : pc[p] # "Failed"
====
