---- MODULE FileTransfer ----
(***************************************************************************)
(* The file mode of both programs (src/src/bin/parent.rs, child.rs) over   *)
(* ReceiveState and digest_reader of src/src/transfer.rs and the message   *)
(* operations of a connection, from READY to the last line they print.     *)
(*                                                                         *)
(* A file is a sequence of blocks.  SHA-256 is taken as injective, so the  *)
(* digest and length of a Metadata message are the content itself.  The    *)
(* parent reads its file twice, and somebody may rewrite it meanwhile.     *)
(* A side has one SEND at a time; a poll_once is one step, as messages     *)
(* never cross here.                                                       *)
(***************************************************************************)
EXTENDS Integers, Sequences

CONSTANTS Files,       \* the contents the input file may have
          Chunk,       \* MAX_DATA_PAYLOAD_LEN, in blocks
          MaxChanges,  \* bound: how often the input file is rewritten
          Faults,      \* what may go wrong: timeout, io, post, rnr
          NoFile       \* no content announced yet

Blocks == UNION {{f[i] : i \in DOMAIN f} : f \in Files}

ASSUME FileTransferAssumption ==
  /\ (\A f \in Files : f \in Seq(Blocks)) /\ NoFile \notin Seq(Blocks)
  /\ Chunk \in Nat \ {0} /\ MaxChanges \in Nat
  /\ Faults \subseteq {"timeout", "io", "post", "rnr"}

Ends == {"parent", "child"}
Peer(p) == IF p = "parent" THEN "child" ELSE "parent"

VARIABLES
  file, changes,              \* the input file; how often it was rewritten
  pc,                         \* where each program stands
  hashed, pos, sequence,      \* parent: first pass, position in the pass, Data sent
  tx, msg,                    \* each side's SEND and the message it carries
  rx, cq, pending,            \* RECVs posted, messages on the JFC and popped from it
  current,                    \* the message wait_for_message returned
  phase, promised, next, got, \* ReceiveState
  output                      \* the output file

parentVars == <<hashed, pos, sequence>>
linkVars == <<tx, msg, rx, cq, pending>>
childVars == <<phase, promised, next, got, output>>
vars == <<file, changes, pc, parentVars, linkVars, current, childVars>>

Message(kind, n, data) == [kind |-> kind, sequence |-> n, data |-> data]
Nothing == Message("none", 0, <<>>)

Init ==
  /\ file \in Files /\ changes = 0
  /\ pc = [p \in Ends |-> IF p = "child" THEN "Request" ELSE "Wait"]
  /\ hashed = <<>> /\ pos = 0 /\ sequence = 0
  /\ tx = [p \in Ends |-> "none"] /\ msg = [p \in Ends |-> Nothing]
  /\ rx = [p \in Ends |-> 1]
  /\ cq = [p \in Ends |-> <<>>] /\ pending = [p \in Ends |-> <<>>]
  /\ current = [p \in Ends |-> Nothing]
  /\ phase = "AwaitMetadata" /\ promised = NoFile /\ next = 0 /\ got = <<>>
  /\ output = <<>>

Goto(p, l) == pc' = [pc EXCEPT ![p] = l]
Fails(p) == Goto(p, "Failed")

\* Every `?` of the programs that the fault stands for ends them.
FailsBy(p, fault, labels) ==
  /\ fault \in Faults /\ pc[p] \in labels
  /\ Fails(p)
  /\ UNCHANGED <<file, changes, parentVars, linkVars, current, childVars>>

-----------------------------------------------------------------------------
\* Both programs: send, and the two loops over poll_once.
Posts(p, m) ==
  /\ tx' = [tx EXCEPT ![p] = "wire"] /\ msg' = [msg EXCEPT ![p] = m]
  /\ UNCHANGED <<rx, cq, pending>>

SendDone(p) == tx[p] \in {"none", "completed"}

\* The messages that wait on a side, oldest first.
Queue(p) == pending[p] \o cq[p]

\* wait_for_message.  A SEND that failed fails the poll.
Wait(p) ==
  /\ pc[p] = "Wait"
  /\ IF tx[p] = "error"
     THEN Fails(p) /\ UNCHANGED <<linkVars, current>>
     ELSE /\ cq' = [cq EXCEPT ![p] = <<>>]
          /\ tx' = [tx EXCEPT ![p] = IF SendDone(p) THEN "none" ELSE @]
          /\ IF Queue(p) # <<>> /\ SendDone(p)
             THEN /\ current' = [current EXCEPT ![p] = Head(Queue(p))]
                  /\ pending' = [pending EXCEPT ![p] = Tail(Queue(p))] /\ Goto(p, "Got")
             ELSE pending' = [pending EXCEPT ![p] = Queue(p)] /\ UNCHANGED <<pc, current>>
          /\ UNCHANGED <<msg, rx>>
  /\ UNCHANGED <<file, changes, parentVars, childVars>>

DrainedEarly == tx["parent"] # "error"
Drained == tx["parent"] = "completed"

\* drain_completions of the parent: on to the next read, or the end.
Drain ==
  /\ pc["parent"] = "Drain"
  /\ \/ /\ tx["parent"] = "error" \/ (tx["parent"] # "none" /\ cq["parent"] # <<>>)
        /\ Fails("parent") /\ UNCHANGED <<linkVars, sequence>>
     \/ /\ Drained /\ cq["parent"] = <<>>
        /\ tx' = [tx EXCEPT !["parent"] = "none"]
        /\ sequence' = sequence + (IF msg["parent"].kind = "Data" THEN 1 ELSE 0)
        /\ Goto("parent", IF msg["parent"].kind = "End" THEN "Done" ELSE "Read")
        /\ UNCHANGED <<msg, rx, cq, pending>>
  /\ UNCHANGED <<file, changes, hashed, pos, current, childVars>>

TimesOutWaiting(p) == FailsBy(p, "timeout", {"Wait"})
TimesOut(p) == FailsBy(p, "timeout", {"Wait", "Drain"})

-----------------------------------------------------------------------------
\* The parent.
TakeRequest ==
  /\ pc["parent"] = "Got"
  /\ Goto("parent", IF current["parent"].kind = "Request" THEN "Hash" ELSE "Failed")
  /\ UNCHANGED <<file, changes, parentVars, linkVars, current, childVars>>

\* What a read at the current position may return: at least a block, unless at the
\* end of the file as it is now.
ChunksAt(i) == {SubSeq(file, i + 1, j) : j \in {k \in i + 1 .. Len(file) : k <= i + Chunk}}

\* digest_reader, then the second open of the file.
Hash ==
  /\ pc["parent"] = "Hash"
  /\ \/ \E c \in ChunksAt(pos) :
          hashed' = hashed \o c /\ pos' = pos + Len(c) /\ UNCHANGED pc
     \/ ChunksAt(pos) = {} /\ pos' = 0 /\ Goto("parent", "Metadata") /\ UNCHANGED hashed
  /\ UNCHANGED <<file, changes, sequence, linkVars, current, childVars>>

SendMetadata ==
  /\ pc["parent"] = "Metadata"
  /\ Posts("parent", Message("Metadata", 0, hashed)) /\ Goto("parent", "Drain")
  /\ UNCHANGED <<file, changes, parentVars, current, childVars>>

\* End repeats the length of the first pass and the number of Data messages.
EndOneMore == Message("End", sequence + 1, hashed)
EndMessage == Message("End", sequence, hashed)

SendData ==
  /\ pc["parent"] = "Read"
  /\ \/ \E c \in ChunksAt(pos) :
          Posts("parent", Message("Data", sequence, c)) /\ pos' = pos + Len(c)
     \/ ChunksAt(pos) = {} /\ Posts("parent", EndMessage) /\ UNCHANGED pos
  /\ Goto("parent", "Drain")
  /\ UNCHANGED <<file, changes, hashed, sequence, current, childVars>>

-----------------------------------------------------------------------------
\* The child.
SendRequest ==
  /\ pc["child"] = "Request"
  /\ Posts("child", Message("Request", 0, <<>>)) /\ Goto("child", "Create")
  /\ UNCHANGED <<file, changes, parentVars, current, childVars>>

CreateOutput ==
  /\ pc["child"] = "Create"
  /\ Goto("child", "Wait")
  /\ UNCHANGED <<file, changes, parentVars, linkVars, current, childVars>>

\* recv_ready comes first, before the message is looked into; End gets none.
RepostsTwice(kind) == IF kind \in {"Metadata", "Data"} THEN 2 ELSE 0
RepostsAlways(kind) == 1
RepostsOnce(kind) == IF kind = "Metadata" THEN 1 ELSE 0
Reposts(kind) == IF kind \in {"Metadata", "Data"} THEN 1 ELSE 0

Repost ==
  /\ pc["child"] = "Got"
  /\ rx' = [rx EXCEPT !["child"] = @ + Reposts(current["child"].kind)]
  /\ Goto("child", "Accept")
  /\ UNCHANGED <<file, changes, parentVars, tx, msg, cq, pending, current, childVars>>

\* ReceiveState::accept.  The length of the data and the digest of all of it.
FitsLate(m) == Len(got) <= Len(promised)
Fits(m) == Len(got) + Len(m.data) <= Len(promised)
CompleteUnchecked(m) == m.sequence = next /\ Len(got) = Len(promised)
Complete(m) == m.sequence = next /\ Len(m.data) = Len(promised) /\ got = promised

AcceptMetadata(m) ==
  /\ phase = "AwaitMetadata" /\ m.kind = "Metadata" /\ m.sequence = 0
  /\ phase' = "Receiving" /\ promised' = m.data /\ Goto("child", "Wait")
  /\ UNCHANGED <<next, got, output>>
AcceptData(m) ==
  /\ phase = "Receiving" /\ m.kind = "Data" /\ m.sequence = next /\ Fits(m)
  /\ \/ /\ output' = output \o m.data /\ got' = got \o m.data /\ next' = next + 1
        /\ Goto("child", "Wait")
     \/ /\ "io" \in Faults  \* write_all wrote a part
        /\ \E k \in 0 .. Len(m.data) : output' = output \o SubSeq(m.data, 1, k)
        /\ Fails("child") /\ UNCHANGED <<got, next>>
  /\ UNCHANGED <<phase, promised>>
AcceptEnd(m) ==
  /\ phase = "Receiving" /\ m.kind = "End" /\ Complete(m)
  /\ phase' = "Complete" /\ Goto("child", "Flush")
  /\ UNCHANGED <<promised, next, got, output>>
Refuse(m) ==
  /\ ~ \/ phase = "AwaitMetadata" /\ m.kind = "Metadata" /\ m.sequence = 0
       \/ phase = "Receiving" /\ m.kind = "Data" /\ m.sequence = next /\ Fits(m)
       \/ phase = "Receiving" /\ m.kind = "End" /\ Complete(m)
  /\ Goto("child", "Refused") /\ UNCHANGED childVars

Accept ==
  /\ pc["child"] = "Accept"
  /\ LET m == current["child"] IN
       AcceptMetadata(m) \/ AcceptData(m) \/ AcceptEnd(m) \/ Refuse(m)
  /\ UNCHANGED <<file, changes, parentVars, linkVars, current>>

Flush ==
  /\ pc["child"] = "Flush" /\ Goto("child", "Done")
  /\ UNCHANGED <<file, changes, parentVars, linkVars, current, childVars>>

-----------------------------------------------------------------------------
\* The programs over: their connections go, with what is posted on them.
Over == {"Done", "Failed", "Refused"}
Leave(p) ==
  /\ pc[p] \in Over /\ (rx[p] # 0 \/ tx[p] # "none")
  /\ rx' = [rx EXCEPT ![p] = 0] /\ tx' = [tx EXCEPT ![p] = "none"]
  /\ UNCHANGED <<file, changes, pc, parentVars, msg, cq, pending, current, childVars>>

\* The provider: a message waits for a posted RECV (receiver-not-ready retries),
\* and its sender may learn of the delivery late.
Deliver(p) ==
  /\ tx[p] = "wire" /\ rx[Peer(p)] > 0
  /\ tx' = [tx EXCEPT ![p] = "acked"]
  /\ rx' = [rx EXCEPT ![Peer(p)] = @ - 1]
  /\ cq' = [cq EXCEPT ![Peer(p)] = Append(@, msg[p])]
  /\ UNCHANGED <<file, changes, pc, parentVars, msg, pending, current, childVars>>
CompleteSend(p) ==
  /\ tx[p] = "acked" /\ tx' = [tx EXCEPT ![p] = "completed"]
  /\ UNCHANGED <<file, changes, pc, parentVars, msg, rx, cq, pending, current, childVars>>
RetriesExceeded(p) ==
  /\ "rnr" \in Faults /\ tx[p] = "wire" /\ rx[Peer(p)] = 0
  /\ tx' = [tx EXCEPT ![p] = "error"]
  /\ UNCHANGED <<file, changes, pc, parentVars, msg, rx, cq, pending, current, childVars>>

\* Somebody rewrites the input file.
Rewrite ==
  /\ changes < MaxChanges /\ changes' = changes + 1
  /\ \E f \in Files \ {file} : file' = f
  /\ UNCHANGED <<pc, parentVars, linkVars, current, childVars>>

ParentStep == Wait("parent") \/ Drain \/ TakeRequest \/ Hash \/ SendMetadata \/ SendData
ChildStep == SendRequest \/ CreateOutput \/ Wait("child") \/ Repost \/ Accept \/ Flush
Network == \E p \in Ends : Deliver(p) \/ CompleteSend(p)

\* The files that are opened and read, the receive and send posts.
CallFails ==
  \/ FailsBy("parent", "io", {"Hash", "Read"}) \/ FailsBy("child", "io", {"Create", "Flush"})
  \/ FailsBy("parent", "post", {"Metadata", "Read"}) \/ FailsBy("child", "post", {"Request"})
  \/ Reposts(current["child"].kind) > 0 /\ FailsBy("child", "post", {"Got"})

Next ==
  \/ ParentStep \/ ChildStep \/ CallFails \/ Network \/ Rewrite
  \/ \E p \in Ends : TimesOut(p) \/ RetriesExceeded(p) \/ Leave(p)

Spec == Init /\ [][Next]_vars

\* Both programs run, the provider delivers to a posted RECV and reports it, and
\* deadlines pass.  That it gives up retrying is not assumed.
FairSpec ==
  /\ Spec /\ WF_vars(ParentStep) /\ WF_vars(ChildStep) /\ WF_vars(Network)
  /\ \A p \in Ends : WF_vars(TimesOut(p))

-----------------------------------------------------------------------------
Kinds == {"none", "Request", "Metadata", "Data", "End"}
Messages == [kind : Kinds, sequence : Nat, data : Seq(Blocks)]
Labels == {"Request", "Create", "Wait", "Got", "Accept", "Flush", "Hash", "Metadata",
           "Read", "Drain"} \union Over

\* Among others: one receive slot per side is enough for posted and waiting messages.
TypeOK ==
  /\ file \in Files /\ changes \in 0 .. MaxChanges
  /\ pc \in [Ends -> Labels]
  /\ hashed \in Seq(Blocks) /\ pos \in Nat /\ sequence \in Nat
  /\ tx \in [Ends -> {"none", "wire", "acked", "completed", "error"}]
  /\ msg \in [Ends -> Messages] /\ current \in [Ends -> Messages]
  /\ rx \in [Ends -> 0 .. 1]
  /\ cq \in [Ends -> Seq(Messages)] /\ pending \in [Ends -> Seq(Messages)]
  /\ \A p \in Ends : rx[p] + Len(cq[p]) + Len(pending[p]) <= 1
  /\ phase \in {"AwaitMetadata", "Receiving", "Complete"}
  /\ promised \in Seq(Blocks) \union {NoFile}
  /\ next \in Nat /\ got \in Seq(Blocks) /\ output \in Seq(Blocks)

\* A child that reports success has on disk what the parent announced, and the file
\* itself when nobody touched it.
ExactCopy ==
  pc["child"] = "Done" => output = hashed /\ (changes = 0 => output = file)

\* Only a file that changed under the parent is refused: numbering, lengths and the
\* counts of both programs agree for every way the reads split the file.
OnlyChangesRefused == pc["child"] = "Refused" => changes > 0

\* A program that ends well leaves nothing posted and nothing unread, so that its
\* connection closes at once.
NothingOutstanding ==
  \A p \in Ends : pc[p] = "Done" =>
    rx[p] = 0 /\ tx[p] = "none" /\ cq[p] = <<>> /\ pending[p] = <<>>

\* A parent that ends well, and takes its connection down, has had End delivered:
\* a child that has not given up finds it on its own JFC.
DeliveredToEnd ==
  pc["parent"] = "Done" /\ pc["child"] \notin {"Failed", "Refused"} =>
    \/ current["child"].kind = "End"
    \/ \E i \in DOMAIN Queue("child") : Queue("child")[i].kind = "End"

\* A program that can only go on once it is told of something: in wait_for_message
\* without a message or with its SEND outstanding, in drain_completions with its SEND
\* outstanding, or done.
Waiting(p) ==
  \/ pc[p] = "Done"
  \/ pc[p] = "Wait" /\ tx[p] # "error" /\ (Queue(p) = <<>> \/ ~SendDone(p))
  \/ pc[p] = "Drain" /\ tx[p] \notin {"error", "completed"}

\* The provider has nothing to do: no SEND finds a RECV, none is to be reported.
NothingUnderWay ==
  \A p \in Ends : tx[p] # "acked" /\ (tx[p] = "wire" => rx[Peer(p)] = 0)

\* No deadline is needed while neither program has given up: the two never wait for each
\* other, so that one of them can go on or the provider has something to do, until both
\* are done (what the child reposts is what the parent sends).
NoStandoff ==
  (\A p \in Ends : Waiting(p)) /\ NothingUnderWay => \A p \in Ends : pc[p] = "Done"

\* The transfer implements a verified copy.
Verdict ==
  IF pc["child"] = "Done" THEN "complete"
  ELSE IF pc["child"] \in {"Failed", "Refused"} THEN "failed" ELSE "none"
Copy == INSTANCE VerifiedCopy WITH
  copy <- output, announced <- promised, verdict <- Verdict,
  Contents <- Seq(Blocks), Unknown <- NoFile
ImplementsCopy == Copy!Init /\ [][Copy!Next]_Copy!vars

\* Both programs come to an end.
BothEnd == \A p \in Ends : <>(pc[p] \in Over)
====
