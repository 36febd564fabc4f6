---- MODULE DataPlane ----
(***************************************************************************)
(* The data plane of one process: UrmaBufferPool, CompletionPoller and     *)
(* UrmaConnection (src/src/buffer.rs, completion.rs, connection.rs) over   *)
(* the WR accounting of the C shim (src/src/ffi/shim.c) and an external    *)
(* provider that completes work requests when it likes.                    *)
(*                                                                         *)
(* The Rust side is one thread: an API call in progress is the pair        *)
(* (call, pc), and only the provider and the clock interleave with it.     *)
(* The pool and the two JFCs outlive a connection, so what a connection    *)
(* leaves behind is still there when the next one is created.              *)
(*                                                                         *)
(* A JFC is a set of completion records: a poll takes them in any order,   *)
(* which includes every order the provider can produce.                    *)
(***************************************************************************)
EXTENDS BufferPool, FiniteSets

CONSTANTS MaxConn,     \* connection ids are 1 .. MaxConn (65534 in the code)
          Batch,       \* records taken by one poll of one JFC (16 in the code)
          MaxPending,  \* bound: no RECV is posted while this many messages wait
          Faults       \* what may go wrong in a run, a subset of AllFaults

AllFaults == {"error", "mismatch", "badFrame", "badLength", "done", "pollFails",
              "postFails", "markErrorFails", "jettyCreateFails",
              "connectFails", "closeFails", "timeout"}

ASSUME DataPlaneAssumption ==
  /\ MaxConn \in Nat \ {0}
  /\ Batch \in Nat \ {0}
  /\ MaxPending \in Nat \ {0}
  /\ Faults \subseteq AllFaults

VARIABLES
  state,       \* ConnectionState, or "None" while no connection exists
  connId,      \* poller.connection_id
  nextId,      \* runtime.next_connection_id
  slots,       \* the buffer pool
  outstanding, \* poller.outstanding: the WRs the connection tracks
  outSend,     \* poller.outstanding_send
  outRecv,     \* poller.outstanding_recv
  pending,     \* number of decoded messages in pending_messages
  everPosted,  \* receive_credit.ever_posted
  call, pc,    \* the API call in progress and where it stands
  polled,      \* records of the batch being routed
  events,      \* RecvCompleted events collected by the current poll_once
  expired,     \* the deadline of the call in progress has passed
  failures,    \* close_inner has recorded a failure
  wrs,         \* live native WRs: what the shim's outstanding counters count
  posted,      \* WRs the provider still works on, whose memory it may touch
  sendCq, recvCq, \* the two JFCs
  jetties,     \* live native Jetties, by connection id
  flushing     \* Jetties in the error state whose WRs are being flushed

connVars == <<state, connId, nextId, everPosted>>
trackVars == <<outstanding, outSend, outRecv>>
callVars == <<call, pc, expired, failures>>
batchVars == <<polled, events>>
jettyVars == <<jetties, flushing>>
cqVars == <<sendCq, recvCq>>
vars == <<connVars, slots, trackVars, pending, callVars, batchVars, wrs, posted,
          cqVars, jettyVars>>

ConnIds == 1 .. MaxConn
ConnectionState == {"JettyCreated", "DescriptorExchanged", "Bound", "Ready",
                    "Draining", "Failed", "Closed"}
Token == [conn : ConnIds, op : OpType, slot : Slots]
CqeKind == {"ok", "error", "mismatch", "badFrame", "badLength"}
\* A flush marker: its user_ctx is not valid, and decodes to connection 0.
Done == [tok |-> [conn |-> 0, op |-> "Send", slot |-> 0], kind |-> "done"]
Cqe == [tok : Token, kind : CqeKind] \union {Done}

Closing == call \in {"close", "drop"}
Idle == pc = "Idle"
TokenFor(s) == [conn |-> connId, op |-> OpOf(s), slot |-> s]

Init ==
  /\ state = "None" /\ connId = 0 /\ nextId = 1 /\ everPosted = FALSE
  /\ slots = InitPool
  /\ outstanding = {} /\ outSend = 0 /\ outRecv = 0 /\ pending = 0
  /\ call = "none" /\ pc = "Idle" /\ expired = FALSE /\ failures = FALSE
  /\ polled = {} /\ events = {}
  /\ wrs = {} /\ posted = {} /\ sendCq = {} /\ recvCq = {}
  /\ jetties = {} /\ flushing = {}

-----------------------------------------------------------------------------
\* The runtime between connections, and the control plane of a connection.

AllocateSlot(s) ==
  /\ Idle /\ state = "None"
  /\ FirstFree(slots, OpOf(s), s)
  /\ slots' = Allocate(slots, s)
  /\ UNCHANGED <<connVars, trackVars, pending, callVars, batchVars, wrs, posted,
                 cqVars, jettyVars>>

\* SlotId is Copy: the application may release any id it has ever seen.
ReleaseSlot(s) ==
  /\ Idle /\ state = "None"
  /\ slots' = Release(slots, s)
  /\ UNCHANGED <<connVars, trackVars, pending, callVars, batchVars, wrs, posted,
                 cqVars, jettyVars>>

\* next_connection_id.checked_add(1); no id is given to two connections.
IdReused(id) == id
IdAfter(id) == id + 1

\* The id is consumed whether or not the native Jetty can be created.
CreateConnection ==
  /\ Idle /\ state = "None" /\ nextId <= MaxConn
  /\ nextId' = IdAfter(nextId)
  /\ \/ /\ state' = "JettyCreated" /\ connId' = nextId /\ everPosted' = FALSE
        /\ jetties' = jetties \union {nextId}
     \/ /\ "jettyCreateFails" \in Faults
        /\ UNCHANGED <<state, connId, everPosted, jetties>>
  /\ UNCHANGED <<slots, trackVars, pending, callVars, batchVars, wrs, posted,
                 cqVars, flushing>>

StateBecomes(s) ==
  /\ state' = s
  /\ UNCHANGED <<connId, nextId, everPosted, slots, trackVars, pending, callVars,
                 batchVars, wrs, posted, cqVars, jettyVars>>

ExportDescriptor ==
  /\ Idle /\ state = "JettyCreated" /\ StateBecomes("DescriptorExchanged")

\* import or bind may fail after the descriptor has been accepted.
ImportAndBind ==
  /\ Idle /\ state \in {"JettyCreated", "DescriptorExchanged"}
  /\ \/ StateBecomes("Bound")
     \/ "connectFails" \in Faults /\ StateBecomes("DescriptorExchanged")

MarkReady == Idle /\ state = "Bound" /\ StateBecomes("Ready")

\* finish_handshake calls fail() on any error of the OOB exchange.
HandshakeFails ==
  /\ Idle /\ "connectFails" \in Faults
  /\ state \in {"JettyCreated", "DescriptorExchanged", "Bound"}
  /\ StateBecomes("Failed")

-----------------------------------------------------------------------------
\* recv_ready and send.

Track(t) ==
  /\ outstanding' = outstanding \union {t}
  /\ IF t.op = "Send" THEN outSend' = outSend + 1 /\ UNCHANGED outRecv
                      ELSE outRecv' = outRecv + 1 /\ UNCHANGED outSend

\* The native post creates the WR, hands it to the provider and counts it; the
\* slot is marked before the call.  A refused post is rolled back.
Post(s) ==
  /\ FirstFree(slots, OpOf(s), s)
  /\ LET marked == MarkPosted(Allocate(slots, s), s) IN
     \/ /\ slots' = marked
        /\ wrs' = wrs \union {TokenFor(s)}
        /\ posted' = posted \union {TokenFor(s)}
        /\ Track(TokenFor(s))
        /\ everPosted' = (everPosted \/ OpOf(s) = "Recv")
     \/ /\ "postFails" \in Faults
        /\ slots' = Release(RollbackPost(marked, s), s)
        /\ UNCHANGED <<wrs, posted, trackVars, everPosted>>
  /\ UNCHANGED <<state, connId, nextId, pending, callVars, batchVars, cqVars,
                 jettyVars>>

RecvReady(s) ==
  /\ Idle /\ state \in {"Bound", "Ready"} /\ OpOf(s) = "Recv"
  /\ pending < MaxPending
  /\ Post(s)

Send(s) ==
  /\ Idle /\ state = "Ready" /\ OpOf(s) = "Send"
  /\ everPosted
  /\ Post(s)

-----------------------------------------------------------------------------
\* poll_once, and the calls that loop over it.

\* poll_once, wait_for_message and drain_completions start alike; the deadline
\* of a call starts with it.  close and drop start in Close and Drop below.
BeginCall(c) ==
  /\ Idle /\ state = "Ready" /\ c \in {"poll", "wait", "drain"}
  /\ call' = c /\ pc' = "Loop" /\ expired' = FALSE
  /\ UNCHANGED <<connVars, slots, trackVars, pending, failures, batchVars, wrs,
                 posted, cqVars, jettyVars>>

Return == call' = "none" /\ pc' = "Idle"

\* The loop of the call would not poll again.
LoopDoneSends == call \in {"drain", "close", "drop"} /\ outSend = 0
LoopDone == \/ call = "drain" /\ outSend = 0
            \/ Closing /\ outstanding = {}

DrainDone ==
  /\ pc = "Loop" /\ call = "drain" /\ LoopDone
  /\ Return
  /\ UNCHANGED <<connVars, slots, trackVars, pending, expired, failures,
                 batchVars, wrs, posted, cqVars, jettyVars>>

\* check_deadline at the head of wait_for_message and drain_completions: the
\* call returns Err and the connection stays Ready.
CallTimesOut ==
  /\ pc = "Loop" /\ call \in {"wait", "drain"} /\ ~LoopDone /\ expired
  /\ Return
  /\ UNCHANGED <<connVars, slots, trackVars, pending, expired, failures,
                 batchVars, wrs, posted, cqVars, jettyVars>>

\* One poll of a JFC: at most Batch records, and all of them if there are fewer.
BatchOf(cq) ==
  {b \in SUBSET cq : Cardinality(b) <= Batch /\ (Cardinality(b) < Batch => b = cq)}

\* An error inside poll_once leaves the records not yet routed, and the events
\* collected so far, behind.  close_inner carries on and remembers every error
\* but a completion status; the other calls fail the connection and return.
PollFails(status) ==
  /\ polled' = {} /\ events' = {}
  /\ IF Closing
     THEN /\ pc' = "Loop" /\ failures' = (failures \/ ~status)
          /\ UNCHANGED <<state, call>>
     ELSE /\ state' = "Failed" /\ UNCHANGED failures
          /\ Return
  /\ UNCHANGED <<connId, nextId, everPosted, pending, expired, jettyVars>>

MayPollLate == ~LoopDone
MayPoll == ~LoopDone /\ (expired => call = "poll")

PollSend ==
  /\ pc = "Loop" /\ MayPoll
  /\ \/ /\ polled' \in BatchOf(sendCq)
        /\ sendCq' = sendCq \ polled'
        /\ events' = {}
        /\ pc' = "RouteSend"
        /\ UNCHANGED <<connVars, pending, call, expired, failures, jettyVars>>
     \/ /\ "pollFails" \in Faults
        /\ PollFails(FALSE) /\ UNCHANGED sendCq
  /\ UNCHANGED <<slots, trackVars, wrs, posted, recvCq>>

PollRecv ==
  /\ pc = "RouteSend" /\ polled = {}
  /\ \/ /\ polled' \in BatchOf(recvCq)
        /\ recvCq' = recvCq \ polled'
        /\ pc' = "RouteRecv"
        /\ UNCHANGED <<connVars, events, pending, call, expired, failures,
                       jettyVars>>
     \/ /\ "pollFails" \in Faults
        /\ PollFails(FALSE) /\ UNCHANGED recvCq
  /\ UNCHANGED <<slots, trackVars, wrs, posted, sendCq>>
-----------------------------------------------------------------------------
\* CompletionPoller::route, one record of the batch at a time.

\* route finds the WR of the record: its token names this connection and the WR
\* is outstanding.  A FLUSH_ERR_DONE or SUSPEND_DONE record has no token.
MatchesOnSuccess(r) == r.kind = "ok" /\ r.tok \in outstanding
Matches(r) ==
  r.kind # "done" /\ r.tok.conn = connId /\ r.tok \in outstanding

EndWrSwapped(t) ==
  /\ outstanding' = outstanding \ {t}
  /\ wrs' = wrs \ {t}
  /\ outSend' = outSend - 1 /\ UNCHANGED outRecv
\* outstanding.remove, WrHandle::complete and the counters.
EndWr(t) ==
  /\ outstanding' = outstanding \ {t}
  /\ wrs' = wrs \ {t}
  /\ IF t.op = "Send" THEN outSend' = outSend - 1 /\ UNCHANGED outRecv
                      ELSE outRecv' = outRecv - 1 /\ UNCHANGED outSend

Routing == pc \in {"RouteSend", "RouteRecv"}

\* Stale, foreign and unknown records and flush markers: an Err, no effect.
RouteUnmatched(r) ==
  /\ Routing /\ r \in polled /\ ~Matches(r)
  /\ PollFails(r.kind = "done")
  /\ UNCHANGED <<slots, trackVars, wrs, posted, cqVars>>

\* A completion that ends its WR and recycles the slot.
Recycled(t) == Release(Complete(slots, t.slot, t.op), t.slot)

\* A failed status, or queue, flags or opcode that disagree with the token.
RouteFailed(r) ==
  /\ Routing /\ r \in polled /\ Matches(r)
  /\ r.kind \in {"error", "mismatch"}
  /\ EndWr(r.tok)
  /\ slots' = Recycled(r.tok)
  /\ PollFails(r.kind = "error")
  /\ UNCHANGED <<posted, cqVars>>

\* complete_recv refuses a length of zero or beyond the slot before it moves the
\* slot, so the slot stays PostedRecv although its WR is gone.
RouteBadLength(r) ==
  /\ Routing /\ r \in polled /\ Matches(r)
  /\ r.kind = "badLength"
  /\ EndWr(r.tok)
  /\ UNCHANGED slots
  /\ PollFails(FALSE)
  /\ UNCHANGED <<posted, cqVars>>

RouteOk(r) ==
  /\ Routing /\ r \in polled /\ Matches(r)
  /\ r.kind \in {"ok", "badFrame"}
  /\ EndWr(r.tok)
  /\ slots' = Recycled(r.tok)
  /\ polled' = polled \ {r}
  /\ events' = IF r.tok.op = "Recv" THEN events \union {r} ELSE events
  /\ UNCHANGED <<connVars, pending, callVars, posted, cqVars, jettyVars>>

Route == \E r \in polled :
           RouteUnmatched(r) \/ RouteFailed(r) \/ RouteBadLength(r) \/ RouteOk(r)

\* poll_once is done: poll hands the events to its caller, drain refuses a
\* received message, wait goes on to decode, close ignores them.
PollReturns ==
  /\ pc = "RouteRecv" /\ polled = {}
  /\ \/ /\ call = "wait" /\ pc' = "Decode" /\ UNCHANGED <<events, call>>
     \/ /\ call = "poll" \/ (call = "drain" /\ events # {})
        /\ events' = {} /\ Return
     \/ /\ Closing \/ (call = "drain" /\ events = {})
        /\ events' = {} /\ pc' = "Loop" /\ UNCHANGED call
  /\ UNCHANGED <<connVars, slots, trackVars, pending, expired, failures, polled,
                 wrs, posted, cqVars, jettyVars>>

\* wait_for_message decodes the received frames; one that does not decode is an
\* Err that leaves the connection Ready and drops the frames after it.
Decode(e) ==
  /\ pc = "Decode" /\ e \in events
  /\ \/ /\ e.kind = "ok"
        /\ pending' = pending + 1 /\ events' = events \ {e}
        /\ UNCHANGED <<call, pc>>
     \/ /\ e.kind = "badFrame"
        /\ events' = {} /\ Return /\ UNCHANGED pending
  /\ UNCHANGED <<connVars, slots, trackVars, expired, failures, polled, wrs,
                 posted, cqVars, jettyVars>>

\* A message is returned only when no SEND of the connection is in flight.
WaitReturns ==
  /\ pc = "Decode" /\ events = {}
  /\ IF pending > 0 /\ outSend = 0
     THEN pending' = pending - 1 /\ Return
     ELSE pc' = "Loop" /\ UNCHANGED <<pending, call>>
  /\ UNCHANGED <<connVars, slots, trackVars, expired, failures, batchVars, wrs,
                 posted, cqVars, jettyVars>>

-----------------------------------------------------------------------------
\* close_inner: run by close(self) and, again, by the Drop that follows it.

\* The Jetty is told to fail its WRs and the drain loop starts.
BeginClose(c) ==
  /\ call' = c /\ failures' = FALSE /\ expired' = FALSE
  /\ \/ /\ outstanding = {} /\ pc' = "CloseJetty"
        /\ UNCHANGED <<state, flushing>>
     \/ /\ outstanding # {} /\ pc' = "MarkError"
        /\ state' = "Draining" /\ UNCHANGED flushing
  /\ UNCHANGED <<connId, nextId, everPosted, slots, trackVars, pending, batchVars,
                 wrs, posted, cqVars, jetties>>

Close == Idle /\ state # "None" /\ BeginClose("close")

\* The connection is dropped: by its owner, or at the end of close(self).  A
\* Closed connection has nothing left to do.
DropByOwner == Idle /\ state # "None" /\ BeginClose("drop")
DropAfterClose ==
  /\ pc = "Closed" /\ call = "close" /\ state # "Closed"
  /\ BeginClose("drop")

MarkErrorForgotten ==
  /\ pc = "MarkError" /\ pc' = "Loop"
  /\ UNCHANGED <<connVars, slots, trackVars, pending, call, expired, failures,
                 batchVars, wrs, posted, cqVars, jettyVars>>
MarkError ==
  /\ pc = "MarkError" /\ pc' = "Loop"
  /\ \/ flushing' = flushing \union {connId} /\ UNCHANGED failures
     \/ /\ "markErrorFails" \in Faults
        /\ failures' = TRUE /\ UNCHANGED flushing
  /\ UNCHANGED <<connVars, slots, trackVars, pending, call, expired, batchVars,
                 wrs, posted, cqVars, jetties>>

\* The drain loop ends: empty, or out of time.  Any failure keeps the Jetty.
CloseDrained ==
  /\ pc = "Loop" /\ Closing
  /\ LoopDone \/ expired
  /\ IF LoopDone /\ ~failures
     THEN pc' = "CloseJetty" /\ UNCHANGED state
     ELSE pc' = "Closed" /\ state' = "Failed"
  /\ UNCHANGED <<connId, nextId, everPosted, slots, trackVars, pending, call,
                 expired, failures, batchVars, wrs, posted, cqVars, jettyVars>>

\* unbind, unimport and delete: the shim refuses while the Jetty has WRs.
HasWrs(j) == \E t \in wrs : t.conn = j
DeleteBusyJetty(j) ==
  jetties' = jetties \ {j} /\ flushing' = flushing \ {j}
DeleteJetty(j) ==
  /\ ~HasWrs(j)
  /\ jetties' = jetties \ {j} /\ flushing' = flushing \ {j}
KeepJetty(j) ==
  /\ HasWrs(j) \/ "closeFails" \in Faults
  /\ UNCHANGED jettyVars

CloseJetty ==
  /\ pc = "CloseJetty" /\ pc' = "Closed"
  /\ \/ DeleteJetty(connId) /\ state' = "Closed"
     \/ KeepJetty(connId) /\ state' = "Failed"
  /\ UNCHANGED <<connId, nextId, everPosted, slots, trackVars, pending, call,
                 expired, failures, batchVars, wrs, posted, cqVars>>

\* WrHandle has a Drop that keeps the native WR: only a completion frees it.
WrsFreedByDrop == wrs \ outstanding
WrsAfterDrop == wrs

\* The fields are dropped: UrmaJetty closes once more if its Jetty is left, the
\* tracked WrHandles are leaked, and only the runtime remains.
DropFields ==
  /\ pc = "Closed" /\ (call = "drop" \/ state = "Closed")
  /\ IF connId \in jetties
     THEN DeleteJetty(connId) \/ KeepJetty(connId)
     ELSE UNCHANGED jettyVars
  /\ state' = "None" /\ connId' = 0 /\ everPosted' = FALSE
  /\ outstanding' = {} /\ outSend' = 0 /\ outRecv' = 0 /\ pending' = 0
  /\ expired' = FALSE /\ failures' = FALSE
  /\ wrs' = WrsAfterDrop
  /\ Return
  /\ UNCHANGED <<nextId, slots, batchVars, posted, cqVars>>

-----------------------------------------------------------------------------
\* The environment: the clock and the provider (liburma and the device).

\* The deadline of a looping call passes; check_deadline reads it later.
Expire ==
  /\ "timeout" \in Faults
  /\ ~Idle /\ call # "poll" /\ pc # "Closed" /\ ~expired
  /\ expired' = TRUE
  /\ UNCHANGED <<connVars, slots, trackVars, pending, call, pc, failures,
                 batchVars, wrs, posted, cqVars, jettyVars>>

\* What a completion of WR t may report.
Outcomes(t) ==
  {"ok"} \union (IF t.conn \in flushing THEN {"error"} ELSE {})
         \union (Faults \intersect {"error", "mismatch"})
         \union (IF t.op = "Recv" THEN Faults \intersect {"badFrame", "badLength"}
                 ELSE {})

\* The provider is done with a WR and puts its record on the JFC of the queue.
Completes(t, k) ==
  /\ t \in posted /\ k \in Outcomes(t)
  /\ posted' = posted \ {t}
  /\ LET r == [tok |-> t, kind |-> k] IN
     IF t.op = "Send" THEN sendCq' = sendCq \union {r} /\ UNCHANGED recvCq
                      ELSE recvCq' = recvCq \union {r} /\ UNCHANGED sendCq
  /\ UNCHANGED <<connVars, slots, trackVars, pending, callVars, batchVars, wrs,
                 jettyVars>>

ProviderCompletes == \E t \in posted : \E k \in CqeKind : Completes(t, k)

\* The last WR of a Jetty in error is flushed: one marker record per mark_error.
FlushDone(j) ==
  /\ "done" \in Faults /\ j \in flushing
  /\ \A t \in posted : t.conn # j
  /\ flushing' = flushing \ {j}
  /\ \/ sendCq' = sendCq \union {Done} /\ UNCHANGED recvCq
     \/ recvCq' = recvCq \union {Done} /\ UNCHANGED sendCq
  /\ UNCHANGED <<connVars, slots, trackVars, pending, callVars, batchVars, wrs,
                 posted, jetties>>

-----------------------------------------------------------------------------
AppStarts ==
  \/ \E s \in Slots : AllocateSlot(s) \/ ReleaseSlot(s) \/ RecvReady(s) \/ Send(s)
  \/ CreateConnection \/ ExportDescriptor \/ ImportAndBind \/ MarkReady
  \/ HandshakeFails
  \/ \E c \in {"poll", "wait", "drain"} : BeginCall(c)
  \/ Close \/ DropByOwner

\* The steps of a call in progress.
CallSteps ==
  \/ DrainDone \/ CallTimesOut \/ PollSend \/ PollRecv \/ Route \/ PollReturns
  \/ \E e \in events : Decode(e)
  \/ WaitReturns \/ MarkError \/ CloseDrained \/ CloseJetty \/ DropAfterClose
  \/ DropFields

Provider == ProviderCompletes \/ \E j \in jetties : FlushDone(j)

Next == AppStarts \/ CallSteps \/ Expire \/ Provider

\* The thread of the call runs, the clock advances, and the device flushes the
\* WRs of a Jetty in the error state.  Nothing else is promised: the application
\* need not call, and a posted RECV need not ever complete.
FlushWr == \E t \in posted : t.conn \in flushing /\ \E k \in CqeKind : Completes(t, k)

Spec == Init /\ [][Next]_vars
FairSpec == Spec /\ WF_vars(CallSteps) /\ WF_vars(Expire) /\ WF_vars(FlushWr)

-----------------------------------------------------------------------------
TypeOK ==
  /\ state \in ConnectionState \union {"None"}
  /\ connId \in ConnIds \union {0} /\ nextId \in 1 .. MaxConn + 1
  /\ everPosted \in BOOLEAN
  /\ slots \in [Slots -> SlotState]
  /\ outstanding \subseteq Token /\ outSend \in Nat /\ outRecv \in Nat
  /\ pending \in Nat
  /\ call \in {"none", "poll", "wait", "drain", "close", "drop"}
  /\ pc \in {"Idle", "Loop", "RouteSend", "RouteRecv", "Decode", "MarkError",
             "CloseJetty", "Closed"}
  /\ expired \in BOOLEAN /\ failures \in BOOLEAN
  /\ polled \subseteq Cqe /\ events \subseteq Cqe
  /\ wrs \subseteq Token /\ posted \subseteq Token
  /\ sendCq \subseteq Cqe /\ recvCq \subseteq Cqe
  /\ jetties \subseteq ConnIds /\ flushing \subseteq ConnIds

\* Every live WR owns its slot alone, and the slot says which operation it is
\* posted for: buffer memory is never given out again, by any connection or by
\* release, while a WR may still reference it (mark_posted, release, route).
WrOwnsSlot ==
  /\ \A t \in wrs : t.op = OpOf(t.slot) /\ slots[t.slot] = Posted(t.op)
  /\ \A t, u \in wrs : t.slot = u.slot => t = u

Records == sendCq \union recvCq \union polled
Reports == {r \in Records : r.kind # "done"}

\* A WR is with the provider or reported, never both; it has at most one record,
\* in one place; and no record is left of a WR whose native memory was freed
\* (WrHandle::complete is called once per WR, and only by its completion).
InFlightOnce ==
  /\ posted \subseteq wrs
  /\ \A r \in Reports : r.tok \in wrs \ posted
  /\ \A r, q \in Reports : r.tok = q.tok => r = q
  /\ \A r \in Reports : ~(r \in sendCq /\ r \in recvCq)
                      /\ (r \in polled => r \notin sendCq \union recvCq)

WithOp(S, op) == {t \in S : t.op = op}

\* The connection tracks exactly the native WRs posted under its id, and the
\* counters that send, drain and close test agree with the table.
TrackedExactly ==
  /\ outstanding = {t \in wrs : t.conn = connId}
  /\ outSend = Cardinality(WithOp(outstanding, "Send"))
  /\ outRecv = Cardinality(WithOp(outstanding, "Recv"))

\* A native Jetty lives as long as any WR posted on it, also when close gave up
\* or the connection was dropped: the shim refuses to delete a busy Jetty.
JettyOutlivesWrs == \A t \in wrs : t.conn \in jetties

\* A slot is in a posted state only while a WR references it: otherwise release
\* refuses it for ever and the pool has lost it.
PostedSlotHasWr ==
  \A s \in Slots : slots[s] \in {"SendPosted", "PostedRecv"}
                     => \E t \in wrs : t.slot = s

\* Every live WR is still with the provider or has a record that a poll will
\* route: poll_once never loses the completion of a WR.
NoLostCompletion ==
  \A t \in wrs : t \in posted \/ \E r \in Reports : r.tok = t

\* Every API call that was started returns (the deadlines of wait, drain and
\* close, whatever the provider does).
CallReturns == ~Idle ~> Idle

\* A close that finds WRs outstanding drains them and destroys the Jetty, unless
\* its deadline passes or a step of it fails.
CleanClose == pc = "MarkError" ~> state = "Closed" \/ expired \/ failures

\* The slots as their owners see them, and those the device works on.
OwnerOf(st) ==
  IF st = "Free" THEN "Pool" ELSE IF st = "Allocated" THEN "App" ELSE "Device"
Owner == [s \in Slots |-> OwnerOf(slots[s])]
Active == {t.slot : t \in posted}
Ownership == INSTANCE SlotOwnership WITH owner <- Owner, active <- Active

\* The data plane implements the ownership protocol of its slots.
ImplementsOwnership == Ownership!Spec
====
