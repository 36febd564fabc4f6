---- MODULE OwnershipProofs ----
(***************************************************************************)
(* More about DataPlane for every value of its constants: each WR is in    *)
(* flight once, its Jetty outlives it, the slots follow the ownership      *)
(* protocol of SlotOwnership, only a batch that an error cuts short loses  *)
(* completions, and a connection that close leaves Failed has a reason.    *)
(***************************************************************************)
EXTENDS DataPlaneProofs

\* A connection has its Jetty until close has deleted it, and a deleted Jetty is
\* the end of the call that deleted it.
JettyKept ==
  /\ state \notin {"None", "Closed"} => connId \in jetties
  /\ state = "Closed" => pc = "Closed"

\* With IInv, inductive.
FInv == InFlightOnce /\ JettyKept /\ JettyOutlivesWrs

\* Without WRs, records and connections FInv holds.
THEOREM InitFInv == Init => FInv
BY DEF Init, FInv, InFlightOnce, JettyKept, JettyOutlivesWrs, Reports, Records

-----------------------------------------------------------------------------
\* InFlightOnce, by what a step does to WRs and records.

\* Records move between the JFCs and the batch, or are dropped.
LEMMA RecordsMoved ==
  ASSUME InFlightOnce, UNCHANGED <<wrs, posted>>,
         sendCq' \ sendCq \subseteq {Done}, recvCq' \ recvCq \subseteq {Done},
         \/ polled' \subseteq polled
         \/ polled' \subseteq sendCq /\ sendCq' = sendCq \ polled' /\ recvCq' = recvCq
         \/ polled' \subseteq recvCq /\ recvCq' = recvCq \ polled' /\ sendCq' = sendCq
  PROVE  InFlightOnce'
<1>1. \A r \in Reports' : r \in Reports
  BY DEF Reports, Records, Done
<1>2. \A r \in Reports' : /\ ~(r \in sendCq' /\ r \in recvCq')
                          /\ (r \in polled' => r \notin sendCq' \union recvCq')
  BY <1>1 DEF InFlightOnce, Reports, Records, Done
<1> QED
  BY <1>1, <1>2 DEF InFlightOnce

\* A WR is posted: nothing has reported it yet.
LEMMA WrAdded ==
  ASSUME InFlightOnce, NEW t, t \notin wrs, wrs' = wrs \union {t},
         posted' = posted \union {t}, UNCHANGED <<polled, sendCq, recvCq>>
  PROVE  InFlightOnce'
BY DEF InFlightOnce, Reports, Records

\* A routed record ends its WR and is gone with it.
LEMMA WrEnded ==
  ASSUME InFlightOnce, NEW r \in polled, r.kind # "done", wrs' = wrs \ {r.tok},
         polled' \subseteq polled \ {r}, UNCHANGED <<posted, sendCq, recvCq>>
  PROVE  InFlightOnce'
<1>1. Reports' \subseteq Reports \ {r}
  BY DEF InFlightOnce, Reports, Records
<1>2. r \in Reports /\ r.tok \in wrs \ posted
  BY DEF InFlightOnce, Reports, Records
<1>3. \A q \in Reports' : q.tok \in wrs' \ posted'
  BY <1>1, <1>2 DEF InFlightOnce
<1>4. posted' \subseteq wrs'
  BY <1>2 DEF InFlightOnce
<1> QED
  BY <1>1, <1>3, <1>4 DEF InFlightOnce

\* The provider reports a WR it was working on.
LEMMA WrReported ==
  ASSUME IInv, InFlightOnce, NEW t, NEW k \in CqeKind, Completes(t, k)
  PROVE  InFlightOnce'
<1> DEFINE r == [tok |-> t, kind |-> k]
<1>1. /\ t \in posted /\ posted' = posted \ {t}
      /\ UNCHANGED <<wrs, polled>>
      /\ \/ sendCq' = sendCq \union {r} /\ recvCq' = recvCq
         \/ recvCq' = recvCq \union {r} /\ sendCq' = sendCq
  BY DEF Completes, batchVars
<1>2. \A q \in Reports : q.tok # t /\ q # r
  BY <1>1 DEF InFlightOnce
<1>3. r.kind # "done"
  BY DEF CqeKind
<1>4. Reports' = Reports \union {r} /\ r \notin Records
  BY <1>1, <1>2, <1>3 DEF Reports, Records
<1>5. posted' \subseteq wrs' /\ \A q \in Reports' : q.tok \in wrs' \ posted'
  BY <1>1, <1>2, <1>4 DEF InFlightOnce
<1>6. \A q, p \in Reports' : q.tok = p.tok => q = p
  BY <1>2, <1>4 DEF InFlightOnce
<1>7. \A q \in Reports' : /\ ~(q \in sendCq' /\ q \in recvCq')
                          /\ (q \in polled' => q \notin sendCq' \union recvCq')
  BY <1>1, <1>4 DEF InFlightOnce, Records
<1> QED
  BY <1>5, <1>6, <1>7 DEF InFlightOnce

\* Every step keeps InFlightOnce: one of the four lemmas above applies to it.
LEMMA InFlightStep ==
  ASSUME IInv, InFlightOnce, Next
  PROVE  InFlightOnce'
<1> USE DEF connVars, batchVars, cqVars
<1>1. ASSUME NEW s \in Slots, RecvReady(s) \/ Send(s) PROVE InFlightOnce'
  <2>1. Post(s) /\ TokenFor(s) \notin wrs
    BY <1>1 DEF RecvReady, Send, Post, FirstFree, TokenFor, IInv, WrOwnsSlot, Posted
  <2>2. UNCHANGED <<polled, sendCq, recvCq>>
    BY <2>1 DEF Post
  <2>3. CASE UNCHANGED <<wrs, posted>>
    BY <2>2, <2>3, RecordsMoved
  <2>4. CASE wrs' = wrs \union {TokenFor(s)} /\ posted' = posted \union {TokenFor(s)}
    BY <2>1, <2>2, <2>4, WrAdded
  <2> QED
    BY <2>1, <2>3, <2>4 DEF Post
<1>2. CASE Route
  <2>1. PICK q \in polled :
          RouteUnmatched(q) \/ RouteFailed(q) \/ RouteBadLength(q) \/ RouteOk(q)
    BY <1>2 DEF Route
  <2>2. CASE RouteUnmatched(q)
    <3>1. polled' = {} /\ UNCHANGED <<wrs, posted, sendCq, recvCq>>
      BY <2>2 DEF RouteUnmatched, PollFails
    <3> QED
      BY <3>1, RecordsMoved
  <2>3. CASE RouteFailed(q) \/ RouteBadLength(q) \/ RouteOk(q)
    <3>1. /\ q.kind # "done" /\ wrs' = wrs \ {q.tok}
          /\ polled' \subseteq polled \ {q}
          /\ UNCHANGED <<posted, sendCq, recvCq>>
      BY <2>3 DEF RouteFailed, RouteBadLength, RouteOk, Matches, EndWr, PollFails
    <3> QED
      BY <3>1, WrEnded
  <2> QED
    BY <2>1, <2>2, <2>3
<1>3. CASE ProviderCompletes
  BY <1>3, WrReported DEF ProviderCompletes
<1>4. CASE PollSend
  <2>1. UNCHANGED <<wrs, posted, recvCq>>
    BY <1>4 DEF PollSend
  <2>2. \/ polled' \subseteq sendCq /\ sendCq' = sendCq \ polled'
        \/ polled' = {} /\ sendCq' = sendCq
    BY <1>4 DEF PollSend, BatchOf, PollFails
  <2> QED
    BY <2>1, <2>2, RecordsMoved
<1>5. CASE PollRecv
  <2>1. UNCHANGED <<wrs, posted, sendCq>>
    BY <1>5 DEF PollRecv
  <2>2. \/ polled' \subseteq recvCq /\ recvCq' = recvCq \ polled'
        \/ polled' = {} /\ recvCq' = recvCq
    BY <1>5 DEF PollRecv, BatchOf, PollFails
  <2> QED
    BY <2>1, <2>2, RecordsMoved
<1>6. ASSUME NEW j \in jetties, FlushDone(j) PROVE InFlightOnce'
  <2>1. /\ UNCHANGED <<wrs, posted, polled>>
        /\ sendCq' \ sendCq \subseteq {Done} /\ recvCq' \ recvCq \subseteq {Done}
    BY <1>6 DEF FlushDone
  <2> QED
    BY <2>1, RecordsMoved
<1>7. ASSUME UNCHANGED <<wrs, posted, polled, sendCq, recvCq>> PROVE InFlightOnce'
  BY <1>7, RecordsMoved
<1>8. ASSUME NEW s \in Slots, AllocateSlot(s) \/ ReleaseSlot(s) PROVE InFlightOnce'
  BY <1>7, <1>8 DEF AllocateSlot, ReleaseSlot
<1>9. ASSUME \/ CreateConnection \/ ExportDescriptor \/ ImportAndBind
             \/ MarkReady \/ HandshakeFails
      PROVE  InFlightOnce'
  BY <1>7, <1>9 DEF CreateConnection, ExportDescriptor, ImportAndBind, MarkReady,
     HandshakeFails, StateBecomes
<1>10. ASSUME \/ \E c \in {"poll", "wait", "drain"} : BeginCall(c)
              \/ Close \/ DropByOwner \/ DropAfterClose \/ DrainDone \/ CallTimesOut
       PROVE  InFlightOnce'
  BY <1>7, <1>10 DEF BeginCall, Close, DropByOwner, DropAfterClose, BeginClose,
     DrainDone, CallTimesOut
<1>11. ASSUME \/ PollReturns \/ (\E e \in events : Decode(e)) \/ WaitReturns
       PROVE  InFlightOnce'
  BY <1>7, <1>11 DEF PollReturns, Decode, WaitReturns
<1>12. ASSUME MarkError \/ CloseDrained \/ CloseJetty \/ DropFields \/ Expire
       PROVE  InFlightOnce'
  BY <1>7, <1>12 DEF MarkError, CloseDrained, CloseJetty, DropFields, WrsAfterDrop,
     Expire
<1> QED
  BY <1>1, <1>2, <1>3, <1>4, <1>5, <1>6, <1>8, <1>9, <1>10, <1>11, <1>12
     DEF Next, AppStarts, CallSteps, Provider, Route

-----------------------------------------------------------------------------
\* The Jetty.

\* A step that neither posts nor deletes: it may only leave the connection alone
\* or change its state to one that needs the Jetty it has.
LEMMA JettyStays ==
  ASSUME FInv, wrs' \subseteq wrs, jetties' = jetties,
         \/ /\ UNCHANGED <<state, connId>>
            /\ state = "Closed" => UNCHANGED pc
         \/ /\ connId' = connId /\ state \notin {"None", "Closed"}
            /\ state' # "Closed"
  PROVE  JettyKept' /\ JettyOutlivesWrs'
BY DEF FInv, JettyKept, JettyOutlivesWrs

\* Every step keeps the native Jetty of a live connection and of every WR: only
\* a close deletes it, and only when the shim counts no WR on it.
LEMMA JettyStep ==
  ASSUME IInv, FInv, Next
  PROVE  JettyKept' /\ JettyOutlivesWrs'
<1> USE DEF connVars, jettyVars, callVars
<1> DEFINE Goal == JettyKept' /\ JettyOutlivesWrs'
<1>1. ASSUME NEW s \in Slots, RecvReady(s) \/ Send(s) PROVE Goal
  <2>1. /\ Post(s) /\ state \in {"Bound", "Ready"}
        /\ UNCHANGED <<state, connId, jetties, pc>>
    BY <1>1 DEF RecvReady, Send, Post
  <2>2. connId \in jetties /\ TokenFor(s).conn = connId
    BY <2>1 DEF FInv, JettyKept, TokenFor
  <2>3. wrs' \subseteq wrs \union {TokenFor(s)}
    BY <2>1 DEF Post
  <2> QED
    BY <2>1, <2>2, <2>3 DEF FInv, JettyKept, JettyOutlivesWrs
<1>2. ASSUME NEW s \in Slots, AllocateSlot(s) \/ ReleaseSlot(s) PROVE Goal
  BY <1>2, JettyStays DEF AllocateSlot, ReleaseSlot
<1>3. CASE CreateConnection
  BY <1>3 DEF FInv, JettyKept, JettyOutlivesWrs, CreateConnection
<1>4. ASSUME ExportDescriptor \/ ImportAndBind \/ MarkReady \/ HandshakeFails
      PROVE  Goal
  BY <1>4, JettyStays DEF ExportDescriptor, ImportAndBind, MarkReady,
     HandshakeFails, StateBecomes
<1>5. ASSUME Close \/ DropByOwner \/ DropAfterClose PROVE Goal
  <2>1. /\ wrs' = wrs /\ jetties' = jetties /\ connId' = connId
        /\ state' \in {state, "Draining"} /\ state # "None"
    BY <1>5 DEF Close, DropByOwner, DropAfterClose, BeginClose, IInv, IdsOK, Idle
  <2>2. state # "Closed"
    BY <1>5 DEF Close, DropByOwner, DropAfterClose, FInv, JettyKept, Idle
  <2> QED
    BY <2>1, <2>2, JettyStays
<1>6. ASSUME \/ \E c \in {"poll", "wait", "drain"} : BeginCall(c)
             \/ DrainDone \/ CallTimesOut \/ PollReturns \/ WaitReturns
             \/ (\E e \in events : Decode(e)) \/ MarkError \/ Expire \/ Provider
      PROVE  Goal
  <2>1. wrs' = wrs /\ jetties' = jetties /\ UNCHANGED <<state, connId>>
    BY <1>6 DEF BeginCall, DrainDone, CallTimesOut, PollReturns, WaitReturns, Decode,
       MarkError, Expire, Provider, ProviderCompletes, Completes, FlushDone
  <2>2. state = "Closed" => UNCHANGED pc
    BY <1>6 DEF FInv, JettyKept, BeginCall, DrainDone, CallTimesOut, PollReturns,
       WaitReturns, Decode, MarkError, Expire, Idle, Provider, ProviderCompletes,
       Completes, FlushDone
  <2> QED
    BY <2>1, <2>2, JettyStays
<1>7. ASSUME PollSend \/ PollRecv \/ Route PROVE Goal
  <2>1. /\ jetties' = jetties /\ connId' = connId /\ state' \in {state, "Failed"}
        /\ wrs' \subseteq wrs
    BY <1>7 DEF PollSend, PollRecv, Route, RouteUnmatched, RouteFailed,
       RouteBadLength, RouteOk, PollFails, EndWr
  <2>2. pc \in {"Loop", "RouteSend", "RouteRecv"}
    BY <1>7 DEF PollSend, PollRecv, Route, RouteUnmatched, RouteFailed,
       RouteBadLength, RouteOk, Routing
  <2>3. state \notin {"None", "Closed"}
    BY <2>2 DEF IInv, IdsOK, Idle, FInv, JettyKept
  <2> QED
    BY <2>1, <2>3, JettyStays
<1>8. CASE CloseDrained
  <2>1. /\ UNCHANGED <<wrs, jetties, connId>> /\ state' \in {state, "Failed"}
        /\ state \notin {"None", "Closed"}
    BY <1>8 DEF CloseDrained, IInv, IdsOK, Idle, FInv, JettyKept
  <2> QED
    BY <2>1, JettyStays
<1>9. CASE CloseJetty
  <2>1. UNCHANGED <<wrs, connId>> /\ pc' = "Closed" /\ state \notin {"None", "Closed"}
    BY <1>9 DEF CloseJetty, IInv, IdsOK, Idle, FInv, JettyKept
  <2>2. CASE DeleteJetty(connId) /\ state' = "Closed"
    BY <2>1, <2>2 DEF DeleteJetty, HasWrs, FInv, JettyKept, JettyOutlivesWrs
  <2>3. CASE KeepJetty(connId) /\ state' = "Failed"
    BY <2>1, <2>3, JettyStays DEF KeepJetty
  <2> QED
    BY <1>9, <2>2, <2>3 DEF CloseJetty
<1>10. CASE DropFields
  <2>1. /\ wrs' = wrs /\ state' = "None"
        /\ jetties' = jetties \/ DeleteJetty(connId)
    BY <1>10 DEF DropFields, WrsAfterDrop, KeepJetty
  <2> QED
    BY <2>1 DEF DeleteJetty, HasWrs, FInv, JettyKept, JettyOutlivesWrs
<1> QED
  BY <1>1, <1>2, <1>3, <1>4, <1>5, <1>6, <1>7, <1>8, <1>9, <1>10
     DEF Next, AppStarts, CallSteps

\* Every step keeps FInv.
THEOREM NextFInv == IInv /\ FInv /\ [Next]_vars => FInv'
<1> SUFFICES ASSUME IInv, FInv, [Next]_vars PROVE FInv'
  OBVIOUS
<1>1. CASE UNCHANGED vars
  BY <1>1 DEF FInv, InFlightOnce, JettyKept, JettyOutlivesWrs, Reports, Records,
     vars, connVars, callVars, batchVars, cqVars, jettyVars
<1>2. CASE Next
  BY <1>2, InFlightStep, JettyStep DEF FInv
<1> QED
  BY <1>1, <1>2

\* A WR is with the device or reported, once, and no report outlives its WR.
THEOREM InFlight == Spec => []InFlightOnce
<1>1. FInv => InFlightOnce
  BY DEF FInv
<1> QED
  BY <1>1, InitIInv, NextIInv, InitFInv, NextFInv, PTL DEF Spec

\* A native Jetty lives as long as any WR posted on it.
THEOREM JettySafety == Spec => []JettyOutlivesWrs
<1>1. FInv => JettyOutlivesWrs
  BY DEF FInv
<1> QED
  BY <1>1, InitIInv, NextIInv, InitFInv, NextFInv, PTL DEF Spec

-----------------------------------------------------------------------------
\* The refinement.  Under the mapping a step of the data plane is Take, Give, Post,
\* Finish or Reclaim of one slot, or leaves the owners as they are.

\* The slots the device is active on are posted.
LEMMA ActivePosted ==
  ASSUME IInv, FInv, NEW s \in Active
  PROVE  s \in Slots /\ slots[s] \in {"SendPosted", "PostedRecv"}
<1>1. PICK t \in posted : s = t.slot
  BY DEF Active
<1>2. t \in wrs /\ t \in Token
  BY DEF FInv, InFlightOnce, IInv, TypeOK
<1> QED
  BY <1>1, <1>2 DEF IInv, WrOwnsSlot, Token, Posted

\* A step that changes slot s alone, to a given state.
LEMMA OwnerChanges ==
  ASSUME slots \in [Slots -> SlotState], NEW s \in Slots, NEW st \in SlotState,
         slots' = [slots EXCEPT ![s] = st]
  PROVE  Owner' = [Owner EXCEPT ![s] = OwnerOf(st)]
BY DEF Owner, OwnerOf

\* Every step is a step of the ownership protocol, or leaves it unchanged.
LEMMA RefinedStep ==
  ASSUME IInv, FInv, Next
  PROVE  Ownership!Next \/ UNCHANGED <<Owner, Active>>
<1> USE PoolAssumption
<1> DEFINE Goal == Ownership!Next \/ UNCHANGED <<Owner, Active>>
<1>1. /\ slots \in [Slots -> SlotState]
      /\ \A s \in Slots : Owner[s] = OwnerOf(slots[s])
  BY DEF IInv, TypeOK, Owner
<1>2. ASSUME NEW s \in Slots, AllocateSlot(s) PROVE Goal
  <2>1. /\ slots[s] = "Free" /\ slots' = [slots EXCEPT ![s] = "Allocated"]
        /\ Active' = Active
    BY <1>2 DEF AllocateSlot, FirstFree, Allocate, Active
  <2>2. Owner[s] = "Pool" /\ Owner' = [Owner EXCEPT ![s] = "App"]
    BY <1>1, <2>1, OwnerChanges DEF OwnerOf, SlotState
  <2> QED
    BY <2>1, <2>2 DEF Ownership!Next, Ownership!Take
<1>3. ASSUME NEW s \in Slots, ReleaseSlot(s) PROVE Goal
  <2>1. Active' = Active
    BY <1>3 DEF ReleaseSlot, Active
  <2>2. CASE slots' = slots
    BY <2>1, <2>2 DEF Owner
  <2>3. CASE /\ slots[s] \in {"Allocated", "RecvCompleted", "SendCompleted"}
             /\ slots' = [slots EXCEPT ![s] = "Free"]
    <3>1. /\ Owner' = [Owner EXCEPT ![s] = "Pool"]
          /\ Owner[s] = IF slots[s] = "Allocated" THEN "App" ELSE "Device"
      BY <1>1, <2>3, OwnerChanges DEF OwnerOf, SlotState
    <3>2. s \notin Active
      BY <2>3, ActivePosted
    <3> QED
      BY <2>1, <3>1, <3>2 DEF Ownership!Next, Ownership!Give, Ownership!Reclaim
  <2> QED
    BY <1>3, <2>2, <2>3 DEF ReleaseSlot, Release
<1>4. ASSUME NEW s \in Slots, RecvReady(s) \/ Send(s) PROVE Goal
  <2>1. Post(s) /\ slots[s] = "Free"
    BY <1>4 DEF RecvReady, Send, Post, FirstFree
  <2>2. CASE slots' = slots /\ posted' = posted
    BY <2>2 DEF Owner, Active
  <2>3. CASE /\ slots' = [slots EXCEPT ![s] = Posted(OpOf(s))]
             /\ posted' = posted \union {TokenFor(s)}
    <3>1. Active' = Active \union {s}
      <4>1. TokenFor(s).slot = s
        BY DEF TokenFor
      <4> QED
        BY <2>3, <4>1 DEF Active
    <3>2. Posted(OpOf(s)) \in {"SendPosted", "PostedRecv"}
      BY DEF Posted
    <3>3. Owner[s] = "Pool" /\ Owner' = [Owner EXCEPT ![s] = "Device"]
      BY <1>1, <2>1, <2>3, <3>2, OwnerChanges DEF OwnerOf, SlotState
    <3> QED
      BY <3>1, <3>3 DEF Ownership!Next, Ownership!Post
  <2> QED
    BY <1>1, <2>1, <2>2, <2>3, PostedSlot, RefusedPost DEF Post
<1>5. ASSUME NEW r \in polled, RouteFailed(r) \/ RouteBadLength(r) \/ RouteOk(r)
      PROVE  Goal
  <2> DEFINE t == r.tok
  <2>1. /\ r.kind # "done" /\ t \in outstanding /\ posted' = posted
        /\ slots' \in {slots, Recycled(t)}
    BY <1>5 DEF RouteFailed, RouteBadLength, RouteOk, Matches
  <2>2. /\ t \in wrs /\ t \notin posted /\ t.slot \in Slots /\ t.op \in OpType
        /\ slots[t.slot] = Posted(t.op)
    BY <2>1 DEF IInv, TypeOK, TrackedExactly, WrOwnsSlot, Token, FInv, InFlightOnce,
       Reports, Records
  <2>3. Active' = Active
    BY <2>1 DEF Active
  <2>4. CASE slots' = slots
    BY <2>3, <2>4 DEF Owner
  <2>5. CASE slots' = [slots EXCEPT ![t.slot] = "Free"]
    <3>1. t.slot \notin Active
      BY <2>2 DEF Active, FInv, InFlightOnce, IInv, WrOwnsSlot
    <3>2. Owner[t.slot] = "Device" /\ Owner' = [Owner EXCEPT ![t.slot] = "Pool"]
      BY <1>1, <2>2, <2>5, OwnerChanges DEF OwnerOf, SlotState, Posted
    <3> QED
      BY <2>2, <2>3, <3>1, <3>2 DEF Ownership!Next, Ownership!Reclaim
  <2> QED
    BY <1>1, <2>1, <2>2, <2>4, <2>5, RecycledSlot DEF Recycled
<1>6. CASE ProviderCompletes
  <2>1. PICK t \in posted : slots' = slots /\ posted' = posted \ {t}
    BY <1>6 DEF ProviderCompletes, Completes
  <2>2. t.slot \in Active /\ t.slot \in Slots /\ Owner' = Owner
    BY <2>1 DEF Active, IInv, TypeOK, Token, Owner
  <2>3. \A u \in posted : u.slot = t.slot => u = t
    BY DEF FInv, InFlightOnce, IInv, WrOwnsSlot
  <2>4. Active' = Active \ {t.slot}
    BY <2>1, <2>3 DEF Active
  <2> QED
    BY <2>2, <2>4 DEF Ownership!Next, Ownership!Finish
<1>7. ASSUME UNCHANGED <<slots, posted>> PROVE Goal
  BY <1>7 DEF Owner, Active
<1>8. ASSUME \/ CreateConnection \/ ExportDescriptor \/ ImportAndBind
             \/ MarkReady \/ HandshakeFails
      PROVE  Goal
  BY <1>7, <1>8 DEF CreateConnection, ExportDescriptor, ImportAndBind, MarkReady,
     HandshakeFails, StateBecomes
<1>9. ASSUME \/ \E c \in {"poll", "wait", "drain"} : BeginCall(c)
             \/ Close \/ DropByOwner \/ DropAfterClose \/ DrainDone \/ CallTimesOut
      PROVE  Goal
  BY <1>7, <1>9 DEF BeginCall, Close, DropByOwner, DropAfterClose, BeginClose,
     DrainDone, CallTimesOut
<1>10. ASSUME \/ PollSend \/ PollRecv \/ (\E r \in polled : RouteUnmatched(r))
              \/ PollReturns \/ (\E e \in events : Decode(e)) \/ WaitReturns
       PROVE  Goal
  BY <1>7, <1>10 DEF PollSend, PollRecv, RouteUnmatched, PollReturns, Decode,
     WaitReturns
<1>11. ASSUME \/ MarkError \/ CloseDrained \/ CloseJetty \/ DropFields \/ Expire
              \/ \E j \in jetties : FlushDone(j)
       PROVE  Goal
  BY <1>7, <1>11 DEF MarkError, CloseDrained, CloseJetty, DropFields, Expire,
     FlushDone
<1> QED
  BY <1>2, <1>3, <1>4, <1>5, <1>6, <1>8, <1>9, <1>10, <1>11
     DEF Next, AppStarts, CallSteps, Provider, Route

\* The data plane implements the ownership protocol of its slots: the device works
\* only on slots it was given, and gets back no slot before it has finished.
THEOREM OwnershipImplemented == Spec => ImplementsOwnership
<1>1. Init => Ownership!Init
  BY DEF Init, InitPool, Ownership!Init, Owner, OwnerOf, Active
<1>2. IInv /\ FInv /\ [Next]_vars => [Ownership!Next]_Ownership!vars
  <2>1. ASSUME UNCHANGED vars PROVE UNCHANGED <<Owner, Active>>
    BY <2>1 DEF vars, Owner, Active
  <2> QED
    BY <2>1, RefinedStep DEF Ownership!vars
<1> QED
  BY <1>1, <1>2, InitIInv, NextIInv, InitFInv, NextFInv, PTL
     DEF Spec, ImplementsOwnership, Ownership!Spec

\* And so the device is never active on memory it does not own.
THEOREM ActiveOwned == Spec => []Ownership!ActiveIsOwned
<1>1. IInv /\ FInv => Ownership!ActiveIsOwned
  BY ActivePosted DEF Ownership!ActiveIsOwned, Owner, OwnerOf
<1> QED
  BY <1>1, InitIInv, NextIInv, InitFInv, NextFInv, PTL DEF Spec

-----------------------------------------------------------------------------
\* Which step can lose a completion.

\* A poll_once returns an error and leaves more behind than the record that caused it: it
\* has other records of its batch in hand, or the record names a WR that this connection
\* does not track.
CutsBatch ==
  /\ Routing /\ polled # {} /\ polled' = {}
  /\ \A r \in polled : polled # {r} \/ (r.kind # "done" /\ ~Matches(r))

\* A batch is in hand only while it is routed.
PolledRoutes == polled # {} => Routing

\* Every step keeps it: only a poll takes a batch, and only with none in hand.
LEMMA PolledRoutesStep ==
  ASSUME PolledRoutes, Next
  PROVE  PolledRoutes'
<1> USE DEF PolledRoutes, Routing, connVars, callVars, batchVars
<1>1. ASSUME polled' = polled, polled = {} \/ pc' = pc PROVE PolledRoutes'
  BY <1>1
<1>2. ASSUME NEW s \in Slots, AllocateSlot(s) \/ ReleaseSlot(s) \/ RecvReady(s) \/ Send(s)
      PROVE  PolledRoutes'
  BY <1>1, <1>2 DEF AllocateSlot, ReleaseSlot, RecvReady, Send, Post
<1>3. CASE CreateConnection \/ ExportDescriptor \/ ImportAndBind \/ MarkReady
           \/ HandshakeFails
  BY <1>1, <1>3 DEF CreateConnection, ExportDescriptor, ImportAndBind, MarkReady,
     HandshakeFails, StateBecomes
<1>4. ASSUME NEW c \in {"poll", "wait", "drain"}, BeginCall(c) PROVE PolledRoutes'
  BY <1>1, <1>4 DEF BeginCall, Idle
<1>5. CASE Close \/ DropByOwner \/ DropAfterClose
  BY <1>1, <1>5 DEF Close, DropByOwner, DropAfterClose, BeginClose, Idle
<1>6. CASE DrainDone \/ CallTimesOut \/ PollReturns \/ WaitReturns \/ Expire
  BY <1>1, <1>6 DEF DrainDone, CallTimesOut, PollReturns, WaitReturns, Expire
<1>7. CASE MarkError \/ CloseDrained \/ CloseJetty \/ DropFields
  BY <1>1, <1>7 DEF MarkError, CloseDrained, CloseJetty, DropFields
<1>8. ASSUME NEW e \in events, Decode(e) PROVE PolledRoutes'
  BY <1>1, <1>8 DEF Decode
<1>9. CASE PollSend \/ PollRecv
  BY <1>9 DEF PollSend, PollRecv, PollFails
<1>10. CASE Route
  BY <1>10 DEF Route, RouteUnmatched, RouteFailed, RouteBadLength, RouteOk, PollFails
<1>11. CASE Provider
  BY <1>1, <1>11 DEF Provider, ProviderCompletes, Completes, FlushDone
<1> QED
  BY <1>2, <1>3, <1>4, <1>5, <1>6, <1>7, <1>8, <1>9, <1>10, <1>11
     DEF Next, AppStarts, CallSteps

\* A step that moves records but drops none, and gives up no WR that is posted.
LEMMA RecordsKept ==
  ASSUME NoLostCompletion, wrs' \subseteq wrs, posted' = posted,
         \A r \in Reports : r \in Reports' \/ r.tok \notin wrs'
  PROVE  NoLostCompletion'
BY DEF NoLostCompletion

\* The batch in hand: unless poll_once is cut short, a record that leaves it takes its WR
\* with it.
LEMMA RouteKeeps ==
  ASSUME PolledRoutes, NoLostCompletion, Route, ~CutsBatch
  PROVE  NoLostCompletion'
<1>1. PICK r \in polled :
        RouteUnmatched(r) \/ RouteFailed(r) \/ RouteBadLength(r) \/ RouteOk(r)
  BY DEF Route
<1>2. /\ Routing /\ posted' = posted /\ sendCq' = sendCq /\ recvCq' = recvCq
      /\ wrs' = wrs \/ wrs' = wrs \ {r.tok}
  BY <1>1 DEF RouteUnmatched, RouteFailed, RouteBadLength, RouteOk, EndWr, cqVars
<1>3. CASE RouteOk(r)
  <2>1. polled' = polled \ {r} /\ wrs' = wrs \ {r.tok}
    BY <1>3 DEF RouteOk, EndWr
  <2>2. \A q \in Reports : q \in Reports' \/ q = r
    BY <1>2, <2>1 DEF Reports, Records
  <2> QED
    BY <1>2, <2>1, <2>2, RecordsKept
<1>4. CASE RouteUnmatched(r) \/ RouteFailed(r) \/ RouteBadLength(r)
  <2>1. polled' = {} /\ polled # {}
    BY <1>4 DEF RouteUnmatched, RouteFailed, RouteBadLength, PollFails
  <2>2. polled = {r} /\ (r.kind = "done" \/ Matches(r))
    BY <1>2, <2>1 DEF CutsBatch
  <2>3. \A q \in Reports : q \in Reports' \/ q = r
    BY <1>2, <2>2 DEF Reports, Records
  <2>4. CASE RouteUnmatched(r)
    <3>1. r.kind = "done" /\ wrs' = wrs
      BY <2>2, <2>4 DEF RouteUnmatched
    <3> QED
      BY <1>2, <2>3, <3>1, RecordsKept DEF Reports
  <2>5. CASE RouteFailed(r) \/ RouteBadLength(r)
    <3>1. wrs' = wrs \ {r.tok}
      BY <2>5 DEF RouteFailed, RouteBadLength, EndWr
    <3> QED
      BY <1>2, <2>3, <3>1, RecordsKept
  <2> QED
    BY <1>4, <2>4, <2>5
<1> QED
  BY <1>1, <1>3, <1>4

\* No other step drops a record, and the provider replaces a posted WR by its record.
LEMMA CompletionKept ==
  ASSUME PolledRoutes, NoLostCompletion, Next, ~CutsBatch
  PROVE  NoLostCompletion'
<1> USE DEF connVars, callVars, batchVars, cqVars
<1>1. ASSUME wrs' = wrs, UNCHANGED <<posted, polled, sendCq, recvCq>>
      PROVE  NoLostCompletion'
  BY <1>1 DEF NoLostCompletion, Reports, Records
<1>2. ASSUME NEW s \in Slots, AllocateSlot(s) \/ ReleaseSlot(s) PROVE NoLostCompletion'
  BY <1>1, <1>2 DEF AllocateSlot, ReleaseSlot
<1>3. ASSUME NEW s \in Slots, RecvReady(s) \/ Send(s) PROVE NoLostCompletion'
  <2>1. /\ Post(s) /\ UNCHANGED <<polled, sendCq, recvCq>>
    BY <1>3 DEF RecvReady, Send, Post
  <2>2. CASE UNCHANGED <<wrs, posted>>
    BY <1>1, <2>1, <2>2
  <2>3. CASE /\ wrs' = wrs \union {TokenFor(s)}
             /\ posted' = posted \union {TokenFor(s)}
    BY <2>1, <2>3 DEF NoLostCompletion, Reports, Records
  <2> QED
    BY <2>1, <2>2, <2>3 DEF Post
<1>4. CASE CreateConnection \/ ExportDescriptor \/ ImportAndBind \/ MarkReady
           \/ HandshakeFails
  BY <1>1, <1>4 DEF CreateConnection, ExportDescriptor, ImportAndBind, MarkReady,
     HandshakeFails, StateBecomes
<1>5. ASSUME NEW c \in {"poll", "wait", "drain"}, BeginCall(c) PROVE NoLostCompletion'
  BY <1>1, <1>5 DEF BeginCall
<1>6. CASE Close \/ DropByOwner \/ DropAfterClose
  BY <1>1, <1>6 DEF Close, DropByOwner, DropAfterClose, BeginClose
<1>7. CASE DrainDone \/ CallTimesOut \/ PollReturns \/ WaitReturns \/ Expire
  BY <1>1, <1>7 DEF DrainDone, CallTimesOut, PollReturns, WaitReturns, Expire
<1>8. CASE MarkError \/ CloseDrained \/ CloseJetty \/ DropFields
  BY <1>1, <1>8 DEF MarkError, CloseDrained, CloseJetty, DropFields, WrsAfterDrop
<1>9. ASSUME NEW e \in events, Decode(e) PROVE NoLostCompletion'
  BY <1>1, <1>9 DEF Decode
<1>10. CASE PollSend \/ PollRecv
  <2>1. polled = {} /\ UNCHANGED <<wrs, posted>>
    BY <1>10 DEF PollSend, PollRecv, PolledRoutes, Routing
  <2>2. \A r \in Records : r \in Records'
    BY <1>10, <2>1 DEF PollSend, PollRecv, PollFails, Records
  <2> QED
    BY <2>1, <2>2, RecordsKept DEF Reports
<1>11. CASE Route
  BY <1>11, RouteKeeps
<1>12. CASE ProviderCompletes
  <2>1. PICK t \in posted, k \in CqeKind : Completes(t, k)
    BY <1>12 DEF ProviderCompletes
  <2> DEFINE r == [tok |-> t, kind |-> k]
  <2>2. /\ posted' = posted \ {t} /\ wrs' = wrs /\ polled' = polled
        /\ \/ sendCq' = sendCq \union {r} /\ recvCq' = recvCq
           \/ recvCq' = recvCq \union {r} /\ sendCq' = sendCq
    BY <2>1 DEF Completes
  <2>3. r \in Reports' /\ r.tok = t /\ \A q \in Reports : q \in Reports'
    BY <2>1, <2>2 DEF Reports, Records, CqeKind
  <2> QED
    BY <2>2, <2>3 DEF NoLostCompletion
<1>13. ASSUME NEW j \in jetties, FlushDone(j) PROVE NoLostCompletion'
  <2>1. UNCHANGED <<wrs, posted>> /\ \A r \in Records : r \in Records'
    BY <1>13 DEF FlushDone, Records
  <2> QED
    BY <2>1, RecordsKept DEF Reports
<1> QED
  BY <1>2, <1>3, <1>4, <1>5, <1>6, <1>7, <1>8, <1>9, <1>10, <1>11, <1>12, <1>13
     DEF Next, AppStarts, CallSteps, Provider

\* At first nothing is posted and no batch is in hand.
LEMMA InitPolled == Init => PolledRoutes /\ NoLostCompletion
BY DEF Init, PolledRoutes, NoLostCompletion

\* PolledRoutes is inductive by itself.
LEMMA NextPolled == PolledRoutes /\ [Next]_vars => PolledRoutes'
<1>1. ASSUME PolledRoutes, UNCHANGED vars PROVE PolledRoutes'
  BY <1>1 DEF PolledRoutes, Routing, vars, callVars, batchVars
<1> QED
  BY <1>1, PolledRoutesStep

\* poll_once (completion.rs:121) is the only place where a completion can be lost, and only
\* by returning an error with more in hand than the record that caused it: in a behaviour
\* where it never does, every WR is with the provider or has a record that will be routed,
\* for every value of the constants and every other failure.
THEOREM OnlyCutsLose == Spec /\ [][~CutsBatch]_vars => []NoLostCompletion
<1>1. PolledRoutes /\ NoLostCompletion /\ [Next]_vars /\ [~CutsBatch]_vars
        => NoLostCompletion'
  <2>1. ASSUME NoLostCompletion, UNCHANGED vars PROVE NoLostCompletion'
    BY <2>1 DEF NoLostCompletion, Reports, Records, vars, batchVars, cqVars
  <2> QED
    BY <2>1, CompletionKept
<1> QED
  BY <1>1, InitPolled, NextPolled, PTL DEF Spec

-----------------------------------------------------------------------------
\* Where no batch can be cut: one connection, and polls that bring one record at a time,
\* either because they ask for one or because each JFC never holds a second.
OneRecordPolls ==
  /\ MaxConn = 1
  /\ Batch = 1 \/ (TxCount = 1 /\ RxCount = 1 /\ "done" \notin Faults)

\* A JFC reports the WRs of its own queue, and a batch is what one poll of one JFC gave.
SortedRecords ==
  /\ IsFiniteSet(sendCq) /\ IsFiniteSet(recvCq) /\ IsFiniteSet(polled)
  /\ Cardinality(polled) <= Batch
  /\ "done" \in Faults \/ Reports = Records
  /\ \A r \in Reports : /\ r \in sendCq => r.tok.op = "Send"
                        /\ r \in recvCq => r.tok.op = "Recv"
                        /\ r \in polled => r.tok.op = IF pc = "RouteSend" THEN "Send"
                                                      ELSE "Recv"

\* At first no record exists.
LEMMA InitSorted == Init => SortedRecords
<1>1. IsFiniteSet({}) /\ Cardinality({}) = 0
  BY FS_EmptySet
<1> QED
  BY <1>1, DataPlaneAssumption DEF Init, SortedRecords, Reports, Records

\* Steps that take records away, or leave them where they are.
LEMMA SortedStays ==
  ASSUME SortedRecords, sendCq' = sendCq, recvCq' = recvCq,
         \/ polled' = {}
         \/ polled' \subseteq polled /\ pc' = pc
  PROVE  SortedRecords'
<1>1. IsFiniteSet({}) /\ Cardinality({}) = 0
  BY FS_EmptySet
<1>2. /\ IsFiniteSet(polled') /\ Cardinality(polled') <= Cardinality(polled)
      /\ Cardinality(polled') \in Nat /\ Cardinality(polled) \in Nat
  BY <1>1, FS_Subset, FS_CardinalityType DEF SortedRecords
<1>3. Cardinality(polled') <= Batch
  BY <1>2, DataPlaneAssumption DEF SortedRecords
<1>4. Reports' \subseteq Reports /\ (Reports = Records => Reports' = Records')
  BY DEF Reports, Records
<1> QED
  BY <1>2, <1>3, <1>4 DEF SortedRecords

\* The steps of the JFCs themselves: a poll and the provider.
LEMMA SortedPolls ==
  ASSUME PolledRoutes, SortedRecords, PollSend \/ PollRecv
  PROVE  SortedRecords'
<1>1. CASE polled' = {} /\ UNCHANGED <<sendCq, recvCq>>
  BY <1>1, SortedStays
<1>2. CASE /\ PollSend /\ polled' \in BatchOf(sendCq) /\ sendCq' = sendCq \ polled'
           /\ pc' = "RouteSend"
  <2>1. recvCq' = recvCq /\ polled' \subseteq sendCq /\ Cardinality(polled') <= Batch
    BY <1>2 DEF PollSend, BatchOf
  <2>2. IsFiniteSet(polled') /\ IsFiniteSet(sendCq')
    BY <1>2, <2>1, FS_Subset, FS_Difference DEF SortedRecords
  <2>3. Reports' \subseteq Reports /\ (Reports = Records => Reports' = Records')
    BY <1>2, <2>1 DEF Reports, Records
  <2> QED
    BY <1>2, <2>1, <2>2, <2>3 DEF SortedRecords
<1>3. CASE /\ PollRecv /\ polled' \in BatchOf(recvCq) /\ recvCq' = recvCq \ polled'
           /\ pc' = "RouteRecv"
  <2>1. sendCq' = sendCq /\ polled' \subseteq recvCq /\ Cardinality(polled') <= Batch
    BY <1>3 DEF PollRecv, BatchOf
  <2>2. IsFiniteSet(polled') /\ IsFiniteSet(recvCq')
    BY <1>3, <2>1, FS_Subset, FS_Difference DEF SortedRecords
  <2>3. Reports' \subseteq Reports /\ (Reports = Records => Reports' = Records')
    BY <1>3, <2>1 DEF Reports, Records
  <2> QED
    BY <1>3, <2>1, <2>2, <2>3 DEF SortedRecords
<1> QED
  BY <1>1, <1>2, <1>3 DEF PollSend, PollRecv, PollFails

\* A new record comes to the JFC of its queue; a marker only with its fault.
LEMMA SortedProvider ==
  ASSUME IInv, FInv, SortedRecords, Provider
  PROVE  SortedRecords'
<1> USE DEF callVars, batchVars
<1>1. ASSUME NEW t \in posted, NEW k \in CqeKind, Completes(t, k)
      PROVE  SortedRecords'
  <2> DEFINE r == [tok |-> t, kind |-> k]
  <2>1. /\ pc' = pc /\ polled' = polled /\ r.kind # "done" /\ r.tok = t
        /\ \/ t.op = "Send" /\ sendCq' = sendCq \union {r} /\ recvCq' = recvCq
           \/ t.op = "Recv" /\ recvCq' = recvCq \union {r} /\ sendCq' = sendCq
    BY <1>1 DEF Completes, CqeKind, IInv, TypeOK, Token, OpType
  <2>2. IsFiniteSet(sendCq') /\ IsFiniteSet(recvCq')
    BY <2>1, FS_AddElement DEF SortedRecords
  <2>3. Reports' = Reports \union {r} /\ Records' = Records \union {r}
    BY <2>1 DEF Reports, Records
  <2>4. r \notin Reports
    BY <1>1 DEF FInv, InFlightOnce
  <2>5. r \notin sendCq /\ r \notin recvCq /\ r \notin polled
    BY <2>1, <2>4 DEF Reports, Records
  <2> HIDE DEF r
  <2>6. \A q \in Reports' : /\ q \in sendCq' => q.tok.op = "Send"
                            /\ q \in recvCq' => q.tok.op = "Recv"
    BY <2>1, <2>3, <2>5 DEF SortedRecords
  <2>7. \A q \in Reports' : q \in polled' =>
          q.tok.op = IF pc' = "RouteSend" THEN "Send" ELSE "Recv"
    BY <2>1, <2>3, <2>5 DEF SortedRecords
  <2> QED
    BY <2>1, <2>2, <2>3, <2>6, <2>7 DEF SortedRecords
<1>2. ASSUME NEW j \in jetties, FlushDone(j) PROVE SortedRecords'
  <2>1. /\ "done" \in Faults /\ pc' = pc /\ polled' = polled
        /\ \/ sendCq' = sendCq \union {Done} /\ recvCq' = recvCq
           \/ recvCq' = recvCq \union {Done} /\ sendCq' = sendCq
    BY <1>2 DEF FlushDone
  <2>2. IsFiniteSet(sendCq') /\ IsFiniteSet(recvCq')
    BY <2>1, FS_AddElement DEF SortedRecords
  <2>3. Reports' = Reports /\ \A r \in Reports : r # Done
    BY <2>1 DEF Reports, Records, Done
  <2> QED
    BY <2>1, <2>2, <2>3 DEF SortedRecords
<1> QED
  BY <1>1, <1>2 DEF Provider, ProviderCompletes

\* Every step keeps SortedRecords.
LEMMA SortedStep ==
  ASSUME IInv, FInv, PolledRoutes, SortedRecords, Next
  PROVE  SortedRecords'
<1> USE DEF connVars, callVars, batchVars, cqVars
<1>1. ASSUME UNCHANGED <<sendCq, recvCq, polled>>, polled = {} \/ pc' = pc
      PROVE  SortedRecords'
  BY <1>1, SortedStays
<1>2. ASSUME ~Routing, UNCHANGED <<sendCq, recvCq, polled>> PROVE SortedRecords'
  BY <1>1, <1>2 DEF PolledRoutes
<1>3. ASSUME NEW s \in Slots, AllocateSlot(s) \/ ReleaseSlot(s) \/ RecvReady(s) \/ Send(s)
      PROVE  SortedRecords'
  BY <1>1, <1>3 DEF AllocateSlot, ReleaseSlot, RecvReady, Send, Post
<1>4. CASE CreateConnection \/ ExportDescriptor \/ ImportAndBind \/ MarkReady
           \/ HandshakeFails
  BY <1>1, <1>4 DEF CreateConnection, ExportDescriptor, ImportAndBind, MarkReady,
     HandshakeFails, StateBecomes
<1>5. ASSUME NEW c \in {"poll", "wait", "drain"}, BeginCall(c) PROVE SortedRecords'
  BY <1>2, <1>5 DEF BeginCall, Idle, Routing
<1>6. CASE Close \/ DropByOwner \/ DropAfterClose
  BY <1>2, <1>6 DEF Close, DropByOwner, DropAfterClose, BeginClose, Idle, Routing
<1>7. CASE DrainDone \/ CallTimesOut \/ WaitReturns
  BY <1>2, <1>7 DEF DrainDone, CallTimesOut, WaitReturns, Routing
<1>8. CASE PollReturns \/ Expire
  BY <1>1, <1>8 DEF PollReturns, Expire
<1>9. CASE MarkError \/ CloseDrained \/ CloseJetty \/ DropFields
  BY <1>2, <1>9 DEF MarkError, CloseDrained, CloseJetty, DropFields, Routing
<1>10. ASSUME NEW e \in events, Decode(e) PROVE SortedRecords'
  BY <1>2, <1>10 DEF Decode, Routing
<1>11. CASE Route
  <2>1. UNCHANGED <<sendCq, recvCq>>
    BY <1>11 DEF Route, RouteUnmatched, RouteFailed, RouteBadLength, RouteOk
  <2>2. polled' = {} \/ (polled' \subseteq polled /\ pc' = pc)
    BY <1>11 DEF Route, RouteUnmatched, RouteFailed, RouteBadLength, RouteOk, PollFails
  <2> QED
    BY <2>1, <2>2, SortedStays
<1> QED
  BY <1>3, <1>4, <1>5, <1>6, <1>7, <1>8, <1>9, <1>10, <1>11, SortedPolls, SortedProvider
     DEF Next, AppStarts, CallSteps

\* Where polls bring one record, that record is of the connection that polls, or a marker.
LEMMA NothingCut ==
  ASSUME OneRecordPolls, IInv, InFlightOnce, PolledRoutes, SortedRecords
  PROVE  ~CutsBatch
<1> SUFFICES ASSUME CutsBatch PROVE FALSE
  OBVIOUS
<1>1. PICK r \in polled : TRUE
  BY DEF CutsBatch
<1>2. Routing /\ connId = 1 /\ ConnIds = {1}
  BY DataPlaneAssumption DEF CutsBatch, Routing, IInv, TypeOK, IdsOK, Idle, ConnIds,
     OneRecordPolls
<1>3. \A q \in polled : q.kind = "done" \/ (q \in Reports /\ Matches(q))
  <2> SUFFICES ASSUME NEW q \in polled, q.kind # "done"
               PROVE  q \in Reports /\ Matches(q)
    OBVIOUS
  <2>1. q \in Reports
    BY DEF Reports, Records
  <2>2. q.tok \in wrs /\ q.tok \in Token
    BY <2>1 DEF InFlightOnce, IInv, TypeOK
  <2>3. q.tok.conn = connId
    BY <1>2, <2>2 DEF Token
  <2> QED
    BY <2>1, <2>2, <2>3 DEF Matches, IInv, TrackedExactly
<1>4. polled = {r}
  <2>1. CASE Batch = 1
    <3>1. Cardinality(polled) \in Nat /\ Cardinality(polled) <= 1 /\ IsFiniteSet(polled)
      BY <2>1, FS_CardinalityType DEF SortedRecords
    <3>2. Cardinality(polled) # 0
      BY <1>1, <3>1, FS_EmptySet
    <3>3. Cardinality(polled) = 1
      BY <3>1, <3>2
    <3>4. \E x : polled = {x}
      BY <3>1, <3>3, FS_Singleton, Zenon
    <3> QED
      BY <3>4
  <2>2. CASE TxCount = 1 /\ RxCount = 1 /\ "done" \notin Faults
    <3> SUFFICES ASSUME NEW q \in polled PROVE q = r
      OBVIOUS
    <3>1. q \in Reports /\ r \in Reports
      BY <2>2 DEF SortedRecords, Records
    <3>2. q.tok \in wrs /\ r.tok \in wrs /\ q.tok \in Token /\ r.tok \in Token
      BY <3>1 DEF InFlightOnce, IInv, TypeOK
    <3>3. OpOf(q.tok.slot) = OpOf(r.tok.slot)
      BY <3>1, <3>2 DEF SortedRecords, IInv, WrOwnsSlot
    <3>4. q.tok.slot \in 0 .. 1 /\ r.tok.slot \in 0 .. 1
      BY <2>2, <3>2 DEF Token, Slots
    <3>5. q.tok.slot = r.tok.slot
      BY <2>2, <3>3, <3>4 DEF OpOf
    <3> QED
      BY <3>1, <3>2, <3>5 DEF IInv, WrOwnsSlot, InFlightOnce
  <2> QED
    BY <2>1, <2>2 DEF OneRecordPolls
<1> QED
  BY <1>3, <1>4 DEF CutsBatch

\* So on the first connection of a runtime no completion is lost as long as each poll
\* brings one record, whatever else fails: the error path of poll_once (completion.rs:121)
\* is harmless with one record in hand, and it is the batch that makes it lose WRs.
THEOREM NoneLostAlone == ASSUME OneRecordPolls PROVE Spec => []NoLostCompletion
<1>1. IInv /\ FInv /\ PolledRoutes /\ SortedRecords /\ [Next]_vars => SortedRecords'
  <2>1. ASSUME SortedRecords, UNCHANGED vars PROVE SortedRecords'
    BY <2>1, SortedStays DEF vars, batchVars, callVars, cqVars
  <2> QED
    BY <2>1, SortedStep
<1>2. IInv /\ FInv /\ PolledRoutes /\ SortedRecords /\ NoLostCompletion /\ [Next]_vars
        => NoLostCompletion'
  <2>1. ASSUME NoLostCompletion, UNCHANGED vars PROVE NoLostCompletion'
    BY <2>1 DEF NoLostCompletion, Reports, Records, vars, batchVars, cqVars
  <2> QED
    BY <2>1, NothingCut, CompletionKept DEF FInv
<1> QED
  BY <1>1, <1>2, InitPolled, NextPolled, InitIInv, NextIInv, InitFInv, NextFInv,
     InitSorted, PTL DEF Spec

-----------------------------------------------------------------------------
\* The end of close_inner.

\* A connection whose close has ended: it is Closed, with its Jetty gone and nothing
\* tracked, or Failed for a reason that close returns.
CloseExplained ==
  pc = "Closed" =>
    \/ state = "Closed" /\ connId \notin jetties /\ outstanding = {}
    \/ state = "Failed" /\ (expired \/ failures \/ "closeFails" \in Faults)

\* The Jetty is destroyed only once the table is empty.
DrainedFirst == pc = "CloseJetty" => outstanding = {}

\* Every step keeps both.
LEMMA CloseStep ==
  ASSUME IInv, DrainedFirst, CloseExplained, Next
  PROVE  DrainedFirst' /\ CloseExplained'
<1> USE DEF connVars, trackVars, callVars, jettyVars
<1> DEFINE Goal == DrainedFirst' /\ CloseExplained'
<1>1. ASSUME pc' \notin {"CloseJetty", "Closed"} PROVE Goal
  BY <1>1 DEF DrainedFirst, CloseExplained
<1>2. ASSUME UNCHANGED <<state, connId, jetties, outstanding, pc>>,
             expired => expired', failures => failures'
      PROVE  Goal
  BY <1>2 DEF DrainedFirst, CloseExplained
<1>3. ASSUME \/ \E s \in Slots : AllocateSlot(s) \/ ReleaseSlot(s) \/ RecvReady(s) \/ Send(s)
             \/ CreateConnection \/ ExportDescriptor \/ ImportAndBind \/ MarkReady
             \/ HandshakeFails
             \/ \E c \in {"poll", "wait", "drain"} : BeginCall(c)
             \/ DrainDone \/ CallTimesOut \/ PollSend \/ PollRecv \/ PollReturns
             \/ (\E e \in events : Decode(e)) \/ WaitReturns \/ MarkError \/ DropFields
      PROVE  Goal
  <2>1. pc' \notin {"CloseJetty", "Closed"}
    BY <1>3 DEF AllocateSlot, ReleaseSlot, RecvReady, Send, Post, CreateConnection,
       ExportDescriptor, ImportAndBind, MarkReady, HandshakeFails, StateBecomes, Idle,
       BeginCall, DrainDone, CallTimesOut, PollSend, PollRecv, PollFails, PollReturns,
       Decode, WaitReturns, MarkError, DropFields, Return
  <2> QED
    BY <1>1, <2>1
<1>4. CASE Route
  <2>1. pc' \notin {"CloseJetty", "Closed"}
    BY <1>4 DEF Route, RouteUnmatched, RouteFailed, RouteBadLength, RouteOk, Routing,
       PollFails, Return
  <2> QED
    BY <1>1, <2>1
<1>5. CASE Close \/ DropByOwner \/ DropAfterClose
  BY <1>5 DEF Close, DropByOwner, DropAfterClose, BeginClose, DrainedFirst, CloseExplained
<1>6. CASE CloseDrained
  <2>1. call # "drain"
    BY <1>6 DEF CloseDrained, Closing
  <2>2. CASE LoopDone /\ ~failures
    BY <1>6, <2>1, <2>2 DEF CloseDrained, LoopDone, DrainedFirst, CloseExplained
  <2>3. CASE ~LoopDone \/ failures
    <3>1. expired \/ failures
      BY <1>6, <2>3 DEF CloseDrained
    <3> QED
      BY <1>6, <2>3, <3>1 DEF CloseDrained, DrainedFirst, CloseExplained
  <2> QED
    BY <2>2, <2>3
<1>7. CASE CloseJetty
  <2>1. outstanding = {} /\ UNCHANGED <<connId, outstanding>> /\ pc' = "Closed"
    BY <1>7 DEF CloseJetty, DrainedFirst
  <2>2. ~HasWrs(connId)
    BY <2>1 DEF HasWrs, IInv, TrackedExactly
  <2> QED
    BY <1>7, <2>1, <2>2 DEF CloseJetty, DeleteJetty, KeepJetty, DrainedFirst,
       CloseExplained
<1>8. CASE Expire
  BY <1>2, <1>8 DEF Expire
<1>9. CASE ProviderCompletes
  BY <1>2, <1>9 DEF ProviderCompletes, Completes
<1>10. ASSUME NEW j \in jetties, FlushDone(j) PROVE Goal
  BY <1>2, <1>10 DEF FlushDone
<1> QED
  BY <1>3, <1>4, <1>5, <1>6, <1>7, <1>8, <1>9, <1>10
     DEF Next, AppStarts, CallSteps, Provider

\* close and Drop (close_inner, connection.rs:253) end with the Jetty destroyed and no WR
\* tracked, or with a reason: the deadline has passed, a step has failed, or the shim
\* could not delete a Jetty that has no WR left.  They never give up for nothing, and never
\* report success over WRs or a Jetty that are still there.
THEOREM ClosesForAReason == Spec => []CloseExplained
<1>1. Init => DrainedFirst /\ CloseExplained
  BY DEF Init, DrainedFirst, CloseExplained
<1>2. IInv /\ DrainedFirst /\ CloseExplained /\ [Next]_vars
        => DrainedFirst' /\ CloseExplained'
  <2>1. ASSUME DrainedFirst, CloseExplained, UNCHANGED vars
        PROVE  DrainedFirst' /\ CloseExplained'
    BY <2>1 DEF DrainedFirst, CloseExplained, vars, connVars, callVars, trackVars,
       jettyVars
  <2> QED
    BY <2>1, CloseStep
<1> QED
  BY <1>1, <1>2, InitIInv, NextIInv, PTL DEF Spec

=============================================================================
