---- MODULE DataPlaneProofs ----
(***************************************************************************)
(* What holds of DataPlane for every pool size, batch size, number of      *)
(* connections and set of faults.                                          *)
(***************************************************************************)
EXTENDS DataPlane, FiniteSetTheorems, TLAPS

-----------------------------------------------------------------------------
\* The pool operators, as the data plane composes them.

\* allocate then mark_posted: a free slot becomes posted for its operation.
LEMMA PostedSlot ==
  ASSUME NEW pool \in [Slots -> SlotState], NEW s \in Slots, pool[s] = "Free"
  PROVE  MarkPosted(Allocate(pool, s), s) = [pool EXCEPT ![s] = Posted(OpOf(s))]
BY DEF MarkPosted, Allocate, Transition, Posted, OpOf, SlotState

\* rollback_post then release: a refused post leaves the pool as it was.
LEMMA RefusedPost ==
  ASSUME NEW pool \in [Slots -> SlotState], NEW s \in Slots, pool[s] = "Free"
  PROVE  Release(RollbackPost(MarkPosted(Allocate(pool, s), s), s), s) = pool
<1>1. MarkPosted(Allocate(pool, s), s) = [pool EXCEPT ![s] = Posted(OpOf(s))]
  BY PostedSlot
<1>2. RollbackPost([pool EXCEPT ![s] = Posted(OpOf(s))], s)
        = [pool EXCEPT ![s] = "Allocated"]
  BY DEF RollbackPost, Transition
<1>3. Release([pool EXCEPT ![s] = "Allocated"], s) = [pool EXCEPT ![s] = "Free"]
  BY DEF Release
<1> QED
  BY <1>1, <1>2, <1>3

\* complete then release: a completed WR gives its slot back.
LEMMA RecycledSlot ==
  ASSUME NEW pool \in [Slots -> SlotState], NEW s \in Slots, NEW op \in OpType,
         pool[s] = Posted(op)
  PROVE  Release(Complete(pool, s, op), s) = [pool EXCEPT ![s] = "Free"]
BY DEF Release, Complete, Transition, Posted, Completed, OpType

-----------------------------------------------------------------------------
\* Ids of connections are never used twice, and a call needs a connection.
IdsOK ==
  /\ connId = 0 <=> state = "None"
  /\ Idle \/ state # "None"
  /\ connId < nextId /\ \A t \in wrs : t.conn < nextId

\* The inductive invariant: the counters of the poller stay natural numbers only
\* because they count the WRs of the connection, and a new connection tracks
\* nothing only because its id is fresh.
IInv == TypeOK /\ IdsOK /\ IsFiniteSet(wrs) /\ WrOwnsSlot /\ TrackedExactly

\* The set operations of track and route, on the counters of one operation.
LEMMA CountAdd ==
  ASSUME NEW S, IsFiniteSet(S), NEW t, t \notin S, NEW op
  PROVE  /\ Cardinality(WithOp(S, op)) \in Nat
         /\ Cardinality(WithOp(S \union {t}, op))
              = IF t.op = op THEN Cardinality(WithOp(S, op)) + 1
                             ELSE Cardinality(WithOp(S, op))
<1> DEFINE C == WithOp(S, op)
           D == WithOp(S \union {t}, op)
<1>1. IsFiniteSet(C) /\ Cardinality(C) \in Nat
  BY FS_Subset, FS_CardinalityType DEF WithOp
<1>2. t.op = op => D = C \union {t} /\ t \notin C
  BY DEF WithOp
<1>3. t.op # op => D = C
  BY DEF WithOp
<1> HIDE DEF C, D
<1>4. Cardinality(D) = IF t.op = op THEN Cardinality(C) + 1 ELSE Cardinality(C)
  BY <1>1, <1>2, <1>3, FS_AddElement
<1> QED
  BY <1>1, <1>4 DEF C, D

\* Its counterpart: the end of a WR takes one off the counter of its operation.
LEMMA CountRemove ==
  ASSUME NEW S, IsFiniteSet(S), NEW t \in S, NEW op
  PROVE  /\ Cardinality(WithOp(S, op)) \in Nat
         /\ t.op = op => Cardinality(WithOp(S, op)) - 1 \in Nat
         /\ Cardinality(WithOp(S \ {t}, op))
              = IF t.op = op THEN Cardinality(WithOp(S, op)) - 1
                             ELSE Cardinality(WithOp(S, op))
<1> DEFINE C == WithOp(S, op)
           D == WithOp(S \ {t}, op)
<1>1. IsFiniteSet(C) /\ Cardinality(C) \in Nat
  BY FS_Subset, FS_CardinalityType DEF WithOp
<1>2. IsFiniteSet(D) /\ Cardinality(D) \in Nat
  BY FS_Subset, FS_CardinalityType DEF WithOp
<1>3. t.op = op => D = C \ {t} /\ t \in C
  BY DEF WithOp
<1>4. t.op # op => D = C
  BY DEF WithOp
<1> HIDE DEF C, D
<1>5. Cardinality(D) = IF t.op = op THEN Cardinality(C) - 1 ELSE Cardinality(C)
  BY <1>1, <1>3, <1>4, FS_RemoveElement
<1>6. t.op = op => Cardinality(C) - 1 \in Nat
  BY <1>2, <1>5
<1> QED
  BY <1>1, <1>5, <1>6 DEF C, D

\* Before the first call nothing is posted, tracked or allocated: IInv holds.
THEOREM InitIInv == Init => IInv
<1> SUFFICES ASSUME Init PROVE IInv
  OBVIOUS
<1> USE PoolAssumption, DataPlaneAssumption
<1>1. IsFiniteSet({}) /\ Cardinality({}) = 0
  BY FS_EmptySet
<1>2. TypeOK
  <2>1. slots \in [Slots -> SlotState]
    BY DEF Init, InitPool, SlotState
  <2>2. connId \in ConnIds \union {0} /\ nextId \in 1 .. MaxConn + 1
    BY DEF Init, ConnIds
  <2> QED
    BY <2>1, <2>2 DEF Init, TypeOK
<1>3. IdsOK
  BY DEF Init, IdsOK, Idle
<1>4. WrOwnsSlot
  BY DEF Init, WrOwnsSlot
<1>5. TrackedExactly
  <2>1. WithOp(outstanding, "Send") = {} /\ WithOp(outstanding, "Recv") = {}
    BY DEF Init, WithOp
  <2> QED
    BY <1>1, <2>1 DEF Init, TrackedExactly
<1> QED
  BY <1>1, <1>2, <1>3, <1>4, <1>5 DEF IInv, Init

-----------------------------------------------------------------------------
\* Every step preserves IInv.

\* What the counters count survives any step that leaves the pool, the WRs and
\* their bookkeeping alone.
LEMMA BookkeepingKept ==
  ASSUME IInv, UNCHANGED <<slots, trackVars, wrs, connId>>
  PROVE  IsFiniteSet(wrs)' /\ WrOwnsSlot' /\ TrackedExactly'
BY DEF IInv, WrOwnsSlot, TrackedExactly, trackVars

\* Two slots cannot have the same live WR, so a new posting on a free slot and
\* the end of one WR leave the other WRs their slots.
LEMMA PostStep ==
  ASSUME IInv, NEW s \in Slots, RecvReady(s) \/ Send(s)
  PROVE  IInv'
<1> USE PoolAssumption, DataPlaneAssumption
<1> DEFINE t == TokenFor(s)
<1>1. Idle /\ state \in {"Bound", "Ready"} /\ Post(s)
  BY DEF RecvReady, Send
<1>2. slots \in [Slots -> SlotState] /\ slots[s] = "Free"
  BY <1>1 DEF IInv, TypeOK, Post, FirstFree
<1>3. /\ t \in Token /\ t.op = OpOf(s) /\ t.slot = s /\ t.conn = connId
      /\ t.op \in OpType
  BY <1>1 DEF IInv, TypeOK, IdsOK, TokenFor, Token, OpOf, OpType, ConnIds
<1>4. CASE UNCHANGED <<slots, wrs, posted, trackVars, everPosted>>
  <2>1. TypeOK' /\ IdsOK'
    BY <1>1, <1>4 DEF IInv, TypeOK, IdsOK, Idle, Post, trackVars, callVars,
       batchVars, cqVars, jettyVars
  <2>2. UNCHANGED <<slots, trackVars, wrs, connId>>
    BY <1>1, <1>4 DEF Post
  <2> QED
    BY <2>1, <2>2, BookkeepingKept DEF IInv
<1>5. CASE /\ slots' = [slots EXCEPT ![s] = Posted(OpOf(s))]
           /\ wrs' = wrs \union {t} /\ posted' = posted \union {t} /\ Track(t)
           /\ everPosted' = (everPosted \/ OpOf(s) = "Recv")
  <2>1. t \notin wrs /\ t \notin outstanding
    BY <1>2, <1>3 DEF IInv, WrOwnsSlot, TrackedExactly, Posted
  <2>2. IsFiniteSet(wrs') /\ IsFiniteSet(outstanding)
    BY <1>5, FS_AddElement, FS_Subset DEF IInv, TrackedExactly
  <2>3. WrOwnsSlot'
    BY <1>2, <1>3, <1>5, <2>1 DEF IInv, TypeOK, Token, WrOwnsSlot, Posted
  <2>4. connId' = connId /\ nextId' = nextId
    BY <1>1 DEF Post
  <2>5. outstanding' = {u \in wrs' : u.conn = connId'}
    BY <1>3, <1>5, <2>4 DEF IInv, TrackedExactly, Track
  <2>6. /\ outSend' = Cardinality(WithOp(outstanding', "Send"))
        /\ outRecv' = Cardinality(WithOp(outstanding', "Recv"))
    <3>1. outstanding' = outstanding \union {t}
      BY <1>5 DEF Track
    <3>2. \A op : Cardinality(WithOp(outstanding', op))
                    = IF t.op = op
                      THEN Cardinality(WithOp(outstanding, op)) + 1
                      ELSE Cardinality(WithOp(outstanding, op))
      BY <2>1, <2>2, <3>1, CountAdd
    <3> QED
      BY <1>3, <1>5, <3>2 DEF Track, IInv, TrackedExactly, OpType
  <2>7. everPosted' \in BOOLEAN
    BY <1>5 DEF IInv, TypeOK
  <2>8. slots' \in [Slots -> SlotState]
    BY <1>2, <1>5 DEF Posted, SlotState
  <2>9. TypeOK'
    BY <1>1, <1>3, <1>5, <2>7, <2>8 DEF IInv, TypeOK, Post, Track, callVars,
       batchVars, cqVars, jettyVars
  <2>10. IdsOK'
    BY <1>1, <1>3, <1>5 DEF IInv, IdsOK, Idle, Post, callVars
  <2> QED
    BY <2>2, <2>3, <2>5, <2>6, <2>9, <2>10 DEF IInv, TrackedExactly
<1> QED
  BY <1>1, <1>2, <1>4, <1>5, PostedSlot, RefusedPost DEF Post

\* The end of a tracked WR, with its slot recycled or left posted.
LEMMA EndWrStep ==
  ASSUME IInv, NEW t \in outstanding, EndWr(t), UNCHANGED <<connId, nextId>>,
         slots' \in {slots, [slots EXCEPT ![t.slot] = "Free"]}
  PROVE  /\ IsFiniteSet(wrs)' /\ WrOwnsSlot' /\ TrackedExactly'
         /\ outSend' \in Nat /\ outRecv' \in Nat
         /\ slots' \in [Slots -> SlotState]
         /\ outstanding' \subseteq Token /\ wrs' \subseteq wrs
<1>1. t \in wrs /\ t.slot \in Slots /\ t.op \in OpType /\ t.conn = connId
  BY DEF IInv, TypeOK, TrackedExactly, Token
<1>2. IsFiniteSet(wrs') /\ IsFiniteSet(outstanding)
  BY FS_Subset DEF IInv, EndWr, TrackedExactly
<1>3. WrOwnsSlot'
  BY <1>1 DEF IInv, TypeOK, Token, WrOwnsSlot, EndWr
<1>4. outstanding' = {u \in wrs' : u.conn = connId'}
  BY <1>1 DEF IInv, TrackedExactly, EndWr
<1>5. outstanding' = outstanding \ {t}
  BY DEF EndWr
<1>6. \A op : /\ Cardinality(WithOp(outstanding, op)) \in Nat
              /\ t.op = op => Cardinality(WithOp(outstanding, op)) - 1 \in Nat
              /\ Cardinality(WithOp(outstanding', op))
                   = IF t.op = op
                     THEN Cardinality(WithOp(outstanding, op)) - 1
                     ELSE Cardinality(WithOp(outstanding, op))
  BY <1>2, <1>5, CountRemove
<1>7. /\ outSend' = Cardinality(WithOp(outstanding', "Send"))
      /\ outRecv' = Cardinality(WithOp(outstanding', "Recv"))
      /\ outSend' \in Nat /\ outRecv' \in Nat
  BY <1>1, <1>6 DEF EndWr, IInv, TrackedExactly, OpType
<1>8. slots' \in [Slots -> SlotState]
  BY <1>1 DEF IInv, TypeOK, SlotState
<1> QED
  BY <1>2, <1>3, <1>4, <1>5, <1>7, <1>8 DEF IInv, TypeOK, TrackedExactly, EndWr

\* The steps that post, end or recycle nothing: control flow, polling, the clock
\* and the provider.
Quiet ==
  \/ ExportDescriptor \/ ImportAndBind \/ MarkReady \/ HandshakeFails
  \/ \E c \in {"poll", "wait", "drain"} : BeginCall(c)
  \/ Close \/ DropByOwner \/ DropAfterClose \/ DrainDone \/ CallTimesOut
  \/ PollSend \/ PollRecv \/ (\E r \in polled : RouteUnmatched(r)) \/ PollReturns
  \/ (\E e \in events : Decode(e)) \/ WaitReturns \/ MarkError \/ CloseDrained
  \/ CloseJetty \/ Expire \/ Provider

\* What an error inside poll_once may change.
LEMMA PollFailsChanges ==
  ASSUME TypeOK, NEW status \in BOOLEAN, PollFails(status)
  PROVE  /\ polled' = {} /\ events' = {} /\ failures' \in BOOLEAN
         /\ state' \in {state, "Failed"} /\ call' \in {call, "none"}
         /\ pc' \in {"Loop", "Idle"}
         /\ UNCHANGED <<connId, nextId, everPosted, pending, expired, jetties,
                        flushing>>
BY DEF TypeOK, PollFails, Return, jettyVars

\* A step that neither posts nor ends a WR keeps IInv.
LEMMA QuietStep ==
  ASSUME IInv, Quiet
  PROVE  TypeOK' /\ IdsOK' /\ UNCHANGED <<slots, trackVars, wrs, connId, nextId>>
<1> USE PoolAssumption, DataPlaneAssumption
    DEF IInv, TypeOK, IdsOK, Idle, ConnectionState, connVars, trackVars, callVars,
        batchVars, jettyVars, cqVars
<1> DEFINE Goal == /\ TypeOK' /\ IdsOK'
                   /\ UNCHANGED <<slots, trackVars, wrs, connId, nextId>>
<1>1. ASSUME ExportDescriptor PROVE Goal
  BY <1>1 DEF ExportDescriptor, StateBecomes
<1>2. ASSUME ImportAndBind PROVE Goal
  BY <1>2 DEF ImportAndBind, StateBecomes
<1>3. ASSUME MarkReady PROVE Goal
  BY <1>3 DEF MarkReady, StateBecomes
<1>4. ASSUME HandshakeFails PROVE Goal
  BY <1>4 DEF HandshakeFails, StateBecomes
<1>5. ASSUME NEW c \in {"poll", "wait", "drain"}, BeginCall(c) PROVE Goal
  BY <1>5 DEF BeginCall
<1>6. ASSUME Close PROVE Goal
  BY <1>6 DEF Close, BeginClose
<1>7. ASSUME DropByOwner PROVE Goal
  BY <1>7 DEF DropByOwner, BeginClose
<1>8. ASSUME DropAfterClose PROVE Goal
  BY <1>8 DEF DropAfterClose, BeginClose
<1>9. ASSUME DrainDone PROVE Goal
  BY <1>9 DEF DrainDone, Return
<1>10. ASSUME CallTimesOut PROVE Goal
  BY <1>10 DEF CallTimesOut, Return
<1>11. ASSUME PollSend PROVE Goal
  BY <1>11 DEF PollSend, PollFails, BatchOf, Return
<1>12. ASSUME PollRecv PROVE Goal
  BY <1>12 DEF PollRecv, PollFails, BatchOf, Return
<1>13. ASSUME PollReturns PROVE Goal
  BY <1>13 DEF PollReturns, Return
<1>14. ASSUME NEW e \in events, Decode(e) PROVE Goal
  BY <1>14 DEF Decode, Return
<1>15. ASSUME WaitReturns PROVE Goal
  BY <1>15 DEF WaitReturns, Return
<1>16. ASSUME MarkError PROVE Goal
  BY <1>16 DEF MarkError
<1>17. ASSUME CloseDrained PROVE Goal
  BY <1>17 DEF CloseDrained
<1>18. ASSUME CloseJetty PROVE Goal
  BY <1>18 DEF CloseJetty, DeleteJetty, KeepJetty
<1>19. ASSUME Expire PROVE Goal
  BY <1>19 DEF Expire
<1>20. ASSUME ProviderCompletes PROVE Goal
  BY <1>20 DEF ProviderCompletes, Completes, CqeKind, Cqe
<1>21. ASSUME NEW j \in jetties, FlushDone(j) PROVE Goal
  BY <1>21 DEF FlushDone, Cqe
<1>22. ASSUME NEW r \in polled, RouteUnmatched(r) PROVE Goal
  <2>1. (r.kind = "done") \in BOOLEAN /\ PollFails(r.kind = "done")
    BY <1>22 DEF RouteUnmatched
  <2>2. /\ polled' = {} /\ events' = {} /\ failures' \in BOOLEAN
        /\ state' \in {state, "Failed"} /\ call' \in {call, "none"}
        /\ pc' \in {"Loop", "Idle"}
        /\ UNCHANGED <<connId, nextId, everPosted, pending, expired, jetties,
                       flushing>>
    BY <2>1, PollFailsChanges DEF TypeOK
  <2> QED
    BY <1>22, <2>2 DEF RouteUnmatched, Routing
<1> QED
  BY <1>1, <1>2, <1>3, <1>4, <1>5, <1>6, <1>7, <1>8, <1>9, <1>10, <1>11, <1>12, <1>13, <1>14, <1>15, <1>16, <1>17, <1>18, <1>19, <1>20, <1>21, <1>22 DEF Quiet, Provider

\* Every step of the data plane keeps IInv: posts by PostStep, completions by
\* EndWrStep, all others by QuietStep.
THEOREM NextIInv == IInv /\ [Next]_vars => IInv'
<1> SUFFICES ASSUME IInv, [Next]_vars PROVE IInv'
  OBVIOUS
<1> USE PoolAssumption, DataPlaneAssumption
<1>1. CASE UNCHANGED vars
  BY <1>1 DEF IInv, TypeOK, IdsOK, Idle, WrOwnsSlot, TrackedExactly, vars,
     connVars, trackVars, callVars, batchVars, cqVars, jettyVars
<1>2. CASE Quiet
  <2>1. TypeOK' /\ IdsOK' /\ UNCHANGED <<slots, trackVars, wrs, connId>>
    BY <1>2, QuietStep
  <2> QED
    BY <2>1, BookkeepingKept DEF IInv
<1>3. ASSUME NEW s \in Slots, AllocateSlot(s) \/ ReleaseSlot(s) PROVE IInv'
  <2>1. slots' \in [Slots -> SlotState]
    BY <1>3 DEF IInv, TypeOK, AllocateSlot, ReleaseSlot, Allocate, Release, SlotState
  <2>2. \A u \in Slots : slots[u] \in {"SendPosted", "PostedRecv"}
                           => slots'[u] = slots[u]
    BY <1>3 DEF IInv, TypeOK, AllocateSlot, ReleaseSlot, Allocate, Release, FirstFree
  <2>3. WrOwnsSlot'
    BY <1>3, <2>2 DEF IInv, TypeOK, Token, WrOwnsSlot, Posted, AllocateSlot,
       ReleaseSlot
  <2>4. TrackedExactly' /\ IsFiniteSet(wrs')
    BY <1>3 DEF IInv, TrackedExactly, AllocateSlot, ReleaseSlot, trackVars, connVars
  <2>5. TypeOK' /\ IdsOK'
    BY <1>3, <2>1 DEF IInv, TypeOK, IdsOK, Idle, AllocateSlot, ReleaseSlot,
       connVars, trackVars, callVars, batchVars, cqVars, jettyVars
  <2> QED
    BY <2>3, <2>4, <2>5 DEF IInv
<1>4. CASE CreateConnection
  <2>1. outstanding = {} /\ {t \in wrs : t.conn = nextId} = {}
    BY <1>4 DEF IInv, TypeOK, IdsOK, TrackedExactly, Token, ConnIds, CreateConnection
  <2>2. TypeOK' /\ IdsOK'
    <3>1. nextId \in ConnIds /\ nextId' \in 1 .. MaxConn + 1 /\ nextId' > nextId
      BY <1>4 DEF IInv, TypeOK, ConnIds, CreateConnection, IdAfter
    <3>2. TypeOK'
      BY <1>4, <3>1 DEF IInv, TypeOK, ConnectionState, CreateConnection, trackVars,
         callVars, batchVars, cqVars
    <3>3. connId' = 0 <=> state' = "None"
      BY <1>4, <3>1 DEF IInv, TypeOK, IdsOK, ConnIds, CreateConnection
    <3>4. Idle' /\ connId' < nextId' /\ \A t \in wrs' : t.conn < nextId'
      BY <1>4, <3>1 DEF IInv, TypeOK, IdsOK, Idle, Token, ConnIds,
         CreateConnection, callVars
    <3> QED
      BY <3>2, <3>3, <3>4 DEF IdsOK
  <2>3. WrOwnsSlot' /\ IsFiniteSet(wrs') /\ UNCHANGED <<wrs, trackVars>>
    BY <1>4 DEF IInv, WrOwnsSlot, CreateConnection
  <2>4. TrackedExactly'
    BY <1>4, <2>1, <2>3 DEF IInv, TrackedExactly, CreateConnection, trackVars
  <2> QED
    BY <2>2, <2>3, <2>4 DEF IInv
<1>5. ASSUME NEW s \in Slots, RecvReady(s) \/ Send(s) PROVE IInv'
  BY <1>5, PostStep
<1>6. ASSUME NEW r \in polled, RouteFailed(r) \/ RouteBadLength(r) \/ RouteOk(r)
      PROVE  IInv'
  <2>1. r.tok \in outstanding /\ EndWr(r.tok) /\ UNCHANGED <<connId, nextId>>
    BY <1>6 DEF RouteFailed, RouteBadLength, RouteOk, Matches, PollFails, connVars
  <2>2. /\ r.tok.slot \in Slots /\ r.tok.op \in OpType
        /\ slots \in [Slots -> SlotState] /\ slots[r.tok.slot] = Posted(r.tok.op)
    BY <2>1 DEF IInv, TypeOK, WrOwnsSlot, TrackedExactly, Token
  <2>3. slots' \in {slots, [slots EXCEPT ![r.tok.slot] = "Free"]}
    BY <1>6, <2>2, RecycledSlot DEF RouteFailed, RouteBadLength, RouteOk, Recycled
  <2>4. /\ IsFiniteSet(wrs)' /\ WrOwnsSlot' /\ TrackedExactly'
        /\ outSend' \in Nat /\ outRecv' \in Nat
        /\ slots' \in [Slots -> SlotState]
        /\ outstanding' \subseteq Token /\ wrs' \subseteq wrs
    BY <2>1, <2>3, EndWrStep
  <2>5. TypeOK' /\ IdsOK'
    <3>1. CASE RouteOk(r)
      BY <2>1, <2>4, <3>1 DEF IInv, TypeOK, IdsOK, Idle, RouteOk, connVars,
         callVars, cqVars, jettyVars
    <3>2. CASE RouteFailed(r) \/ RouteBadLength(r)
      <4>1. PICK status \in BOOLEAN : PollFails(status)
        BY <3>2 DEF RouteFailed, RouteBadLength
      <4>2. /\ polled' = {} /\ events' = {} /\ failures' \in BOOLEAN
            /\ state' \in {state, "Failed"} /\ call' \in {call, "none"}
            /\ pc' \in {"Loop", "Idle"}
            /\ UNCHANGED <<connId, nextId, everPosted, pending, expired, jetties,
                           flushing>>
        BY <4>1, PollFailsChanges DEF IInv
      <4>3. state # "None" /\ UNCHANGED <<posted, sendCq, recvCq>>
        BY <3>2 DEF IInv, IdsOK, Idle, RouteFailed, RouteBadLength, Routing, cqVars
      <4>4. TypeOK'
        BY <2>4, <4>2, <4>3 DEF IInv, TypeOK, ConnectionState
      <4>5. IdsOK'
        BY <2>4, <4>2, <4>3 DEF IInv, IdsOK, Idle
      <4> QED
        BY <4>4, <4>5
    <3> QED
      BY <1>6, <3>1, <3>2
  <2> QED
    BY <2>4, <2>5 DEF IInv
<1>7. CASE DropFields
  <2>1. WithOp({}, "Send") = {} /\ WithOp({}, "Recv") = {}
    BY DEF WithOp
  <2>2. TrackedExactly'
    <3>1. {t \in wrs : t.conn = 0} = {}
      BY DEF IInv, TypeOK, Token, ConnIds
    <3> QED
      BY <1>7, <2>1, <3>1, FS_EmptySet DEF TrackedExactly, DropFields, WrsAfterDrop
  <2>3. WrOwnsSlot' /\ IsFiniteSet(wrs')
    BY <1>7 DEF IInv, WrOwnsSlot, DropFields, WrsAfterDrop
  <2>4. TypeOK'
    <3>1. jetties' \subseteq ConnIds /\ flushing' \subseteq ConnIds
      BY <1>7 DEF IInv, TypeOK, DropFields, DeleteJetty, KeepJetty, jettyVars
    <3> QED
      BY <1>7, <3>1 DEF IInv, TypeOK, DropFields, WrsAfterDrop, Return, batchVars,
         cqVars
  <2>5. IdsOK'
    BY <1>7 DEF IInv, TypeOK, IdsOK, Idle, DropFields, WrsAfterDrop, Return
  <2> QED
    BY <2>2, <2>3, <2>4, <2>5 DEF IInv
<1> QED
  BY <1>1, <1>2, <1>3, <1>4, <1>5, <1>6, <1>7
     DEF Next, AppStarts, CallSteps, Route, Quiet

-----------------------------------------------------------------------------
\* In every reachable state the variables have their types: in particular the
\* counters of the poller never go below zero (usize in the code).
THEOREM TypeCorrect == Spec => []TypeOK
<1>1. IInv => TypeOK
  BY DEF IInv
<1> QED
  BY <1>1, InitIInv, NextIInv, PTL DEF Spec

\* The memory of a slot is never given out again while a WR references it.
THEOREM SlotSafety == Spec => []WrOwnsSlot
<1>1. IInv => WrOwnsSlot
  BY DEF IInv
<1> QED
  BY <1>1, InitIInv, NextIInv, PTL DEF Spec

\* The connection tracks exactly its WRs, and its counters count them.
THEOREM Tracking == Spec => []TrackedExactly
<1>1. IInv => TrackedExactly
  BY DEF IInv
<1> QED
  BY <1>1, InitIInv, NextIInv, PTL DEF Spec

-----------------------------------------------------------------------------
\* No slot is lost, unless complete_recv refuses a length: a slot in a posted state has
\* the WR it was posted for.
NoBadLength == \A r \in Records : r.kind # "badLength"
PInv == PostedSlotHasWr /\ NoBadLength

\* Only the provider adds records, and none with a length that is refused.
LEMMA RecordKinds ==
  ASSUME "badLength" \notin Faults, NoBadLength, Next
  PROVE  NoBadLength'
<1> USE DEF NoBadLength, Records, connVars, batchVars, cqVars
<1>1. CASE ProviderCompletes
  <2>1. PICK t \in posted, k \in CqeKind : Completes(t, k)
    BY <1>1 DEF ProviderCompletes
  <2>2. k # "badLength"
    BY <2>1 DEF Completes, Outcomes
  <2> QED
    BY <2>1, <2>2 DEF Completes
<1>2. ASSUME NEW j \in jetties, FlushDone(j) PROVE NoBadLength'
  BY <1>2 DEF FlushDone, Done
<1>3. CASE PollSend \/ PollRecv
  BY <1>3 DEF PollSend, PollRecv, PollFails, BatchOf
<1>4. CASE Route
  BY <1>4 DEF Route, RouteUnmatched, RouteFailed, RouteBadLength, RouteOk, PollFails
<1>5. ASSUME NEW s \in Slots, AllocateSlot(s) \/ ReleaseSlot(s) \/ RecvReady(s) \/ Send(s)
      PROVE  NoBadLength'
  BY <1>5 DEF AllocateSlot, ReleaseSlot, RecvReady, Send, Post
<1>6. ASSUME NEW c \in {"poll", "wait", "drain"}, BeginCall(c) PROVE NoBadLength'
  BY <1>6 DEF BeginCall
<1>7. ASSUME NEW e \in events, Decode(e) PROVE NoBadLength'
  BY <1>7 DEF Decode
<1>8. CASE CreateConnection \/ ExportDescriptor \/ ImportAndBind \/ MarkReady
           \/ HandshakeFails
  BY <1>8 DEF CreateConnection, ExportDescriptor, ImportAndBind, MarkReady, HandshakeFails,
     StateBecomes
<1>9. CASE Close \/ DropByOwner \/ DropAfterClose
  BY <1>9 DEF Close, DropByOwner, DropAfterClose, BeginClose
<1>10. CASE DrainDone \/ CallTimesOut \/ PollReturns \/ WaitReturns \/ Expire
  BY <1>10 DEF DrainDone, CallTimesOut, PollReturns, WaitReturns, Expire
<1>11. CASE MarkError \/ CloseDrained \/ CloseJetty \/ DropFields
  BY <1>11 DEF MarkError, CloseDrained, CloseJetty, DropFields
<1> QED
  BY <1>1, <1>2, <1>3, <1>4, <1>5, <1>6, <1>7, <1>8, <1>9, <1>10, <1>11
     DEF Next, AppStarts, CallSteps, Provider

\* The pool and the WRs move together in every step.
LEMMA PostedKept ==
  ASSUME IInv, PInv, [Next]_vars
  PROVE  PostedSlotHasWr'
<1> USE PoolAssumption
<1> DEFINE InPost == {"SendPosted", "PostedRecv"}
<1>1. CASE UNCHANGED <<slots, wrs>>
  BY <1>1 DEF PInv, PostedSlotHasWr
<1>2. CASE Quiet
  BY <1>1, <1>2, QuietStep
<1>3. ASSUME NEW s \in Slots, AllocateSlot(s) \/ ReleaseSlot(s) PROVE PostedSlotHasWr'
  <2>1. wrs' = wrs
    BY <1>3 DEF AllocateSlot, ReleaseSlot
  <2>2. \A u \in Slots : slots'[u] \in InPost => slots[u] \in InPost
    BY <1>3 DEF IInv, TypeOK, AllocateSlot, ReleaseSlot, Allocate, Release
  <2> QED
    BY <2>1, <2>2 DEF PInv, PostedSlotHasWr
<1>4. ASSUME NEW s \in Slots, RecvReady(s) \/ Send(s) PROVE PostedSlotHasWr'
  <2>1. Post(s) /\ slots[s] = "Free" /\ slots \in [Slots -> SlotState]
    BY <1>4 DEF RecvReady, Send, Post, FirstFree, IInv, TypeOK
  <2>2. CASE UNCHANGED <<slots, wrs>>
    BY <1>1, <2>2
  <2>3. CASE /\ slots' = [slots EXCEPT ![s] = Posted(OpOf(s))]
             /\ wrs' = wrs \union {TokenFor(s)}
    <3>1. TokenFor(s).slot = s
      BY DEF TokenFor
    <3> QED
      BY <2>1, <2>3, <3>1 DEF PInv, PostedSlotHasWr
  <2> QED
    BY <2>1, <2>2, <2>3, PostedSlot, RefusedPost DEF Post
<1>5. CASE Route
  <2>1. PICK r \in polled :
          RouteUnmatched(r) \/ RouteFailed(r) \/ RouteBadLength(r) \/ RouteOk(r)
    BY <1>5 DEF Route
  <2>2. ~RouteBadLength(r)
    BY DEF PInv, NoBadLength, Records, RouteBadLength
  <2>3. CASE RouteUnmatched(r)
    BY <1>1, <2>3 DEF RouteUnmatched
  <2>4. CASE RouteFailed(r) \/ RouteOk(r)
    <3>1. r.tok \in outstanding /\ wrs' = wrs \ {r.tok} /\ slots' = Recycled(r.tok)
      BY <2>4 DEF RouteFailed, RouteOk, Matches, EndWr
    <3>2. /\ r.tok \in wrs /\ r.tok.slot \in Slots /\ r.tok.op \in OpType
          /\ slots \in [Slots -> SlotState] /\ slots[r.tok.slot] = Posted(r.tok.op)
      BY <3>1 DEF IInv, TypeOK, WrOwnsSlot, TrackedExactly, Token
    <3>3. slots' = [slots EXCEPT ![r.tok.slot] = "Free"]
      BY <3>1, <3>2, RecycledSlot DEF Recycled
    <3>4. ASSUME NEW s \in Slots, slots'[s] \in InPost
          PROVE  \E t \in wrs' : t.slot = s
      <4>1. s # r.tok.slot /\ slots[s] \in InPost
        BY <3>2, <3>3, <3>4
      <4>2. PICK t \in wrs : t.slot = s
        BY <4>1 DEF PInv, PostedSlotHasWr
      <4> QED
        BY <3>1, <4>1, <4>2
    <3> QED
      BY <3>4 DEF PostedSlotHasWr
  <2> QED
    BY <2>1, <2>2, <2>3, <2>4
<1>6. CASE CreateConnection \/ DropFields \/ UNCHANGED vars
  BY <1>1, <1>6 DEF CreateConnection, DropFields, WrsAfterDrop, vars
<1> QED
  BY <1>2, <1>3, <1>4, <1>5, <1>6 DEF Next, AppStarts, CallSteps, Quiet

\* A pool loses no slot (complete_send, complete_error, rollback_post, release), as long
\* as the provider reports no length that complete_recv refuses.
THEOREM SlotsKept ==
  ASSUME "badLength" \notin Faults
  PROVE  Spec => []PostedSlotHasWr
<1>1. Init => PInv
  BY DEF Init, InitPool, PInv, PostedSlotHasWr, NoBadLength, Records
<1>2. IInv /\ PInv /\ [Next]_vars => PInv'
  <2>1. CASE UNCHANGED vars
    BY <2>1 DEF PInv, PostedSlotHasWr, NoBadLength, Records, vars, batchVars, cqVars
  <2>2. CASE Next
    BY <2>2, PostedKept, RecordKinds DEF PInv
  <2> QED
    BY <2>1, <2>2
<1>3. PInv => PostedSlotHasWr
  BY DEF PInv
<1> QED
  BY <1>1, <1>2, <1>3, InitIInv, NextIInv, PTL DEF Spec
====
