---- MODULE RuntimeProofs ----
(***************************************************************************)
(* What holds of RuntimeLifecycle for any set of runtimes, any way to end  *)
(* them and any set of faults; what is proved of the guard excludes the    *)
(* start of a runtime between the two releases of one shutdown, and what   *)
(* is proved of freed wrappers excludes a failing urma_uninit.             *)
(***************************************************************************)
EXTENDS RuntimeLifecycle, SequenceTheorems, FiniteSetTheorems, TLAPS

Typed ==
  /\ active \in BOOLEAN
  /\ pc \in [Runtimes -> Labels]
  /\ held \in [Runtimes -> SUBSET Handles] /\ objs \in [Runtimes -> SUBSET Handles]
  /\ leak \in [Runtimes -> {"none", "jetty", "wrs"}]
  /\ plan \in [Runtimes -> Seq(CloseCalls)]
  /\ failed \in [Runtimes -> BOOLEAN]

Starting == {"New", "Open", "Query", "CreateSend", "CreateRecv", "CreatePool", "Running"}
Cleaning == {"StartFailed", "Shutdown", "Dropping"}
Over == {"DroppingAgain", "Gone"}

\* Plan p still closes h, and before any Drop of h.
Pending(p, h) ==
  \E i \in 1 .. Len(p) : /\ p[i] = Closes(h)
                         /\ \A j \in 1 .. i - 1 : p[j] # Drops(h)

\* As long as no close call has failed, what exists is what is held, and the plan
\* still closes all of it.
Local(r) ==
  /\ pc[r] \in {"New", "Open"} => objs[r] = {} /\ leak[r] = "none"
  /\ pc[r] \in Starting \ {"New", "Open"} => "native" \in objs[r]
  /\ pc[r] \in Starting \ {"Running"} => "segment" \notin objs[r]
  /\ pc[r] \in Starting => plan[r] = <<>> /\ ~failed[r]
  /\ pc[r] \in Cleaning /\ ~failed[r] => \A h \in objs[r] : Pending(plan[r], h)
  /\ pc[r] \in Over => plan[r] = <<>>
  /\ pc[r] \in Over /\ ~failed[r] => objs[r] = {}
  /\ ~failed[r] => held[r] = objs[r]
  /\ objs[r] # {} \/ leak[r] # "none" => "native" \in objs[r]

LInv == Typed /\ \A r \in Runtimes : Local(r)

\* Before the first start there is nothing to hold, plan or leak.
THEOREM InitLInv == Init => LInv
<1> SUFFICES ASSUME Init PROVE LInv
  OBVIOUS
<1>1. Typed
  <2>1. <<>> \in Seq(CloseCalls)
    OBVIOUS
  <2> QED
    BY <2>1 DEF Init, Typed, Labels
<1>2. ASSUME NEW r \in Runtimes PROVE Local(r)
  BY <1>2 DEF Init, Local, Starting, Cleaning, Over
<1> QED
  BY <1>1, <1>2 DEF LInv

-----------------------------------------------------------------------------
\* The plans of shutdown and of a failing start are lists of close calls.
LEMMA PlansAreSeqs ==
  ShutdownPlan \in Seq(CloseCalls) /\ RollbackPlan \in Seq(CloseCalls)
<1>1. \A h \in Handles : Closes(h) \in CloseCalls /\ Drops(h) \in CloseCalls
  BY DEF Closes, Drops, CloseCalls
<1> QED
  BY <1>1 DEF ShutdownPlan, RollbackPlan, Handles

\* shutdown closes every handle explicitly, and drops none before it did.
LEMMA ShutdownCloses ==
  ASSUME NEW h \in Handles PROVE Pending(ShutdownPlan, h)
<1>1. CASE h = "recv"
  <2>1. /\ 1 \in 1 .. Len(ShutdownPlan) /\ ShutdownPlan[1] = Closes(h)
        /\ \A j \in 1 .. 1 - 1 : ShutdownPlan[j] # Drops(h)
    BY <1>1 DEF ShutdownPlan
  <2> QED
    BY <2>1 DEF Pending
<1>2. CASE h = "send"
  <2>1. /\ 3 \in 1 .. Len(ShutdownPlan) /\ ShutdownPlan[3] = Closes(h)
        /\ \A j \in 1 .. 3 - 1 : ShutdownPlan[j] # Drops(h)
    BY <1>2 DEF ShutdownPlan, Closes, Drops
  <2> QED
    BY <2>1 DEF Pending
<1>3. CASE h = "segment"
  <2>1. /\ 5 \in 1 .. Len(ShutdownPlan) /\ ShutdownPlan[5] = Closes(h)
        /\ \A j \in 1 .. 5 - 1 : ShutdownPlan[j] # Drops(h)
    BY <1>3 DEF ShutdownPlan, Closes, Drops
  <2> QED
    BY <2>1 DEF Pending
<1>4. CASE h = "native"
  <2>1. /\ 7 \in 1 .. Len(ShutdownPlan) /\ ShutdownPlan[7] = Closes(h)
        /\ \A j \in 1 .. 7 - 1 : ShutdownPlan[j] # Drops(h)
    BY <1>4 DEF ShutdownPlan, Closes, Drops
  <2> QED
    BY <2>1 DEF Pending
<1> QED
  BY <1>1, <1>2, <1>3, <1>4 DEF Handles

\* The rollback of start closes every handle that exists before the Segment.
LEMMA RollbackCloses ==
  ASSUME NEW h \in Handles \ {"segment"} PROVE Pending(RollbackPlan, h)
<1>1. CASE h = "recv"
  <2>1. /\ 1 \in 1 .. Len(RollbackPlan) /\ RollbackPlan[1] = Closes(h)
        /\ \A j \in 1 .. 1 - 1 : RollbackPlan[j] # Drops(h)
    BY <1>1 DEF RollbackPlan
  <2> QED
    BY <2>1 DEF Pending
<1>2. CASE h = "send"
  <2>1. /\ 2 \in 1 .. Len(RollbackPlan) /\ RollbackPlan[2] = Closes(h)
        /\ \A j \in 1 .. 2 - 1 : RollbackPlan[j] # Drops(h)
    BY <1>2 DEF RollbackPlan, Closes, Drops
  <2> QED
    BY <2>1 DEF Pending
<1>3. CASE h = "native"
  <2>1. /\ 3 \in 1 .. Len(RollbackPlan) /\ RollbackPlan[3] = Closes(h)
        /\ \A j \in 1 .. 3 - 1 : RollbackPlan[j] # Drops(h)
    BY <1>3 DEF RollbackPlan, Closes, Drops
  <2> QED
    BY <2>1 DEF Pending
<1> QED
  BY <1>1, <1>2, <1>3 DEF Handles

\* What a plan still closes after its first call.
LEMMA PendingTail ==
  ASSUME NEW p \in Seq(CloseCalls), p # <<>>, NEW h \in Handles, Pending(p, h)
  PROVE  /\ Head(p) # Drops(h)
         /\ Head(p) # Closes(h) => Pending(Tail(p), h)
<1>1. PICK i \in 1 .. Len(p) : p[i] = Closes(h) /\ \A j \in 1 .. i - 1 : p[j] # Drops(h)
  BY DEF Pending
<1>2. Head(p) = p[1] /\ Len(p) \in Nat /\ Len(Tail(p)) = Len(p) - 1
  BY HeadTailProperties
<1>3. \A j \in 1 .. Len(p) - 1 : Tail(p)[j] = p[j + 1]
  BY HeadTailProperties
<1>4. Closes(h) # Drops(h)
  BY DEF Closes, Drops
<1>5. Head(p) # Drops(h)
  BY <1>1, <1>2, <1>4
<1>6. ASSUME Head(p) # Closes(h) PROVE Pending(Tail(p), h)
  <2>1. i - 1 \in 1 .. Len(Tail(p))
    BY <1>1, <1>2, <1>6
  <2>2. Tail(p)[i - 1] = Closes(h)
    BY <1>1, <1>2, <1>3, <2>1
  <2>3. \A j \in 1 .. (i - 1) - 1 : Tail(p)[j] # Drops(h)
    BY <1>1, <1>2, <1>3
  <2> QED
    BY <2>1, <2>2, <2>3 DEF Pending
<1> QED
  BY <1>5, <1>6

-----------------------------------------------------------------------------
\* Every step preserves LInv.  A step of r leaves the other runtimes alone.

Same(q) == /\ pc'[q] = pc[q] /\ held'[q] = held[q] /\ objs'[q] = objs[q]
           /\ leak'[q] = leak[q] /\ plan'[q] = plan[q] /\ failed'[q] = failed[q]

\* A step of one runtime leaves what the others hold, plan and leak.
LEMMA OthersKept ==
  ASSUME LInv, NEW r \in Runtimes, Typed', Local(r)',
         \A q \in Runtimes \ {r} : Same(q)
  PROVE  LInv'
<1>1. ASSUME NEW q \in Runtimes \ {r} PROVE Local(q)'
  BY <1>1 DEF LInv, Local, Same
<1> QED
  BY <1>1 DEF LInv

\* The steps of start: a failure leaves a plan that closes all there is.
LEMMA RolledBack ==
  ASSUME LInv, NEW r \in Runtimes, pc[r] \in {"Query", "CreateSend", "CreateRecv", "CreatePool"},
         RollBack(r), UNCHANGED <<active, held, objs, leak, failed>>
  PROVE  LInv'
<1>1. Typed'
  BY PlansAreSeqs DEF LInv, Typed, RollBack, Goto, Labels
<1>2. pc'[r] = "StartFailed" /\ plan'[r] = RollbackPlan
  BY DEF LInv, Typed, RollBack, Goto
<1>3. objs[r] \subseteq Handles \ {"segment"} /\ ~failed[r] /\ held[r] = objs[r]
      /\ "native" \in objs[r]
  BY DEF LInv, Typed, Local, Starting
<1>4. \A h \in objs[r] : Pending(RollbackPlan, h)
  BY <1>3, RollbackCloses
<1>5. Local(r)'
  BY <1>2, <1>3, <1>4 DEF Local, Starting, Cleaning, Over
<1>6. \A q \in Runtimes \ {r} : Same(q)
  BY DEF LInv, Typed, RollBack, Goto, Same
<1> QED
  BY <1>1, <1>5, <1>6, OthersKept

\* start creates one handle at a time, or turns to a plan that closes those it has.
LEMMA StartStep ==
  ASSUME LInv, NEW r \in Runtimes,
         \/ Start(r) \/ Open(r) \/ Query(r) \/ CreateSendJfc(r) \/ CreateRecvJfc(r)
         \/ CreatePool(r) \/ ConnectionLeaks(r)
  PROVE  LInv'
<1>1. CASE Start(r)
  <2>1. Typed' /\ \A q \in Runtimes \ {r} : Same(q)
    BY <1>1 DEF LInv, Typed, Start, Acquire, Goto, Labels, Same
  <2>2. Local(r)'
    BY <1>1 DEF LInv, Typed, Local, Start, Goto, Starting, Cleaning, Over
  <2> QED
    BY <2>1, <2>2, OthersKept
<1>2. CASE Open(r)
  <2>1. pc[r] = "Open" /\ UNCHANGED <<active, leak, plan, failed>>
    BY <1>2 DEF Open
  <2>2. PICK N \in SUBSET Handles : N = {"native"}
    BY DEF Handles
  <2>3. CASE /\ pc' = [pc EXCEPT ![r] = "Query"]
             /\ held' = [held EXCEPT ![r] = N] /\ objs' = [objs EXCEPT ![r] = N]
    <3>1. Typed' /\ \A q \in Runtimes \ {r} : Same(q)
      BY <2>1, <2>3 DEF LInv, Typed, Labels, Same
    <3>2. /\ pc'[r] = "Query" /\ held'[r] = N /\ objs'[r] = N /\ plan'[r] = plan[r]
          /\ failed'[r] = failed[r]
      BY <2>1, <2>3 DEF LInv, Typed
    <3>3. plan[r] = <<>> /\ ~failed[r]
      BY <2>1 DEF LInv, Local, Starting
    <3>4. Local(r)'
      BY <2>2, <3>2, <3>3 DEF Local, Starting, Cleaning, Over
    <3> QED
      BY <3>1, <3>4, OthersKept
  <2>4. CASE pc' = [pc EXCEPT ![r] = "StartFailed"] /\ UNCHANGED <<held, objs>>
    <3>1. Typed' /\ \A q \in Runtimes \ {r} : Same(q)
      BY <2>1, <2>4 DEF LInv, Typed, Labels, Same
    <3>2. Local(r)'
      BY <2>1, <2>4 DEF LInv, Typed, Local, Starting, Cleaning, Over
    <3> QED
      BY <3>1, <3>2, OthersKept
  <2> QED
    BY <1>2, <2>2, <2>3, <2>4 DEF Open, Goto
<1>3. CASE Query(r)
  <2>1. CASE Goto(r, "CreateSend") /\ UNCHANGED plan
    <3>1. Typed' /\ \A q \in Runtimes \ {r} : Same(q)
      BY <1>3, <2>1 DEF LInv, Typed, Query, Goto, Labels, Same
    <3>2. Local(r)'
      BY <1>3, <2>1 DEF LInv, Typed, Local, Query, Goto, Starting, Cleaning, Over
    <3> QED
      BY <3>1, <3>2, OthersKept
  <2>2. CASE RollBack(r)
    BY <1>3, <2>2, RolledBack DEF Query
  <2> QED
    BY <1>3, <2>1, <2>2 DEF Query
<1>4. ASSUME NEW h \in Handles, NEW from, NEW to,
             <<h, from, to>> \in {<<"send", "CreateSend", "CreateRecv">>,
                                 <<"recv", "CreateRecv", "CreatePool">>,
                                 <<"segment", "CreatePool", "Running">>},
             Create(r, h, from, to)
      PROVE  LInv'
  <2>1. CASE /\ Goto(r, to) /\ held' = [held EXCEPT ![r] = @ \union {h}]
             /\ objs' = [objs EXCEPT ![r] = @ \union {h}] /\ UNCHANGED plan
    <3>1. Typed' /\ \A q \in Runtimes \ {r} : Same(q)
      BY <1>4, <2>1 DEF LInv, Typed, Create, Goto, Labels, Same, Handles
    <3>2. Local(r)'
      BY <1>4, <2>1 DEF LInv, Typed, Local, Create, Goto, Starting, Cleaning, Over
    <3> QED
      BY <3>1, <3>2, OthersKept
  <2>2. CASE RollBack(r) /\ UNCHANGED <<held, objs>>
    BY <1>4, <2>2, RolledBack DEF Create
  <2> QED
    BY <1>4, <2>1, <2>2 DEF Create
<1>5. CASE ConnectionLeaks(r)
  <2>1. Typed' /\ \A q \in Runtimes \ {r} : Same(q)
    BY <1>5 DEF LInv, Typed, ConnectionLeaks, Same
  <2>2. Local(r)'
    BY <1>5 DEF LInv, Typed, Local, ConnectionLeaks, Starting, Cleaning, Over
  <2> QED
    BY <2>1, <2>2, OthersKept
<1> QED
  BY <1>1, <1>2, <1>3, <1>4, <1>5
     DEF CreateSendJfc, CreateRecvJfc, CreatePool, Handles

\* One close of one handle: with no failure so far the handle and its object go
\* together; the shim keeps the context for the sake of whatever is left.
LEMMA CloseStep ==
  ASSUME LInv, NEW r \in Runtimes, CloseCall(r)
  PROVE  LInv'
<1> DEFINE c == Head(plan[r])
           h == c.handle
<1>1. /\ plan[r] \in Seq(CloseCalls) /\ plan[r] # <<>> /\ c \in CloseCalls
      /\ h \in Handles /\ Tail(plan[r]) \in Seq(CloseCalls)
  <2>1. plan[r] \in Seq(CloseCalls) /\ plan[r] # <<>>
    BY DEF LInv, Typed, CloseCall
  <2>2. c \in CloseCalls /\ Tail(plan[r]) \in Seq(CloseCalls)
    BY <2>1, HeadTailProperties
  <2> QED
    BY <2>1, <2>2 DEF CloseCalls
<1>2. pc[r] \in Cleaning
  BY <1>1 DEF LInv, Typed, Local, Labels, Starting, Over, Cleaning
<1>3. plan' = [plan EXCEPT ![r] = Tail(plan[r])] /\ UNCHANGED <<active, pc, leak>>
  BY DEF CloseCall
<1>4. c = Closes(h) \/ c = Drops(h)
  BY <1>1 DEF CloseCalls, Closes, Drops
<1>5. ASSUME ~failed[r], NEW g \in objs[r]
      PROVE  c # Drops(g) /\ (c # Closes(g) => Pending(Tail(plan[r]), g))
  <2>1. g \in Handles /\ Pending(plan[r], g)
    BY <1>2, <1>5 DEF LInv, Typed, Local
  <2> QED
    BY <1>1, <2>1, PendingTail
\* What the call does to r, and to nobody else.
<1>6. /\ \/ UNCHANGED <<held, objs, failed>> /\ h \notin held[r] \intersect objs[r]
         \/ Deletes(r, h)
         \/ failed' = [failed EXCEPT ![r] = @ \/ c.counts] /\ UNCHANGED <<held, objs>>
            /\ h \in objs[r]
         \/ /\ failed' = [failed EXCEPT ![r] = @ \/ c.counts] /\ UNCHANGED held
            /\ objs' = [objs EXCEPT ![r] = {}] /\ h \in objs[r] /\ leak[r] = "none"
  BY DEF CloseCall, Gone, Dangles, Refuses, UninitFails, Fails, Deletable
<1>7. Typed' /\ \A q \in Runtimes \ {r} : Same(q)
  <2>1. c.counts \in BOOLEAN
    BY <1>1 DEF CloseCalls
  <2>2. held' \in [Runtimes -> SUBSET Handles] /\ objs' \in [Runtimes -> SUBSET Handles]
    BY <1>6 DEF LInv, Typed, Deletes
  <2>3. failed' \in [Runtimes -> BOOLEAN]
    BY <1>6, <2>1 DEF LInv, Typed, Deletes
  <2>4. plan' \in [Runtimes -> Seq(CloseCalls)]
    BY <1>1, <1>3 DEF LInv, Typed
  <2>5. \A q \in Runtimes \ {r} : Same(q)
    BY <1>3, <1>6 DEF LInv, Typed, Deletes, Same
  <2> QED
    BY <1>3, <2>2, <2>3, <2>4, <2>5 DEF LInv, Typed
<1>8. pc'[r] = pc[r] /\ pc[r] \notin Starting \union Over /\ leak'[r] = leak[r]
      /\ plan'[r] = Tail(plan[r])
  BY <1>2, <1>3 DEF LInv, Typed, Cleaning, Starting, Over
<1>9. objs'[r] # {} \/ leak'[r] # "none" => "native" \in objs'[r]
  BY <1>6, <1>8 DEF LInv, Typed, Local, Deletes, Deletable
<1>10. ~failed'[r] => /\ held'[r] = objs'[r]
                      /\ \A g \in objs'[r] : Pending(plan'[r], g)
  <2> SUFFICES ASSUME ~failed'[r]
               PROVE  held'[r] = objs'[r] /\ \A g \in objs'[r] : Pending(plan'[r], g)
    OBVIOUS
  <2>1. ~failed[r] /\ held[r] = objs[r]
    BY <1>6 DEF LInv, Typed, Local, Deletes
  <2>2. CASE UNCHANGED <<held, objs, failed>> /\ h \notin held[r] \intersect objs[r]
    <3>1. \A g \in objs[r] : c # Closes(g)
      BY <2>1, <2>2 DEF Closes
    <3> QED
      BY <1>5, <1>8, <2>1, <2>2, <3>1
  <2>3. CASE Deletes(r, h)
    <3>1. held'[r] = held[r] \ {h} /\ objs'[r] = objs[r] \ {h}
      BY <2>3 DEF LInv, Typed, Deletes
    <3>2. \A g \in objs[r] \ {h} : c # Closes(g)
      BY DEF Closes
    <3> QED
      BY <1>5, <1>8, <2>1, <3>1, <3>2
  <2>4. ASSUME failed' = [failed EXCEPT ![r] = @ \/ c.counts], h \in objs[r]
        PROVE  FALSE
    <3>1. ~c.counts
      BY <2>4 DEF LInv, Typed
    <3>2. c = Drops(h)
      BY <1>4, <3>1 DEF Closes, Drops
    <3> QED
      BY <1>5, <2>1, <2>4, <3>2
  <2> QED
    BY <1>6, <2>2, <2>3, <2>4
<1>11. Local(r)'
  BY <1>8, <1>9, <1>10 DEF Local, Starting, Over
<1> QED
  BY <1>7, <1>11, OthersKept

\* The return of start, shutdown and Drop, and the end of the leaked.
LEMMA EndStep ==
  ASSUME LInv, NEW r \in Runtimes,
         StartReturnsError(r) \/ ShutdownReturns(r) \/ \E how \in Ends : End(r, how)
  PROVE  LInv'
<1>1. ASSUME StartReturnsError(r) \/ ShutdownReturns(r) PROVE LInv'
  <2>1. /\ pc'[r] \in Over /\ plan[r] = <<>> /\ pc[r] \notin Starting
        /\ UNCHANGED <<held, objs, leak, plan, failed>>
    BY <1>1 DEF LInv, Typed, StartReturnsError, ShutdownReturns, Goto, Over, Starting
  <2>2. Typed' /\ \A q \in Runtimes \ {r} : Same(q)
    BY <1>1 DEF LInv, Typed, StartReturnsError, ShutdownReturns, Goto,
       ReleaseUnlessFailed, Labels, Same
  <2>3. ASSUME ~failed[r] PROVE objs[r] = {}
    <3>1. pc[r] \in Over \/ \A h \in objs[r] : Pending(<<>>, h)
      BY <2>1, <2>3 DEF LInv, Typed, Local, Labels, Starting, Cleaning, Over
    <3>2. \A h : ~Pending(<<>>, h)
      BY DEF Pending
    <3> QED
      BY <2>3, <3>1, <3>2 DEF LInv, Local
  <2>4. Local(r)'
    BY <2>1, <2>3 DEF LInv, Local, Starting, Cleaning, Over
  <2> QED
    BY <2>2, <2>4, OthersKept
<1>2. ASSUME NEW how \in Ends, End(r, how) PROVE LInv'
  <2>1. /\ pc'[r] \in {"Shutdown", "Dropping"} /\ plan'[r] = ShutdownPlan
        /\ pc[r] = "Running" /\ UNCHANGED <<held, objs, leak, failed>>
    BY <1>2 DEF LInv, Typed, End, Goto
  <2>2. Typed' /\ \A q \in Runtimes \ {r} : Same(q)
    BY <1>2, PlansAreSeqs DEF LInv, Typed, End, Goto, Labels, Same
  <2>3. \A h \in objs[r] : Pending(ShutdownPlan, h)
    BY ShutdownCloses DEF LInv, Typed
  <2>4. Local(r)'
    BY <2>1, <2>3 DEF LInv, Local, Starting, Cleaning, Over
  <2> QED
    BY <2>2, <2>4, OthersKept
<1> QED
  BY <1>1, <1>2

\* Every step keeps LInv.
THEOREM NextLInv == LInv /\ [Next]_vars => LInv'
<1> SUFFICES ASSUME LInv, [Next]_vars PROVE LInv'
  OBVIOUS
<1>1. CASE UNCHANGED vars
  BY <1>1 DEF LInv, Typed, Local, vars
<1>2. CASE Next
  BY <1>2, StartStep, CloseStep, EndStep DEF Next, Step
<1> QED
  BY <1>1, <1>2

\* The context of a runtime goes last, whatever fails and whoever starts when.
THEOREM ContextOutlives == Spec => []ContextLast
<1>1. LInv => ContextLast
  BY DEF LInv, Local, ContextLast
<1> QED
  BY <1>1, InitLInv, NextLInv, PTL DEF Spec

\* A clean-up that reports success has released every native object and handle.
THEOREM SuccessReleases == Spec => []SuccessMeansReleased
<1>1. LInv => SuccessMeansReleased
  BY DEF LInv, Local, Over, SuccessMeansReleased
<1> QED
  BY <1>1, InitLInv, NextLInv, PTL DEF Spec

-----------------------------------------------------------------------------
\* The guard.  Its owner is alone; what a failed clean-up left behind keeps it.

GInv ==
  /\ \A r \in Runtimes : Owns(r) => active
  /\ OneRuntime
  /\ \A r \in Runtimes : pc[r] = "DroppingAgain" =>
       ~failed[r] /\ \A q \in Runtimes : ~Owns(q)
  /\ \A r \in Runtimes : pc[r] = "Gone" /\ objs[r] # {} =>
       active /\ \A q \in Runtimes : pc[q] \in {"New", "Gone"}

\* GInv is strong enough for GuardCoversNative.
LEMMA GuardCovers ==
  ASSUME LInv, GInv
  PROVE  GuardCoversNative
<1> SUFFICES ASSUME ~active, NEW r \in Runtimes PROVE objs[r] = {}
  BY DEF GuardCoversNative
<1>1. pc[r] \in {"New", "DroppingAgain", "Gone"}
  BY DEF GInv, Owns
<1> QED
  BY <1>1 DEF LInv, Local, GInv, Over

\* Before the first start nobody owns the guard.
THEOREM InitGInv == Init => GInv
BY DEF Init, GInv, Owns, OneRuntime

\* The steps of an owner that keeps the guard.
LEMMA OwnerStep ==
  ASSUME GInv, LInv, NEW r \in Runtimes, Owns(r), UNCHANGED active,
         NEW l \in Labels \ {"New", "DroppingAgain", "Gone"}, pc' = [pc EXCEPT ![r] = l],
         \A q \in Runtimes \ {r} : objs'[q] = objs[q] /\ failed'[q] = failed[q]
  PROVE  GInv'
<1>1. \A q \in Runtimes : Owns(q)' <=> Owns(q)
  BY DEF LInv, Typed, Owns
<1>2. \A q \in Runtimes : q # r => pc'[q] = pc[q]
  BY DEF LInv, Typed
<1>3. pc'[r] = l /\ l # "DroppingAgain" /\ l # "Gone" /\ pc[r] \notin {"New", "Gone"}
  BY DEF LInv, Typed, Owns
<1>4. OneRuntime'
  BY <1>1 DEF GInv, OneRuntime
<1>5. \A q \in Runtimes : pc'[q] = "DroppingAgain" =>
        ~failed'[q] /\ \A u \in Runtimes : ~Owns(u)'
  BY <1>1, <1>2, <1>3 DEF GInv
<1>6. \A q \in Runtimes : ~(pc'[q] = "Gone" /\ objs'[q] # {})
  BY <1>2, <1>3 DEF GInv
<1> QED
  BY <1>1, <1>4, <1>5, <1>6 DEF GInv

\* The owner gives the guard back, or keeps it for ever.
LEMMA OwnerReturns ==
  ASSUME GInv, LInv, NEW r \in Runtimes, Owns(r), ReleaseUnlessFailed(r),
         NEW l \in {"DroppingAgain", "Gone"}, pc' = [pc EXCEPT ![r] = l],
         failed[r] => l = "Gone", ~failed[r] => objs[r] = {},
         UNCHANGED <<objs, failed>>
  PROVE  GInv'
<1>1. active /\ \A q \in Runtimes \ {r} : pc[q] \in {"New", "Gone"}
  BY DEF GInv, OneRuntime, Owns
<1>2. pc'[r] = l /\ \A q \in Runtimes \ {r} : pc'[q] = pc[q]
  BY DEF LInv, Typed
<1>3. \A q \in Runtimes : ~Owns(q)'
  BY <1>1, <1>2 DEF Owns
<1>4. active' <=> failed[r]
  BY <1>1 DEF ReleaseUnlessFailed, LInv, Typed
<1>5. \A q \in Runtimes \ {r} : ~(pc[q] = "Gone" /\ objs[q] # {})
  <2>1. pc[r] \notin {"New", "Gone"}
    BY DEF Owns
  <2> QED
    BY <2>1 DEF GInv
<1>6. \A q \in Runtimes : pc'[q] = "DroppingAgain" => ~failed'[q]
  BY <1>1, <1>2
<1>7. \A q \in Runtimes : pc'[q] = "Gone" /\ objs'[q] # {} =>
        active' /\ \A u \in Runtimes : pc'[u] \in {"New", "Gone"}
  BY <1>1, <1>2, <1>4, <1>5
<1> QED
  BY <1>3, <1>6, <1>7 DEF GInv, OneRuntime

\* Every step keeps GInv, unless a start may come between the two releases.
THEOREM NextGInv ==
  ASSUME "startBetween" \notin Faults
  PROVE  LInv /\ GInv /\ [Next]_vars => GInv'
<1> SUFFICES ASSUME LInv, GInv, [Next]_vars PROVE GInv'
  OBVIOUS
<1>1. CASE UNCHANGED vars
  BY <1>1 DEF GInv, OneRuntime, Owns, vars
<1>2. ASSUME NEW r \in Runtimes, Start(r) PROVE GInv'
  <2>1. /\ active = FALSE /\ active' = TRUE /\ pc[r] = "New"
        /\ pc' = [pc EXCEPT ![r] = "Open"] /\ UNCHANGED <<objs, failed>>
        /\ \A q \in Runtimes : pc[q] # "DroppingAgain"
    BY <1>2 DEF Start, Acquire, Goto
  <2>2. \A q \in Runtimes : pc[q] \in {"New", "Gone"}
    BY <2>1 DEF GInv, Owns
  <2>3. pc'[r] = "Open" /\ \A q \in Runtimes \ {r} : pc'[q] = pc[q]
    BY <2>1 DEF LInv, Typed
  <2>4. \A q \in Runtimes : ~(pc'[q] = "Gone" /\ objs'[q] # {})
    BY <2>1, <2>3 DEF GInv
  <2>5. \A q \in Runtimes : Owns(q)' => q = r
    BY <2>2, <2>3 DEF Owns
  <2>6. \A q \in Runtimes : pc'[q] # "DroppingAgain"
    BY <2>1, <2>3
  <2> QED
    BY <2>1, <2>4, <2>5, <2>6 DEF GInv, OneRuntime
<1>3. ASSUME NEW r \in Runtimes,
             \/ Open(r) \/ Query(r) \/ CreateSendJfc(r) \/ CreateRecvJfc(r)
             \/ CreatePool(r) \/ \E how \in Ends : End(r, how)
      PROVE  GInv'
  <2>1. Owns(r) /\ UNCHANGED <<active, failed>>
    BY <1>3 DEF Open, Query, CreateSendJfc, CreateRecvJfc, CreatePool, Create, End,
       RollBack, Owns
  <2>2. PICK l \in {"Query", "CreateSend", "CreateRecv", "CreatePool", "Running",
                    "StartFailed", "Shutdown", "Dropping"} :
               pc' = [pc EXCEPT ![r] = l]
    BY <1>3 DEF Open, Query, CreateSendJfc, CreateRecvJfc, CreatePool, Create, End,
       RollBack, Goto
  <2>3. \A q \in Runtimes \ {r} : objs'[q] = objs[q]
    BY <1>3 DEF Open, Query, CreateSendJfc, CreateRecvJfc, CreatePool, Create, End,
       RollBack, LInv, Typed
  <2>4. l \in Labels \ {"New", "DroppingAgain", "Gone"}
    BY <2>2 DEF Labels
  <2> QED
    BY <2>1, <2>2, <2>3, <2>4, OwnerStep
<1>4. ASSUME NEW r \in Runtimes, ConnectionLeaks(r) \/ CloseCall(r) PROVE GInv'
  <2>1. pc[r] \in Labels /\ pc[r] \notin {"New", "DroppingAgain", "Gone"}
    BY <1>4 DEF ConnectionLeaks, CloseCall, LInv, Typed, Local, Starting, Over
  <2>2. UNCHANGED <<active, pc>> /\ pc' = [pc EXCEPT ![r] = pc[r]]
    BY <1>4 DEF ConnectionLeaks, CloseCall, LInv, Typed
  <2>3. \A q \in Runtimes \ {r} : objs'[q] = objs[q] /\ failed'[q] = failed[q]
    BY <1>4 DEF ConnectionLeaks, CloseCall, Deletes, Refuses, UninitFails, Fails,
       LInv, Typed
  <2> QED
    BY <2>1, <2>2, <2>3, OwnerStep DEF Owns
<1>5. ASSUME NEW r \in Runtimes, StartReturnsError(r) \/ ShutdownReturns(r) PROVE GInv'
  <2>1. /\ pc[r] \in Cleaning \union {"DroppingAgain"} /\ plan[r] = <<>>
        /\ ReleaseUnlessFailed(r) /\ UNCHANGED <<objs, failed>>
    BY <1>5 DEF StartReturnsError, ShutdownReturns, Cleaning
  <2>2. PICK l \in {"DroppingAgain", "Gone"} :
          pc' = [pc EXCEPT ![r] = l] /\ (failed[r] => l = "Gone")
    BY <1>5 DEF StartReturnsError, ShutdownReturns, Goto
  <2>3. ~failed[r] => objs[r] = {}
    <3>1. \A h : ~Pending(<<>>, h)
      BY DEF Pending
    <3> QED
      BY <2>1, <3>1 DEF LInv, Local, Over
  <2>4. CASE pc[r] \in Cleaning
    <3>1. Owns(r)
      BY <2>4 DEF Owns, Cleaning
    <3> QED
      BY <2>1, <2>2, <2>3, <3>1, OwnerReturns
  <2>5. CASE pc[r] = "DroppingAgain"
    <3>1. pc' = [pc EXCEPT ![r] = "Gone"] /\ UNCHANGED <<objs, failed>>
      BY <1>5, <2>5 DEF StartReturnsError, ShutdownReturns, Goto
    <3>2. objs[r] = {} /\ \A q \in Runtimes : ~Owns(q)
      BY <2>3, <2>5 DEF GInv
    <3>3. pc'[r] = "Gone" /\ \A q \in Runtimes \ {r} : pc'[q] = pc[q]
      BY <3>1 DEF LInv, Typed
    <3>4. \A q \in Runtimes : ~Owns(q)'
      BY <3>2, <3>3 DEF Owns
    <3>5. \A q \in Runtimes : ~(pc'[q] = "Gone" /\ objs'[q] # {})
      BY <2>5, <3>1, <3>2, <3>3 DEF GInv
    <3> QED
      BY <3>1, <3>3, <3>4, <3>5 DEF GInv, OneRuntime
  <2> QED
    BY <2>1, <2>4, <2>5
<1> QED
  BY <1>1, <1>2, <1>3, <1>4, <1>5 DEF Next, Step

\* Unless a runtime is started between the two releases of one shutdown, at most one
\* runtime owns liburma (the compare_exchange of start).
THEOREM GuardExclusive ==
  ASSUME "startBetween" \notin Faults
  PROVE  Spec => []OneRuntime
<1>1. GInv => OneRuntime
  BY DEF GInv
<1> QED
  BY <1>1, InitLInv, NextLInv, InitGInv, NextGInv, PTL DEF Spec

\* Under the same assumption the guard is held as long as any native object is left.
THEOREM GuardComplete ==
  ASSUME "startBetween" \notin Faults
  PROVE  Spec => []GuardCoversNative
<1>1. LInv /\ GInv => GuardCoversNative
  BY GuardCovers
<1> QED
  BY <1>1, InitLInv, NextLInv, InitGInv, NextGInv, PTL DEF Spec

-----------------------------------------------------------------------------
\* urma_init and urma_uninit.  Each context stands for one urma_init that has not been
\* undone, so that a successful urma_uninit never finds the count at zero.
Contexts == {r \in Runtimes : "native" \in objs[r]}

Inits ==
  /\ misuse \in BOOLEAN /\ inits \in Nat
  /\ IsFiniteSet(Contexts) /\ Cardinality(Contexts) <= inits

\* Three ways for a step to change the two.
LEMMA Counting ==
  ASSUME Inits, misuse' \in BOOLEAN,
         NEW r,
         \/ Contexts' \subseteq Contexts /\ inits' \in {inits, inits + 1}
         \/ Contexts' \subseteq Contexts \union {r} /\ inits' = inits + 1
         \/ r \in Contexts /\ Contexts' \subseteq Contexts \ {r} /\ inits' = inits - 1
  PROVE  Inits'
<1> DEFINE C == Contexts  D == Contexts'  n == Cardinality(C)  m == Cardinality(D)
<1>0. IsFiniteSet(C) /\ n \in Nat /\ n <= inits /\ inits \in Nat
  BY FS_CardinalityType DEF Inits
<1>1. CASE C' \subseteq C /\ inits' \in {inits, inits + 1}
  <2>1. IsFiniteSet(D) /\ m \in Nat /\ m <= n
    BY <1>0, <1>1, FS_Subset, FS_CardinalityType
  <2> HIDE DEF C, D
  <2>2. m <= inits' /\ inits' \in Nat
    BY <1>0, <1>1, <2>1
  <2> QED
    BY <2>1, <2>2 DEF Inits, D
<1>2. CASE C' \subseteq C \union {r} /\ inits' = inits + 1
  <2>1. /\ IsFiniteSet(C \union {r}) /\ Cardinality(C \union {r}) \in Nat
        /\ Cardinality(C \union {r}) = IF r \in C THEN n ELSE n + 1
    BY <1>0, FS_AddElement, FS_CardinalityType
  <2>2. IsFiniteSet(D) /\ m \in Nat /\ m <= Cardinality(C \union {r})
    BY <1>2, <2>1, FS_Subset, FS_CardinalityType
  <2> HIDE DEF C, D
  <2>3. m <= inits' /\ inits' \in Nat
    BY <1>0, <1>2, <2>1, <2>2
  <2> QED
    BY <2>2, <2>3 DEF Inits, D
<1>3. CASE r \in C /\ C' \subseteq C \ {r} /\ inits' = inits - 1
  <2>1. /\ IsFiniteSet(C \ {r}) /\ Cardinality(C \ {r}) \in Nat
        /\ Cardinality(C \ {r}) = n - 1
    BY <1>0, <1>3, FS_RemoveElement, FS_CardinalityType
  <2>2. IsFiniteSet(D) /\ m \in Nat /\ m <= Cardinality(C \ {r})
    BY <1>3, <2>1, FS_Subset, FS_CardinalityType
  <2> HIDE DEF C, D
  <2>3. m <= inits' /\ inits' \in Nat
    BY <1>0, <1>3, <2>1, <2>2
  <2> QED
    BY <2>2, <2>3 DEF Inits, D
<1> QED
  BY <1>1, <1>2, <1>3

\* A step that creates or deletes no context.
LEMMA NoContext ==
  ASSUME Inits, LInv, NEW r \in Runtimes, UNCHANGED <<inits, misuse>>,
         NEW o, objs' = [objs EXCEPT ![r] = o], "native" \in o => "native" \in objs[r]
  PROVE  Inits'
<1>1. Contexts' \subseteq Contexts
  BY DEF LInv, Typed, Contexts
<1> QED
  BY <1>1, Counting DEF Inits

\* Every step keeps the count.
THEOREM NextInits == Inits /\ LInv /\ [Next]_vars => Inits'
<1> SUFFICES ASSUME Inits, LInv, [Next]_vars PROVE Inits'
  OBVIOUS
<1>1. CASE UNCHANGED vars
  BY <1>1 DEF Inits, Contexts, vars
<1>2. ASSUME NEW r \in Runtimes, Open(r) PROVE Inits'
  <2>1. misuse' = misuse /\ misuse \in BOOLEAN
    BY <1>2 DEF Open, Inits
  <2>2. CASE objs' = [objs EXCEPT ![r] = {"native"}] /\ UrmaInit
    <3>1. Contexts' \subseteq Contexts \union {r}
      BY <2>2 DEF LInv, Typed, Contexts
    <3> QED
      BY <2>1, <2>2, <3>1, Counting DEF UrmaInit
  <2>3. CASE objs' = objs /\ (UrmaInit \/ UNCHANGED inits)
    <3>1. Contexts' = Contexts
      BY <2>3 DEF Contexts
    <3> QED
      BY <2>1, <2>3, <3>1, Counting DEF UrmaInit
  <2> QED
    BY <1>2, <2>2, <2>3 DEF Open
<1>3. ASSUME NEW r \in Runtimes, NEW h \in {"send", "recv", "segment"}, NEW from, NEW to,
             Create(r, h, from, to)
      PROVE  Inits'
  <2>1. objs' = [objs EXCEPT ![r] = objs[r] \union {h}]
        \/ objs' = [objs EXCEPT ![r] = objs[r]]
    BY <1>3 DEF Create, LInv, Typed
  <2> QED
    BY <1>3, <2>1, NoContext DEF Create
<1>4. ASSUME NEW r \in Runtimes,
             \/ Start(r) \/ Query(r) \/ StartReturnsError(r) \/ ConnectionLeaks(r)
             \/ ShutdownReturns(r) \/ \E how \in Ends : End(r, how)
      PROVE  Inits'
  <2>1. UNCHANGED <<objs, inits, misuse>>
    BY <1>4 DEF Start, Query, StartReturnsError, ConnectionLeaks, ShutdownReturns, End
  <2> QED
    BY <2>1 DEF Inits, Contexts
<1>5. ASSUME NEW r \in Runtimes, CloseCall(r) PROVE Inits'
  <2> DEFINE h == Head(plan[r]).handle
  <2>1. misuse' \in BOOLEAN
    BY <1>5 DEF CloseCall, Deletes, Refuses, UninitFails, Fails, Inits
  <2>2. \/ UNCHANGED <<objs, inits>>
        \/ h \in objs[r] /\ Deletes(r, h)
        \/ objs' = [objs EXCEPT ![r] = {}] /\ UNCHANGED inits
    BY <1>5 DEF CloseCall, Refuses, UninitFails
  <2> HIDE DEF h
  <2>3. CASE UNCHANGED <<objs, inits>>
    <3>1. Contexts' = Contexts
      BY <2>3 DEF Contexts
    <3> QED
      BY <2>1, <2>3, <3>1, Counting
  <2>4. CASE objs' = [objs EXCEPT ![r] = {}] /\ UNCHANGED inits
    <3>1. Contexts' \subseteq Contexts
      BY <2>4 DEF LInv, Typed, Contexts
    <3> QED
      BY <2>1, <2>4, <3>1, Counting
  <2>5. CASE h \in objs[r] /\ Deletes(r, h) /\ h = "native"
    <3>1. r \in Contexts /\ Contexts' \subseteq Contexts \ {r} /\ inits' = inits - 1
      BY <2>5 DEF LInv, Typed, Contexts, Deletes
    <3> QED
      BY <2>1, <3>1, Counting
  <2>6. CASE h \in objs[r] /\ Deletes(r, h) /\ h # "native"
    <3>1. Contexts' \subseteq Contexts /\ inits' = inits
      BY <2>6 DEF LInv, Typed, Contexts, Deletes
    <3> QED
      BY <2>1, <3>1, Counting
  <2> QED
    BY <2>2, <2>3, <2>4, <2>5, <2>6
<1> QED
  BY <1>1, <1>2, <1>3, <1>4, <1>5
     DEF Next, Step, CreateSendJfc, CreateRecvJfc, CreatePool

\* Type correctness of the runtimes: whatever fails, urma_uninit never succeeds more often
\* than urma_init was called.
THEOREM TypeCorrect == Spec => []TypeOK
<1>1. Init => Inits
  <2> SUFFICES ASSUME Init PROVE Inits
    OBVIOUS
  <2>1. Contexts = {}
    BY DEF Init, Contexts
  <2>2. IsFiniteSet(Contexts)
    BY <2>1, FS_EmptySet, Zenon
  <2>3. Cardinality(Contexts) = 0
    BY <2>1, FS_EmptySet, Zenon
  <2>4. misuse \in BOOLEAN /\ inits = 0
    BY DEF Init
  <2>5. Cardinality(Contexts) <= inits /\ inits \in Nat
    BY <2>3, <2>4
  <2> QED
    BY <2>2, <2>4, <2>5 DEF Inits
<1>2. Inits /\ LInv => TypeOK
  BY DEF Inits, LInv, Typed, TypeOK
<1> QED
  BY <1>1, <1>2, InitLInv, NextLInv, NextInits, PTL DEF Spec

-----------------------------------------------------------------------------
\* Wrappers that the shim has freed.

\* A raw pointer that a handle keeps points to a live wrapper, or urma_uninit has failed:
\* then it is the context's, and nobody else's.
PointersLive ==
  /\ \A r \in Runtimes : \A h \in held[r] \ objs[r] :
       h = "native" /\ "uninitFails" \in Faults
  /\ misuse => "uninitFails" \in Faults

\* Every step keeps it: each other failure of a close leaves pointer and wrapper in place,
\* each success takes both.
LEMMA PointersStep ==
  ASSUME Typed, PointersLive, NEW r \in Runtimes, Step(r)
  PROVE  PointersLive'
<1> USE DEF PointersLive
<1>1. ASSUME UNCHANGED <<held, objs, misuse>> PROVE PointersLive'
  BY <1>1
<1>2. CASE \/ Start(r) \/ Query(r) \/ StartReturnsError(r) \/ ConnectionLeaks(r)
           \/ (\E how \in Ends : End(r, how)) \/ ShutdownReturns(r)
  BY <1>1, <1>2 DEF Start, Query, StartReturnsError, ConnectionLeaks, End, ShutdownReturns
<1>3. ASSUME NEW N, misuse' = misuse,
             \/ held' = [held EXCEPT ![r] = N] /\ objs' = [objs EXCEPT ![r] = N]
             \/ /\ held' = [held EXCEPT ![r] = @ \union N]
                /\ objs' = [objs EXCEPT ![r] = @ \union N]
             \/ held' = [held EXCEPT ![r] = @ \ N] /\ objs' = [objs EXCEPT ![r] = @ \ N]
      PROVE  PointersLive'
  <2>1. \A q \in Runtimes \ {r} : held'[q] = held[q] /\ objs'[q] = objs[q]
    BY <1>3 DEF Typed
  <2>2. held'[r] \ objs'[r] \subseteq held[r] \ objs[r]
    BY <1>3 DEF Typed
  <2> QED
    BY <1>3, <2>1, <2>2
<1>4. CASE Open(r)
  BY <1>1, <1>3, <1>4 DEF Open
<1>5. ASSUME NEW h, NEW from, NEW to, Create(r, h, from, to) PROVE PointersLive'
  <2>1. misuse' = misuse
    BY <1>5 DEF Create
  <2>2. CASE UNCHANGED <<held, objs>>
    BY <1>1, <2>1, <2>2
  <2>3. CASE /\ held' = [held EXCEPT ![r] = @ \union {h}]
             /\ objs' = [objs EXCEPT ![r] = @ \union {h}]
    BY <1>3, <2>1, <2>3
  <2> QED
    BY <1>5, <2>2, <2>3 DEF Create
<1>6. CASE CloseCall(r)
  <2> DEFINE c == Head(plan[r])
  <2>1. CASE Gone(r, c.handle) /\ UNCHANGED <<held, objs, failed, inits, misuse>>
    BY <1>1, <2>1
  <2>2. CASE Dangles(r, c.handle) /\ misuse' = TRUE /\ UNCHANGED <<held, objs>>
    BY <2>2 DEF Dangles
  <2>3. CASE Deletes(r, c.handle)
    BY <1>3, <2>3 DEF Deletes
  <2>4. CASE Refuses(r, c)
    BY <1>1, <2>4 DEF Refuses, Fails
  <2>5. CASE UninitFails(r, c)
    <3>1. /\ "uninitFails" \in Faults /\ objs[r] = {"native"} /\ held' = held
          /\ misuse' = misuse /\ objs' = [objs EXCEPT ![r] = {}]
      BY <2>5 DEF UninitFails, Deletable, Fails
    <3> QED
      BY <3>1 DEF Typed
  <2> QED
    BY <1>6, <2>1, <2>2, <2>3, <2>4, <2>5 DEF CloseCall
<1> QED
  BY <1>2, <1>4, <1>5, <1>6 DEF Step, CreateSendJfc, CreateRecvJfc, CreatePool

\* In every state a raw pointer leads to a live wrapper, whatever else has failed.
LEMMA Pointers == Spec => []PointersLive
<1>1. Init => PointersLive
  BY DEF Init, PointersLive
<1>2. LInv /\ PointersLive /\ [Next]_vars => PointersLive'
  <2>1. ASSUME PointersLive, UNCHANGED vars PROVE PointersLive'
    BY <2>1 DEF PointersLive, vars
  <2> QED
    BY <2>1, PointersStep DEF LInv, Next
<1> QED
  BY <1>1, <1>2, InitLInv, NextLInv, PTL DEF Spec

\* The handles of ffi/mod.rs and the shim: no wrapper is passed to the shim after it has
\* been freed, through every rollback, shutdown and Drop, whatever fails before them, in
\* any number of runtimes, unless urma_uninit fails (the finding of Runtime_uninit).
THEOREM FreedOnce == ASSUME "uninitFails" \notin Faults PROVE Spec => []NoUseAfterFree
<1>1. PointersLive => NoUseAfterFree
  BY DEF PointersLive, NoUseAfterFree
<1> QED
  BY <1>1, Pointers, PTL

=============================================================================
