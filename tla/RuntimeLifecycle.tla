---- MODULE RuntimeLifecycle ----
(***************************************************************************)
(* Start, shutdown and Drop of UrmaRuntime (src/src/runtime.rs) around the *)
(* process guard ACTIVE, with the RAII handles of src/src/ffi/mod.rs and   *)
(* the native objects of src/src/ffi/shim.c behind them.                   *)
(*                                                                         *)
(* A member of Runtimes is one UrmaRuntime value, from its start to its    *)
(* drop.  UrmaRuntime is neither Send nor Sync, so a value stays on one    *)
(* thread, but any thread may start one: the steps of different values     *)
(* interleave, and only the guard keeps them apart.                        *)
(***************************************************************************)
EXTENDS Integers, Sequences

CONSTANTS Runtimes,
          Ends,    \* how the application ends a runtime: "shutdown", "drop"
          Faults   \* what may go wrong in a run, a subset of AllFaults

AllFaults == {"openFails", "openUninitFails", "queryFails", "createFails",
              "deleteFails", "contextFails", "uninitFails", "leak",
              "startBetween"}

ASSUME RuntimeAssumption == Ends \subseteq {"shutdown", "drop"} /\ Faults \subseteq AllFaults

\* The handles of a runtime: context wrapper, two JFCs, and the pool's Segment.
Handles == {"native", "send", "recv", "segment"}

VARIABLES
  active,   \* the process guard
  pc,       \* where each runtime stands
  held,     \* handles whose raw pointer is Some
  objs,     \* native objects that exist
  leak,     \* what its connections left in the shim: nothing, a Jetty, live WRs
  plan,     \* the close calls still to make in a rollback or shutdown
  failed,   \* a close call that counts has failed
  inits,    \* urma_init calls not undone by a successful urma_uninit
  misuse    \* a native wrapper was used after it was freed

vars == <<active, pc, held, objs, leak, plan, failed, inits, misuse>>

Init ==
  /\ active = FALSE /\ inits = 0 /\ misuse = FALSE
  /\ pc = [r \in Runtimes |-> "New"]
  /\ held = [r \in Runtimes |-> {}] /\ objs = [r \in Runtimes |-> {}]
  /\ leak = [r \in Runtimes |-> "none"]
  /\ plan = [r \in Runtimes |-> <<>>]
  /\ failed = [r \in Runtimes |-> FALSE]

Goto(r, l) == pc' = [pc EXCEPT ![r] = l]

\* handle.close(), and the close that the handle's Drop makes, whose error nobody
\* sees.
Closes(h) == [handle |-> h, counts |-> TRUE]
Drops(h) == [handle |-> h, counts |-> FALSE]

\* shutdown_inner takes each handle out of its Option, closes it and drops it.
ShutdownPlan ==
  <<Closes("recv"), Drops("recv"), Closes("send"), Drops("send"),
    Closes("segment"), Drops("segment"), Closes("native"), Drops("native")>>

\* rollback_startup closes in reverse order of creation; its parameters are
\* dropped when it returns, the last one first.
RollbackPlan ==
  <<Closes("recv"), Closes("send"), Closes("native"),
    Drops("native"), Drops("send"), Drops("recv")>>

-----------------------------------------------------------------------------
\* start and start_inner.

\* The compare_exchange; a start that loses it returns AlreadyInitialized.  Only
\* "startBetween" lets another thread start between the end of shutdown(self)
\* and the Drop of its runtime: the code does nothing to prevent it.
AcquireAnyway(r) == active' = TRUE
Acquire(r) == active = FALSE /\ active' = TRUE

Start(r) ==
  /\ pc[r] = "New"
  /\ "startBetween" \in Faults \/ \A q \in Runtimes : pc[q] # "DroppingAgain"
  /\ Acquire(r)
  /\ Goto(r, "Open")
  /\ UNCHANGED <<held, objs, leak, plan, failed, inits, misuse>>

InitForgotten == UNCHANGED inits
UrmaInit == inits' = inits + 1

\* urma_init, urma_get_device_by_name, urma_create_context.  A failure after
\* urma_init undoes it, and ignores the status of urma_uninit.
Open(r) ==
  /\ pc[r] = "Open"
  /\ \/ /\ Goto(r, "Query")
        /\ held' = [held EXCEPT ![r] = {"native"}]
        /\ objs' = [objs EXCEPT ![r] = {"native"}]
        /\ UrmaInit
     \/ /\ "openFails" \in Faults
        /\ Goto(r, "StartFailed") /\ UNCHANGED <<held, objs, inits>>
     \/ /\ "openUninitFails" \in Faults
        /\ Goto(r, "StartFailed") /\ UrmaInit /\ UNCHANGED <<held, objs>>
  /\ UNCHANGED <<active, leak, plan, failed, misuse>>

RollBack(r) == Goto(r, "StartFailed") /\ plan' = [plan EXCEPT ![r] = RollbackPlan]

\* query_device and validate_config.
Query(r) ==
  /\ pc[r] = "Query"
  /\ \/ Goto(r, "CreateSend") /\ UNCHANGED plan
     \/ "queryFails" \in Faults /\ RollBack(r)
  /\ UNCHANGED <<active, held, objs, leak, failed, inits, misuse>>

Create(r, h, from, to) ==
  /\ pc[r] = from
  /\ \/ /\ Goto(r, to)
        /\ held' = [held EXCEPT ![r] = @ \union {h}]
        /\ objs' = [objs EXCEPT ![r] = @ \union {h}]
        /\ UNCHANGED plan
     \/ /\ "createFails" \in Faults
        /\ RollBack(r) /\ UNCHANGED <<held, objs>>
  /\ UNCHANGED <<active, leak, failed, inits, misuse>>

CreateSendJfc(r) == Create(r, "send", "CreateSend", "CreateRecv")
CreateRecvJfc(r) == Create(r, "recv", "CreateRecv", "CreatePool")
CreatePool(r) == Create(r, "segment", "CreatePool", "Running")

\* start gives the guard back unless the rollback itself failed.
ReleaseAlways(r) == active' = FALSE
ReleaseUnlessFailed(r) == active' = (active /\ failed[r])

StartReturnsError(r) ==
  /\ pc[r] = "StartFailed" /\ plan[r] = <<>>
  /\ ReleaseUnlessFailed(r)
  /\ Goto(r, "Gone")
  /\ UNCHANGED <<held, objs, leak, plan, failed, inits, misuse>>

-----------------------------------------------------------------------------
\* A connection was dropped with its Jetty, or also with WRs, still in the shim.
ConnectionLeaks(r) ==
  /\ "leak" \in Faults
  /\ pc[r] = "Running" /\ leak[r] # "wrs"
  /\ \E l \in {"jetty", "wrs"} : leak' = [leak EXCEPT ![r] = l]
  /\ UNCHANGED <<active, pc, held, objs, plan, failed, inits, misuse>>

-----------------------------------------------------------------------------
\* One close call of a rollback or shutdown.

\* The shim deletes a JFC or Segment only while no WR is outstanding, and the
\* context only after all its children.
Deletable(r, h) ==
  IF h = "native" THEN objs[r] = {"native"} /\ leak[r] = "none"
  ELSE leak[r] # "wrs"

Deletes(r, h) ==
  /\ Deletable(r, h)
  /\ held' = [held EXCEPT ![r] = @ \ {h}]
  /\ objs' = [objs EXCEPT ![r] = @ \ {h}]
  /\ inits' = IF h = "native" THEN inits - 1 ELSE inits
  /\ UNCHANGED <<failed, misuse>>

FailsUnnoticed(r, c) == UNCHANGED <<failed, held, misuse>>
\* The close calls of Drop discard the error.
Fails(r, c) ==
  /\ failed' = [failed EXCEPT ![r] = @ \/ c.counts]
  /\ UNCHANGED <<held, misuse>>

Refuses(r, c) ==
  /\ \/ ~Deletable(r, c.handle)
     \/ c.handle # "native" /\ "deleteFails" \in Faults
     \/ c.handle = "native" /\ "contextFails" \in Faults
  /\ Fails(r, c)
  /\ UNCHANGED <<objs, inits>>

\* urma_uninit fails: runtime_close has freed the wrapper, but NativeRuntime keeps
\* its pointer because the status is an error.
UninitFails(r, c) ==
  /\ c.handle = "native" /\ Deletable(r, "native") /\ "uninitFails" \in Faults
  /\ Fails(r, c)
  /\ objs' = [objs EXCEPT ![r] = {}]
  /\ UNCHANGED inits

Gone(r, h) == h \notin held[r]
Dangles(r, h) == h \in held[r] /\ h \notin objs[r]

CloseCall(r) ==
  /\ plan[r] # <<>>
  /\ plan' = [plan EXCEPT ![r] = Tail(@)]
  /\ LET c == Head(plan[r]) IN
     \/ /\ Gone(r, c.handle)
        /\ UNCHANGED <<held, objs, failed, inits, misuse>>
     \/ /\ Dangles(r, c.handle)
        /\ misuse' = TRUE /\ UNCHANGED <<held, objs, failed, inits>>
     \/ /\ c.handle \in held[r] \intersect objs[r]
        /\ Deletes(r, c.handle) \/ Refuses(r, c) \/ UninitFails(r, c)
  /\ UNCHANGED <<active, pc, leak>>

-----------------------------------------------------------------------------
\* shutdown(self) and Drop, which both run shutdown_inner.

End(r, how) ==
  /\ pc[r] = "Running" /\ how \in Ends
  /\ Goto(r, IF how = "shutdown" THEN "Shutdown" ELSE "Dropping")
  /\ plan' = [plan EXCEPT ![r] = ShutdownPlan]
  /\ UNCHANGED <<active, held, objs, leak, failed, inits, misuse>>

\* The end of shutdown_inner: success releases the guard, a failure poisons the
\* runtime and keeps it.  A runtime that shutdown(self) leaves unpoisoned runs
\* shutdown_inner again from Drop, with every handle gone.
ShutdownReturns(r) ==
  /\ pc[r] \in {"Shutdown", "Dropping", "DroppingAgain"} /\ plan[r] = <<>>
  /\ ReleaseUnlessFailed(r)
  /\ IF pc[r] = "Shutdown" /\ ~failed[r]
     THEN Goto(r, "DroppingAgain") ELSE Goto(r, "Gone")
  /\ UNCHANGED <<held, objs, leak, plan, failed, inits, misuse>>

Step(r) ==
  \/ Start(r) \/ Open(r) \/ Query(r) \/ CreateSendJfc(r) \/ CreateRecvJfc(r)
  \/ CreatePool(r) \/ StartReturnsError(r) \/ ConnectionLeaks(r) \/ CloseCall(r)
  \/ \E how \in Ends : End(r, how)
  \/ ShutdownReturns(r)

Next == \E r \in Runtimes : Step(r)

Spec == Init /\ [][Next]_vars

-----------------------------------------------------------------------------
Labels == {"New", "Open", "Query", "CreateSend", "CreateRecv", "CreatePool",
           "StartFailed", "Running", "Shutdown", "Dropping",
           "DroppingAgain", "Gone"}
CloseCalls == [handle : Handles, counts : BOOLEAN]

TypeOK ==
  /\ active \in BOOLEAN /\ inits \in Nat /\ misuse \in BOOLEAN
  /\ pc \in [Runtimes -> Labels]
  /\ held \in [Runtimes -> SUBSET Handles] /\ objs \in [Runtimes -> SUBSET Handles]
  /\ leak \in [Runtimes -> {"none", "jetty", "wrs"}]
  /\ plan \in [Runtimes -> Seq(CloseCalls)]
  /\ failed \in [Runtimes -> BOOLEAN]

\* A runtime between its compare_exchange and its release of the guard; a failed
\* shutdown never releases it, but the runtime is of no more use.
Owns(r) == pc[r] \notin {"New", "DroppingAgain", "Gone"}

\* At most one UrmaRuntime value owns process-global liburma at a time
\* (UrmaRuntime::start, shutdown and Drop).
OneRuntime == \A r, q \in Runtimes : Owns(r) /\ Owns(q) => r = q

\* The guard is free only when no native object of an earlier runtime is left.
GuardCoversNative == ~active => \A r \in Runtimes : objs[r] = {}

\* No native wrapper is passed to the shim after the shim has freed it.
NoUseAfterFree == ~misuse

\* The context of a runtime is deleted after its JFCs, its Segment and whatever
\* its connections left behind.
ContextLast ==
  \A r \in Runtimes : /\ objs[r] # {} => "native" \in objs[r]
                      /\ leak[r] # "none" => "native" \in objs[r]

\* A shutdown, or a start that failed, reports success of its clean-up only when
\* every native object is gone, and a handle is dropped at last.
SuccessMeansReleased ==
  \A r \in Runtimes : pc[r] = "Gone" /\ ~failed[r] => objs[r] = {} /\ held[r] = {}
====
