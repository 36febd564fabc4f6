---- MODULE JettyLifecycle ----
(***************************************************************************)
(* The life of the native Jetties of one runtime: UrmaJetty                *)
(* (src/src/jetty.rs), JettyHandle (src/src/ffi/mod.rs) and the jetty      *)
(* wrapper of the C shim (src/src/ffi/shim.c), under a connection that     *)
(* posts work requests, drains, and closes.                                *)
(*                                                                         *)
(* A connection and its Jetty have the same number.  Connections follow    *)
(* one another, since a connection borrows its runtime; what the teardown  *)
(* of one leaves in the shim stays.                                        *)
(***************************************************************************)
EXTENDS WrToken, FiniteSets

CONSTANTS MaxJetty,  \* bound: Jetties are 1 .. MaxJetty
          NumSlots,  \* slots of the pool
          Faults     \* what may go wrong in a run, a subset of AllFaults

AllFaults == {"create", "jfrCleanup", "bind", "drain", "unbind", "unimport",
              "deleteJetty", "deleteJfr"}

ASSUME JettyAssumption ==
  /\ MaxJetty \in Nat /\ MaxJetty < ConnSpan
  /\ GenSpan > 1
  /\ NumSlots \in Nat
  /\ Faults \subseteq AllFaults

Jetties == 1 .. MaxJetty
Slots == 0 .. NumSlots - 1

\* What a provider holds for one Jetty, and which fields of its wrapper say so:
\* a pointer is not NULL, bound is 1.  The wrapper itself is allocated memory.
Objects == {"jfr", "jetty", "target", "bound"}
Fields == Objects \union {"wrapper"}

VARIABLES
  \* the connection and its Rust handles
  conn,      \* state of the connection, "None" between two
  id,        \* number of the connection and its Jetty, 0 for none
  nextId,
  flags,     \* those of HandleFlags that hold
  tracked,   \* user_ctx of the WRs in poller.outstanding
  \* the teardown in progress
  stage,     \* whose close runs: see Stages
  pc,        \* the next call of that close
  result,    \* "Err" once a call of that close has failed
  \* the shim
  shim,      \* fields set in each wrapper
  count,     \* jetty.outstanding_wr_count
  wrCount,   \* runtime.outstanding_wr_count, and that of the one Segment
  jettyCount,  \* runtime.jetty_count
  wrs,       \* live native WRs: a token and its user_ctx
  \* the provider
  objs,      \* objects that exist for each Jetty
  refusals   \* teardown calls the provider has refused for each Jetty

connVars == <<conn, id, nextId>>
callVars == <<stage, pc, result>>
wrVars == <<tracked, count, wrCount, wrs>>
shimVars == <<shim, jettyCount>>
nativeVars == <<objs, refusals>>
vars == <<connVars, flags, callVars, wrVars, shimVars, nativeVars>>

ConnectionState == {"None", "Open", "Bound", "Ready", "Failed", "Closed"}

\* JettyHandle.raw is Some, and the flags of UrmaJetty.
HandleFlags == {"raw", "imported", "bound"}
raw == "raw" \in flags
imported == "imported" \in flags
bound == "bound" \in flags

\* close(self); Drop of the connection, of its UrmaJetty and of the JettyHandle.
Stages == {"none", "close", "drop", "jetty", "handle"}

Init ==
  /\ conn = "None" /\ id = 0 /\ nextId = 1
  /\ flags = {} /\ stage = "none" /\ pc = "Idle" /\ result = "Ok"
  /\ tracked = {} /\ wrs = {} /\ wrCount = 0 /\ jettyCount = 0
  /\ count = [j \in Jetties |-> 0] /\ refusals = [j \in Jetties |-> 0]
  /\ shim = [j \in Jetties |-> {}] /\ objs = [j \in Jetties |-> {}]

Has(f) == f \in shim[id]
Sets(f) == /\ shim' = [shim EXCEPT ![id] = @ \union {f}]
           /\ objs' = [objs EXCEPT ![id] = @ \union {f}]
Unsets(f) == /\ shim' = [shim EXCEPT ![id] = @ \ {f}]
             /\ objs' = [objs EXCEPT ![id] = @ \ {f}]

-----------------------------------------------------------------------------
\* Creation, import, bind and the handshake around them.

\* The JFR is created first; when the Jetty then fails, the JFR is deleted and
\* the status of that is ignored.
Create ==
  /\ conn = "None" /\ nextId <= MaxJetty
  /\ nextId' = nextId + 1
  /\ \/ /\ conn' = "Open" /\ id' = nextId
        /\ flags' = {"raw"}
        /\ shim' = [shim EXCEPT ![nextId] = {"wrapper", "jfr", "jetty"}]
        /\ objs' = [objs EXCEPT ![nextId] = {"jfr", "jetty"}]
        /\ jettyCount' = jettyCount + 1
     \/ /\ "create" \in Faults
        /\ UNCHANGED <<conn, id, flags, shimVars, objs>>
     \/ /\ "jfrCleanup" \in Faults
        /\ objs' = [objs EXCEPT ![nextId] = {"jfr"}]
        /\ UNCHANGED <<conn, id, flags, shimVars>>
  /\ UNCHANGED <<callVars, wrVars, refusals>>

\* import refuses a second target; a failing import leaves everything as it was.
\* URMA_EEXIST counts as bound.
ImportAndBind ==
  /\ stage = "none" /\ conn = "Open"
  /\ ~imported /\ Has("jetty") /\ ~Has("target")
  /\ \/ /\ flags' = flags \union {"imported", "bound"} /\ conn' = "Bound"
        /\ shim' = [shim EXCEPT ![id] = @ \union {"target", "bound"}]
        /\ objs' = [objs EXCEPT ![id] = @ \union {"target", "bound"}]
     \/ /\ "bind" \in Faults
        /\ flags' = flags \union {"imported"}
        /\ Sets("target") /\ UNCHANGED conn
  /\ UNCHANGED <<id, nextId, callVars, wrVars, jettyCount, refusals>>

ConnBecomes(from, to) ==
  /\ stage = "none" /\ conn \in from /\ conn' = to
  /\ UNCHANGED <<id, nextId, flags, callVars, wrVars, shimVars, nativeVars>>

MarkReady == ConnBecomes({"Bound"}, "Ready")
\* finish_handshake calls fail().
HandshakeFails == ConnBecomes({"Open", "Bound"}, "Failed")

-----------------------------------------------------------------------------
\* Work requests.

TokenOf(op, s) == [conn |-> id, gen |-> 1, op |-> op, slot |-> s]

\* The shim takes a SEND only with a bound target.
Accepts(op) == Has("jetty") /\ (op = 1 => Has("target") /\ Has("bound"))

\* wr_posted.  The pool gives a slot to one WR at a time; a refused post changes
\* nothing here.  track refuses a user_ctx it already has, and the handle of the
\* WR is dropped without ending it.
Post(op, s) ==
  LET t == TokenOf(op, s) IN
  /\ stage = "none" /\ conn \in (IF op = 1 THEN {"Ready"} ELSE {"Bound", "Ready"})
  /\ \A w \in wrs : w.tok.slot # s
  /\ Encodes(t) /\ Accepts(op)
  /\ wrs' = wrs \union {[tok |-> t, ctx |-> Encode(t)]}
  /\ count' = [count EXCEPT ![id] = @ + 1]
  /\ wrCount' = wrCount + 1
  /\ tracked' = tracked \union {Encode(t)}
  /\ UNCHANGED <<connVars, flags, callVars, shimVars, nativeVars>>

Decrement(n) == IF n > 0 THEN n - 1 ELSE n

EndWrUncounted(w) ==
  /\ wrs' = wrs \ {w} /\ tracked' = tracked \ {w.ctx}
  /\ wrCount' = Decrement(wrCount)
  /\ UNCHANGED count
\* urma_lab_wr_complete, through the handle that the poller removes.
EndWr(w) ==
  /\ wrs' = wrs \ {w} /\ tracked' = tracked \ {w.ctx}
  /\ count' = [count EXCEPT ![w.tok.conn] = Decrement(@)]
  /\ wrCount' = Decrement(wrCount)

\* The poller takes the record of a WR for one of its own.
Routes(w) == /\ Decodes(w.ctx) /\ Decode(w.ctx).conn = id
             /\ w.ctx \in tracked

\* A completion is polled by a ready connection, which fails if it reports an
\* error, or by the drain loop of close_inner.
Complete(w) ==
  /\ w \in wrs /\ Routes(w)
  /\ \/ stage = "none" /\ conn = "Ready" /\ conn' \in {"Ready", "Failed"}
     \/ pc = "Drain" /\ UNCHANGED conn
  /\ EndWr(w)
  /\ UNCHANGED <<id, nextId, flags, callVars, shimVars, nativeVars>>

-----------------------------------------------------------------------------
\* Teardown: close(self) if it is called, then the Drop of the connection, of
\* its UrmaJetty and of the JettyHandle.  Each tries what is left.

\* close_inner drains only when the connection tracks a WR.
BeginClose(s) ==
  /\ stage' = s /\ result' = "Ok"
  /\ pc' = IF tracked = {} THEN "Unbind" ELSE "Drain"

Close ==
  /\ stage = "none" /\ conn # "None"
  /\ \E s \in {"close", "drop"} : BeginClose(s)
  /\ UNCHANGED <<connVars, flags, wrVars, shimVars, nativeVars>>

\* A failing mark_error, a failing poll or the deadline: no call on the Jetty.
Drained ==
  /\ pc = "Drain"
  /\ \/ tracked = {} /\ pc' = "Unbind" /\ UNCHANGED result
     \/ "drain" \in Faults /\ pc' = "Done" /\ result' = "Err"
  /\ UNCHANGED <<connVars, flags, wrVars, stage, shimVars, nativeVars>>

\* UrmaJetty::close makes a call when its flags ask for it, JettyHandle's Drop
\* makes all of them; neither does once the pointer is gone.
Calls(flag) == raw /\ (stage = "handle" \/ flag)

Skips == UNCHANGED <<flags, result, shimVars, nativeVars>>

\* The call fails in the shim, or in the provider.
FailsForgetfully(refused) ==
  /\ result' = "Err" /\ flags' = flags \ {"bound"}
  /\ refusals' = IF refused THEN [refusals EXCEPT ![id] = @ + 1] ELSE refusals
  /\ UNCHANGED <<shimVars, objs>>
Fails(refused) ==
  /\ result' = "Err"
  /\ refusals' = IF refused THEN [refusals EXCEPT ![id] = @ + 1] ELSE refusals
  /\ UNCHANGED <<flags, shimVars, objs>>
Busy(condition) == condition /\ Fails(FALSE)
Refused(fault) == fault \in Faults /\ Fails(TRUE)

Unbinds ==
  /\ flags' = flags \ {"bound"} /\ Unsets("bound")
  /\ UNCHANGED <<result, jettyCount, refusals>>

UnbindableBusy == Has("jetty")
Unbindable == Has("jetty") /\ count[id] = 0

Unbind ==
  /\ pc = "Unbind" /\ pc' = "Unimport"
  /\ \/ ~Calls(bound) /\ Skips
     \/ Calls(bound) /\ Busy(~Unbindable)
     \/ /\ Calls(bound) /\ Unbindable
        /\ Unbinds \/ (Has("bound") /\ Refused("unbind"))
  /\ UNCHANGED <<connVars, wrVars, stage>>

Unimports ==
  /\ flags' = flags \ {"imported"} /\ Unsets("target")
  /\ UNCHANGED <<result, jettyCount, refusals>>

Unimportable == Has("jetty") /\ ~Has("bound")

Unimport ==
  /\ pc = "Unimport" /\ pc' = "Delete"
  /\ LET calls == Calls(imported /\ ~bound) IN
     \/ ~calls /\ Skips
     \/ calls /\ Busy(~Unimportable)
     \/ /\ calls /\ Unimportable
        /\ Unimports \/ (Has("target") /\ Refused("unimport"))
  /\ UNCHANGED <<connVars, wrVars, stage>>

Deletable == ~Has("bound") /\ ~Has("target") /\ count[id] = 0

\* The wrapper is freed and the handle forgets it.
Deletes ==
  /\ shim' = [shim EXCEPT ![id] = {}] /\ objs' = [objs EXCEPT ![id] = {}]
  /\ jettyCount' = Decrement(jettyCount)
  /\ flags' = flags \ {"raw"}
  /\ UNCHANGED <<result, refusals>>

\* The Jetty goes first; when its JFR stays, a later delete starts with the JFR.
KeepsJfr ==
  /\ Unsets("jetty")
  /\ result' = "Err" /\ refusals' = [refusals EXCEPT ![id] = @ + 1]
  /\ UNCHANGED <<flags, jettyCount>>

Delete ==
  /\ pc = "Delete" /\ pc' = "Done"
  /\ LET calls == Calls(~bound /\ ~imported) IN
     \/ ~calls /\ Skips
     \/ calls /\ Busy(~Deletable)
     \/ /\ calls /\ Deletable
        /\ \/ Deletes
           \/ Has("jetty") /\ Refused("deleteJetty")
           \/ "deleteJfr" \in Faults /\ KeepsJfr
  /\ UNCHANGED <<connVars, wrVars, stage>>

\* close_inner sets the state by its result.  After close(self) comes the Drop of
\* the connection, which a Closed one leaves at once.
Result == IF result = "Err" THEN "Failed" ELSE "Closed"

CloseReturns ==
  /\ pc = "Done" /\ stage = "close"
  /\ conn' = Result
  /\ IF result = "Err" THEN BeginClose("drop")
     ELSE stage' = "jetty" /\ pc' = "Unbind" /\ UNCHANGED result
  /\ UNCHANGED <<id, nextId, flags, wrVars, shimVars, nativeVars>>

DropReturns ==
  /\ pc = "Done" /\ stage = "drop"
  /\ conn' = Result
  /\ stage' = "jetty" /\ pc' = "Unbind" /\ result' = "Ok"
  /\ UNCHANGED <<id, nextId, flags, wrVars, shimVars, nativeVars>>

\* The handles of the WRs still tracked are dropped without ending them.
AllDropped ==
  /\ conn' = "None" /\ id' = 0 /\ flags' = {}
  /\ stage' = "none" /\ pc' = "Idle" /\ result' = "Ok"
  /\ tracked' = {}
  /\ UNCHANGED <<nextId, count, wrCount, wrs, shimVars, nativeVars>>

JettyDroppedAlone == pc = "Done" /\ stage = "jetty" /\ AllDropped
JettyDropped ==
  /\ pc = "Done" /\ stage = "jetty"
  /\ stage' = "handle" /\ pc' = "Unbind" /\ result' = "Ok"
  /\ UNCHANGED <<connVars, flags, wrVars, shimVars, nativeVars>>

HandleDropped == pc = "Done" /\ stage = "handle" /\ AllDropped

-----------------------------------------------------------------------------
Next ==
  \/ Create \/ ImportAndBind \/ MarkReady \/ HandshakeFails
  \/ \E op \in OperationType, s \in Slots : Post(op, s)
  \/ \E w \in wrs : Complete(w)
  \/ Close \/ Drained \/ Unbind \/ Unimport \/ Delete
  \/ CloseReturns \/ DropReturns \/ JettyDropped \/ HandleDropped

Spec == Init /\ [][Next]_vars

-----------------------------------------------------------------------------
ControlTypes ==
  /\ conn \in ConnectionState /\ id \in Jetties \union {0}
  /\ nextId \in 1 .. MaxJetty + 1
  /\ flags \subseteq HandleFlags
  /\ stage \in Stages /\ result \in {"Ok", "Err"}
  /\ pc \in {"Idle", "Drain", "Unbind", "Unimport", "Delete", "Done"}

NativeTypes ==
  /\ shim \in [Jetties -> SUBSET Fields] /\ objs \in [Jetties -> SUBSET Objects]
  /\ refusals \in [Jetties -> Nat] /\ jettyCount \in Nat

WrTypes ==
  /\ count \in [Jetties -> Nat] /\ wrCount \in Nat
  /\ tracked \subseteq 0 .. WordSpan - 1
  /\ wrs \subseteq [tok : Tokens, ctx : 0 .. WordSpan - 1]

TypeOK == ControlTypes /\ NativeTypes /\ WrTypes

\* While a handle has its pointer, the wrapper is allocated and the flags that
\* steer UrmaJetty::close say what the wrapper says, whichever of import, bind,
\* unbind and unimport has failed in between.
FlagsAgree ==
  raw => /\ Has("wrapper")
         /\ imported <=> Has("target")
         /\ bound <=> Has("bound")

\* A pointer of a wrapper is set exactly while its object exists, so that no
\* retried close destroys anything twice; only the JFR of a failed creation is
\* without a wrapper.  Objects are destroyed in the order in which they need one
\* another (urma_lab_jetty_unbind, unimport, delete).
NativeOrder ==
  \A j \in Jetties :
    /\ "wrapper" \in shim[j] => shim[j] = objs[j] \union {"wrapper"}
    /\ "wrapper" \notin shim[j] => shim[j] = {} /\ objs[j] \subseteq {"jfr"}
    /\ "bound" \in objs[j] => "target" \in objs[j]
    /\ "target" \in objs[j] => "jetty" \in objs[j]
    /\ "jetty" \in objs[j] => "jfr" \in objs[j]

\* The three layers of a teardown agree after any mixture of failed and retried
\* calls: the flags with the wrapper, and the wrapper with the provider.
LayersAgree == FlagsAgree /\ NativeOrder

Of(j) == {w \in wrs : w.tok.conn = j}
Wrappers == {j \in Jetties : "wrapper" \in shim[j]}

\* The counters on which the shim's refusals and runtime_close rest are exact,
\* for live connections and for what dropped ones have left.
CountsExact ==
  /\ \A j \in Jetties : count[j] = Cardinality(Of(j))
  /\ wrCount = Cardinality(wrs)
  /\ jettyCount = Cardinality(Wrappers)

\* A posted WR keeps what it points to: its Jetty with the JFR and, for a SEND,
\* the imported target and the binding, through every attempt to tear them down.
WrsKeepNatives ==
  \A w \in wrs : /\ {"jfr", "jetty"} \subseteq objs[w.tok.conn]
                 /\ w.tok.op = 1 => {"target", "bound"} \subseteq objs[w.tok.conn]

\* user_ctx names its WR: it decodes to the token it was made from, and so no two
\* live WRs, of whatever connections, share one (WrToken::encode and decode).
CtxIdentifies ==
  \A w \in wrs : Decodes(w.ctx) /\ Decode(w.ctx) = w.tok

\* A Jetty is left behind only with WRs on it, or after the provider has refused
\* two of its teardown calls: the Drops retry what a close has not finished.
LeakExplained ==
  \A j \in Wrappers : j # id => count[j] # 0 \/ refusals[j] >= 2
====
