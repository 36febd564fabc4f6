---- MODULE JettyProofs ----
(***************************************************************************)
(* What holds of JettyLifecycle, and of the token it posts with, for every *)
(* width of the fields, number of Jetties and slots, and set of faults.    *)
(***************************************************************************)
EXTENDS JettyLifecycle, FiniteSetTheorems, TLAPS

-----------------------------------------------------------------------------
\* The packing of WrToken.

\* A number below the base is what a division leaves over.
LEMMA DivMod ==
  ASSUME NEW b \in Nat \ {0}, NEW q \in Nat, NEW r \in 0 .. b - 1
  PROVE  (q * b + r) \div b = q /\ (q * b + r) % b = r
<1> DEFINE v == q * b + r
           d == v \div b
           m == v % b
<1>1. v \in Nat
  BY Z3
<1>2. d \in Int /\ m \in 0 .. b - 1 /\ v = b * d + m
  BY <1>1, Z3
<1>3. b * (d - q) = r - m
  BY <1>2, Z3
<1>4. d = q
  <2>1. ~(d - q >= 1)
    BY <1>2, <1>3, Z3
  <2>2. ~(d - q <= -1)
    BY <1>2, <1>3, Z3
  <2> QED
    BY <2>1, <2>2, <1>2
<1>5. m = r
  BY <1>2, <1>4, Z3
<1> QED
  BY <1>4, <1>5

\* A number below a span and one below a base make one below their product.
LEMMA Below ==
  ASSUME NEW a \in Nat \ {0}, NEW b \in Nat \ {0}, NEW q \in 0 .. a - 1,
         NEW r \in 0 .. b - 1
  PROVE  a * b \in Nat \ {0} /\ q * b + r \in 0 .. a * b - 1
<1>1. a * b \in Nat \ {0}
  BY Z3
<1>2. q * b + r \in Nat
  BY Z3
<1>3. q * b + r < a * b
  <2>1. (a - q) * b >= b
    BY Z3
  <2>2. (a - q) * b = a * b - q * b
    BY Z3
  <2>3. a * b \in Int /\ q * b \in Int
    BY Z3
  <2> QED
    BY <2>1, <2>2, <2>3
<1> QED
  BY <1>1, <1>2, <1>3

\* A wider base takes its product with the span apart.
LEMMA Regroup ==
  ASSUME NEW x \in Nat, NEW g \in Nat, NEW o \in Nat, NEW s \in Nat,
         NEW p \in Nat, NEW q \in Nat, NEW b \in Nat
  PROVE  /\ x * (p * (q * b)) + g * (q * b) + o * b + s
              = ((x * p + g) * q + o) * b + s
         /\ x * (p * (q * b)) + g * (q * b) + o * b + s
              = (x * p + g) * (q * b) + (o * b + s)
         /\ x * (p * (q * b)) + g * (q * b) + o * b + s
              = x * (p * (q * b)) + (g * (q * b) + (o * b + s))
BY Z3

\* WrToken::decode reads back what encode has packed, which fits the word: no
\* field runs into its neighbour, whatever the widths.
THEOREM TokenRoundTrip ==
  ASSUME NEW t \in Tokens, Encodes(t)
  PROVE  /\ Encode(t) \in 0 .. WordSpan - 1
         /\ Decodes(Encode(t)) /\ Decode(Encode(t)) = t
<1> DEFINE S == SlotSpan
           O == OpSpan * S
           G == GenSpan * O
           c == t.conn
           g == t.gen
           o == t.op
           s == t.slot
           v == Encode(t)
<1>1. /\ S \in Nat \ {0} /\ OpSpan \in Nat \ {0} /\ GenSpan \in Nat \ {0}
      /\ ConnSpan \in Nat \ {0}
      /\ c \in 0 .. ConnSpan - 1 /\ g \in 0 .. GenSpan - 1
      /\ o \in 0 .. OpSpan - 1 /\ s \in 0 .. S - 1
      /\ c # 0 /\ g # 0 /\ o \in OperationType
  BY SpanAssumption DEF Tokens, Encodes, OperationType
<1>2. SlotsEnd = S /\ OpEnd = O /\ GenEnd = G /\ WordSpan = ConnSpan * G
  BY DEF SlotsEnd, OpEnd, GenEnd, WordSpan
<1>3. v = c * G + g * O + o * S + s
  BY <1>2 DEF Encode
<1>4. O \in Nat \ {0} /\ o * S + s \in 0 .. O - 1
  BY <1>1, Below
<1> HIDE DEF S, c, g, o, s, v
<1>5. G \in Nat \ {0} /\ g * O + (o * S + s) \in 0 .. G - 1
  <2> HIDE DEF O
  <2> QED
    BY <1>1, <1>4, Below
<1>6. /\ v = ((c * GenSpan + g) * OpSpan + o) * S + s
      /\ v = (c * GenSpan + g) * O + (o * S + s)
      /\ v = c * G + (g * O + (o * S + s))
  BY <1>1, <1>3, Regroup
<1>7. v \in 0 .. ConnSpan * G - 1
  <2> HIDE DEF G, O
  <2> QED
    BY <1>1, <1>5, <1>6, Below
<1>8. c * GenSpan + g \in Nat /\ (c * GenSpan + g) * OpSpan + o \in Nat
  BY <1>1, Z3
<1>9. v % S = s /\ v \div S = (c * GenSpan + g) * OpSpan + o
  <2> HIDE DEF G, O
  <2> DEFINE q == (c * GenSpan + g) * OpSpan + o
  <2>1. q \in Nat
    BY <1>8
  <2>2. v = q * S + s
    BY <1>6
  <2> HIDE DEF q
  <2>3. v % S = s /\ v \div S = q
    BY <1>1, <2>1, <2>2, DivMod
  <2> QED
    BY <2>3 DEF q
<1>10. (v \div S) % OpSpan = o
  <2> DEFINE q == c * GenSpan + g
  <2>1. q \in Nat /\ v \div S = q * OpSpan + o
    BY <1>8, <1>9
  <2> HIDE DEF q
  <2>2. (q * OpSpan + o) % OpSpan = o
    BY <1>1, <2>1, DivMod
  <2> QED
    BY <2>1, <2>2, Zenon
<1>11. v \div O = c * GenSpan + g
  <2> DEFINE q == c * GenSpan + g
             r == o * S + s
  <2>1. q \in Nat /\ v = q * O + r /\ r \in 0 .. O - 1
    BY <1>4, <1>6, <1>8
  <2> HIDE DEF q, r, O
  <2>2. v \div O = q
    BY <1>4, <2>1, DivMod
  <2> QED
    BY <2>2 DEF q
<1>12. (v \div O) % GenSpan = g
  <2> HIDE DEF O, G
  <2>1. c \in Nat
    BY <1>1
  <2>2. (c * GenSpan + g) % GenSpan = g
    BY <1>1, <2>1, DivMod
  <2> QED
    BY <1>11, <2>2, Zenon
<1>13. v \div G = c
  <2> DEFINE r == g * O + (o * S + s)
  <2>1. v = c * G + r /\ r \in 0 .. G - 1 /\ c \in Nat
    BY <1>1, <1>5, <1>6
  <2> HIDE DEF r, G
  <2> QED
    BY <1>5, <2>1, DivMod
<1>14. Decode(v) = [conn |-> c, gen |-> g, op |-> o, slot |-> s]
  <2> HIDE DEF O, G
  <2>1. v \div GenEnd = c /\ (v \div OpEnd) % GenSpan = g
    BY <1>2, <1>12, <1>13, Zenon
  <2>2. v % SlotsEnd = s /\ (v \div SlotsEnd) % OpSpan = o
    BY <1>2, <1>9, <1>10, Zenon
  <2>3. Decode(v) = [conn |-> v \div GenEnd, gen |-> (v \div OpEnd) % GenSpan,
                     op |-> (v \div SlotsEnd) % OpSpan, slot |-> v % SlotsEnd]
    BY DEF Decode, SlotsEnd
  <2> QED
    BY <2>1, <2>2, <2>3
<1>15. t = [conn |-> c, gen |-> g, op |-> o, slot |-> s]
  BY DEF Tokens, c, g, o, s
<1>16. Decode(v) = t
  BY <1>14, <1>15
<1>17. Decodes(v)
  BY <1>1, <1>16 DEF Decodes, c, g, o
<1> QED
  BY <1>2, <1>7, <1>16, <1>17 DEF v

-----------------------------------------------------------------------------
\* The inductive invariant.

\* The control state: no teardown without a connection, no Drain in a Drop of
\* the handles, and Jetties with a number that was not used have nothing.
Shape ==
  /\ conn = "None" <=> id = 0
  /\ conn = "None" => stage = "none" /\ ~raw
  /\ stage = "none" <=> pc = "Idle"
  /\ pc = "Drain" => stage \in {"close", "drop"}
  /\ id < nextId
  /\ \A j \in Jetties : j >= nextId => shim[j] = {}

\* A handle that has forgotten its pointer has freed the wrapper.
HandleOwns == id # 0 => (raw <=> Has("wrapper"))

\* The user_ctx of a live WR was made from its token.
WrsEncoded ==
  \A w \in wrs : /\ Encodes(w.tok) /\ w.ctx = Encode(w.tok)
                 /\ w.tok.conn \in 1 .. nextId - 1

\* The poller tracks the live WRs of the connection, and no others.
TracksOwn == tracked = {w.ctx : w \in Of(id)}

\* What each Drop has brought: a wrapper it could not free was refused once more.
Retried ==
  stage \in {"jetty", "handle"} /\ raw /\ count[id] = 0 =>
    LET before == IF stage = "handle" THEN 1 ELSE 0 IN
    /\ refusals[id] >= before
    /\ \/ pc = "Done" \/ (pc = "Delete" /\ (bound \/ imported))
       \/ (pc = "Unimport" /\ bound)
       => refusals[id] >= before + 1

IInv ==
  /\ TypeOK /\ Shape /\ HandleOwns /\ FlagsAgree /\ NativeOrder
  /\ WrsEncoded /\ TracksOwn /\ IsFiniteSet(wrs) /\ CountsExact
  /\ WrsKeepNatives /\ LeakExplained /\ Retried

\* The invariant holds initially, when there is no connection and no native object.
LEMMA InitInv == Init => IInv
<1> SUFFICES ASSUME Init PROVE IInv
  OBVIOUS
<1> USE JettyAssumption DEF Init, raw, imported, bound
<1>1. TypeOK /\ Shape
  BY DEF TypeOK, ControlTypes, NativeTypes, WrTypes, Shape, ConnectionState, Stages
<1>2. HandleOwns /\ FlagsAgree /\ NativeOrder
  BY DEF HandleOwns, FlagsAgree, NativeOrder
<1>3. IsFiniteSet(wrs) /\ CountsExact
  <2>1. \A j \in Jetties : Of(j) = {}
    BY DEF Of
  <2>2. Wrappers = {}
    BY DEF Wrappers
  <2> QED
    BY <2>1, <2>2, FS_EmptySet DEF CountsExact
<1>4. WrsEncoded /\ TracksOwn /\ WrsKeepNatives
  BY DEF WrsEncoded, TracksOwn, Of, WrsKeepNatives
<1>5. LeakExplained /\ Retried
  BY DEF LeakExplained, Wrappers, Retried
<1> QED
  BY <1>1, <1>2, <1>3, <1>4, <1>5 DEF IInv

\* The actions that make no call and end no WR.
Control ==
  \/ MarkReady \/ HandshakeFails \/ Close \/ Drained
  \/ CloseReturns \/ DropReturns \/ JettyDropped

\* Every step keeps the types of the connection, its flags and the close in progress.
LEMMA ControlTypesStep ==
  ASSUME TypeOK, Shape, [Next]_vars
  PROVE  ControlTypes'
<1> USE JettyAssumption DEF TypeOK, ControlTypes
<1>1. CASE Create
  <2>1. nextId \in Jetties /\ nextId' \in 1 .. MaxJetty + 1
    BY <1>1 DEF Create, Jetties
  <2> QED
    BY <1>1, <2>1 DEF Create, callVars, HandleFlags, ConnectionState
<1>2. CASE ImportAndBind
  BY <1>2 DEF ImportAndBind, callVars, HandleFlags, ConnectionState
<1>3. CASE Control
  BY <1>3 DEF Control, MarkReady, HandshakeFails, ConnBecomes, Close, BeginClose, Drained,
              CloseReturns, DropReturns, JettyDropped, Result, ConnectionState, Stages,
              connVars, callVars
<1>4. ASSUME NEW op \in OperationType, NEW s \in Slots, Post(op, s)
      PROVE  ControlTypes'
  BY <1>4 DEF Post, connVars, callVars
<1>5. ASSUME NEW w \in wrs, Complete(w)
      PROVE  ControlTypes'
  BY <1>5 DEF Complete, callVars, ConnectionState
<1>6. CASE Unbind
  BY <1>6 DEF Unbind, Skips, Busy, Refused, Fails, Unbinds, connVars
<1>7. CASE Unimport
  BY <1>7 DEF Unimport, Skips, Busy, Refused, Fails, Unimports, connVars
<1>8. CASE Delete
  BY <1>8 DEF Delete, Skips, Busy, Refused, Fails, Deletes, KeepsJfr, connVars
<1>9. CASE HandleDropped
  BY <1>9 DEF HandleDropped, AllDropped, ConnectionState, Stages
<1>10. CASE UNCHANGED vars
  BY <1>10 DEF vars, connVars, callVars
<1> QED
  BY <1>1, <1>2, <1>3, <1>4, <1>5, <1>6, <1>7, <1>8, <1>9, <1>10 DEF Next, Control

\* The actions that touch neither a wrapper nor a provider.
LEMMA NativesFramed ==
  ASSUME \/ Control \/ HandleDropped \/ UNCHANGED vars
         \/ \E op \in OperationType, s \in Slots : Post(op, s)
         \/ \E w \in wrs : Complete(w)
  PROVE  UNCHANGED <<shim, jettyCount, objs, refusals>>
BY DEF Control, MarkReady, HandshakeFails, ConnBecomes, Close, Drained, CloseReturns,
       DropReturns, JettyDropped, HandleDropped, AllDropped, Post, Complete, vars,
       shimVars, nativeVars

\* The actions that neither post nor complete.
LEMMA WrsFramed ==
  ASSUME \/ Control \/ UNCHANGED vars \/ Create \/ ImportAndBind
         \/ Unbind \/ Unimport \/ Delete
  PROVE  UNCHANGED <<tracked, count, wrCount, wrs>>
BY DEF Control, MarkReady, HandshakeFails, ConnBecomes, Close, Drained, CloseReturns,
       DropReturns, JettyDropped, Create, ImportAndBind, Unbind, Unimport, Delete, vars,
       wrVars

\* A call of a teardown is made on the connection's Jetty.
LEMMA CallHasJetty ==
  ASSUME TypeOK, Shape, pc # "Idle"
  PROVE  id \in Jetties
BY DEF TypeOK, ControlTypes, Shape

\* Every step keeps the types of the shim's wrappers and of the provider's objects.
LEMMA NativeTypesStep ==
  ASSUME TypeOK, Shape, [Next]_vars
  PROVE  NativeTypes'
<1> USE DEF TypeOK, NativeTypes
<1>1. CASE Create
  <2>1. nextId \in Jetties
    BY <1>1 DEF Create, ControlTypes, Jetties
  <2> QED
    BY <1>1, <2>1 DEF Create, shimVars, Fields, Objects
<1>2. CASE ImportAndBind
  BY <1>2 DEF ImportAndBind, Sets, Fields, Objects
<1>3. CASE Unbind
  BY <1>3 DEF Unbind, Skips, Busy, Refused, Fails, Unbinds, Unsets, shimVars, nativeVars
<1>4. CASE Unimport
  BY <1>4 DEF Unimport, Skips, Busy, Refused, Fails, Unimports, Unsets, shimVars,
              nativeVars
<1>5. CASE Delete
  BY <1>5 DEF Delete, Skips, Busy, Refused, Fails, Deletes, KeepsJfr, Unsets, Decrement,
              shimVars, nativeVars
<1> QED
  BY <1>1, <1>2, <1>3, <1>4, <1>5, NativesFramed DEF Next, Control

\* Every step keeps the types of the WRs and of the counters: Decrement never leaves Nat.
LEMMA WrTypesStep ==
  ASSUME TypeOK, Shape, WrsEncoded, [Next]_vars
  PROVE  WrTypes'
<1> USE DEF TypeOK, WrTypes
<1>1. ASSUME NEW op \in OperationType, NEW s \in Slots, Post(op, s)
      PROVE  WrTypes'
  <2> DEFINE t == TokenOf(op, s)
  <2>1. id \in Jetties /\ Encodes(t)
    <3>1. Encodes(t)
      BY <1>1 DEF Post
    <3>2. conn # "None"
      BY <1>1 DEF Post
    <3> QED
      BY <3>1, <3>2 DEF Shape, ControlTypes
  <2>2. t \in Tokens
    <3>1. id \in 0 .. ConnSpan - 1 /\ 1 \in 0 .. GenSpan - 1 /\ s \in Nat
      BY <2>1, SpanAssumption, JettyAssumption DEF Jetties, Slots
    <3> QED
      BY <3>1 DEF TokenOf, Tokens
  <2>3. Encode(t) \in 0 .. WordSpan - 1
    BY <2>1, <2>2, TokenRoundTrip
  <2> HIDE DEF t
  <2>4. [tok |-> t, ctx |-> Encode(t)] \in [tok : Tokens, ctx : 0 .. WordSpan - 1]
    BY <2>2, <2>3
  <2>5. count' \in [Jetties -> Nat] /\ wrCount' \in Nat
    BY <1>1, <2>1 DEF Post
  <2> QED
    BY <1>1, <2>3, <2>4, <2>5 DEF Post, t
<1>2. ASSUME NEW w \in wrs, Complete(w)
      PROVE  WrTypes'
  <2>1. EndWr(w)
    BY <1>2 DEF Complete
  <2>2. \A n \in Nat : Decrement(n) \in Nat
    BY DEF Decrement
  <2>3. count' \in [Jetties -> Nat] /\ wrCount' \in Nat
    BY <2>1, <2>2 DEF EndWr
  <2> QED
    BY <2>1, <2>3 DEF EndWr
<1>3. CASE HandleDropped
  BY <1>3 DEF HandleDropped, AllDropped
<1> QED
  BY <1>1, <1>2, <1>3, WrsFramed DEF Next, Control

\* The numbers of Jetties are positive.
LEMMA NumberTypes ==
  ASSUME TypeOK
  PROVE  nextId \in Nat \ {0} /\ id \in Nat
<1>1. MaxJetty \in Nat
  BY JettyAssumption
<1> QED
  BY <1>1 DEF TypeOK, ControlTypes, Jetties

\* Every step keeps the relation of conn, id, stage and pc: what a close works on is the
\* one connection there is.
LEMMA ShapeStep ==
  ASSUME TypeOK, Shape, [Next]_vars
  PROVE  Shape'
<1> USE DEF TypeOK, ControlTypes, NativeTypes, Shape, raw
<1>1. CASE Create
  <2>1. nextId \in Nat \ {0}
    BY NumberTypes
  <2>2. conn = "None"
    BY <1>1 DEF Create
  <2>3. UNCHANGED <<stage, pc>> /\ nextId' = nextId + 1 /\ id = 0
    BY <1>1, <2>2 DEF Create, callVars
  <2>4. \/ conn' = "Open" /\ id' = nextId
        \/ conn' = conn /\ id' = id /\ flags' = flags
    BY <1>1 DEF Create
  <2>5. \A j \in Jetties : j # nextId => shim'[j] = shim[j]
    BY <1>1 DEF Create, shimVars
  <2>6. \A j \in Jetties : j >= nextId' => shim'[j] = {}
    BY <2>1, <2>3, <2>5 DEF Jetties
  <2>7. (conn' = "None" <=> id' = 0) /\ id' < nextId'
    BY <2>1, <2>2, <2>3, <2>4
  <2>8. conn' = "None" => stage' = "none" /\ ~raw'
    BY <2>2, <2>3, <2>4
  <2> QED
    BY <2>3, <2>6, <2>7, <2>8
<1>2. CASE ImportAndBind
  BY <1>2, JettyAssumption DEF ImportAndBind, Sets, callVars, Jetties
<1>3. CASE Control
  BY <1>3 DEF Control, MarkReady, HandshakeFails, ConnBecomes, Close, BeginClose, Drained,
              CloseReturns, DropReturns, JettyDropped, Result,
              connVars, callVars, shimVars, nativeVars
<1>4. ASSUME NEW op \in OperationType, NEW s \in Slots, Post(op, s)
      PROVE  Shape'
  BY <1>4 DEF Post, connVars, callVars, shimVars
<1>5. ASSUME NEW w \in wrs, Complete(w)
      PROVE  Shape'
  BY <1>5 DEF Complete, callVars, shimVars
<1>6. CASE Unbind
  BY <1>6, CallHasJetty
     DEF Unbind, Skips, Busy, Refused, Fails, Unbinds, Unsets, connVars, shimVars, nativeVars,
         HandleFlags
<1>7. CASE Unimport
  BY <1>7, CallHasJetty
     DEF Unimport, Skips, Busy, Refused, Fails, Unimports, Unsets, connVars, shimVars,
         nativeVars, HandleFlags
<1>8. CASE Delete
  BY <1>8, CallHasJetty
     DEF Delete, Skips, Busy, Refused, Fails, Deletes, KeepsJfr, Unsets, connVars, shimVars,
         nativeVars, HandleFlags
<1>9. CASE HandleDropped
  BY <1>9 DEF HandleDropped, AllDropped, shimVars
<1>10. CASE UNCHANGED vars
  BY <1>10 DEF vars, connVars, callVars, shimVars
<1> QED
  BY <1>1, <1>2, <1>3, <1>4, <1>5, <1>6, <1>7, <1>8, <1>9, <1>10 DEF Next, Control

\* The flags and the wrapper change together, or neither changes.
LEMMA HandleStep ==
  ASSUME TypeOK, Shape, HandleOwns, FlagsAgree, [Next]_vars
  PROVE  HandleOwns' /\ FlagsAgree'
<1> USE DEF TypeOK, ControlTypes, NativeTypes, Shape, HandleOwns, FlagsAgree, raw, imported,
            bound, Has
<1>1. CASE Create
  <2>1. nextId \in Jetties
    BY <1>1 DEF Create, Jetties
  <2> QED
    BY <1>1, <2>1 DEF Create, shimVars
<1>2. CASE ImportAndBind
  BY <1>2 DEF ImportAndBind, Sets
<1>3. ASSUME \/ Control \/ UNCHANGED vars
             \/ \E op \in OperationType, s \in Slots : Post(op, s)
             \/ \E w \in wrs : Complete(w)
      PROVE  HandleOwns' /\ FlagsAgree'
  <2>1. UNCHANGED <<id, flags, shim>>
    BY <1>3 DEF Control, MarkReady, HandshakeFails, ConnBecomes, Close, Drained,
                CloseReturns, DropReturns, JettyDropped, Post, Complete, vars,
                connVars, shimVars
  <2> QED
    BY <2>1
<1>4. CASE Unbind
  BY <1>4, CallHasJetty
     DEF Unbind, Skips, Busy, Refused, Fails, Unbinds, Unsets, connVars, shimVars
<1>5. CASE Unimport
  BY <1>5, CallHasJetty
     DEF Unimport, Skips, Busy, Refused, Fails, Unimports, Unsets, connVars, shimVars
<1>6. CASE Delete
  BY <1>6, CallHasJetty
     DEF Delete, Skips, Busy, Refused, Fails, Deletes, KeepsJfr, Unsets, connVars, shimVars
<1>7. CASE HandleDropped
  BY <1>7 DEF HandleDropped, AllDropped
<1> QED
  BY <1>1, <1>2, <1>3, <1>4, <1>5, <1>6, <1>7 DEF Next, Control

\* Objects are created and destroyed in the order of their dependence.
LEMMA NativeOrderStep ==
  ASSUME TypeOK, Shape, HandleOwns, FlagsAgree, NativeOrder, [Next]_vars
  PROVE  NativeOrder'
<1> USE DEF TypeOK, ControlTypes, NativeTypes, Shape, NativeOrder, Has
<1>1. CASE Create
  <2>1. nextId \in Jetties /\ shim[nextId] = {}
    BY <1>1 DEF Create, Jetties
  <2> QED
    BY <1>1, <2>1 DEF Create, shimVars
<1>2. CASE ImportAndBind
  BY <1>2 DEF ImportAndBind, Sets
<1>3. ASSUME \/ Control \/ HandleDropped \/ UNCHANGED vars
             \/ \E op \in OperationType, s \in Slots : Post(op, s)
             \/ \E w \in wrs : Complete(w)
      PROVE  NativeOrder'
  BY <1>3, NativesFramed
<1>4. CASE Unbind
  BY <1>4, CallHasJetty
     DEF Unbind, Skips, Busy, Refused, Fails, Unbinds, Unsets, connVars, shimVars, nativeVars
<1>5. CASE Unimport
  BY <1>5, CallHasJetty
     DEF Unimport, Unimportable, Skips, Busy, Refused, Fails, Unimports, Unsets, connVars,
         shimVars, nativeVars
<1>6. CASE Delete
  BY <1>6, CallHasJetty
     DEF Delete, Deletable, Skips, Busy, Refused, Fails, Deletes, KeepsJfr, Unsets, connVars,
         shimVars, nativeVars
<1> QED
  BY <1>1, <1>2, <1>3, <1>4, <1>5, <1>6 DEF Next, Control

-----------------------------------------------------------------------------
\* The work requests.

\* CtxIdentifies, from what is inductive: the round trip of the token.
LEMMA CtxFromEncoded ==
  ASSUME TypeOK, WrsEncoded
  PROVE  CtxIdentifies
<1> SUFFICES ASSUME NEW w \in wrs
             PROVE  Decodes(w.ctx) /\ Decode(w.ctx) = w.tok
  BY DEF CtxIdentifies
<1>1. w.tok \in Tokens /\ Encodes(w.tok) /\ w.ctx = Encode(w.tok)
  BY DEF TypeOK, WrTypes, WrsEncoded
<1> QED
  BY <1>1, TokenRoundTrip

\* Two WRs with the same user_ctx are one.
LEMMA CtxInjective ==
  ASSUME TypeOK, WrsEncoded, NEW v \in wrs, NEW w \in wrs, v.ctx = w.ctx
  PROVE  v = w
<1>1. v.tok = w.tok
  BY CtxFromEncoded DEF CtxIdentifies
<1> QED
  BY <1>1 DEF TypeOK, WrTypes

\* Every live WR keeps the user_ctx it was posted with.
LEMMA WrsEncodedStep ==
  ASSUME TypeOK, Shape, WrsEncoded, [Next]_vars
  PROVE  WrsEncoded'
<1> USE DEF WrsEncoded
<1>1. CASE Create
  <2>1. wrs' = wrs /\ nextId' = nextId + 1 /\ nextId \in Nat
    BY <1>1, NumberTypes DEF Create, wrVars
  <2> QED
    BY <2>1
<1>2. ASSUME NEW op \in OperationType, NEW s \in Slots, Post(op, s)
      PROVE  WrsEncoded'
  <2> DEFINE t == TokenOf(op, s)
  <2>1. nextId' = nextId /\ wrs' = wrs \union {[tok |-> t, ctx |-> Encode(t)]}
    BY <1>2 DEF Post, connVars
  <2>2. Encodes(t) /\ conn # "None"
    BY <1>2 DEF Post
  <2>3. t.conn \in 1 .. nextId - 1
    BY <2>2, NumberTypes DEF Shape, TokenOf
  <2> HIDE DEF t
  <2> QED
    BY <2>1, <2>2, <2>3
<1>3. CASE Next /\ ~Create /\ ~(\E op \in OperationType, s \in Slots : Post(op, s))
  <2>1. nextId' = nextId /\ wrs' \subseteq wrs
    BY <1>3, WrsFramed
       DEF Next, Control, Complete, EndWr, HandleDropped, AllDropped, MarkReady, HandshakeFails,
           ConnBecomes, Close, Drained, CloseReturns, DropReturns, JettyDropped,
           ImportAndBind, Unbind, Unimport, Delete, connVars
  <2> QED
    BY <2>1
<1>4. CASE UNCHANGED vars
  BY <1>4 DEF vars, connVars, wrVars
<1> QED
  BY <1>1, <1>2, <1>3, <1>4

\* The connections are told apart by their ids, which are not used twice.
LEMMA NoOther ==
  ASSUME WrsEncoded, NEW j, j = 0 \/ j = nextId
  PROVE  Of(j) = {}
BY DEF WrsEncoded, Of

\* The poller tracks live WRs of its own connection only.
LEMMA TracksOwnStep ==
  ASSUME TypeOK, Shape, WrsEncoded, TracksOwn, [Next]_vars
  PROVE  TracksOwn'
<1>1. CASE Create
  <2>1. wrs' = wrs /\ tracked' = tracked /\ id = 0 /\ (id' = 0 \/ id' = nextId)
    BY <1>1 DEF Create, wrVars, Shape
  <2>2. \A w \in wrs : w.tok.conn # 0 /\ w.tok.conn # nextId
    BY NoOther DEF Of
  <2> QED
    BY <2>1, <2>2 DEF TracksOwn, Of
<1>2. ASSUME NEW op \in OperationType, NEW s \in Slots, Post(op, s)
      PROVE  TracksOwn'
  <2> DEFINE t == TokenOf(op, s)
             r == [tok |-> t, ctx |-> Encode(t)]
  <2>1. /\ id' = id /\ wrs' = wrs \union {r}
        /\ tracked' = tracked \union {r.ctx} /\ r.tok.conn = id
    BY <1>2 DEF Post, connVars, TokenOf
  <2> HIDE DEF r
  <2>2. Of(id)' = Of(id) \union {r}
    BY <2>1 DEF Of
  <2> QED
    BY <2>1, <2>2 DEF TracksOwn
<1>3. ASSUME NEW w \in wrs, Complete(w)
      PROVE  TracksOwn'
  <2>1. id' = id /\ wrs' = wrs \ {w} /\ tracked' = tracked \ {w.ctx} /\ Routes(w)
    BY <1>3 DEF Complete, EndWr
  <2>2. Of(id)' = Of(id) \ {w}
    BY <2>1 DEF Of
  <2>3. \A v \in Of(id) : v.ctx = w.ctx => v = w
    BY CtxInjective DEF Of
  <2>4. w \in Of(id)
    BY <2>1, CtxFromEncoded DEF Routes, CtxIdentifies, Of
  <2> QED
    BY <2>1, <2>2, <2>3, <2>4 DEF TracksOwn
<1>4. CASE HandleDropped
  <2>1. wrs' = wrs /\ tracked' = {} /\ id' = 0
    BY <1>4 DEF HandleDropped, AllDropped
  <2>2. Of(0) = {}
    BY NoOther
  <2> QED
    BY <2>1, <2>2 DEF TracksOwn, Of
<1>5. CASE Control \/ ImportAndBind \/ Unbind \/ Unimport \/ Delete \/ UNCHANGED vars
  <2>1. UNCHANGED <<id, wrs, tracked>>
    BY <1>5, WrsFramed
       DEF Control, MarkReady, HandshakeFails, ConnBecomes, Close, Drained, CloseReturns,
           DropReturns, JettyDropped, ImportAndBind, Unbind, Unimport, Delete, vars, connVars
  <2> QED
    BY <2>1 DEF TracksOwn, Of
<1> QED
  BY <1>1, <1>2, <1>3, <1>4, <1>5 DEF Next, Control

-----------------------------------------------------------------------------
\* The counters.

\* A counter is zero exactly when its Jetty has no WR.
LEMMA CountZero ==
  ASSUME IsFiniteSet(wrs), CountsExact, NEW j \in Jetties
  PROVE  count[j] = 0 <=> Of(j) = {}
<1>1. IsFiniteSet(Of(j))
  BY FS_Subset DEF Of
<1> QED
  BY <1>1, FS_EmptySet DEF CountsExact

\* There are finitely many wrappers, so that they can be counted.
LEMMA WrappersFinite == IsFiniteSet(Wrappers)
<1>1. IsFiniteSet(Jetties)
  BY JettyAssumption, FS_Interval DEF Jetties
<1> QED
  BY <1>1, FS_Subset DEF Wrappers

WrCounts == /\ \A j \in Jetties : count[j] = Cardinality(Of(j))
            /\ wrCount = Cardinality(wrs)

\* Every step keeps the WR counters of the shim equal to the number of live WRs.
LEMMA WrCountsStep ==
  ASSUME TypeOK, Shape, WrsEncoded, IsFiniteSet(wrs), WrCounts, [Next]_vars
  PROVE  IsFiniteSet(wrs') /\ WrCounts'
<1>1. ASSUME NEW op \in OperationType, NEW s \in Slots, Post(op, s)
      PROVE  IsFiniteSet(wrs') /\ WrCounts'
  <2> DEFINE t == TokenOf(op, s)
             r == [tok |-> t, ctx |-> Encode(t)]
  <2>1. /\ wrs' = wrs \union {r} /\ wrCount' = wrCount + 1
        /\ count' = [count EXCEPT ![id] = @ + 1]
    BY <1>1 DEF Post
  <2>2. r.tok.conn = id
    BY DEF TokenOf
  <2>3. r \notin wrs
    BY <1>1 DEF Post, TokenOf
  <2> HIDE DEF r
  <2>4. IsFiniteSet(wrs') /\ wrCount' = Cardinality(wrs')
    BY <2>1, <2>3, FS_AddElement DEF WrCounts
  <2>5. ASSUME NEW j \in Jetties
        PROVE  count'[j] = Cardinality(Of(j)')
    <3>1. IsFiniteSet(Of(j))
      BY FS_Subset DEF Of
    <3>2. CASE j = id
      <4>1. Of(j)' = Of(j) \union {r} /\ r \notin Of(j)
        BY <2>1, <2>2, <2>3, <3>2 DEF Of
      <4>2. count'[j] = count[j] + 1
        BY <2>1, <3>2 DEF TypeOK, WrTypes
      <4> QED
        BY <3>1, <4>1, <4>2, FS_AddElement DEF WrCounts
    <3>3. CASE j # id
      <4>1. Of(j)' = Of(j)
        BY <2>1, <2>2, <3>3 DEF Of
      <4>2. count'[j] = count[j]
        BY <2>1, <3>3 DEF TypeOK, WrTypes
      <4> QED
        BY <4>1, <4>2 DEF WrCounts
    <3> QED
      BY <3>2, <3>3
  <2> QED
    BY <2>4, <2>5 DEF WrCounts
<1>2. ASSUME NEW w \in wrs, Complete(w)
      PROVE  IsFiniteSet(wrs') /\ WrCounts'
  <2> DEFINE i == w.tok.conn
  <2>1. /\ wrs' = wrs \ {w} /\ wrCount' = Decrement(wrCount)
        /\ count' = [count EXCEPT ![i] = Decrement(@)]
    BY <1>2 DEF Complete, EndWr
  <2> HIDE DEF i
  <2>2. IsFiniteSet(wrs') /\ wrCount' = Cardinality(wrs')
    <3>1. Cardinality(wrs) \in Nat \ {0}
      BY FS_CardinalityType, FS_EmptySet
    <3> QED
      BY <2>1, <3>1, FS_RemoveElement DEF WrCounts, Decrement
  <2>3. ASSUME NEW j \in Jetties
        PROVE  count'[j] = Cardinality(Of(j)')
    <3>1. IsFiniteSet(Of(j))
      BY FS_Subset DEF Of
    <3>2. CASE j = i
      <4>1. w \in Of(j) /\ Of(j)' = Of(j) \ {w}
        BY <2>1, <3>2 DEF Of, i
      <4>2. count'[j] = Decrement(count[j])
        BY <2>1, <3>2 DEF TypeOK, WrTypes
      <4>3. Cardinality(Of(j)) \in Nat \ {0}
        BY <3>1, <4>1, FS_CardinalityType, FS_EmptySet
      <4>4. Cardinality(Of(j)') = Cardinality(Of(j)) - 1
        BY <3>1, <4>1, FS_RemoveElement
      <4>5. Decrement(Cardinality(Of(j))) = Cardinality(Of(j)) - 1
        BY <4>3 DEF Decrement
      <4> QED
        BY <4>2, <4>4, <4>5 DEF WrCounts
    <3>3. CASE j # i
      <4>1. Of(j)' = Of(j)
        BY <2>1, <3>3 DEF Of, i
      <4>2. count'[j] = count[j]
        BY <2>1, <3>3 DEF TypeOK, WrTypes
      <4> QED
        BY <4>1, <4>2 DEF WrCounts
    <3> QED
      BY <3>2, <3>3
  <2> QED
    BY <2>2, <2>3 DEF WrCounts
<1>3. ASSUME ~(\E op \in OperationType, s \in Slots : Post(op, s)),
             ~(\E w \in wrs : Complete(w))
      PROVE  IsFiniteSet(wrs') /\ WrCounts'
  <2>1. UNCHANGED <<count, wrCount, wrs>>
    BY <1>3, WrsFramed DEF Next, Control, HandleDropped, AllDropped
  <2> QED
    BY <2>1 DEF WrCounts, Of
<1> QED
  BY <1>1, <1>2, <1>3

\* Every step keeps jetty_count equal to the number of allocated wrappers.
LEMMA WrapperCountStep ==
  ASSUME TypeOK, Shape, HandleOwns, jettyCount = Cardinality(Wrappers), [Next]_vars
  PROVE  jettyCount' = Cardinality(Wrappers')
<1> USE DEF TypeOK, NativeTypes
<1>1. CASE Create
  <2>1. nextId \in Jetties /\ shim[nextId] = {}
    BY <1>1, NumberTypes DEF Create, Jetties, Shape
  <2>2. CASE shim' = shim /\ jettyCount' = jettyCount
    BY <2>2 DEF Wrappers
  <2>3. CASE /\ shim' = [shim EXCEPT ![nextId] = {"wrapper", "jfr", "jetty"}]
             /\ jettyCount' = jettyCount + 1
    <3>1. Wrappers' = Wrappers \union {nextId} /\ nextId \notin Wrappers
      BY <2>1, <2>3 DEF Wrappers
    <3> QED
      BY <2>3, <3>1, WrappersFinite, FS_AddElement
  <2> QED
    BY <1>1, <2>2, <2>3 DEF Create, shimVars
<1>2. CASE Delete
  <2>1. id \in Jetties /\ id # 0
    BY <1>2, CallHasJetty DEF Delete, Jetties
  <2>2. CASE Deletes /\ raw
    <3>1. id \in Wrappers /\ Wrappers' = Wrappers \ {id}
      BY <2>1, <2>2 DEF Deletes, Wrappers, HandleOwns, Has
    <3>2. jettyCount # 0
      BY <3>1, WrappersFinite, FS_EmptySet
    <3>3. Cardinality(Wrappers') = Cardinality(Wrappers) - 1
      BY <3>1, WrappersFinite, FS_RemoveElement
    <3>4. jettyCount' = jettyCount - 1
      BY <2>2, <3>2 DEF Deletes, Decrement
    <3> QED
      BY <3>3, <3>4
  <2>3. CASE UNCHANGED shimVars
    BY <2>3 DEF shimVars, Wrappers
  <2>4. CASE KeepsJfr
    <3>1. Wrappers' = Wrappers
      BY <2>1, <2>4 DEF KeepsJfr, Unsets, Wrappers
    <3> QED
      BY <2>4, <3>1 DEF KeepsJfr
  <2> QED
    BY <1>2, <2>2, <2>3, <2>4 DEF Delete, Skips, Busy, Refused, Fails, Calls
<1>3. CASE ImportAndBind
  <2>1. Wrappers' = Wrappers
    BY <1>3 DEF ImportAndBind, Sets, Wrappers
  <2> QED
    BY <1>3, <2>1 DEF ImportAndBind
<1>4. CASE Unbind \/ Unimport
  <2>1. Wrappers' = Wrappers /\ jettyCount' = jettyCount
    BY <1>4, CallHasJetty
       DEF Unbind, Unbinds, Unimport, Unimports, Unsets, Skips, Busy, Refused, Fails, shimVars,
           Wrappers
  <2> QED
    BY <2>1
<1>5. ASSUME \/ Control \/ HandleDropped \/ UNCHANGED vars
             \/ \E op \in OperationType, s \in Slots : Post(op, s)
             \/ \E w \in wrs : Complete(w)
      PROVE  jettyCount' = Cardinality(Wrappers')
  BY <1>5, NativesFramed DEF Wrappers
<1> QED
  BY <1>1, <1>2, <1>3, <1>4, <1>5 DEF Next, Control

-----------------------------------------------------------------------------
\* Teardown.

\* WrsKeepNatives: the shim's refusals keep what a live WR needs.
LEMMA WrsKeepStep ==
  ASSUME TypeOK, Shape, NativeOrder, WrsEncoded, IsFiniteSet(wrs), CountsExact,
         WrsKeepNatives, [Next]_vars
  PROVE  WrsKeepNatives'
<1> DEFINE Keeps(w, o) == /\ {"jfr", "jetty"} \subseteq o
                          /\ w.tok.op = 1 => {"target", "bound"} \subseteq o
<1> USE DEF TypeOK, NativeTypes, WrsKeepNatives
<1>1. \A w \in wrs : w.tok.conn \in Jetties /\ w.tok.conn # nextId /\ w.tok.conn # 0
  BY NumberTypes, JettyAssumption DEF WrsEncoded, ControlTypes, Jetties
<1>2. CASE Create
  <2>1. \A j \in Jetties : j # nextId => objs'[j] = objs[j]
    BY <1>2 DEF Create
  <2> QED
    BY <1>1, <1>2, <2>1 DEF Create, wrVars
<1>3. CASE ImportAndBind
  <2>1. \A j \in Jetties : objs[j] \subseteq objs'[j]
    BY <1>3 DEF ImportAndBind, Sets
  <2>2. wrs' = wrs
    BY <1>3, WrsFramed
  <2> QED
    BY <1>1, <2>1, <2>2
<1>4. ASSUME NEW op \in OperationType, NEW s \in Slots, Post(op, s)
      PROVE  WrsKeepNatives'
  <2> DEFINE t == TokenOf(op, s)
             r == [tok |-> t, ctx |-> Encode(t)]
  <2>1. wrs' = wrs \union {r} /\ objs' = objs
    BY <1>4 DEF Post, nativeVars
  <2>2. r.tok.conn = id /\ r.tok.op = op
    BY DEF TokenOf
  <2>3. id \in Jetties
    BY <1>4 DEF Post, Shape, ControlTypes
  <2>4. {"jfr", "jetty"} \subseteq objs[id] /\ (op = 1 => {"target", "bound"} \subseteq objs[id])
    BY <1>4, <2>3 DEF Post, Accepts, Has, NativeOrder
  <2> HIDE DEF r
  <2> QED
    BY <2>1, <2>2, <2>4
<1>5. ASSUME NEW w \in wrs, Complete(w)
      PROVE  WrsKeepNatives'
  BY <1>5, NativesFramed DEF Complete, EndWr
<1>6. CASE Unbind \/ Delete
  <2>1. id \in Jetties
    BY <1>6, CallHasJetty DEF Unbind, Delete
  <2>2. wrs' = wrs
    BY <1>6, WrsFramed
  <2>3. \A j \in Jetties : j # id => objs'[j] = objs[j]
    BY <1>6, <2>1 DEF Unbind, Delete, Skips, Busy, Refused, Fails, Unbinds, Unsets, Deletes,
                      KeepsJfr, nativeVars
  <2>4. objs' = objs \/ count[id] = 0
    BY <1>6 DEF Unbind, Unbindable, Delete, Deletable, Skips, Busy, Refused, Fails, nativeVars
  <2>5. count[id] = 0 => \A w \in wrs : w.tok.conn # id
    BY <2>1, CountZero DEF Of
  <2> QED
    BY <1>1, <2>2, <2>3, <2>4, <2>5
<1>7. CASE Unimport
  <2>1. id \in Jetties
    BY <1>7, CallHasJetty DEF Unimport
  <2>2. wrs' = wrs
    BY <1>7, WrsFramed
  <2>3. \/ objs' = objs
        \/ /\ "bound" \notin shim[id] /\ "jetty" \in shim[id]
           /\ objs' = [objs EXCEPT ![id] = @ \ {"target"}]
    BY <1>7 DEF Unimport, Unimportable, Skips, Busy, Refused, Fails, Unimports, Unsets,
                nativeVars, Has
  <2>4. "bound" \notin shim[id] /\ "jetty" \in shim[id] => "bound" \notin objs[id]
    BY <2>1 DEF NativeOrder
  <2> QED
    BY <1>1, <2>1, <2>2, <2>3, <2>4
<1>8. CASE Control \/ HandleDropped \/ UNCHANGED vars
  <2>1. wrs' = wrs /\ objs' = objs
    BY <1>8, NativesFramed, WrsFramed DEF HandleDropped, AllDropped
  <2> QED
    BY <2>1
<1> QED
  BY <1>2, <1>3, <1>4, <1>5, <1>6, <1>7, <1>8 DEF Next, Control

\* What the flags of a handle with its pointer say of the wrapper.
LEMMA Owned ==
  ASSUME TypeOK, Shape, FlagsAgree, NativeOrder, raw
  PROVE  /\ id \in Jetties
         /\ imported <=> "target" \in shim[id]
         /\ bound <=> "bound" \in shim[id]
         /\ imported \/ bound => "jetty" \in shim[id]
<1>1. id \in Jetties
  BY DEF TypeOK, ControlTypes, Shape
<1> QED
  BY <1>1 DEF FlagsAgree, NativeOrder, Has

\* A refusal by the provider counts for the Jetty of the connection alone.
LEMMA RefusedCounts ==
  ASSUME TypeOK, id \in Jetties, NEW f, Refused(f)
  PROVE  refusals'[id] = refusals[id] + 1 /\ UNCHANGED <<flags, shim>>
BY DEF Refused, Fails, TypeOK, NativeTypes, shimVars

\* A call made in a Drop succeeds, frees something, or is refused by the provider:
\* the shim has no reason of its own to refuse a Jetty without WRs.
LEMMA RetriedStep ==
  ASSUME TypeOK, Shape, FlagsAgree, NativeOrder, Retried, [Next]_vars
  PROVE  Retried'
<1> DEFINE Before == IF stage = "handle" THEN 1 ELSE 0
           Reached(p, n) == \/ p = "Done" \/ (p = "Delete" /\ (bound \/ imported))
                            \/ (p = "Unimport" /\ bound)
                            => n >= Before + 1
<1>1. CASE stage' \notin {"jetty", "handle"}
  BY <1>1 DEF Retried
<1>2. CASE CloseReturns \/ DropReturns \/ JettyDropped
  <2>1. UNCHANGED <<id, flags, count, refusals>>
    BY <1>2 DEF CloseReturns, DropReturns, JettyDropped, wrVars, nativeVars, connVars
  <2>2. \/ stage' \notin {"jetty", "handle"}
        \/ stage' = "jetty" /\ pc' = "Unbind"
        \/ stage' = "handle" /\ pc' = "Unbind" /\ stage = "jetty" /\ pc = "Done"
    BY <1>2 DEF CloseReturns, DropReturns, JettyDropped, BeginClose
  <2>3. id \in Jetties \/ ~raw
    BY Owned
  <2>4. id \in Jetties => refusals[id] \in Nat
    BY DEF TypeOK, NativeTypes
  <2> QED
    BY <2>1, <2>2, <2>3, <2>4 DEF Retried, raw, bound, imported
<1>3. ASSUME stage \in {"jetty", "handle"}, Unbind \/ Unimport \/ Delete
      PROVE  Retried'
  <2>1. UNCHANGED <<stage, id, count>>
    BY <1>3 DEF Unbind, Unimport, Delete, connVars, wrVars
  <2>2. raw' => raw
    BY <1>3 DEF Unbind, Unimport, Delete, Skips, Busy, Refused, Fails, Unbinds, Unimports,
                Deletes, KeepsJfr, raw
  <2>3. SUFFICES ASSUME raw, raw', count[id] = 0
                 PROVE  /\ refusals'[id] >= Before
                        /\ \/ pc' = "Done" \/ (pc' = "Delete" /\ (bound' \/ imported'))
                           \/ (pc' = "Unimport" /\ bound')
                           => refusals'[id] >= Before + 1
    BY <2>1, <2>2 DEF Retried
  <2> USE <2>3
  <2>4. /\ id \in Jetties /\ refusals[id] \in Nat
        /\ imported <=> "target" \in shim[id]
        /\ bound <=> "bound" \in shim[id]
        /\ imported \/ bound => "jetty" \in shim[id]
    BY Owned DEF TypeOK, NativeTypes
  <2>5. refusals[id] >= Before /\ Reached(pc, refusals[id])
    BY <1>3 DEF Retried
  <2>6. \A f : Refused(f) => refusals'[id] = refusals[id] + 1
    BY <2>4, RefusedCounts
  <2>7. Before \in {0, 1}
    OBVIOUS
  <2> HIDE DEF Before
  <2>8. CASE refusals'[id] = refusals[id] + 1
    BY <2>4, <2>5, <2>7, <2>8
  <2>9. CASE Unbind /\ refusals' = refusals /\ ~bound'
    BY <2>5, <2>9 DEF Unbind
  <2>10. CASE Unimport /\ refusals' = refusals /\ UNCHANGED flags /\ (bound \/ ~imported)
    BY <2>5, <2>10 DEF Unimport, bound, imported
  <2>11. CASE Unimport /\ refusals' = refusals /\ ~bound' /\ ~imported'
    BY <2>5, <2>11 DEF Unimport
  <2>12. CASE Delete /\ refusals' = refusals /\ (bound \/ imported)
    BY <2>5, <2>12 DEF Delete
  <2>13. CASE Unbind
    <3>1. \/ \E f : Refused(f)
          \/ Skips /\ ~bound
          \/ Fails(FALSE) /\ ~bound
          \/ Unbinds
      BY <2>4, <2>13 DEF Unbind, Calls, Busy, Unbindable, Has
    <3>2. \/ \E f : Refused(f)
          \/ refusals' = refusals /\ ~bound'
      BY <3>1 DEF Skips, Fails, Unbinds, nativeVars, bound
    <3> QED
      BY <2>6, <2>8, <2>9, <2>13, <3>2
  <2>14. CASE Unimport
    <3>1. \/ \E f : Refused(f)
          \/ (Skips \/ Fails(FALSE)) /\ (bound \/ ~imported)
          \/ Unimports /\ ~bound
      BY <2>4, <2>14 DEF Unimport, Calls, Busy, Unimportable, Has
    <3>2. \/ \E f : Refused(f)
          \/ refusals' = refusals /\ UNCHANGED flags /\ (bound \/ ~imported)
          \/ refusals' = refusals /\ ~bound' /\ ~imported'
      BY <3>1 DEF Skips, Fails, Unimports, nativeVars, bound, imported
    <3> QED
      BY <2>6, <2>8, <2>10, <2>11, <2>14, <3>2
  <2>15. CASE Delete
    <3>1. \/ \E f : Refused(f)
          \/ (Skips \/ Fails(FALSE)) /\ (bound \/ imported)
          \/ Deletes \/ KeepsJfr
      BY <2>4, <2>15 DEF Delete, Calls, Busy, Deletable, Has
    <3>2. ~Deletes
      BY DEF Deletes, raw
    <3>3. KeepsJfr => refusals'[id] = refusals[id] + 1
      BY <2>4 DEF KeepsJfr, TypeOK, NativeTypes
    <3>4. Skips \/ Fails(FALSE) => refusals' = refusals
      BY DEF Skips, Fails, nativeVars
    <3> QED
      BY <2>6, <2>8, <2>12, <2>15, <3>1, <3>2, <3>3, <3>4
  <2> QED
    BY <1>3, <2>13, <2>14, <2>15
<1>4. ASSUME stage \notin {"jetty", "handle"}, ~CloseReturns, ~DropReturns
      PROVE  stage' \notin {"jetty", "handle"}
  BY <1>4 DEF Next, Create, ImportAndBind, MarkReady, HandshakeFails, ConnBecomes, Post,
              Complete, Close, BeginClose, Drained, Unbind, Unimport, Delete, JettyDropped,
              HandleDropped, AllDropped, vars, callVars
<1>5. CASE stage \in {"jetty", "handle"} /\ HandleDropped
  BY <1>1, <1>5 DEF HandleDropped, AllDropped
<1>6. CASE UNCHANGED vars
  BY <1>6 DEF Retried, vars, connVars, callVars, wrVars, nativeVars, raw, bound, imported
<1>7. CASE stage \in {"jetty", "handle"} /\ Next
  <2>1. pc # "Idle" /\ pc # "Drain" /\ conn # "None"
    BY <1>7 DEF Shape
  <2> QED
    BY <1>2, <1>3, <1>5, <1>7, <2>1
       DEF Next, Create, ImportAndBind, MarkReady, HandshakeFails, ConnBecomes, Post,
           Complete, Close, Drained
<1> QED
  BY <1>1, <1>2, <1>4, <1>6, <1>7

\* LeakExplained: a dropped Jetty keeps its reason, and the last Drop gives one.
LEMMA LeakStep ==
  ASSUME TypeOK, Shape, HandleOwns, WrsEncoded, Retried, LeakExplained, [Next]_vars
  PROVE  LeakExplained'
<1> USE DEF TypeOK, NativeTypes, WrTypes
<1> DEFINE Same(j) == /\ "wrapper" \in shim'[j] => "wrapper" \in shim[j]
                      /\ count'[j] = count[j] /\ refusals'[j] = refusals[j]
<1>1. ASSUME NEW op \in OperationType, NEW s \in Slots, Post(op, s)
      PROVE  id' = id /\ \A j \in Jetties : j # id => Same(j)
  BY <1>1 DEF Post, connVars, shimVars, nativeVars
<1>2. ASSUME NEW w \in wrs, Complete(w)
      PROVE  id' = id /\ \A j \in Jetties : j # id => Same(j)
  <2>1. w.tok.conn = id
    BY <1>2, CtxFromEncoded DEF Complete, Routes, CtxIdentifies
  <2> QED
    BY <1>2, <2>1 DEF Complete, EndWr, shimVars, nativeVars
<1>3. CASE Create
  <2>1. \A j \in Jetties : j # id' => Same(j)
    BY <1>3 DEF Create, shimVars, wrVars
  <2>2. id = 0
    BY <1>3 DEF Create, Shape
  <2> QED
    BY <2>1, <2>2 DEF LeakExplained, Wrappers, Jetties
<1>4. CASE Control \/ ImportAndBind \/ UNCHANGED vars
  <2>1. id' = id /\ \A j \in Jetties : j # id => Same(j)
    BY <1>4, WrsFramed, NativesFramed
       DEF Control, MarkReady, HandshakeFails, ConnBecomes, Close, Drained, CloseReturns,
           DropReturns, JettyDropped, ImportAndBind, Sets, vars, connVars
  <2> QED
    BY <2>1 DEF LeakExplained, Wrappers
<1>5. CASE Unbind \/ Unimport \/ Delete
  <2>1. id' = id /\ \A j \in Jetties : j # id => Same(j)
    BY <1>5, WrsFramed, CallHasJetty
       DEF Unbind, Unimport, Delete, Skips, Busy, Refused, Fails, Unbinds, Unimports, Unsets,
           Deletes, KeepsJfr, connVars, shimVars, nativeVars
  <2> QED
    BY <2>1 DEF LeakExplained, Wrappers
<1>6. CASE HandleDropped
  <2>1. id \in Jetties /\ stage = "handle" /\ pc = "Done"
    BY <1>6, CallHasJetty DEF HandleDropped
  <2>2. raw /\ count[id] = 0 => refusals[id] >= 2
    BY <2>1 DEF Retried
  <2>3. id # 0
    BY <2>1 DEF Jetties
  <2>4. UNCHANGED <<shim, count, refusals>>
    BY <1>6 DEF HandleDropped, AllDropped, shimVars, nativeVars
  <2>5. \A j \in Wrappers : count[j] # 0 \/ refusals[j] >= 2
    BY <2>2, <2>3 DEF LeakExplained, HandleOwns, Wrappers, Has
  <2> QED
    BY <2>4, <2>5 DEF LeakExplained, Wrappers
<1> QED
  BY <1>1, <1>2, <1>3, <1>4, <1>5, <1>6 DEF Next, Control, LeakExplained, Wrappers

-----------------------------------------------------------------------------
\* The inductive invariant holds in every reachable state.
THEOREM Invariance == Spec => []IInv
<1>1. Init => IInv
  BY InitInv
<1>2. ASSUME IInv, [Next]_vars
      PROVE  IInv'
  <2>1. TypeOK' /\ Shape'
    BY <1>2, ControlTypesStep, NativeTypesStep, WrTypesStep, ShapeStep DEF IInv, TypeOK
  <2>2. HandleOwns' /\ FlagsAgree' /\ NativeOrder'
    BY <1>2, HandleStep, NativeOrderStep DEF IInv
  <2>3. WrsEncoded' /\ TracksOwn'
    BY <1>2, WrsEncodedStep, TracksOwnStep DEF IInv
  <2>4. IsFiniteSet(wrs)' /\ CountsExact'
    BY <1>2, WrCountsStep, WrapperCountStep DEF IInv, CountsExact, WrCounts
  <2>5. WrsKeepNatives' /\ LeakExplained' /\ Retried'
    BY <1>2, WrsKeepStep, LeakStep, RetriedStep DEF IInv
  <2> QED
    BY <2>1, <2>2, <2>3, <2>4, <2>5 DEF IInv
<1> QED
  BY <1>1, <1>2, PTL DEF Spec

\* Every variable keeps its type, and the counters of the shim stay natural numbers.
THEOREM TypeCorrect == Spec => []TypeOK
BY Invariance, PTL DEF IInv

\* The flags of UrmaJetty tell the truth about the wrapper, and the wrapper about
\* the provider: no retried close destroys an object twice, or one still needed.
THEOREM TeardownAgrees == Spec => []LayersAgree
<1>1. IInv => LayersAgree
  BY DEF IInv, LayersAgree
<1> QED
  BY <1>1, Invariance, PTL

\* The counters that guard the shim's calls count what is there.
THEOREM CountersExact == Spec => []CountsExact
BY Invariance, PTL DEF IInv

\* A live WR never loses its Jetty, its target or its binding.
THEOREM LiveWrsSafe == Spec => []WrsKeepNatives
BY Invariance, PTL DEF IInv

\* user_ctx tells every live WR from every other, whatever the widths of its fields.
THEOREM CtxUnique == Spec => []CtxIdentifies
<1>1. IInv => CtxIdentifies
  BY CtxFromEncoded DEF IInv
<1> QED
  BY <1>1, Invariance, PTL

\* A Jetty that outlives its connection has a WR, or was refused twice.
THEOREM LeaksExplained == Spec => []LeakExplained
BY Invariance, PTL DEF IInv

====
