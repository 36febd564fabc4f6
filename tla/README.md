# Verification of urma-transport-lab

TLA+ models of `urma-transport-lab`, the TLC configurations that check them on
small instances, and proofs checked by TLAPS. The repository is a Rust prototype
of message and file transport over URMA: it binds liburma through a small C shim,
creates one native runtime per process, connects two processes (a *parent* and a
*child*) by a TCP handshake and moves messages between them with posted work
requests (WRs) and polled completions.

Paths below are relative to the repository (`src/buffer.rs`, `docs/...`).

## 1. Inventory

| Component | State | Operations | Interacts with |
|---|---|---|---|
| Buffer pool, `src/buffer.rs` | state and kind of every slot of one registered Segment | allocate, release, mark_posted, rollback_post, complete_send / recv / error | used by connection and poller; its memory is shared with the device |
| Completion poller, `src/completion.rs`, `src/jfc.rs` | `outstanding` (slot id -> WR handle), counters per direction, statistics, connection id | track, poll_once, route | polls the two JFCs, completes native WRs, moves slots |
| Connection, `src/connection.rs` | `ConnectionState`, pending messages, receive credit, poller, Jetty | handshake transitions, recv_ready, send, poll_once, wait_for_message, drain_completions, close, Drop | everything on the data path |
| WR tokens and credit, `src/wr.rs` | ever_posted | pack and unpack the 64 bits of `user_ctx` | the poller decides with it which WR a record belongs to |
| Jetty, `src/jetty.rs` | imported, bound | create, import, bind, mark_error, post, close, Drop; descriptor to and from its wire form | the shim's wrapper, and through it JFR, Jetty, target and binding of the provider |
| Runtime, `src/runtime.rs` | the process guard `ACTIVE`, native handles, pool, poisoned, next connection id | start, rollback, create_connection, shutdown, Drop | the guard is shared by the threads of the process |
| Native handles and shim, `src/ffi/` | raw pointers; pointers, bound flag, child and WR counters of every wrapper | open, create, delete, post, poll, close, and the Drop of every handle | liburma |
| OOB handshake, `src/oob.rs` | position in HELLO, HELLO_ACK, READY, READY_ACK | parent_handshake, child_handshake | two processes over TCP |
| Ping-pong programs, `src/bin/` | round | run_ping_pong on both sides | two connections and the provider between them |
| File transfer, `src/transfer.rs`, `src/bin/` | receiver phase, sequence, bytes received, hash | on_message, the sender's two passes over the file | connection, file system |
| Wire messages, `src/message.rs` | - | encode and decode of version 2 and of integration version 3 | what a poll decodes, what send encodes |
| Digests, errors | - | hash, convert, format | pure |

### What is hard here

* **Asynchrony.** The Rust side is single-threaded, but the provider completes WRs
  at any time and in any order, and memory belongs to it meanwhile.
* **Shared queues.** All connections of a runtime share two JFCs and one pool. What
  a dropped connection leaves in them is found by the next one.
* **Partial failure.** Posts, polls, `urma_modify_jetty`, every delete and
  `urma_uninit` may fail; a poll may fail half-way through a batch. Each handle's
  `Drop` closes again what an explicit close did not.
* **Ordering between processes.** A receiver's completion and the sender's
  completion of the same message are unrelated in time.
* **Layers of teardown.** A failed close is tried again by the Drop of the connection,
  of its `UrmaJetty` and of the `JettyHandle`, each steered by flags of its own, over a
  wrapper that refuses calls by its counters and frees itself only at the end.
* **Numbers and lengths.** A token shares 64 bits between four fields; a frame has lengths
  inside lengths, and two versions share one header.
* **Deadlines.** wait, drain and close loop until a deadline passes.
* **Threads.** `UrmaRuntime` stays on one thread, but any thread may start one:
  only the atomic guard keeps them apart.

`PROJECT.json` lists each hazard at its line with the properties aimed at it.

### What makes each part correct

* pool: memory comes back only when no WR can reference it; no slot is lost;
* poller: the table is exactly the set of live WRs; each completion is routed once
  and to its own WR; none is lost;
* connection: calls return; close drains; whatever close cannot finish leaves the
  native objects that WRs need;
* runtime: one owner of liburma per process; nothing is released twice or in the
  wrong order; the guard outlives an uncertain provider;
* ping-pong: a receive credit is posted before the peer sends; both sides end;
* Jetty: flags, wrapper and provider agree after any mixture of failed and retried
  calls; WRs keep what they point to; nothing is left behind that a retry could have freed;
* tokens: `user_ctx` leads back to its WR and to no other;
* wire messages: a decoder takes exactly what its encoder writes, and never a frame of
  the other version;
* handshake: a side that may send has a peer whose RECV is posted; neither waits for ever;
* transfer: a receiver that reports success has written exactly the sent bytes.

## 2. Modules

| Module | Models | Composes |
|---|---|---|
| `BufferPool` | the slot operators of `UrmaBufferPool` | |
| `SlotOwnership` | abstract: who may use a slot's memory (pool, application, device) | |
| `DataPlane` | poller, connection and pool of one process over the shim's WR accounting; the provider is the environment | `BufferPool`; implements `SlotOwnership` |
| `DataPlaneProofs`, `OwnershipProofs` | theorems about `DataPlane` | |
| `WrToken` | the packing of `user_ctx` | |
| `JettyLifecycle` | a Jetty from creation to the last Drop: handle, shim and provider | `WrToken` |
| `JettyProofs` | theorems about both | |
| `RuntimeLifecycle` | runtimes, the guard, rollback, shutdown and Drop | |
| `RuntimeProofs` | theorems about `RuntimeLifecycle` | |
| `PingPong`, `PingPongProofs` | both programs, four JFCs and the provider between them | |
| `OobHandshake`, `OobProofs` | both handshakes of `src/oob.rs` over one TCP stream | |
| `WireMessages`, `WireProofs` | the codecs of `src/message.rs` and of the Jetty descriptor | |
| `VerifiedCopy` | abstract: what a transfer promises its receiver | |
| `FileTransfer`, `CopyProofs` | the file mode of both programs and `ReceiveState` | implements `VerifiedCopy` |
| `MC...` | fault sets and model values for TLC | |

### DataPlane

`slots` is the pool, `outstanding`, `outSend` and `outRecv` are the poller's table
and counters, `wrs` the WRs that the shim counts, `posted` those the provider still
works on, `sendCq` and `recvCq` the two JFCs as sets of records. A record is a
token (connection id, operation, slot) and its kind:

| kind | in `route` |
|---|---|
| ok | status, queue, flags and opcode agree |
| error | status is not success, for example a flush |
| mismatch | the record disagrees with its token about queue, flags or opcode |
| badFrame | fine for the poller; its payload does not decode as a message |
| badLength | a RECV whose completion length is zero or exceeds the slot |
| done | a flush or suspend marker, whose token is not valid |

An API call in progress is the pair `call`, `pc`. Each place where the code talks
to the device is a step of its own (the two polls of `poll_once`, each routed
record, `mark_error`, the close of the Jetty), because the provider may act in
between; everything else of a handler is one action. A JFC being a set, a poll
takes any `Batch` records of it and routes them in any order: this includes
whatever order the provider produces. `posted` is a set too; a slot has at most
one WR, so a WR is identified by its token.

`close(self)` runs `close_inner` and then `Drop`, which runs it again unless the
connection is Closed: actions `Close`, `DropAfterClose`, `DropFields`.
`DropFields` leaks the tracked WR handles as `Drop for WrHandle` does, and lets
`Drop for UrmaJetty` try the deletion once more.

The data that is left out: bytes, lengths, offsets, statistics, the digest of
messages. Slots are allocated by `FirstFree`, the code's linear search.

### RuntimeLifecycle

Each member of `Runtimes` is one `UrmaRuntime` value from start to drop. A
rollback or shutdown is a `plan`, the list of close calls still to make: explicit
ones, whose errors count, and those of the handles' `Drop`, whose errors are
discarded. `held` are the handles whose pointer is `Some`, `objs` the native
objects that exist; the two differ only when the shim freed an object and the
handle kept its pointer. The action `CloseCall` is one close of one handle,
including the shim's refusal (`EBUSY`) and each failure inside it.

### WrToken and JettyLifecycle

`Encode` and `Decode` take a field of n bits as a digit below its span 2^n; the spans are
constants, so the instance for TLC has small ones and the theorem holds for all.
`DataPlane` uses a token as a record; `CtxIdentifies` is what allows that.

`JettyLifecycle` follows one connection after another through three layers. `flags` are
those of `JettyHandle` and `UrmaJetty` (pointer present, imported, bound), `shim[j]` the
fields set in the wrapper of Jetty j, `objs[j]` what the provider holds for it. `count`,
`wrCount` and `jettyCount` are counters of the shim, with the guard of their decrement
(`Decrement`). `refusals` counts what the provider has refused and is history only.

A teardown is the pair `stage`, `pc`. The stages are `close(self)`, the `Drop` of the
connection, of `UrmaJetty` and of `JettyHandle`; each runs `Unbind`, `Unimport` and
`Delete` again over what is left. `Calls` is the condition under which a stage makes a
call (the handle's Drop makes all three), `Busy` the shim's refusal, `Refused` the
provider's. `KeepsJfr` is the deletion that fails between Jetty and JFR: the wrapper lives
on with its JFR alone, and every call but another delete refuses it.

Here posts and completions only keep the counters and the table; their slots and records
are in `DataPlane`. `mark_error` has no effect on these layers other than to fail.

### WireMessages

A frame is a sequence of units: a field of fixed width is one unit, a byte of a text, a
digest or a payload is one unit. Lengths keep their meaning, widths do not matter. A body
is its numbers in wire order (`nums`) and its text, digest or payload (`text`); `NumsOf`,
`Counted` and `IsString` are the table of layouts of the two versions. `Encodable` and
`Decodes` are the checks of the two directions as the code has them, each in its own place.

`Send` writes what a program can put in a message; `Edit` then changes, drops or adds a
unit as the tests of `message.rs` do, with or without the header's length. All three
decoders look at every frame, since nothing on the wire says which one is meant.

### PingPong

`poll_once` is two steps, `PollSend` and then `WaitRecv` or `DrainRecv`, because the
provider may deliver between the two polls. The provider keeps the completion of
a SEND (`acked`) apart from the delivery of its message. As each end has one SEND at a
time, `out` and `acked` are the sets of ends that have one.

### OobHandshake

Each side is the list of its steps (`ParentSteps`, `ChildSteps`) and an index into it; 0
stands for a handshake that has failed. The stream is one sequence of frames per
direction. `finish_handshake` closes the stream on an error (`Fails`); a socket closed
with unread data, or a write to a closed one, resets it, and after a reset a reader
may or may not get what had arrived. `Exit` is the end of the process, after an error
or when the application is through, with everything that was posted.

A frame carries the transport its sender found in its device. Two builds may differ,
so that HELLO or HELLO_ACK does not pass the other's checks (`valid`).

### FileTransfer

A file is a sequence of blocks, and `Files` the contents it may have. SHA-256 is taken
as injective: the digest and length in Metadata are the content `hashed` in the first
pass. Each read of either pass is a step and returns one or more blocks, and `Rewrite`
may change the file between any two of them. As each side has one SEND at a time, a
SEND is its state (`tx`) and the message it carries. The receiver-not-ready retries of
the provider are needed here: the parent may send the next Data message before the
child has reposted.

`accept` is one action with a disjunct per arm that accepts; `Refuse` is all the others.
On success the child's verdict is its exit: `Flush` ends in Done.

## 3. Runs

| Run | Instance | Shows |
|---|---|---|
| `DataPlane_faults` | 1 send slot, 2 receive slots, 2 connections, batch 2; every fault that leaves something behind | `TypeOK`, `WrOwnsSlot`, `InFlightOnce`, `TrackedExactly`, `JettyOutlivesWrs`; refinement `ImplementsOwnership` |
| `DataPlane_credit` | 1 + 1 slots, 1 connection; every fault but refused lengths, flush markers and failing deletes; fair | `PostedSlotHasWr`, `NoLostCompletion`, `CallReturns`, `CleanClose` |
| `DataPlane_lost` | 1 + 2 slots, no faults | `NoLostCompletion` violated |
| `Runtime_guard` | 3 runtimes, both ends, every fault but `startBetween` | `TypeOK`, `OneRuntime`, `GuardCoversNative`, `SuccessMeansReleased` |
| `Runtime_doubleRelease` | 3 runtimes, `startBetween` | `OneRuntime` violated |
| `Runtime_uninit` | 2 runtimes, failing `urma_uninit` in close | `NoUseAfterFree` violated |
| `Jetty_teardown` | 2 Jetties, 3 slots, spans 3, 2, 3, 2; every fault | `TypeOK`, `LayersAgree`, `CountsExact`, `WrsKeepNatives`, `CtxIdentifies`, `LeakExplained` |
| `Wire_codecs` | payloads of 6 units, digests of 2, checksums below 12; 2 edits | `RoundTrip`, `Canonical` |
| `PingPong_credit` | 3 rounds, deadlines; fair | `TypeOK`, `CreditAhead`, `InStep`, `BothEnd` |
| `PingPong_rounds` | 2 rounds, no deadlines | `NeverFails` violated |
| `Oob_handshake` | 3 transports, one of them negative; failing natives, resets, builds that differ; fair | `TypeOK`, `ReadyPeer`, `ReadyTogether`, `FramesInStep`, `BothReturn`, `ChildFollows` |
| `FileTransfer_copy` | files of up to 3 blocks, 2 to a message, 1 rewrite; deadlines, failing I/O, posts and retries; fair | `TypeOK`, `ExactCopy`, `OnlyChangesRefused`, `NothingOutstanding`, `DeliveredToEnd`, `NoStandoff`, `BothEnd`; refinement `ImplementsCopy` |

### Bounds, and why they are enough

* Two receive slots and a batch of two: the smallest instance where records share
  a batch, so that an error on one can affect another, and where stale records of
  an earlier connection mix with those of the present one. Slots interact only
  through `FirstFree` and the batch; `SlotSafety` and `Tracking` hold for any number.
* Two connections: one to leave things behind and one to find them. Ids are
  never reused, so a third meets nothing that a second does not.
* `MaxPending` is one: no RECV is posted while a decoded message waits, which bounds
  `pending` by the number of receive slots.
* Three runtimes: a double release needs one to release twice, one to lose its
  guard and one to profit.
* Two Jetties: one that leaves things behind and one after it, which only the shared
  counters connect. Three slots with a slot field of two values: WRs of both directions at
  once, and a slot that the token has no room for. Connection ids of three values make
  the product of all spans no larger than needed; `TokenRoundTrip` holds for all spans.
* Two edits: one to break a frame and one to mend it into another that might pass (a unit
  added and a type changed, a version changed and a digest cut). `Texts` has valid and
  invalid values of both digests (a leading zero, the largest checksum and one more, a
  letter, a wrong length, bytes that are not UTF-8) and one text on each side of every limit.
* Three rounds: a first, a middle and a last one, the three cases of the reposting
  condition.
* Three transports: two that work and differ, one that no side can use. The number of
  frames is fixed by the protocol.
* Three blocks of two values, two to a message: files of no, one and several Data
  messages, full and short, and two files of one length that differ. One rewrite: a
  second only changes what the first one may already have changed to.

`CHECK_DEADLOCK FALSE` in all but the data plane's runs: the programs terminate.
The data plane can always go on by releasing a slot.

### Fairness

`DataPlane!FairSpec`: the thread inside a call keeps running (the loops yield,
never block); time passes, so a deadline is reached (weak fairness of `Expire`); and
the device flushes the WRs of a Jetty that was put in the error state, which is
what `urma_modify_jetty(ERROR)` is called for. It is not assumed that the
application calls anything, nor that a WR of a healthy Jetty completes.

`PingPong!FairSpec`: both programs run, the provider delivers, and a deadline that
is checked again and again is found passed at last (strong fairness, since
`TimesOut` is disabled between two checks).

`OobHandshake!FairSpec`: both threads run, and TCP delivers or reports the end or reset of
the stream. A host that vanishes without a word is outside of it: `src/oob.rs` sets no
timeout on the socket, so the other side would wait for ever.

`FileTransfer!FairSpec`: as for the ping-pong. That the provider gives up its retries is
not assumed; what ends a wait for a dead peer is the deadline.

## 4. What the code does otherwise

Four runs end in a violation on purpose; each contradicts a statement of the
repository quoted in `PROJECT.json`.

1. `DataPlane_lost`: `poll_once` (`src/completion.rs:121`) returns on the first record
   that is an error; the rest of the batch, already off the JFC, is lost. Those WRs
   stay outstanding, their slots stay posted and close can only time out.
2. `Runtime_doubleRelease`: `shutdown(self)` and the `Drop` after it both release the
   guard (`src/runtime.rs:337`); a runtime started in between loses it.
3. `Runtime_uninit`: `NativeRuntime::close` (`src/ffi/mod.rs:144`) keeps the pointer of a
   wrapper that the shim has freed when only `urma_uninit` failed.
4. `PingPong_rounds`: the next ping may arrive while the parent drains its pong, and
   `drain_completions` (`src/connection.rs:234`) makes that an error.

Two more observations have no run of their own, because no document promises otherwise:

* `complete_recv` (`src/buffer.rs:308`) refuses a length before it moves the slot, after the
  WR is gone: the slot cannot be released any more. With `"badLength"` left in
  `Survivable`, `DataPlane_credit` finds `PostedSlotHasWr` violated; `SlotsKept` below
  shows that it is the only cause of such a slot.
* `urma_lab_runtime_open` (`src/ffi/shim.c:103`) ignores a failing `urma_uninit`, and start
  then releases the guard as after a clean failure: the fault `openUninitFails`.

Where a passing run leaves one of these out, its fault set in the MC module says so.

## 5. Proofs

### The data plane

Proved for every number of slots, of connections, every batch size and every
fault set, from `PoolAssumption` (both slot counts positive, as `BufferPoolConfig`
requires) and `DataPlaneAssumption`:

| Theorem | Statement |
|---|---|
| `DataPlaneProofs!TypeCorrect` | `Spec => []TypeOK` |
| `DataPlaneProofs!SlotSafety` | `Spec => []WrOwnsSlot` |
| `DataPlaneProofs!Tracking` | `Spec => []TrackedExactly` |
| `DataPlaneProofs!SlotsKept` | `Spec => []PostedSlotHasWr`, when no length is refused |
| `OwnershipProofs!InFlight` | `Spec => []InFlightOnce` |
| `OwnershipProofs!JettySafety` | `Spec => []JettyOutlivesWrs` |
| `OwnershipProofs!OwnershipImplemented` | `Spec => ImplementsOwnership` |
| `OwnershipProofs!ActiveOwned` | `Spec => []Ownership!ActiveIsOwned` |
| `OwnershipProofs!ClosesForAReason` | `Spec => []CloseExplained` |
| `OwnershipProofs!OnlyCutsLose` | `Spec /\ [][~CutsBatch]_vars => []NoLostCompletion` |
| `OwnershipProofs!NoneLostAlone` | `Spec => []NoLostCompletion`, when a poll brings one record at most (`OneRecordPolls`) |

The first three come from one inductive invariant `IInv`. `TypeOK` is not inductive
alone: `outSend \in Nat` needs that a counter is at least one when a tracked WR
ends, hence `TrackedExactly`. That in turn needs that `track` never finds its token
in the table, hence that a slot which is not posted has no WR: `WrOwnsSlot`; and
that a new connection starts with no WR of its own id, hence that ids in use are
below `nextId`. `RouteFailed` and `RouteOk` recycle a slot whose WR ends in the same
step, so no other WR may be on it: the second conjunct of `WrOwnsSlot`. Lemmas cover
what a post (`PostStep`), the end of a WR (`EndWrStep`) and a failing poll do, and
`CountAdd` and `CountRemove` the cardinalities.

`PostedSlotHasWr` is inductive by itself once no record is a `badLength` one
(`NoBadLength`): every step that ends a WR moves its slot, and a failed post moves its slot back.

`FInv` adds what is in flight and the native Jetties. `JettyKept` is the link that
`JettyOutlivesWrs` lacks: a post needs the Jetty of the connection to exist, so a
connection has one until close deletes it, and then its last call is over.

The refinement maps a slot to its owner (`OwnerOf`: pool, application or device, by
the slot state) and the device's activity to the slots of `posted`. A post that
succeeds gives a free slot to the device, a completion of the provider is the device
ending its work; `route` gives the slot back, which the abstract protocol allows only when
the device is not active on it. That is where `InFlightOnce` is needed: the WR of the
record being routed is not in `posted`, and by `WrOwnsSlot` no other WR has its slot.

`NoLostCompletion` does not hold for all constants, and `DataPlane_lost` shows why. The theorems
say where the fault is: `CutsBatch` is a step of `poll_once` that returns an error with
records in hand besides the one that caused it, or over one that names no WR of the connection. A behaviour without such a step loses
nothing, whatever else fails (`PolledRoutes`: a record in hand belongs to a `poll_once`
that is still running; `CompletionKept`: every other step keeps each WR with the provider or
in a record). Under `OneRecordPolls` (one connection, and a batch of one record or JFCs that have no
more) no step cuts a batch; the constants of `DataPlane_credit` satisfy it.

`CloseExplained` is the safety half of `CleanClose`. It needs `DrainedFirst`: close deletes the
Jetty only when nothing is tracked any more.

### The runtime

Proved for any set of runtimes, from `RuntimeAssumption` (where shutdown may be called, and
which faults there are):

| Theorem | Statement | Faults |
|---|---|---|
| `TypeCorrect` | `Spec => []TypeOK` | any |
| `ContextOutlives` | `Spec => []ContextLast` | any |
| `SuccessReleases` | `Spec => []SuccessMeansReleased` | any |
| `GuardExclusive` | `Spec => []OneRuntime` | all but `startBetween` |
| `GuardComplete` | `Spec => []GuardCoversNative` | all but `startBetween` |
| `FreedOnce` | `Spec => []NoUseAfterFree` | all but `uninitFails` |

That the count of initialisations of liburma is a natural number is not inductive: a close
takes one away, so there must be at least as many as runtimes with a context (`Inits`,
by counting the set of those).

`ContextLast` and `SuccessMeansReleased` follow from `LInv`, which says of each runtime alone (`Local`) that while
no close has failed, the handles held are the objects that exist and the plan
still closes each of them, before it drops it (`Pending`). When the plan is used up
nothing exists. `ShutdownCloses` and `RollbackCloses` show that the two plans start
that way. `GInv` relates the runtimes: an owner of the guard is alone, and objects left by a
failed clean-up keep the guard for ever. A start between the two releases of one
shutdown breaks exactly this, which `Runtime_doubleRelease` shows.

`FreedOnce` rests on `PointersLive`: a handle that has a pointer has a wrapper. With `uninitFails` it is false, which
is the finding of `Runtime_uninit`. `ContextLast` has no run: the theorem says all of it.

### Tokens and Jetties

Proved for all widths of the four fields, every number of Jetties and slots and every set of
faults, from `SpanAssumption` (spans positive, room for the two operations) and
`JettyAssumption` (connection ids fit their field, as `create_connection` ensures):

| Theorem | Statement |
|---|---|
| `TokenRoundTrip` | a token that encodes fits the word, decodes, and to itself |
| `TypeCorrect` | `Spec => []TypeOK` |
| `TeardownAgrees` | `Spec => []LayersAgree` |
| `CountersExact` | `Spec => []CountsExact` |
| `LiveWrsSafe` | `Spec => []WrsKeepNatives` |
| `CtxUnique` | `Spec => []CtxIdentifies` |
| `LeaksExplained` | `Spec => []LeakExplained` |

`TokenRoundTrip` rests on `DivMod`, the quotient and remainder of q * b + r, applied once per
field. One invariant gives the rest. The counters are exact because `Encode` is injective
(`CtxInjective`): two posts would otherwise share an entry of `tracked`. `WrsKeepNatives`
needs the exact counters, since it is a counter that makes the shim refuse an unbind or a
delete; the counters need `Shape` (which `stage` and `pc` go together, which connection
state has which flags) and `HandleOwns` (the pointer and the wrapper go together).
`LeakExplained` needs `Retried`: when `UrmaJetty`'s own close is over and the wrapper still
exists without WRs, one call has been refused already, and the same holds again for the
handle's.

### The wire forms

Proved for every payload limit, digest length, range of checksums, set of messages and edits,
from `WireAssumption` (the limits are natural numbers, digests not empty):

| Theorem | Statement |
|---|---|
| `WireRoundTrip` | `Spec => []RoundTrip` |
| `WireCanonical` | `Spec => []Canonical` |

The state invariant is only that a frame is a sequence of numbers and that an unedited frame
is what the encoder wrote. The content is in lemmas about all frames and messages:
`Join` and `Cut` take a sequence apart and join it again, `Layout` says where the parts of a
payload are, `EncodeDecode` that decode undoes encode, and `DecodeEncode` that a frame that is
accepted is the encoding of what it is read as. The last one has no reference to how the frame came
about, so the bound on edits limits TLC and not the theorem. `Decimal` is a
function applied to the same text on both sides and is never evaluated in the proofs.

### Ping-pong

Proved for any number of rounds, with or without deadlines, from `PingPongAssumption`:

| Theorem | Statement |
|---|---|
| `RangesKept` | `Spec => []TypeOK` |
| `CreditPosted` | `Spec => []CreditAhead` |
| `RoundsTogether` | `Spec => []InStep` |
| `NobodyWaitsInVain` | `Spec => []NoStandoff` |
| `EndsClean` | `Spec => []CleanEnd` |
| `OvertakenOnly` | `Spec => []OnlyOvertaken`, without deadlines |
| `OneRoundSucceeds` | `Spec => []NeverFails`, without deadlines, for one round |
| `BoundedWork` | `Spec => [](WorkLeft \in Nat) /\ [][Descends]_vars` |
| `WorkAtFirst` | `Init => WorkLeft = 40 * Rounds + 24` |

The argument counts. `Pings` are the messages that the child has sent, and each is consumed by the
parent or is under way (`Arriving`); the same holds for the pongs the other way. `Held` is the
receive credit of an end in any state, and `Ahead` what it keeps for the next round. The child
alternates strictly; the parent may be asked for the next round while it drains its pong, so
its counts have one case per phase (`ParentAsks`, `ParentAnswers`, `ParentDrains`,
`ParentGaveUp`). `TypeOK` with its bounds follows from the counts.

The counts also say that two ends that both wait for a message would have one on the way:
`NobodyWaitsInVain` (`CountingMeets`). `OvertakenOnly` is what remains of "ping-pong succeeds" in
the code as it is: `drain_completions` fails when the next ping overtakes the completion of the
pong (`PingPong_rounds`); nothing else fails without a deadline, and with one round nothing
fails at all. `CleanEnd` says that a program that has returned Ok leaves nothing behind; besides the
counts it needs that a parent that is done has had its SEND reported (`Drains`).

`WorkLeft` weighs the steps left to each program, the messages under way and the completions
not yet polled. Every step lowers it except a poll of an empty JFC. With `NobodyWaitsInVain`
this is `BothEnd` but for the fairness of threads, device and clock: no program stops before its end, and none goes on for ever except by
polling for what does not come.

### The handshake

Proved for every set of transports and every fault, from `HandshakeAssumption`:

| Theorem | Statement |
|---|---|
| `Typed` | `Spec => []TypeOK` |
| `PeerIsReady` | `Spec => []ReadyPeer` |
| `NotAlone` | `Spec => []ReadyTogether` |
| `FramesMeet` | `Spec => []FramesInStep` |
| `NobodyBlocked` | `Spec => []NoStandoff` |
| `ChildNeverFails` | `Spec => []ChildSure` |
| `BoundedSteps` | `Spec => [](Left \in 0 .. 21) /\ [][Left' < Left]_vars` |

`Local` ties what a side has set up to its position. `Abreast` relates the two positions: a
frame that was read bounds its sender's position from below, and a side that waits for an
answer bounds its peer's from above. `Inboxes` says that at most one frame is under way, and
which one by the positions; hence a frame meets the step that expects it, and READY has
crossed before anybody may send.

A second invariant, `MInv`, says the converse: while nobody has reset the stream, a frame that one
position shows to be written and the other not to be read is there (`NotLost`), and a side closes
its end only when it fails or is through (`ClosedOver`). So of two sides in the
handshake one can go on; and READY and READY_ACK carry nothing that their reader could refuse
(`PlainFrames`), so that a child whose peer is ready gets through.
`Left` counts the steps of both. `NobodyBlocked` and `BoundedSteps` together are `BothReturn`, and
with `ChildNeverFails` they are `ChildFollows`, but for the fairness of the two threads.

### The file transfer

Proved for all files, all ways the reads split them, any number of rewrites and every
fault, from `FileTransferAssumption`:

| Theorem | Statement |
|---|---|
| `CopyProofs!TypeCorrect` | `Spec => []TypeOK` |
| `CopyProofs!CopyExact` | `Spec => []ExactCopy` |
| `CopyProofs!CopyImplemented` | `Spec => ImplementsCopy` |
| `CopyProofs!NothingLeft` | `Spec => []NothingOutstanding` |
| `CopyProofs!EndReachesChild` | `Spec => []DeliveredToEnd` |
| `CopyProofs!RefusesOnlyChanges` | `Spec => []OnlyChangesRefused` |
| `CopyProofs!NobodyWaitsInVain` | `Spec => []NoStandoff` |
| `CopyProofs!FailsOnlyByFaults` | `Spec => []NoFailures`, when `Faults = {}` |
| `CopyProofs!FaultlessCopies` | `Spec => []SettledDone`, when `Faults = {}` |
| `CopyProofs!BoundedWork` | `Spec => [](WorkLeft(n) \in Nat) /\ [][Shrinks(n)]_vars`, for files of at most n blocks |
| `CopyProofs!WorkAtFirst` | `Init => WorkLeft(n) = MaxChanges + 11 * n + 33` |

`Types` bounds what is posted, completed and pending together (`Room`), which is how the
queues stay bounded without a rule that says so. `FirstPass` says what `hashed` is during the
first pass and that it stays afterwards, `AllFaithful` that Metadata and End carry it wherever
they are, and `ReceiverData` that the receiver was promised it and has written what it counts. The refinement maps the output file
and the verdict; every action but `Accept` and the failures is a stutter.

`NothingLeft`, `EndReachesChild` and `RefusesOnlyChanges` need to know where the two programs stand. `Idle` says what is posted or
waits at each program position, and that an End whose SEND has completed is in the child's hands
or first in its queue. `Flow` holds while nobody has rewritten the file: a message is in the
child's hands, in the child's queue or in the parent's SEND, and these three, in this order, form
a chain from the number and file position the receiver expects to the ones the sender has reached
(`Chain`). Accepting takes the first link, delivery moves a link from the SEND to the queue, and a
read adds one at the end. The lemmas that say so (`ChainTaken`, `ChainDelivered`, ...) are about
constants, so each step of the two programs is one use of a lemma; a refusal would contradict the
first link.

`NoStandoff` needs one more invariant, `Turns`: where the request is while it is not answered
(`RequestOnce`), that a child that waits has a RECV posted or its message (`Ready`), and that the
parent's last SEND is outstanding while it drains (`LastSend`). `Undisturbed` says that without
faults no SEND fails and the parent gets nothing but the request, which gives `NoFailures`. `SettledDone` puts these together: a transfer without faults, of a file that
nobody rewrites, can come to rest only with both programs done and the output the file.
That it comes to rest is `BoundedWork`: every step lowers `WorkLeft(n)`, also when faults
happen. The length n is not a constant of the model; any bound on the files will do.

### Only model-checked

* the properties that the code violates;
* all liveness (`CallReturns`, `CleanClose`, `BothEnd`, `BothReturn`, `ChildFollows`), which the
  prover cannot treat. The safety half of those of the handshake, ping-pong and file transfer is
  proved: nobody waits in vain, and the work left only shrinks. Of `CleanClose` it is
  `CloseExplained`. `CallReturns` has no such theorem: a call of the data plane ends by its
  deadline, which is fairness of the clock.

## 6. Not modelled

* `digest.rs`, `error.rs`, `lib.rs`, `build.rs`, argument parsing and logging: library calls,
  types or I/O. SHA-256 is taken as injective where it is used.
* Counters that nothing reads: `CompletionStats` and `ReceiveCredit.posted`.
* The layout of native structures in `shim.c` and the ABI checks: data conversion.
* `validate_ping`, `validate_pong` and `wait_for_peer_close`: comparisons with a constant, and
  a function nobody calls.
* liburma and the device are the environment: what the code can observe of them.

## 7. Plan

1. The modules of section 2, their runs and the theorems of section 5: done.
2. Left, in this order: a bound on the steps of one call of the data plane between two readings of
   the clock, which is the safety half of `CallReturns`; a bound on the teardown of
   `JettyLifecycle`, as for the handshake; an abstract ping-pong (a counter of rounds that both ends
   have finished) that `PingPong` implements.
3. If `poll_once` comes to route every record before it returns the first error,
   `NoLostCompletion` holds without a hypothesis: `OnlyCutsLose` is then its proof.
