---- MODULE BufferPool ----
(***************************************************************************)
(* The slots of UrmaBufferPool (src/src/buffer.rs) as operators on a       *)
(* function from slot index to slot state.  A pool is one registered       *)
(* Segment cut into TxCount transmit slots followed by RxCount receive     *)
(* slots.  Offsets and bytes are abstracted: slot s stands for its memory. *)
(***************************************************************************)
EXTENDS Integers

CONSTANTS TxCount,  \* config.tx_slot_count
          RxCount   \* config.rx_slot_count

ASSUME PoolAssumption == TxCount \in Nat \ {0} /\ RxCount \in Nat \ {0}

Slots == 0 .. (TxCount + RxCount - 1)

OpType == {"Send", "Recv"}

\* The kind of a slot is the only operation a WR on it may have.
OpOf(s) == IF s < TxCount THEN "Send" ELSE "Recv"

\* Posted, Completed and Leased of the source enum are never assigned.
SlotState == {"Free", "Allocated", "PostedRecv", "RecvCompleted",
              "SendPosted", "SendCompleted"}

Posted(op) == IF op = "Send" THEN "SendPosted" ELSE "PostedRecv"
Completed(op) == IF op = "Send" THEN "SendCompleted" ELSE "RecvCompleted"

InitPool == [s \in Slots |-> "Free"]

\* The slot that allocate(kind) picks: the lowest free index of that kind.
FirstFree(pool, op, s) ==
  /\ OpOf(s) = op /\ pool[s] = "Free"
  /\ \A u \in Slots : OpOf(u) = op /\ pool[u] = "Free" => s <= u

Allocate(pool, s) == [pool EXCEPT ![s] = "Allocated"]

\* An illegal transition is an Err and leaves the slot as it is.
Transition(pool, s, from, to) ==
  IF pool[s] = from THEN [pool EXCEPT ![s] = to] ELSE pool

MarkNothing(pool, s) == pool
MarkPosted(pool, s) == Transition(pool, s, "Allocated", Posted(OpOf(s)))

RollbackKeepsPosted(pool, s) == pool
RollbackPost(pool, s) == Transition(pool, s, Posted(OpOf(s)), "Allocated")

\* complete_send, complete_error and the accepting path of complete_recv.
Complete(pool, s, op) == Transition(pool, s, Posted(op), Completed(op))

ReleaseAny(pool, s) == [pool EXCEPT ![s] = "Free"]
Release(pool, s) ==
  IF pool[s] \in {"Allocated", "RecvCompleted", "SendCompleted"}
  THEN [pool EXCEPT ![s] = "Free"] ELSE pool
====
