---- MODULE SlotOwnership ----
(***************************************************************************)
(* What the buffer pool promises about the memory of a slot: the device    *)
(* touches it only while it owns it, and it comes back to the pool only    *)
(* after the device has stopped.                                           *)
(***************************************************************************)
CONSTANT Slots

VARIABLES owner,  \* who may use each slot: the pool, the application, the device
          active  \* the slots the device may read or write right now

vars == <<owner, active>>

Init == owner = [s \in Slots |-> "Pool"] /\ active = {}

Take(s) ==
  /\ owner[s] = "Pool"
  /\ owner' = [owner EXCEPT ![s] = "App"] /\ UNCHANGED active

Give(s) ==
  /\ owner[s] = "App"
  /\ owner' = [owner EXCEPT ![s] = "Pool"] /\ UNCHANGED active

Post(s) ==
  /\ owner[s] = "Pool"
  /\ owner' = [owner EXCEPT ![s] = "Device"] /\ active' = active \union {s}

Finish(s) ==
  /\ s \in active
  /\ active' = active \ {s} /\ UNCHANGED owner

Reclaim(s) ==
  /\ owner[s] = "Device" /\ s \notin active
  /\ owner' = [owner EXCEPT ![s] = "Pool"] /\ UNCHANGED active

Next == \E s \in Slots : Take(s) \/ Give(s) \/ Post(s) \/ Finish(s) \/ Reclaim(s)

Spec == Init /\ [][Next]_vars

\* The device is never active on memory it does not own.
ActiveIsOwned == \A s \in active : owner[s] = "Device"
====
