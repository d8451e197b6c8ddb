------------------------------ MODULE SlotStore ------------------------------
(***************************************************************************)
(* What the boot control HAL promises its clients, with no partition,      *)
(* buffers or failures in sight: one slot table that every call updates    *)
(* atomically.  `durable' is the table a power cut falls back to.  It is   *)
(* always a table the store held at some moment, never a mixture of two.   *)
(***************************************************************************)
EXTENDS LibExbc

VARIABLES
  table,     \* the slot table the HAL's clients see
  durable,   \* the slot table that survives a power cut
  current    \* the slot this boot runs from (NoSlot: suffix not recognised)

vars == <<table, durable, current>>

Init ==
  /\ table = reset_slot_info
  /\ durable = table
  /\ current \in Slots \cup {NoSlot}

Update(call) ==
  /\ call.op = "MarkBootSuccessful" => call.slot = current
  /\ table' = Updated(call, table, current)
  /\ UNCHANGED <<durable, current>>

Flush ==
  /\ durable' = table
  /\ UNCHANGED <<table, current>>

\* A reboot keeps the table, loses what was not yet durable, or finds it damaged.
Reboot ==
  /\ current' \in Slots \cup {NoSlot}
  /\ table' \in {table, durable, reset_slot_info}
  /\ durable' = table'

Next ==
  \/ \E call \in UpdateCall : Update(call)
  \/ Flush
  \/ Reboot

Spec == Init /\ [][Next]_vars

=============================================================================
