----------------------------- MODULE BootControl -----------------------------
(***************************************************************************)
(* The boot control HAL 1.2 (boot/v1): Exynos_BootControl between the slot *)
(* table of lib_exbc and the /slotinfo partition, which Slot_Loader reads  *)
(* and writes through Exynos_Bootloader_Message.                           *)
(*                                                                         *)
(* Every call loads the table from the partition, works on it and, if it   *)
(* changes it, saves it again.  The device may be rebooted or lose power   *)
(* between any two of these steps, each transfer may fail, and nothing in  *)
(* the HAL forces the written block out of the kernel's page cache.        *)
(***************************************************************************)
EXTENDS LibExbc

CONSTANTS
  MaxFds,    \* bound: descriptors the process may hold before open() fails
  Asked      \* bound: the slots clients ask about

ASSUME FdsAssumption == MaxFds \in Nat \ {0}
ASSUME AskedAssumption == Asked \subseteq Slots

VARIABLES
  page,      \* the slotinfo block as read() and write() see it (page cache)
  medium,    \* the slotinfo block on the storage medium
  si,        \* BootControl::si, the slot table in memory
  inited,    \* exynos_slot_initialized
  current,   \* GetCurrentSlot()
  call,      \* the update call between its load and its save, or Idle
  lastOk,    \* the last finished call succeeded
  answer,    \* what the call that finished last returned, if it was a query
  leaked     \* descriptors open_message lost because nobody closed them

vars == <<page, medium, si, inited, current, call, lastOk, answer, leaked>>

Idle == [op |-> "Idle"]
NoAnswer == [op |-> "None"]
NoInfo == [op |-> "Uninitialised"]

SlotData ==
  [magic: {"EXBC", "other"}, metadata: [Slots -> SlotMetadata],
   merge_status: MergeStatus, ota_flag: {0, 1}]

\* A block whose magic is gone; what else it holds is never looked at.
Damaged ==
  [magic |-> "other", metadata |-> reset_slot_info.metadata,
   merge_status |-> MergeNone, ota_flag |-> 0]

verify_slot(data) == data.magic = "EXBC"

Encode(info) ==
  [magic |-> "EXBC", metadata |-> info.metadata,
   merge_status |-> info.common.merge_status, ota_flag |-> info.common.ota_flag]

\* Mutant: the field Boot Control 1.2 added is not carried over.
Decode_WithoutOta(data) ==
  [metadata |-> data.metadata,
   common |-> [merge_status |-> data.merge_status, ota_flag |-> 0]]

Decode(data) ==
  [metadata |-> data.metadata,
   common |-> [merge_status |-> data.merge_status, ota_flag |-> data.ota_flag]]

\* The slot table a block stands for: a damaged block counts as the reset table.
Contents(data) == IF verify_slot(data) THEN Decode(data) ELSE reset_slot_info

-----------------------------------------------------------------------------
(***************************************************************************)
(* The message device.  A transfer that fails returns before               *)
(* close_message(), and the next open_message() overwrites the descriptor. *)
(* Slot_Loader's own copy of the block is filled before every use of it,   *)
(* so it is not a variable.                                                *)
(***************************************************************************)
open_message == leaked < MaxFds

\* Mutant: a failing open() is taken for a descriptor like any other.
TransferFails_OpenUnchecked == leaked' \in {leaked, leaked + 1}

\* A transfer of the 32-byte block, which never spans two sectors, fails whole.
TransferFails ==
  \/ leaked' = leaked                            \* open_message failed
  \/ open_message /\ leaked' = leaked + 1        \* the transfer itself failed

\* Mutant: close_message() is forgotten on the good path too.
TransferDone_NoClose == open_message /\ leaked' = leaked + 1

TransferDone == open_message /\ leaked' = leaked

write_slot_data(data) ==
  /\ TransferDone
  /\ page' = data

write_fails ==
  /\ TransferFails
  /\ UNCHANGED page

-----------------------------------------------------------------------------
(***************************************************************************)
(* Load_Slot() returning true, and returning false.  A damaged block is    *)
(* replaced by the reset table at once, in memory even if the write fails. *)
(***************************************************************************)
Load_Slot ==
  \/ /\ verify_slot(page)
     /\ TransferDone
     /\ si' = Decode(page)
     /\ UNCHANGED page
  \/ /\ ~verify_slot(page)
     /\ si' = reset_slot_info
     /\ write_slot_data(Encode(reset_slot_info))

Load_Slot_fails ==
  \/ /\ TransferFails
     /\ UNCHANGED <<page, si>>
  \/ /\ ~verify_slot(page)
     /\ open_message
     /\ si' = reset_slot_info
     /\ write_fails

\* HIDL_FETCH_IBootControl: a module whose Init() fails is dropped, memory and all.
ModuleInit ==
  /\ ~inited
  /\ call = Idle
  /\ \/ /\ Load_Slot
        /\ inited' = TRUE
        /\ lastOk' = TRUE
     \/ /\ Load_Slot_fails
        /\ inited' = FALSE
        /\ lastOk' = FALSE
  /\ answer' = NoAnswer
  /\ UNCHANGED <<medium, current, call>>

\* An update call up to its Load_Slot(); an invalid slot is refused before it.
BeginUpdate(c) ==
  /\ inited
  /\ call = Idle
  /\ c.op = "MarkBootSuccessful" => c.slot = current
  /\ \/ /\ Load_Slot
        /\ call' = c
        /\ UNCHANGED lastOk
     \/ /\ Load_Slot_fails
        /\ call' = Idle
        /\ lastOk' = FALSE
  /\ answer' = NoAnswer
  /\ UNCHANGED <<medium, inited, current>>

RefuseUpdate ==
  /\ inited
  /\ call = Idle
  /\ \E slot \in {current, NoSlot} : ~IsValidSlot(slot)
  /\ lastOk' = FALSE
  /\ answer' = NoAnswer
  /\ UNCHANGED <<page, medium, si, inited, current, call, leaked>>

\* Mutant: the result of Save_Slot() is ignored.
FinishUpdate_SaveUnchecked ==
  /\ call # Idle
  /\ si' = Updated(call, si, current)
  /\ write_slot_data(Encode(si')) \/ write_fails
  /\ lastOk' = TRUE
  /\ call' = Idle
  /\ answer' = NoAnswer
  /\ UNCHANGED <<medium, inited, current>>

\* The rest of the call: the change of the table, then Save_Slot().
FinishUpdate ==
  /\ call # Idle
  /\ si' = Updated(call, si, current)
  /\ \/ /\ write_slot_data(Encode(si'))
        /\ lastOk' = TRUE
     \/ /\ write_fails
        /\ lastOk' = FALSE
  /\ call' = Idle
  /\ answer' = NoAnswer
  /\ UNCHANGED <<medium, inited, current>>

-----------------------------------------------------------------------------
(***************************************************************************)
(* Queries.  Those that load answer FALSE (or UNKNOWN) when the load       *)
(* fails; GetActiveBootSlot answers from memory.                           *)
(***************************************************************************)
QueryValue(op, slot) ==
  CASE op = "IsSlotBootable"         -> si'.metadata[slot].bootable
    [] op = "IsSlotMarkedSuccessful" -> si'.metadata[slot].boot_successful

\* Mutant: the query answers from memory, as GetActiveBootSlot does.
SlotQuery_FromMemory(op, slot) ==
  /\ inited
  /\ call = Idle
  /\ UNCHANGED <<page, medium, si, inited, current, call, lastOk, leaked>>
  /\ answer' = [op |-> op, slot |-> slot, value |-> QueryValue(op, slot)]

SlotQuery(op, slot) ==
  /\ inited
  /\ call = Idle
  /\ \/ /\ Load_Slot
        /\ answer' = [op |-> op, slot |-> slot, value |-> QueryValue(op, slot)]
        /\ lastOk' = TRUE
     \/ /\ Load_Slot_fails
        /\ answer' = [op |-> op, slot |-> slot, value |-> FALSE]
        /\ lastOk' = FALSE
  /\ UNCHANGED <<medium, inited, current, call>>

GetSnapshotMergeStatus ==
  /\ inited
  /\ call = Idle
  /\ \/ /\ Load_Slot
        /\ answer' = [op |-> "GetSnapshotMergeStatus", value |-> si'.common.merge_status]
        /\ lastOk' = TRUE
     \/ /\ Load_Slot_fails
        /\ answer' = [op |-> "GetSnapshotMergeStatus", value |-> "UNKNOWN"]
        /\ lastOk' = FALSE
  /\ UNCHANGED <<medium, inited, current, call>>

QueryActiveBootSlot ==
  /\ inited
  /\ call = Idle
  /\ answer' = [op |-> "GetActiveBootSlot", value |-> GetActiveBootSlot(si)]
  /\ UNCHANGED <<page, medium, si, inited, current, call, lastOk, leaked>>

-----------------------------------------------------------------------------
(***************************************************************************)
(* The outside world: the kernel's write-back, and a reboot, after which   *)
(* the bootloader has started some slot and the block may be the cached    *)
(* one, the one on the medium, or damaged.  The tries the bootloader takes *)
(* from a slot are left out: the HAL writes tries_remaining and never      *)
(* reads it.                                                               *)
(***************************************************************************)
WriteBack ==
  /\ medium' = page
  /\ UNCHANGED <<page, si, inited, current, call, lastOk, answer, leaked>>

Reboot ==
  /\ current' \in Slots \cup {NoSlot}
  /\ page' \in {page, medium, Damaged}
  /\ medium' = page'
  /\ si' = NoInfo
  /\ inited' = FALSE
  /\ call' = Idle
  /\ lastOk' = FALSE
  /\ answer' = NoAnswer
  /\ leaked' = 0

\* The service dies and init starts it again: its memory and descriptors are gone.
ServiceRestart ==
  /\ inited
  /\ si' = NoInfo
  /\ inited' = FALSE
  /\ call' = Idle
  /\ lastOk' = FALSE
  /\ answer' = NoAnswer
  /\ leaked' = 0
  /\ UNCHANGED <<page, medium, current>>

Init ==
  /\ page \in {Encode(reset_slot_info), Damaged}
  /\ medium = page
  /\ si = NoInfo
  /\ inited = FALSE
  /\ current \in Slots \cup {NoSlot}
  /\ call = Idle
  /\ lastOk = FALSE
  /\ answer = NoAnswer
  /\ leaked = 0

Next ==
  \/ ModuleInit
  \/ \E c \in UpdateCall : BeginUpdate(c)
  \/ RefuseUpdate
  \/ FinishUpdate
  \/ \E slot \in Asked : SlotQuery("IsSlotBootable", slot)
  \/ \E slot \in Asked : SlotQuery("IsSlotMarkedSuccessful", slot)
  \/ GetSnapshotMergeStatus
  \/ QueryActiveBootSlot
  \/ WriteBack
  \/ ServiceRestart
  \/ Reboot

Spec == Init /\ [][Next]_vars

-----------------------------------------------------------------------------
\* The variables have the shapes the structs of common.h and layout.h give them.
TypeOK ==
  /\ page \in SlotData
  /\ medium \in SlotData
  /\ si \in SlotInfo \cup {NoInfo}
  /\ inited \in BOOLEAN
  /\ current \in Slots \cup {NoSlot}
  /\ call \in UpdateCall \cup {Idle}
  /\ lastOk \in BOOLEAN
  /\ leaked \in 0..MaxFds

(***************************************************************************)
(* SlotsBootable: whatever calls ran, failed or were cut off by a reboot,  *)
(* the block the bootloader will find names at most one active slot, that  *)
(* slot is bootable, and there is one if any slot can be booted at all.    *)
(***************************************************************************)
SlotsBootable ==
  \A data \in {page, medium} :
    OneActiveSlot(Contents(data)) /\ SomeSlotActive(Contents(data))

(***************************************************************************)
(* MemoryAgrees: after a call that returned success the table in memory is *)
(* the table in the partition, so that GetActiveBootSlot, which does not   *)
(* load, is right; and between the load and the save of an update call     *)
(* nobody has changed the partition under it.                              *)
(***************************************************************************)
MemoryAgrees ==
  inited /\ (lastOk \/ call # Idle) => verify_slot(page) /\ si = Decode(page)

(***************************************************************************)
(* AnswersTrue: a query that answers TRUE, or that follows a successful    *)
(* call, tells what the partition says; a failed load can only turn TRUE   *)
(* into FALSE or a status into UNKNOWN.                                    *)
(***************************************************************************)
AnswersTrue ==
  LET table == Contents(page) IN
  /\ answer.op = "IsSlotBootable" /\ answer.value
       => table.metadata[answer.slot].bootable
  /\ answer.op = "IsSlotMarkedSuccessful" /\ answer.value
       => table.metadata[answer.slot].boot_successful
  /\ answer.op = "GetSnapshotMergeStatus" /\ answer.value # "UNKNOWN"
       => answer.value = table.common.merge_status
  /\ answer.op = "GetActiveBootSlot" /\ lastOk
       => answer.value = GetActiveBootSlot(table)

(***************************************************************************)
(* OnlyFailuresLeak: a call that returns success has closed the descriptor *)
(* it opened.                                                              *)
(***************************************************************************)
OnlyFailuresLeak == [][leaked' > leaked => ~lastOk' /\ call' = Idle]_vars

\* The HAL's promise: one table, updated whole or not at all.
Store == INSTANCE SlotStore WITH table <- Contents(page), durable <- Contents(medium)

\* Every step of the HAL is one step of the store, or none that a client could see.
ImplementsStore == Store!Spec

=============================================================================
