------------------------------- MODULE LibExbc -------------------------------
(***************************************************************************)
(* The slot table of lib_exbc: what the boot control HAL keeps about the   *)
(* two A/B slots, and the operations the HAL applies to it.  Each operator *)
(* takes the table (`struct ExynosSlot_info si') and returns the new one;  *)
(* the modules SlotStore and BootControl turn them into actions.           *)
(***************************************************************************)
EXTENDS Naturals

CONSTANTS
  MergeStatus,      \* the values of MergeStatus the HAL can be handed
  MergeNone,        \* MergeStatus::NONE, the value a reset installs
  MaxTries          \* the tries_remaining of a fresh slot (7 in the code)

ASSUME MergeAssumption == MergeNone \in MergeStatus
ASSUME TriesAssumption == MaxTries \in Nat \ {0}

Slots == {0, 1}

\* Any slot number >= 2, the uint32_t -1 of a missing ro.boot.slot_suffix included.
NoSlot == 2

SlotMetadata ==
  [bootable: BOOLEAN, is_active: BOOLEAN, boot_successful: BOOLEAN,
   tries_remaining: 0..MaxTries]

SlotInfo ==
  [metadata: [Slots -> SlotMetadata],
   common: [merge_status: MergeStatus, ota_flag: {0, 1}]]

IsValidSlot(slot) == slot < 2

\* The metadata of a slot nothing is known about, and of one that must not be used.
FreshSlot(active) ==
  [bootable |-> TRUE, is_active |-> active,
   boot_successful |-> FALSE, tries_remaining |-> MaxTries]

DeadSlot ==
  [bootable |-> FALSE, is_active |-> FALSE,
   boot_successful |-> FALSE, tries_remaining |-> 0]

reset_slot_info ==
  [metadata |-> [s \in Slots |-> FreshSlot(s = 0)],
   common   |-> [merge_status |-> MergeNone, ota_flag |-> 0]]

MarkBootSuccessful(si, slot) ==
  [si EXCEPT !.metadata[slot].boot_successful = TRUE]

\* Mutant: the other slot is not told that it is no longer the active one.
SetActiveBootSlot_KeepsOther(si, slot, current) ==
  [metadata |-> [si.metadata EXCEPT ![slot] = FreshSlot(TRUE)],
   common   |-> [si.common EXCEPT !.ota_flag = IF slot # current THEN 1 ELSE 0]]

\* `current' is GetCurrentSlot(): the slot named by ro.boot.slot_suffix, or NoSlot.
SetActiveBootSlot(si, slot, current) ==
  [metadata |-> [s \in Slots |->
                   IF s = slot THEN FreshSlot(TRUE)
                   ELSE [si.metadata[s] EXCEPT !.is_active = FALSE]],
   common   |-> [si.common EXCEPT !.ota_flag = IF slot # current THEN 1 ELSE 0]]

SetSlotAsUnbootable(si, slot) ==
  [metadata |-> [s \in Slots |->
                   IF s = slot THEN DeadSlot
                   ELSE IF si.metadata[s].bootable
                        THEN [si.metadata[s] EXCEPT !.is_active = TRUE]
                        ELSE si.metadata[s]],
   common   |-> si.common]

SetSnapshotMergeStatus(si, status) ==
  [si EXCEPT !.common.merge_status = status]

(***************************************************************************)
(* The HAL calls that change the table, as records, and the table each one *)
(* leaves behind.                                                          *)
(***************************************************************************)
UpdateCall ==
  [op: {"MarkBootSuccessful", "SetActiveBootSlot", "SetSlotAsUnbootable"}, slot: Slots]
    \cup [op: {"SetSnapshotMergeStatus"}, status: MergeStatus]

Updated(call, si, current) ==
  CASE call.op = "MarkBootSuccessful"     -> MarkBootSuccessful(si, call.slot)
    [] call.op = "SetActiveBootSlot"      -> SetActiveBootSlot(si, call.slot, current)
    [] call.op = "SetSlotAsUnbootable"    -> SetSlotAsUnbootable(si, call.slot)
    [] call.op = "SetSnapshotMergeStatus" -> SetSnapshotMergeStatus(si, call.status)

\* The first active slot, slot 0 when none is active.
GetActiveBootSlot(si) ==
  IF ~si.metadata[0].is_active /\ si.metadata[1].is_active THEN 1 ELSE 0

(***************************************************************************)
(* What the bootloader relies on when it picks the slot to start: there is *)
(* one candidate at most, and the candidate may be started.                *)
(***************************************************************************)
OneActiveSlot(si) ==
  /\ ~(si.metadata[0].is_active /\ si.metadata[1].is_active)
  /\ \A s \in Slots : si.metadata[s].is_active => si.metadata[s].bootable

\* An active slot is there as long as some slot can be booted.
SomeSlotActive(si) ==
  (\E s \in Slots : si.metadata[s].bootable)
     => \E s \in Slots : si.metadata[s].is_active

=============================================================================
