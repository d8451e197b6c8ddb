-------------------------- MODULE BootControlProofs --------------------------
(***************************************************************************)
(* Proofs about the boot control HAL for every set of merge statuses,      *)
(* every number of tries and every descriptor limit.                       *)
(***************************************************************************)
EXTENDS BootControl, TLAPS

USE DEF Slots

(***************************************************************************)
(* The metadata the operations put together are metadata.                  *)
(***************************************************************************)
LEMMA SlotTypes ==
  /\ \A active \in BOOLEAN : FreshSlot(active) \in SlotMetadata
  /\ DeadSlot \in SlotMetadata
  /\ \A m \in SlotMetadata, b \in BOOLEAN :
       /\ [m EXCEPT !.is_active = b] \in SlotMetadata
       /\ [m EXCEPT !.boot_successful = b] \in SlotMetadata
<1>1. MaxTries \in 0..MaxTries /\ 0 \in 0..MaxTries
  BY TriesAssumption, SMT
<1> QED BY <1>1, Zenon DEF FreshSlot, DeadSlot, SlotMetadata

(***************************************************************************)
(* reset_slot_info() and each operation of lib_exbc yield a slot table.    *)
(***************************************************************************)
LEMMA ResetType == reset_slot_info \in SlotInfo
<1>1. \A s \in Slots : FreshSlot(s = 0) \in SlotMetadata
  BY SlotTypes, Zenon
<1> QED BY <1>1, MergeAssumption, SMT DEF reset_slot_info, SlotInfo

LEMMA MarkType ==
  ASSUME NEW info \in SlotInfo, NEW slot \in Slots
  PROVE  MarkBootSuccessful(info, slot) \in SlotInfo
<1> DEFINE m == [info.metadata[slot] EXCEPT !.boot_successful = TRUE]
<1>1. info.metadata[slot] \in SlotMetadata
  BY SMT DEF SlotInfo
<1>2. m \in SlotMetadata
  BY <1>1, SlotTypes, Zenon
<1> HIDE DEF m
<1>3. [info EXCEPT !.metadata[slot] = m] \in SlotInfo
  BY <1>2, SMT DEF SlotInfo
<1> QED BY <1>3 DEF MarkBootSuccessful, m

LEMMA ActiveType ==
  ASSUME NEW info \in SlotInfo, NEW slot \in Slots, NEW cur
  PROVE  SetActiveBootSlot(info, slot, cur) \in SlotInfo
<1> DEFINE Common == [merge_status: MergeStatus, ota_flag: {0, 1}]
           flag == IF slot # cur THEN 1 ELSE 0
<1>1. /\ info.metadata \in [Slots -> SlotMetadata]
      /\ info.common \in Common
  BY Zenon DEF SlotInfo
<1>2. \A s \in Slots : [info.metadata[s] EXCEPT !.is_active = FALSE] \in SlotMetadata
  BY <1>1, SlotTypes, Zenon
<1>3. FreshSlot(TRUE) \in SlotMetadata
  BY SlotTypes, Zenon
<1>4. flag \in {0, 1}
  BY SMT
<1> HIDE DEF flag
<1>5. [info.common EXCEPT !.ota_flag = flag] \in Common
  BY <1>1, <1>4, SMT
<1> QED BY <1>2, <1>3, <1>5, Zenon DEF SetActiveBootSlot, SlotInfo, flag

LEMMA UnbootableType ==
  ASSUME NEW info \in SlotInfo, NEW slot \in Slots
  PROVE  SetSlotAsUnbootable(info, slot) \in SlotInfo
<1>1. /\ info.metadata \in [Slots -> SlotMetadata]
      /\ info.common \in [merge_status: MergeStatus, ota_flag: {0, 1}]
  BY Zenon DEF SlotInfo
<1>2. \A s \in Slots : [info.metadata[s] EXCEPT !.is_active = TRUE] \in SlotMetadata
  BY <1>1, SlotTypes, Zenon
<1>3. DeadSlot \in SlotMetadata
  BY SlotTypes, Zenon
<1> QED BY <1>1, <1>2, <1>3, Zenon DEF SetSlotAsUnbootable, SlotInfo

LEMMA MergeType ==
  ASSUME NEW info \in SlotInfo, NEW status \in MergeStatus
  PROVE  SetSnapshotMergeStatus(info, status) \in SlotInfo
BY SMT DEF SetSnapshotMergeStatus, SlotInfo, SlotMetadata

LEMMA UpdatedType ==
  ASSUME NEW info \in SlotInfo, NEW c \in UpdateCall, NEW cur
  PROVE  Updated(c, info, cur) \in SlotInfo
<1>1. CASE c.op = "MarkBootSuccessful"
  BY <1>1, MarkType, SMT DEF UpdateCall, Updated
<1>2. CASE c.op = "SetActiveBootSlot"
  BY <1>2, ActiveType, SMT DEF UpdateCall, Updated
<1>3. CASE c.op = "SetSlotAsUnbootable"
  BY <1>3, UnbootableType, SMT DEF UpdateCall, Updated
<1>4. CASE c.op = "SetSnapshotMergeStatus"
  BY <1>4, MergeType, SMT DEF UpdateCall, Updated
<1> QED BY <1>1, <1>2, <1>3, <1>4, SMT DEF UpdateCall

(***************************************************************************)
(* Encoding and decoding keep the types and lose nothing.                  *)
(***************************************************************************)
LEMMA CodecType ==
  /\ \A info \in SlotInfo : Encode(info) \in SlotData
  /\ \A data \in SlotData : Decode(data) \in SlotInfo
BY SMT DEF Encode, Decode, SlotData, SlotInfo

LEMMA Codec ==
  ASSUME NEW info \in SlotInfo
  PROVE  verify_slot(Encode(info)) /\ Decode(Encode(info)) = info
BY SMT DEF Encode, Decode, verify_slot, SlotInfo

LEMMA DamagedContents ==
  Damaged \in SlotData /\ ~verify_slot(Damaged)
BY ResetType, MergeAssumption, SMT DEF Damaged, SlotData, SlotInfo, verify_slot

\* markBootSuccessful() is about the running slot and no other.
MarksCurrent(c, slot) == c.op = "MarkBootSuccessful" => c.slot = slot

(***************************************************************************)
(* The inductive invariant.  MemoryAgrees is what makes SlotsBootable      *)
(* inductive: the table an update call saves is the one it loaded, changed *)
(* once.  The last parts say when that table exists and what it is for.    *)
(***************************************************************************)
IInv ==
  /\ TypeOK
  /\ SlotsBootable
  /\ MemoryAgrees
  /\ inited => si \in SlotInfo
  /\ call # Idle => inited
  /\ MarksCurrent(call, current)

Good(info) == OneActiveSlot(info) /\ SomeSlotActive(info)

(***************************************************************************)
(* Every operation of lib_exbc keeps a table the bootloader can use.       *)
(***************************************************************************)
LEMMA ResetGood == Good(reset_slot_info)
<1> DEFINE m == reset_slot_info.metadata
<1>1. m[0] = FreshSlot(0 = 0) /\ m[1] = FreshSlot(1 = 0)
  BY Zenon DEF reset_slot_info
<1>2. FreshSlot(0 = 0).is_active /\ FreshSlot(0 = 0).bootable
  BY Zenon DEF FreshSlot
<1>3. FreshSlot(1 = 0).is_active = (1 = 0)
  BY Zenon DEF FreshSlot
<1>4. 1 # 0
  BY SMT
<1>5. m[0].is_active /\ ~m[1].is_active /\ m[0].bootable
  BY <1>1, <1>2, <1>3, <1>4, Zenon
<1> HIDE DEF m
<1> QED BY <1>5, SMT DEF Good, OneActiveSlot, SomeSlotActive, m

LEMMA UpdatedGood ==
  ASSUME NEW info \in SlotInfo, Good(info), NEW c \in UpdateCall, NEW cur
  PROVE  Good(Updated(c, info, cur))
<1>1. CASE c.op = "MarkBootSuccessful"
  <2> DEFINE new == MarkBootSuccessful(info, c.slot)
  <2>1. c.slot \in Slots
    BY <1>1, SMT DEF UpdateCall
  <2>2. \A s \in Slots : /\ new.metadata[s].bootable = info.metadata[s].bootable
                         /\ new.metadata[s].is_active = info.metadata[s].is_active
    BY <2>1, SMT DEF MarkBootSuccessful, SlotInfo, SlotMetadata
  <2> QED BY <1>1, <2>2, SMT DEF Updated, Good, OneActiveSlot, SomeSlotActive
<1>2. CASE c.op = "SetActiveBootSlot"
  BY <1>2, SMT DEF UpdateCall, Updated, SetActiveBootSlot, FreshSlot, SlotInfo,
     SlotMetadata, Good, OneActiveSlot, SomeSlotActive
<1>3. CASE c.op = "SetSlotAsUnbootable"
  BY <1>3, SMT DEF UpdateCall, Updated, SetSlotAsUnbootable, DeadSlot, SlotInfo,
     SlotMetadata, Good, OneActiveSlot, SomeSlotActive
<1>4. CASE c.op = "SetSnapshotMergeStatus"
  <2>1. SetSnapshotMergeStatus(info, c.status).metadata = info.metadata
    BY SMT DEF SetSnapshotMergeStatus, SlotInfo
  <2> QED BY <1>4, <2>1, SMT DEF Updated, Good, OneActiveSlot, SomeSlotActive
<1> QED BY <1>1, <1>2, <1>3, <1>4, SMT DEF UpdateCall

(***************************************************************************)
(* What Load_Slot() and Save_Slot() do to the partition.                   *)
(***************************************************************************)
LEMMA TransferType ==
  ASSUME leaked \in 0..MaxFds, TransferFails \/ TransferDone
  PROVE  leaked' \in 0..MaxFds
BY FdsAssumption, SMT DEF TransferFails, TransferDone, open_message

LEMMA ContentsOfEncode ==
  ASSUME NEW info \in SlotInfo
  PROVE  Contents(Encode(info)) = info
BY Codec, Zenon DEF Contents

LEMMA LoadEffect ==
  ASSUME TypeOK, Load_Slot
  PROVE  /\ page' \in SlotData
         /\ si' \in SlotInfo
         /\ leaked' \in 0..MaxFds
         /\ verify_slot(page')
         /\ si' = Decode(page')
         /\ Contents(page') = Contents(page)
<1>1. CASE verify_slot(page)
  <2>1. page' = page /\ si' = Decode(page) /\ TransferDone
    BY <1>1 DEF Load_Slot
  <2> QED BY <1>1, <2>1, CodecType, TransferType DEF TypeOK
<1>2. CASE ~verify_slot(page)
  <2>1. page' = Encode(reset_slot_info) /\ si' = reset_slot_info /\ TransferDone
    BY <1>2 DEF Load_Slot, write_slot_data
  <2>2. Contents(page) = reset_slot_info
    BY <1>2 DEF Contents
  <2> QED BY <2>1, <2>2, CodecType, Codec, ContentsOfEncode, ResetType, TransferType DEF TypeOK
<1> QED BY <1>1, <1>2

LEMMA LoadFailEffect ==
  ASSUME TypeOK, Load_Slot_fails
  PROVE  /\ page' = page
         /\ si' \in {si, reset_slot_info}
         /\ leaked' \in 0..MaxFds
BY TransferType DEF TypeOK, Load_Slot_fails, write_fails

-----------------------------------------------------------------------------
LEMMA IdleMarks == \A slot : MarksCurrent(Idle, slot)
BY DEF MarksCurrent, Idle

LEMMA InitIInv == Init => IInv
<1> SUFFICES ASSUME Init PROVE IInv
  OBVIOUS
<1>1. page \in SlotData /\ Good(Contents(page))
  BY ResetType, ResetGood, DamagedContents, CodecType, ContentsOfEncode
  DEF Init, Contents
<1>2. TypeOK
  <2>1. 0 \in 0..MaxFds
    BY FdsAssumption, SMT
  <2> QED BY <1>1, <2>1 DEF Init, TypeOK
<1>3. SlotsBootable
  BY <1>1 DEF Init, SlotsBootable, Good
<1> QED BY <1>2, <1>3, IdleMarks DEF Init, IInv, MemoryAgrees

\* A loading call leaves the partition's contents, the medium and the slot alone.
LEMMA LoadIInv ==
  ASSUME IInv, Load_Slot, UNCHANGED <<medium, current>>,
         inited', call' \in UpdateCall \cup {Idle}, MarksCurrent(call', current'),
         lastOk' \in BOOLEAN, inited' \in BOOLEAN
  PROVE  IInv'
<1>1. TypeOK
  BY DEF IInv
<1>2. TypeOK'
  BY <1>1, LoadEffect DEF TypeOK
<1>3. SlotsBootable'
  BY <1>1, LoadEffect DEF IInv, SlotsBootable
<1>4. MemoryAgrees'
  BY <1>1, LoadEffect DEF MemoryAgrees
<1> QED BY <1>1, <1>2, <1>3, <1>4, LoadEffect DEF IInv

LEMMA LoadFailIInv ==
  ASSUME IInv, Load_Slot_fails, UNCHANGED <<medium, current, inited>>,
         call' = Idle, lastOk' = FALSE
  PROVE  IInv'
<1>1. TypeOK
  BY DEF IInv
<1>2. page' = page /\ si' \in {si, reset_slot_info} /\ leaked' \in 0..MaxFds
  BY <1>1, LoadFailEffect
<1>3. si' \in SlotInfo \cup {NoInfo} /\ (inited => si' \in SlotInfo)
  BY <1>1, <1>2, ResetType DEF TypeOK, IInv
<1>4. TypeOK'
  BY <1>1, <1>2, <1>3 DEF TypeOK
<1>5. SlotsBootable'
  BY <1>2 DEF IInv, SlotsBootable
<1> QED BY <1>3, <1>4, <1>5, IdleMarks DEF IInv, MemoryAgrees

(***************************************************************************)
(* The one step that changes the contents of the partition.                *)
(***************************************************************************)
LEMMA FinishEffect ==
  ASSUME IInv, FinishUpdate
  PROVE  /\ call \in UpdateCall
         /\ si' = Updated(call, Contents(page), current)
         /\ si' \in SlotInfo
         /\ Good(si')
         /\ leaked' \in 0..MaxFds
         /\ \/ /\ page' = Encode(si')
               /\ lastOk' = TRUE
            \/ /\ page' = page
               /\ lastOk' = FALSE
<1>1. call \in UpdateCall /\ inited
  BY DEF IInv, TypeOK, FinishUpdate
<1>2. si = Contents(page) /\ si \in SlotInfo
  BY <1>1 DEF IInv, MemoryAgrees, FinishUpdate, Contents
<1>3. si' = Updated(call, si, current)
  BY DEF FinishUpdate
<1>4. Good(si)
  BY <1>2 DEF IInv, SlotsBootable, Good
<1>5. leaked' \in 0..MaxFds
  BY TransferType DEF IInv, TypeOK, FinishUpdate, write_slot_data, write_fails
<1> QED BY <1>1, <1>2, <1>3, <1>4, <1>5, UpdatedType, UpdatedGood
        DEF FinishUpdate, write_slot_data, write_fails

LEMMA FinishIInv ==
  ASSUME IInv, FinishUpdate
  PROVE  IInv'
<1>1. UNCHANGED <<medium, inited, current>> /\ call' = Idle
  BY DEF FinishUpdate
<1>2. page' \in SlotData /\ Good(Contents(page'))
  BY FinishEffect, CodecType, ContentsOfEncode DEF IInv, TypeOK, SlotsBootable, Good
<1>3. TypeOK'
  BY <1>1, <1>2, FinishEffect DEF IInv, TypeOK
<1>4. SlotsBootable'
  BY <1>1, <1>2 DEF IInv, SlotsBootable, Good
<1>5. MemoryAgrees'
  BY <1>1, FinishEffect, Codec DEF MemoryAgrees
<1> QED BY <1>1, <1>3, <1>4, <1>5, FinishEffect, IdleMarks DEF IInv

LEMMA NextIInv == IInv /\ [Next]_vars => IInv'
<1> SUFFICES ASSUME IInv, [Next]_vars PROVE IInv'
  OBVIOUS
<1>0. TypeOK
  BY DEF IInv
<1>1. CASE ModuleInit
  <2>1. CASE Load_Slot /\ inited' = TRUE /\ lastOk' = TRUE
    BY <1>1, <2>1, LoadIInv, IdleMarks DEF ModuleInit
  <2>2. CASE Load_Slot_fails /\ inited' = FALSE /\ lastOk' = FALSE
    <3>1. UNCHANGED inited
      BY <1>0, <1>1, <2>2 DEF ModuleInit, TypeOK
    <3> QED BY <1>1, <2>2, <3>1, LoadFailIInv DEF ModuleInit, Idle
  <2> QED BY <1>1, <2>1, <2>2 DEF ModuleInit
<1>2. ASSUME NEW c \in UpdateCall, BeginUpdate(c) PROVE IInv'
  <2>1. CASE Load_Slot /\ call' = c /\ UNCHANGED lastOk
    BY <1>0, <1>2, <2>1, LoadIInv DEF BeginUpdate, TypeOK, MarksCurrent
  <2>2. CASE Load_Slot_fails /\ call' = Idle /\ lastOk' = FALSE
    BY <1>2, <2>2, LoadFailIInv DEF BeginUpdate
  <2> QED BY <1>2, <2>1, <2>2 DEF BeginUpdate
<1>3. CASE RefuseUpdate
  BY <1>3 DEF RefuseUpdate, IInv, TypeOK, SlotsBootable, MemoryAgrees
<1>4. CASE FinishUpdate
  BY <1>4, FinishIInv
<1>5. ASSUME NEW op, NEW slot \in Asked, SlotQuery(op, slot) PROVE IInv'
  <2>1. CASE Load_Slot /\ lastOk' = TRUE
    BY <1>5, <2>1, LoadIInv, IdleMarks DEF SlotQuery
  <2>2. CASE Load_Slot_fails /\ lastOk' = FALSE
    BY <1>5, <2>2, LoadFailIInv DEF SlotQuery
  <2> QED BY <1>5, <2>1, <2>2 DEF SlotQuery
<1>6. CASE GetSnapshotMergeStatus
  <2>1. CASE Load_Slot /\ lastOk' = TRUE
    BY <1>6, <2>1, LoadIInv, IdleMarks DEF GetSnapshotMergeStatus
  <2>2. CASE Load_Slot_fails /\ lastOk' = FALSE
    BY <1>6, <2>2, LoadFailIInv DEF GetSnapshotMergeStatus
  <2> QED BY <1>6, <2>1, <2>2 DEF GetSnapshotMergeStatus
<1>7. CASE QueryActiveBootSlot
  BY <1>7 DEF QueryActiveBootSlot, IInv, TypeOK, SlotsBootable, MemoryAgrees
<1>8. CASE WriteBack
  BY <1>8 DEF WriteBack, IInv, TypeOK, SlotsBootable, MemoryAgrees
<1>9. CASE ServiceRestart
  <2>1. 0 \in 0..MaxFds
    BY FdsAssumption, SMT
  <2> QED BY <1>9, <2>1, IdleMarks DEF ServiceRestart, IInv, TypeOK, SlotsBootable, MemoryAgrees
<1>10. CASE Reboot
  <2>1. page' \in SlotData /\ Good(Contents(page'))
    BY <1>10, DamagedContents, ResetGood
    DEF Reboot, IInv, TypeOK, SlotsBootable, Good, Contents
  <2>2. TypeOK'
    <3>1. 0 \in 0..MaxFds
      BY FdsAssumption, SMT
    <3> QED BY <1>10, <2>1, <3>1 DEF Reboot, TypeOK
  <2>3. SlotsBootable'
    BY <1>10, <2>1 DEF Reboot, SlotsBootable, Good
  <2> QED BY <1>10, <2>2, <2>3, IdleMarks DEF Reboot, IInv, MemoryAgrees
<1>11. CASE UNCHANGED vars
  BY <1>11 DEF vars, IInv, TypeOK, SlotsBootable, MemoryAgrees
<1> QED BY <1>1, <1>2, <1>3, <1>4, <1>5, <1>6, <1>7, <1>8, <1>9, <1>10, <1>11 DEF Next

(***************************************************************************)
(* In every behaviour of the HAL the invariant holds.                      *)
(***************************************************************************)
THEOREM Invariance == Spec => []IInv
BY InitIInv, NextIInv, PTL DEF Spec

(***************************************************************************)
(* The variables of the HAL keep their types.                              *)
(***************************************************************************)
THEOREM TypeCorrect == Spec => []TypeOK
<1>1. IInv => TypeOK
  BY DEF IInv
<1> QED BY <1>1, Invariance, PTL

(***************************************************************************)
(* Whatever fails or is cut off, the slotinfo block never names two active *)
(* slots or an unbootable one, and names one if any slot can be booted.    *)
(***************************************************************************)
THEOREM AlwaysBootable == Spec => []SlotsBootable
<1>1. IInv => SlotsBootable
  BY DEF IInv
<1> QED BY <1>1, Invariance, PTL

(***************************************************************************)
(* After a successful call memory and partition hold the same table.       *)
(***************************************************************************)
THEOREM MemoryCorrect == Spec => []MemoryAgrees
<1>1. IInv => MemoryAgrees
  BY DEF IInv
<1> QED BY <1>1, Invariance, PTL

(***************************************************************************)
(* A descriptor is lost only by a call that fails; a call that reports     *)
(* success has closed what it opened.                                      *)
(***************************************************************************)
THEOREM LeakOnFailure == Spec => OnlyFailuresLeak
<1>1. ASSUME IInv, [Next]_vars, leaked' > leaked PROVE ~lastOk' /\ call' = Idle
  <2>0. leaked \in Nat /\ leaked' # leaked /\ leaked' # 0
    BY <1>1, FdsAssumption, SMT DEF IInv, TypeOK
  <2>1. ~Load_Slot /\ ~TransferDone
    BY <2>0 DEF Load_Slot, write_slot_data, TransferDone
  <2>2. CASE ModuleInit
    BY <2>1, <2>2 DEF ModuleInit
  <2>3. ASSUME NEW c \in UpdateCall, BeginUpdate(c) PROVE ~lastOk' /\ call' = Idle
    BY <2>1, <2>3 DEF BeginUpdate
  <2>4. CASE FinishUpdate
    BY <2>1, <2>4 DEF FinishUpdate, write_slot_data
  <2>5. ASSUME NEW op, NEW slot \in Asked, SlotQuery(op, slot) PROVE ~lastOk' /\ call' = Idle
    BY <2>1, <2>5 DEF SlotQuery
  <2>6. CASE GetSnapshotMergeStatus
    BY <2>1, <2>6 DEF GetSnapshotMergeStatus
  <2>7. CASE RefuseUpdate \/ QueryActiveBootSlot \/ WriteBack \/ ServiceRestart \/ Reboot
             \/ UNCHANGED vars
    BY <2>0, <2>7 DEF RefuseUpdate, QueryActiveBootSlot, WriteBack, ServiceRestart, Reboot, vars
  <2> QED BY <1>1, <2>2, <2>3, <2>4, <2>5, <2>6, <2>7 DEF Next
<1>2. IInv /\ [Next]_vars => [leaked' > leaked => ~lastOk' /\ call' = Idle]_vars
  BY <1>1
<1> QED BY <1>2, Invariance, PTL DEF Spec, OnlyFailuresLeak

(***************************************************************************)
(* Every query tells what the partition says: those that load have just    *)
(* read it, and the one that answers from memory relies on MemoryAgrees.   *)
(***************************************************************************)
LEMMA NoAnswerTrue ==
  ASSUME answer' = NoAnswer
  PROVE  AnswersTrue'
BY SMT DEF AnswersTrue, NoAnswer

LEMMA LoadedAnswer ==
  ASSUME TypeOK, Load_Slot
  PROVE  si' = Contents(page')
BY LoadEffect DEF Contents

LEMMA SlotAnswer ==
  ASSUME IInv, NEW op \in {"IsSlotBootable", "IsSlotMarkedSuccessful"}, NEW slot \in Asked,
         SlotQuery(op, slot)
  PROVE  AnswersTrue'
<1>1. CASE Load_Slot /\ answer' = [op |-> op, slot |-> slot, value |-> QueryValue(op, slot)]
  <2>1. si' = Contents(page')
    BY <1>1, LoadedAnswer DEF IInv
  <2>2. CASE op = "IsSlotBootable"
    BY <1>1, <2>1, <2>2, Zenon DEF QueryValue, AnswersTrue
  <2>3. CASE op = "IsSlotMarkedSuccessful"
    BY <1>1, <2>1, <2>3, Zenon DEF QueryValue, AnswersTrue
  <2> QED BY <2>2, <2>3
<1>2. CASE answer' = [op |-> op, slot |-> slot, value |-> FALSE]
  <2>1. answer'.op = op /\ answer'.value = FALSE
    BY <1>2
  <2> QED BY <2>1 DEF AnswersTrue
<1> QED BY <1>1, <1>2 DEF SlotQuery

LEMMA MergeAnswer ==
  ASSUME IInv, GetSnapshotMergeStatus
  PROVE  AnswersTrue'
<1>1. CASE /\ Load_Slot
           /\ answer' = [op |-> "GetSnapshotMergeStatus", value |-> si'.common.merge_status]
  <2>1. si' = Contents(page')
    BY <1>1, LoadedAnswer DEF IInv
  <2>2. answer'.op = "GetSnapshotMergeStatus" /\ answer'.value = si'.common.merge_status
    BY <1>1
  <2> QED BY <2>1, <2>2 DEF AnswersTrue
<1>2. CASE answer' = [op |-> "GetSnapshotMergeStatus", value |-> "UNKNOWN"]
  <2>1. answer'.op = "GetSnapshotMergeStatus" /\ answer'.value = "UNKNOWN"
    BY <1>2
  <2> QED BY <2>1 DEF AnswersTrue
<1> QED BY <1>1, <1>2 DEF GetSnapshotMergeStatus

LEMMA ActiveAnswer ==
  ASSUME IInv, QueryActiveBootSlot
  PROVE  AnswersTrue'
<1>1. page' = page /\ lastOk' = lastOk
  BY DEF QueryActiveBootSlot
<1>2. lastOk => si = Contents(page)
  BY DEF QueryActiveBootSlot, IInv, MemoryAgrees, Contents
<1>3. answer'.op = "GetActiveBootSlot" /\ answer'.value = GetActiveBootSlot(si)
  BY DEF QueryActiveBootSlot
<1>4. lastOk' => answer'.value = GetActiveBootSlot(Contents(page'))
  BY <1>1, <1>2, <1>3
<1> QED BY <1>3, <1>4 DEF AnswersTrue

(***************************************************************************)
(* A query that answers TRUE or follows a successful call tells what the   *)
(* partition says; a failed load hides a TRUE and never invents one.       *)
(***************************************************************************)
THEOREM AnswersCorrect == Spec => []AnswersTrue
<1>1. Init => AnswersTrue
  BY SMT DEF Init, AnswersTrue, NoAnswer
<1>2. IInv /\ AnswersTrue /\ [Next]_vars => AnswersTrue'
  <2> SUFFICES ASSUME IInv, AnswersTrue, [Next]_vars PROVE AnswersTrue'
    OBVIOUS
  <2>1. CASE ModuleInit \/ RefuseUpdate \/ FinishUpdate \/ ServiceRestart \/ Reboot
    BY <2>1, NoAnswerTrue DEF ModuleInit, RefuseUpdate, FinishUpdate, ServiceRestart, Reboot
  <2>2. ASSUME NEW c \in UpdateCall, BeginUpdate(c) PROVE AnswersTrue'
    BY <2>2, NoAnswerTrue DEF BeginUpdate
  <2>3. ASSUME NEW op \in {"IsSlotBootable", "IsSlotMarkedSuccessful"}, NEW slot \in Asked,
               SlotQuery(op, slot)
        PROVE  AnswersTrue'
    BY <2>3, SlotAnswer
  <2>4. CASE GetSnapshotMergeStatus
    BY <2>4, MergeAnswer
  <2>5. CASE QueryActiveBootSlot
    BY <2>5, ActiveAnswer
  <2>6. CASE WriteBack \/ UNCHANGED vars
    BY <2>6 DEF WriteBack, vars, AnswersTrue
  <2> QED BY <2>1, <2>2, <2>3, <2>4, <2>5, <2>6 DEF Next
<1> QED BY <1>1, <1>2, Invariance, PTL DEF Spec

-----------------------------------------------------------------------------
(***************************************************************************)
(* A step of the HAL is a step of the store.                               *)
(***************************************************************************)
LEMMA SameOperators ==
  /\ Store!reset_slot_info = reset_slot_info
  /\ Store!UpdateCall = UpdateCall
  /\ Store!Slots = Slots
  /\ Store!NoSlot = NoSlot
  /\ \A c, info, cur : Store!Updated(c, info, cur) = Updated(c, info, cur)
<1>1. /\ Store!Slots = Slots
      /\ Store!NoSlot = NoSlot
      /\ Store!UpdateCall = UpdateCall
      /\ Store!reset_slot_info = reset_slot_info
  BY DEF Store!reset_slot_info, reset_slot_info, Store!UpdateCall, UpdateCall, Store!Slots,
     Store!NoSlot, NoSlot, Store!FreshSlot, FreshSlot
<1>2. ASSUME NEW c, NEW info, NEW cur
      PROVE  Store!Updated(c, info, cur) = Updated(c, info, cur)
  BY DEF Store!Updated, Updated, Store!Slots, Store!FreshSlot, FreshSlot, Store!DeadSlot, DeadSlot,
     Store!MarkBootSuccessful, MarkBootSuccessful, Store!SetActiveBootSlot, SetActiveBootSlot,
     Store!SetSlotAsUnbootable, SetSlotAsUnbootable,
     Store!SetSnapshotMergeStatus, SetSnapshotMergeStatus
<1> QED BY <1>1, <1>2

LEMMA RefineInit == Init => Store!Init
BY ResetType, DamagedContents, ContentsOfEncode, SameOperators DEF Init, Store!Init, Contents

LEMMA RefineQuiet ==
  ASSUME Contents(page') = Contents(page), medium' = medium, current' = current
  PROVE  UNCHANGED Store!vars
BY DEF Store!vars

LEMMA RefineNext == IInv /\ [Next]_vars => [Store!Next]_(Store!vars)
<1> SUFFICES ASSUME IInv, [Next]_vars PROVE [Store!Next]_(Store!vars)
  OBVIOUS
<1>0. TypeOK
  BY DEF IInv
<1>1. ASSUME Load_Slot \/ Load_Slot_fails, UNCHANGED <<medium, current>>
      PROVE  UNCHANGED Store!vars
  <2>1. Contents(page') = Contents(page)
    BY <1>0, <1>1, LoadEffect, LoadFailEffect
  <2> QED BY <1>1, <2>1, RefineQuiet
<1>2. CASE ModuleInit
  BY <1>1, <1>2 DEF ModuleInit
<1>3. ASSUME NEW c \in UpdateCall, BeginUpdate(c) PROVE UNCHANGED Store!vars
  BY <1>1, <1>3 DEF BeginUpdate
<1>4. CASE RefuseUpdate
  BY <1>4, RefineQuiet DEF RefuseUpdate
<1>5. CASE FinishUpdate
  <2>1. UNCHANGED <<medium, current>>
    BY <1>5 DEF FinishUpdate
  <2>2. CASE page' = Encode(si')
    <3>1. Contents(page') = Updated(call, Contents(page), current)
      BY <1>5, <2>2, FinishEffect, ContentsOfEncode
    <3>2. call \in UpdateCall
      BY <1>5, FinishEffect
    <3>3. call.op = "MarkBootSuccessful" => call.slot = current
      BY DEF IInv, MarksCurrent
    <3> QED BY <2>1, <3>1, <3>2, <3>3, SameOperators DEF Store!Next, Store!Update
  <2>3. CASE page' = page
    BY <2>1, <2>3, RefineQuiet
  <2> QED BY <1>5, <2>2, <2>3, FinishEffect
<1>6. ASSUME NEW op, NEW slot \in Asked, SlotQuery(op, slot) PROVE UNCHANGED Store!vars
  BY <1>1, <1>6 DEF SlotQuery
<1>7. CASE GetSnapshotMergeStatus
  BY <1>1, <1>7 DEF GetSnapshotMergeStatus
<1>8. CASE QueryActiveBootSlot
  BY <1>8, RefineQuiet DEF QueryActiveBootSlot
<1>9. CASE WriteBack
  BY <1>9 DEF WriteBack, Store!Next, Store!Flush
<1>10. CASE ServiceRestart
  BY <1>10, RefineQuiet DEF ServiceRestart
<1>11. CASE Reboot
  <2>1. Contents(page') \in {Contents(page), Contents(medium), reset_slot_info}
    BY <1>11, DamagedContents DEF Reboot, Contents
  <2>2. Contents(medium') = Contents(page') /\ current' \in Slots \cup {NoSlot}
    BY <1>11 DEF Reboot
  <2> QED BY <2>1, <2>2, SameOperators DEF Store!Next, Store!Reboot
<1>12. CASE UNCHANGED vars
  BY <1>12, RefineQuiet DEF vars
<1> QED BY <1>2, <1>3, <1>4, <1>5, <1>6, <1>7, <1>8, <1>9, <1>10, <1>11, <1>12 DEF Next

(***************************************************************************)
(* The HAL implements the store: with failures, restarts, power cuts and   *)
(* damaged blocks, clients see one table that each call updates whole or   *)
(* not at all.                                                             *)
(***************************************************************************)
THEOREM Refinement == Spec => ImplementsStore
BY RefineInit, RefineNext, Invariance, PTL DEF Spec, ImplementsStore, Store!Spec
=============================================================================
