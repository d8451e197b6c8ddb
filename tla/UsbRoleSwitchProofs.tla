------------------------- MODULE UsbRoleSwitchProofs -------------------------
(***************************************************************************)
(* Proofs about role switching in the USB HAL, for every set of HAL        *)
(* threads, any length of the uevent queue and any number of spurious      *)
(* wakeups.                                                                *)
(***************************************************************************)
EXTENDS UsbRoleSwitch, TLAPS

USE DEF kernel, locks, history

(***************************************************************************)
(* The inductive invariant, in layers.  First, who holds which mutex where *)
(* (roleSwitchLock, mPartnerLock, mLock of struct Usb).                    *)
(***************************************************************************)
Switching == {"open", "write", "drp", "notify"} \cup InSwitch

Owners ==
  /\ \A c \in Clients :
       /\ mRoleSwitchLock = c <=> pc[c] \in Switching
       /\ mPartnerLock = c <=> pc[c] \in {"write", "written"}
       /\ mLock = c <=> pc[c] = "report"
  /\ mRoleSwitchLock = Worker <=> wpc \in {"check", "todrp"}
  /\ mPartnerLock # Worker
  /\ mLock = Worker <=> wpc = "report"

\* Only a mode switch writes the port type.
ModeSwitch == \A c \in Clients : pc[c] \in {"write", "drp"} \cup InSwitch => newRole[c] \in Modes

\* No partner was announced since the switch reset the flag, from the reset until it is woken.
FlagDown == \A c \in Clients : pc[c] \in {"write", "written", "waiting"} => ~mPartnerUp

\* The port is in dual role, or nothing more can be done about it.
DualOrLost == drpLost \/ port_type = "dual"

\* A failed switch restores the port before it reports; a port left in dual role stays there
\* until the next mode switch writes to it.
Restored ==
  /\ \A c \in Clients :
       /\ pc[c] = "notify" /\ newRole[c] \in Modes /\ ~roleSwitch[c] => DualOrLost
       /\ told = "ERROR" /\ pc[c] = "open" => DualOrLost
       /\ told = "ERROR" /\ pc[c] = "notify" /\ newRole[c] \notin Modes => DualOrLost
  /\ told = "ERROR" /\ mRoleSwitchLock \notin Clients => DualOrLost

\* No uevent is waiting, and the worker has read the status since it received the last one.
Settled == uevents = <<>> /\ wpc \notin {"partner", "status"}

\* Whoever holds a status it has not reported yet holds the current one, or the worker is still
\* to read it.
Fresh ==
  Settled =>
    /\ \A c \in Clients : pc[c] = "report" => seen[c] = PortStatus
    /\ IF wpc = "report" THEN seen[Worker] = PortStatus ELSE reported = PortStatus

IInv == TypeOK /\ Owners /\ ModeSwitch /\ FlagDown /\ Restored /\ Fresh

-----------------------------------------------------------------------------
\* Everything is at rest when the HAL is created, whatever mPartnerUp holds.
LEMMA InitIInv == Init => IInv
<1> SUFFICES ASSUME Init PROVE IInv
  OBVIOUS
<1>1. TypeOK
  <2>1. uevents \in Seq({"add", "remove"}) /\ Len(uevents) <= MaxUevents
    BY BoundsAssumption DEF Init
  <2>2. spurious \in 0..MaxSpurious
    BY BoundsAssumption DEF Init
  <2> QED BY <2>1, <2>2, Zenon DEF Init, TypeOK, Modes, Roles, Status
<1>2. Owners
  BY ThreadsAssumption DEF Init, Owners, Switching, InSwitch
<1>3. ModeSwitch /\ FlagDown
  BY DEF Init, ModeSwitch, FlagDown, InSwitch
<1>4. Restored
  BY DEF Init, Restored
<1>5. Fresh
  BY DEF Init, Fresh, PortStatus
<1> QED BY <1>1, <1>2, <1>3, <1>4, <1>5 DEF IInv

\* The types are preserved; that port_type gets a mode, and not a data role, is ModeSwitch.
LEMMA TypeNext ==
  ASSUME TypeOK, ModeSwitch, [Next]_vars
  PROVE  TypeOK'
<1> USE BoundsAssumption DEF TypeOK, InSwitch, Modes, Roles, Status, PortStatus
<1>1. ASSUME NEW c \in Clients, Call(c) PROVE TypeOK'
  BY <1>1 DEF Call
<1>2. ASSUME NEW c \in Clients, QueryRead(c) PROVE TypeOK'
  BY <1>2 DEF QueryRead
<1>3. ASSUME NEW c \in Clients, SpuriousWakeup(c) PROVE TypeOK'
  BY <1>3 DEF SpuriousWakeup
<1>4. ASSUME NEW c \in Clients, LockRole(c) PROVE TypeOK'
  BY <1>4 DEF LockRole
<1>5. ASSUME NEW c \in Clients, SwitchOther(c) PROVE TypeOK'
  BY <1>5 DEF SwitchOther
<1>6. ASSUME NEW c \in Clients, OpenFails(c) PROVE TypeOK'
  BY <1>6 DEF OpenFails
<1>7. ASSUME NEW c \in Clients, LockPartner(c) PROVE TypeOK'
  BY <1>7 DEF LockPartner
<1>8. ASSUME NEW c \in Clients, Write(c) PROVE TypeOK'
  BY <1>8 DEF Write, ModeSwitch
<1>9. ASSUME NEW c \in Clients, Wait(c) PROVE TypeOK'
  BY <1>9 DEF Wait
<1>10. ASSUME NEW c \in Clients, Timeout(c) PROVE TypeOK'
  BY <1>10 DEF Timeout
<1>11. ASSUME NEW c \in Clients, Resume(c) PROVE TypeOK'
  BY <1>11 DEF Resume
<1>12. ASSUME NEW c \in Clients, GiveUp(c) PROVE TypeOK'
  BY <1>12 DEF GiveUp
<1>13. ASSUME NEW c \in Clients, RestoreDrp(c) PROVE TypeOK'
  BY <1>13 DEF RestoreDrp, switchToDrp
<1>14. ASSUME NEW c \in Clients, NotifyRoleSwitch(c) PROVE TypeOK'
  BY <1>14 DEF NotifyRoleSwitch
<1>15. ASSUME NEW c \in Clients, QueryReport(c) PROVE TypeOK'
  BY <1>15 DEF QueryReport, Reportable
<1>16. CASE Receive
  BY <1>16 DEF Receive
<1>17. CASE PartnerAdded
  BY <1>17 DEF PartnerAdded
<1>18. CASE WorkerRead
  BY <1>18 DEF WorkerRead
<1>19. CASE WorkerReport
  BY <1>19 DEF WorkerReport, Reportable
<1>20. CASE TryLock
  BY <1>20 DEF TryLock
<1>21. CASE CheckPartner
  BY <1>21 DEF CheckPartner
<1>22. CASE WorkerDrp
  BY <1>22 DEF WorkerDrp, switchToDrp
<1>23. CASE Attach
  <2>1. uevents' \in Seq({"add", "remove"}) /\ Len(uevents') <= MaxUevents
    <3>1. uevents' = Append(uevents, "add") /\ Len(uevents) < MaxUevents
      BY <1>23 DEF Attach
    <3>2. uevents \in Seq({"add", "remove"}) /\ MaxUevents \in Nat
      OBVIOUS
    <3>3. "add" \in {"add", "remove"}
      OBVIOUS
    <3> QED BY ONLY <3>1, <3>2, <3>3
  <2>2. partner' \in BOOLEAN
    BY <1>23 DEF Attach
  <2> QED BY <1>23, <2>1, <2>2 DEF Attach
<1>24. CASE Detach
  <2>1. uevents' \in Seq({"add", "remove"}) /\ Len(uevents') <= MaxUevents
    <3>1. uevents' = Append(uevents, "remove") /\ Len(uevents) < MaxUevents
      BY <1>24 DEF Detach
    <3>2. uevents \in Seq({"add", "remove"}) /\ MaxUevents \in Nat
      OBVIOUS
    <3>3. "remove" \in {"add", "remove"}
      OBVIOUS
    <3> QED BY ONLY <3>1, <3>2, <3>3
  <2>2. partner' \in BOOLEAN
    BY <1>24 DEF Detach
  <2> QED BY <1>24, <2>1, <2>2 DEF Detach
<1>25. CASE UNCHANGED vars
  BY <1>25 DEF vars
<1> QED
  BY <1>1, <1>2, <1>3, <1>4, <1>5, <1>6, <1>7, <1>8, <1>9, <1>10, <1>11, <1>12, <1>13, <1>14, <1>15, <1>16,
     <1>17, <1>18, <1>19, <1>20, <1>21, <1>22, <1>23, <1>24, <1>25
  DEF Next, ClientStep, WorkerStep

\* Mutexes are taken and released where Owners says.
LEMMA OwnersNext ==
  ASSUME TypeOK, Owners, [Next]_vars
  PROVE  Owners'
<1> USE ThreadsAssumption DEF TypeOK, Owners, Switching, InSwitch
<1>1. ASSUME NEW c \in Clients, Call(c) PROVE Owners'
  BY <1>1 DEF Call
<1>2. ASSUME NEW c \in Clients, QueryRead(c) PROVE Owners'
  BY <1>2 DEF QueryRead
<1>3. ASSUME NEW c \in Clients, SpuriousWakeup(c) PROVE Owners'
  BY <1>3 DEF SpuriousWakeup
<1>4. ASSUME NEW c \in Clients, LockRole(c) PROVE Owners'
  BY <1>4 DEF LockRole
<1>5. ASSUME NEW c \in Clients, SwitchOther(c) PROVE Owners'
  BY <1>5 DEF SwitchOther
<1>6. ASSUME NEW c \in Clients, OpenFails(c) PROVE Owners'
  BY <1>6 DEF OpenFails
<1>7. ASSUME NEW c \in Clients, LockPartner(c) PROVE Owners'
  BY <1>7 DEF LockPartner
<1>8. ASSUME NEW c \in Clients, Write(c) PROVE Owners'
  BY <1>8 DEF Write
<1>9. ASSUME NEW c \in Clients, Wait(c) PROVE Owners'
  BY <1>9 DEF Wait
<1>10. ASSUME NEW c \in Clients, Timeout(c) PROVE Owners'
  BY <1>10 DEF Timeout
<1>11. ASSUME NEW c \in Clients, Resume(c) PROVE Owners'
  BY <1>11 DEF Resume
<1>12. ASSUME NEW c \in Clients, GiveUp(c) PROVE Owners'
  BY <1>12 DEF GiveUp
<1>13. ASSUME NEW c \in Clients, RestoreDrp(c) PROVE Owners'
  BY <1>13 DEF RestoreDrp, switchToDrp
<1>14. ASSUME NEW c \in Clients, NotifyRoleSwitch(c) PROVE Owners'
  BY <1>14 DEF NotifyRoleSwitch
<1>15. ASSUME NEW c \in Clients, QueryReport(c) PROVE Owners'
  BY <1>15 DEF QueryReport, Reportable
<1>16. CASE Receive
  BY <1>16 DEF Receive
<1>17. CASE PartnerAdded
  BY <1>17 DEF PartnerAdded
<1>18. CASE WorkerRead
  BY <1>18 DEF WorkerRead
<1>19. CASE WorkerReport
  BY <1>19 DEF WorkerReport, Reportable
<1>20. CASE TryLock
  BY <1>20 DEF TryLock
<1>21. CASE CheckPartner
  BY <1>21 DEF CheckPartner
<1>22. CASE WorkerDrp
  BY <1>22 DEF WorkerDrp, switchToDrp
<1>23. CASE Attach
  BY <1>23 DEF Attach
<1>24. CASE Detach
  BY <1>24 DEF Detach
<1>25. CASE UNCHANGED vars
  BY <1>25 DEF vars
<1> QED
  BY <1>1, <1>2, <1>3, <1>4, <1>5, <1>6, <1>7, <1>8, <1>9, <1>10, <1>11, <1>12, <1>13, <1>14, <1>15, <1>16,
     <1>17, <1>18, <1>19, <1>20, <1>21, <1>22, <1>23, <1>24, <1>25
  DEF Next, ClientStep, WorkerStep

\* switchMode() is entered with a mode only.
LEMMA ModeNext ==
  ASSUME TypeOK, ModeSwitch, [Next]_vars
  PROVE  ModeSwitch'
<1> USE DEF TypeOK, ModeSwitch, InSwitch, Modes, Roles
<1>1. ASSUME NEW c \in Clients, Call(c) PROVE ModeSwitch'
  BY <1>1 DEF Call
<1>2. ASSUME NEW c \in Clients, QueryRead(c) PROVE ModeSwitch'
  BY <1>2 DEF QueryRead
<1>3. ASSUME NEW c \in Clients, SpuriousWakeup(c) PROVE ModeSwitch'
  BY <1>3 DEF SpuriousWakeup
<1>4. ASSUME NEW c \in Clients, LockRole(c) PROVE ModeSwitch'
  BY <1>4 DEF LockRole
<1>5. ASSUME NEW c \in Clients, SwitchOther(c) PROVE ModeSwitch'
  BY <1>5 DEF SwitchOther
<1>6. ASSUME NEW c \in Clients, OpenFails(c) PROVE ModeSwitch'
  BY <1>6 DEF OpenFails
<1>7. ASSUME NEW c \in Clients, LockPartner(c) PROVE ModeSwitch'
  BY <1>7 DEF LockPartner
<1>8. ASSUME NEW c \in Clients, Write(c) PROVE ModeSwitch'
  BY <1>8 DEF Write
<1>9. ASSUME NEW c \in Clients, Wait(c) PROVE ModeSwitch'
  BY <1>9 DEF Wait
<1>10. ASSUME NEW c \in Clients, Timeout(c) PROVE ModeSwitch'
  BY <1>10 DEF Timeout
<1>11. ASSUME NEW c \in Clients, Resume(c) PROVE ModeSwitch'
  BY <1>11 DEF Resume
<1>12. ASSUME NEW c \in Clients, GiveUp(c) PROVE ModeSwitch'
  BY <1>12 DEF GiveUp
<1>13. ASSUME NEW c \in Clients, RestoreDrp(c) PROVE ModeSwitch'
  BY <1>13 DEF RestoreDrp, switchToDrp
<1>14. ASSUME NEW c \in Clients, NotifyRoleSwitch(c) PROVE ModeSwitch'
  BY <1>14 DEF NotifyRoleSwitch
<1>15. ASSUME NEW c \in Clients, QueryReport(c) PROVE ModeSwitch'
  BY <1>15 DEF QueryReport, Reportable
<1>16. CASE Receive
  BY <1>16 DEF Receive
<1>17. CASE PartnerAdded
  BY <1>17 DEF PartnerAdded
<1>18. CASE WorkerRead
  BY <1>18 DEF WorkerRead
<1>19. CASE WorkerReport
  BY <1>19 DEF WorkerReport, Reportable
<1>20. CASE TryLock
  BY <1>20 DEF TryLock
<1>21. CASE CheckPartner
  BY <1>21 DEF CheckPartner
<1>22. CASE WorkerDrp
  BY <1>22 DEF WorkerDrp, switchToDrp
<1>23. CASE Attach
  BY <1>23 DEF Attach
<1>24. CASE Detach
  BY <1>24 DEF Detach
<1>25. CASE UNCHANGED vars
  BY <1>25 DEF vars
<1> QED
  BY <1>1, <1>2, <1>3, <1>4, <1>5, <1>6, <1>7, <1>8, <1>9, <1>10, <1>11, <1>12, <1>13, <1>14, <1>15, <1>16,
     <1>17, <1>18, <1>19, <1>20, <1>21, <1>22, <1>23, <1>24, <1>25
  DEF Next, ClientStep, WorkerStep

\* The worker announces a partner only while nobody is between the reset of the flag and the wait.
LEMMA FlagNext ==
  ASSUME TypeOK, Owners, FlagDown, [Next]_vars
  PROVE  FlagDown'
<1> USE ThreadsAssumption DEF TypeOK, Owners, FlagDown, Switching, InSwitch
<1>1. ASSUME NEW c \in Clients, Call(c) PROVE FlagDown'
  BY <1>1 DEF Call
<1>2. ASSUME NEW c \in Clients, QueryRead(c) PROVE FlagDown'
  BY <1>2 DEF QueryRead
<1>3. ASSUME NEW c \in Clients, SpuriousWakeup(c) PROVE FlagDown'
  BY <1>3 DEF SpuriousWakeup
<1>4. ASSUME NEW c \in Clients, LockRole(c) PROVE FlagDown'
  BY <1>4 DEF LockRole
<1>5. ASSUME NEW c \in Clients, SwitchOther(c) PROVE FlagDown'
  BY <1>5 DEF SwitchOther
<1>6. ASSUME NEW c \in Clients, OpenFails(c) PROVE FlagDown'
  BY <1>6 DEF OpenFails
<1>7. ASSUME NEW c \in Clients, LockPartner(c) PROVE FlagDown'
  BY <1>7 DEF LockPartner
<1>8. ASSUME NEW c \in Clients, Write(c) PROVE FlagDown'
  BY <1>8 DEF Write
<1>9. ASSUME NEW c \in Clients, Wait(c) PROVE FlagDown'
  BY <1>9 DEF Wait
<1>10. ASSUME NEW c \in Clients, Timeout(c) PROVE FlagDown'
  BY <1>10 DEF Timeout
<1>11. ASSUME NEW c \in Clients, Resume(c) PROVE FlagDown'
  BY <1>11 DEF Resume
<1>12. ASSUME NEW c \in Clients, GiveUp(c) PROVE FlagDown'
  BY <1>12 DEF GiveUp
<1>13. ASSUME NEW c \in Clients, RestoreDrp(c) PROVE FlagDown'
  BY <1>13 DEF RestoreDrp, switchToDrp
<1>14. ASSUME NEW c \in Clients, NotifyRoleSwitch(c) PROVE FlagDown'
  BY <1>14 DEF NotifyRoleSwitch
<1>15. ASSUME NEW c \in Clients, QueryReport(c) PROVE FlagDown'
  BY <1>15 DEF QueryReport, Reportable
<1>16. CASE Receive
  BY <1>16 DEF Receive
<1>17. CASE PartnerAdded
  BY <1>17 DEF PartnerAdded
<1>18. CASE WorkerRead
  BY <1>18 DEF WorkerRead
<1>19. CASE WorkerReport
  BY <1>19 DEF WorkerReport, Reportable
<1>20. CASE TryLock
  BY <1>20 DEF TryLock
<1>21. CASE CheckPartner
  BY <1>21 DEF CheckPartner
<1>22. CASE WorkerDrp
  BY <1>22 DEF WorkerDrp, switchToDrp
<1>23. CASE Attach
  BY <1>23 DEF Attach
<1>24. CASE Detach
  BY <1>24 DEF Detach
<1>25. CASE UNCHANGED vars
  BY <1>25 DEF vars
<1> QED
  BY <1>1, <1>2, <1>3, <1>4, <1>5, <1>6, <1>7, <1>8, <1>9, <1>10, <1>11, <1>12, <1>13, <1>14, <1>15, <1>16,
     <1>17, <1>18, <1>19, <1>20, <1>21, <1>22, <1>23, <1>24, <1>25
  DEF Next, ClientStep, WorkerStep

\* What each step does to the promise that a failed switch restores dual role.
LEMMA RestoredNext ==
  ASSUME TypeOK, Owners, ModeSwitch, Restored, [Next]_vars
  PROVE  Restored'
<1> USE ThreadsAssumption DEF TypeOK, Owners, ModeSwitch, Restored, DualOrLost, Switching, InSwitch, Modes, Roles
<1>1. ASSUME NEW c \in Clients, Call(c) PROVE Restored'
  BY <1>1 DEF Call
<1>2. ASSUME NEW c \in Clients, QueryRead(c) PROVE Restored'
  BY <1>2 DEF QueryRead
<1>3. ASSUME NEW c \in Clients, SpuriousWakeup(c) PROVE Restored'
  BY <1>3 DEF SpuriousWakeup
<1>4. ASSUME NEW c \in Clients, LockRole(c) PROVE Restored'
  BY <1>4 DEF LockRole
<1>5. ASSUME NEW c \in Clients, SwitchOther(c) PROVE Restored'
  BY <1>5 DEF SwitchOther
<1>6. ASSUME NEW c \in Clients, OpenFails(c) PROVE Restored'
  BY <1>6 DEF OpenFails
<1>7. ASSUME NEW c \in Clients, LockPartner(c) PROVE Restored'
  BY <1>7 DEF LockPartner
<1>8. ASSUME NEW c \in Clients, Write(c) PROVE Restored'
  BY <1>8 DEF Write
<1>9. ASSUME NEW c \in Clients, Wait(c) PROVE Restored'
  BY <1>9 DEF Wait
<1>10. ASSUME NEW c \in Clients, Timeout(c) PROVE Restored'
  BY <1>10 DEF Timeout
<1>11. ASSUME NEW c \in Clients, Resume(c) PROVE Restored'
  BY <1>11 DEF Resume
<1>12. ASSUME NEW c \in Clients, GiveUp(c) PROVE Restored'
  BY <1>12 DEF GiveUp
<1>13. ASSUME NEW c \in Clients, RestoreDrp(c) PROVE Restored'
  BY <1>13 DEF RestoreDrp, switchToDrp
<1>14. ASSUME NEW c \in Clients, NotifyRoleSwitch(c) PROVE Restored'
  BY <1>14 DEF NotifyRoleSwitch
<1>15. ASSUME NEW c \in Clients, QueryReport(c) PROVE Restored'
  BY <1>15 DEF QueryReport, Reportable
<1>16. CASE Receive
  BY <1>16 DEF Receive
<1>17. CASE PartnerAdded
  BY <1>17 DEF PartnerAdded
<1>18. CASE WorkerRead
  BY <1>18 DEF WorkerRead
<1>19. CASE WorkerReport
  BY <1>19 DEF WorkerReport, Reportable
<1>20. CASE TryLock
  BY <1>20 DEF TryLock
<1>21. CASE CheckPartner
  BY <1>21 DEF CheckPartner
<1>22. CASE WorkerDrp
  BY <1>22 DEF WorkerDrp, switchToDrp
<1>23. CASE Attach
  BY <1>23 DEF Attach
<1>24. CASE Detach
  BY <1>24 DEF Detach
<1>25. CASE UNCHANGED vars
  BY <1>25 DEF vars
<1> QED
  BY <1>1, <1>2, <1>3, <1>4, <1>5, <1>6, <1>7, <1>8, <1>9, <1>10, <1>11, <1>12, <1>13, <1>14, <1>15, <1>16,
     <1>17, <1>18, <1>19, <1>20, <1>21, <1>22, <1>23, <1>24, <1>25
  DEF Next, ClientStep, WorkerStep

\* A partner that comes or goes leaves a uevent, so a stale status is always still to be read.
LEMMA FreshNext ==
  ASSUME TypeOK, Owners, Fresh, [Next]_vars
  PROVE  Fresh'
<1> USE ThreadsAssumption DEF TypeOK, Owners, Fresh, Settled, PortStatus, Status
<1>1. ASSUME NEW c \in Clients, Call(c) PROVE Fresh'
  BY <1>1 DEF Call
<1>2. ASSUME NEW c \in Clients, QueryRead(c) PROVE Fresh'
  BY <1>2 DEF QueryRead
<1>3. ASSUME NEW c \in Clients, SpuriousWakeup(c) PROVE Fresh'
  BY <1>3 DEF SpuriousWakeup
<1>4. ASSUME NEW c \in Clients, LockRole(c) PROVE Fresh'
  BY <1>4 DEF LockRole
<1>5. ASSUME NEW c \in Clients, SwitchOther(c) PROVE Fresh'
  BY <1>5 DEF SwitchOther
<1>6. ASSUME NEW c \in Clients, OpenFails(c) PROVE Fresh'
  BY <1>6 DEF OpenFails
<1>7. ASSUME NEW c \in Clients, LockPartner(c) PROVE Fresh'
  BY <1>7 DEF LockPartner
<1>8. ASSUME NEW c \in Clients, Write(c) PROVE Fresh'
  BY <1>8 DEF Write
<1>9. ASSUME NEW c \in Clients, Wait(c) PROVE Fresh'
  BY <1>9 DEF Wait
<1>10. ASSUME NEW c \in Clients, Timeout(c) PROVE Fresh'
  BY <1>10 DEF Timeout
<1>11. ASSUME NEW c \in Clients, Resume(c) PROVE Fresh'
  BY <1>11 DEF Resume
<1>12. ASSUME NEW c \in Clients, GiveUp(c) PROVE Fresh'
  BY <1>12 DEF GiveUp
<1>13. ASSUME NEW c \in Clients, RestoreDrp(c) PROVE Fresh'
  BY <1>13 DEF RestoreDrp, switchToDrp
<1>14. ASSUME NEW c \in Clients, NotifyRoleSwitch(c) PROVE Fresh'
  BY <1>14 DEF NotifyRoleSwitch
<1>15. ASSUME NEW c \in Clients, QueryReport(c) PROVE Fresh'
  BY <1>15 DEF QueryReport, Reportable
<1>16. CASE Receive
  BY <1>16 DEF Receive
<1>17. CASE PartnerAdded
  BY <1>17 DEF PartnerAdded
<1>18. CASE WorkerRead
  BY <1>18 DEF WorkerRead
<1>19. CASE WorkerReport
  BY <1>19 DEF WorkerReport, Reportable
<1>20. CASE TryLock
  BY <1>20 DEF TryLock
<1>21. CASE CheckPartner
  BY <1>21 DEF CheckPartner
<1>22. CASE WorkerDrp
  BY <1>22 DEF WorkerDrp, switchToDrp
<1>23. CASE Attach
  BY <1>23 DEF Attach
<1>24. CASE Detach
  BY <1>24 DEF Detach
<1>25. CASE UNCHANGED vars
  BY <1>25 DEF vars
<1> QED
  BY <1>1, <1>2, <1>3, <1>4, <1>5, <1>6, <1>7, <1>8, <1>9, <1>10, <1>11, <1>12, <1>13, <1>14, <1>15, <1>16,
     <1>17, <1>18, <1>19, <1>20, <1>21, <1>22, <1>23, <1>24, <1>25
  DEF Next, ClientStep, WorkerStep

\* The layers together are inductive.
LEMMA Invariance == Spec => []IInv
<1>1. IInv /\ [Next]_vars => IInv'
  BY TypeNext, OwnersNext, ModeNext, FlagNext, RestoredNext, FreshNext DEF IInv
<1> QED BY InitIInv, <1>1, PTL DEF Spec

-----------------------------------------------------------------------------
\* Type correctness: the HAL threads and the worker keep to the states of Usb.cpp's functions.
THEOREM TypeCorrect == Spec => []TypeOK
<1>1. IInv => TypeOK
  BY DEF IInv
<1> QED BY <1>1, Invariance, PTL

(***************************************************************************)
(* A partner that comes up between the write of port_type and the wait is  *)
(* not missed, because both happen under mPartnerLock.                     *)
(***************************************************************************)
THEOREM SignalsKept == Spec => []NoLostSignal
<1>1. IInv => NoLostSignal
  BY DEF IInv, FlagDown, NoLostSignal
<1> QED BY <1>1, Invariance, PTL

\* A mode switch that was reported as failed has left the port in dual role.
THEOREM FailureRestores == Spec => []FailedSwitchRestores
<1>1. IInv => FailedSwitchRestores
  BY DEF IInv, Restored, DualOrLost, FailedSwitchRestores
<1> QED BY <1>1, Invariance, PTL

(***************************************************************************)
(* The status reported last is the port's, once the worker is done: a HAL  *)
(* thread in queryPortStatus() cannot overwrite the worker's report with   *)
(* an older status, because it reads and reports under mLock.              *)
(***************************************************************************)
THEOREM ReportIsCurrent == Spec => []ReportsCurrent
<1>1. IInv => ReportsCurrent
  BY DEF IInv, Fresh, Settled, ReportsCurrent
<1> QED BY <1>1, Invariance, PTL

\* Only the holder of mRoleSwitchLock writes port_type, and while a switch is under way that is its
\* thread, which does not write it again.
LEMMA WriterHasLock ==
  ASSUME TypeOK, Owners, [Next]_vars, NEW d \in Clients, pc[d] \in InSwitch
  PROVE  port_type' = port_type
<1> USE ThreadsAssumption DEF TypeOK, Owners, Switching, InSwitch
<1>1. ASSUME NEW c \in Clients, Write(c) PROVE port_type' = port_type
  BY <1>1 DEF Write
<1>2. ASSUME NEW c \in Clients, RestoreDrp(c) PROVE port_type' = port_type
  BY <1>2 DEF RestoreDrp, switchToDrp
<1>3. CASE WorkerDrp
  BY <1>3 DEF WorkerDrp, switchToDrp
<1>4. CASE UNCHANGED vars
  BY <1>4 DEF vars, kernel
<1> QED
  BY <1>1, <1>2, <1>3, <1>4
  DEF Next, ClientStep, WorkerStep, kernel, Call, QueryRead, SpuriousWakeup, LockRole, SwitchOther,
      OpenFails, LockPartner, Wait, Timeout, Resume, GiveUp, NotifyRoleSwitch, QueryReport, Receive,
      PartnerAdded, WorkerRead, WorkerReport, TryLock, CheckPartner, Attach, Detach

(***************************************************************************)
(* From the write of a mode until its outcome is known nobody else writes  *)
(* port_type: HAL threads are kept out by the role switch lock, and the    *)
(* worker only touches the port when its trylock succeeds.                 *)
(***************************************************************************)
THEOREM SwitchUndisturbed == Spec => NobodyInterferes
<1>1. IInv /\ [Next]_vars
        => [\A c \in Clients : pc[c] \in InSwitch => port_type' = port_type]_vars
  BY WriterHasLock DEF IInv
<1> QED BY <1>1, Invariance, PTL DEF Spec, NobodyInterferes
=============================================================================
