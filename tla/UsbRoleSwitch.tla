---------------------------- MODULE UsbRoleSwitch ----------------------------
(***************************************************************************)
(* Role switching in the USB HAL (usb/Usb.cpp).  HAL threads run           *)
(* switchRole() and queryPortStatus(); the worker thread turns the         *)
(* kernel's uevents into port status reports, tells a waiting switchMode() *)
(* that a partner came up, and puts a disconnected port back to dual role. *)
(* The three mutexes and the condition variable of struct Usb order them.  *)
(***************************************************************************)
EXTENDS Naturals, Sequences

CONSTANTS
  Clients,       \* the HAL's RPC threads
  Nobody,        \* the owner of a free mutex
  Worker,        \* the thread that runs work()
  MaxUevents,    \* bound: uevents waiting in the netlink socket
  MaxSpurious    \* bound: spurious wakeups in one switchMode()

ASSUME ThreadsAssumption == Nobody \notin Clients \cup {Worker} /\ Worker \notin Clients
ASSUME BoundsAssumption == MaxUevents \in Nat \ {0} /\ MaxSpurious \in Nat

VARIABLES
  port_type,         \* the typec port's port_type attribute in sysfs
  partner,           \* a partner is attached: portN-partner exists
  uevents,           \* the uevents the worker has not received yet
  mPartnerUp,
  mRoleSwitchLock, mPartnerLock, mLock,    \* who holds each mutex
  pc,                \* where each HAL thread is
  newRole,           \* the role a HAL thread was asked for
  roleSwitch,        \* the local variable of switchRole()
  spurious,          \* spurious wakeups of the current wait
  wpc,               \* where the worker is
  seen,              \* the port status a thread has read and not yet reported
  reported,          \* the port status last passed to notifyPortStatusChange
  told,              \* the last notifyRoleSwitchStatus() of a MODE switch
  drpLost            \* a switchToDrp() failed, noticed ("Fatal") or not

locks == <<mRoleSwitchLock, mPartnerLock, mLock>>
kernel == <<port_type, partner, uevents>>
history == <<told, drpLost>>
vars == <<kernel, mPartnerUp, locks, pc, newRole, roleSwitch, spurious,
          wpc, seen, reported, history>>

Modes == {"sink", "source"}
Roles == Modes \cup {"data"}    \* "data" stands for DATA_ROLE and POWER_ROLE
Status == {"connected", "disconnected", "error"}

PortStatus == IF partner THEN "connected" ELSE "disconnected"

\* From its write of port_type until it knows the outcome.
InSwitch == {"written", "waiting", "woken", "timedout"}

-----------------------------------------------------------------------------
(***************************************************************************)
(* switchRole() and switchMode()                                           *)
(***************************************************************************)
Call(c) ==
  /\ pc[c] = "idle"
  /\ \E r \in Roles : newRole' = [newRole EXCEPT ![c] = r]
  /\ pc' = [pc EXCEPT ![c] = "want"]
  /\ UNCHANGED <<kernel, mPartnerUp, locks, roleSwitch, spurious, wpc, seen, reported, history>>

LockRole(c) ==
  /\ pc[c] = "want"
  /\ mRoleSwitchLock = Nobody
  /\ mRoleSwitchLock' = c
  /\ pc' = [pc EXCEPT ![c] = "open"]
  /\ UNCHANGED <<kernel, mPartnerUp, mPartnerLock, mLock, newRole, roleSwitch, spurious, wpc,
                 seen, reported, history>>

\* A data or power role: written, read back and compared; the kernel may refuse it.
SwitchOther(c) ==
  /\ pc[c] = "open"
  /\ newRole[c] \notin Modes
  /\ \E accepted \in BOOLEAN : roleSwitch' = [roleSwitch EXCEPT ![c] = accepted]
  /\ pc' = [pc EXCEPT ![c] = "notify"]
  /\ UNCHANGED <<kernel, mPartnerUp, locks, newRole, spurious, wpc, seen, reported, history>>

\* fopen() of port_type fails.
OpenFails(c) ==
  /\ pc[c] = "open"
  /\ newRole[c] \in Modes
  /\ pc' = [pc EXCEPT ![c] = "drp"]
  /\ UNCHANGED <<kernel, mPartnerUp, locks, newRole, roleSwitch, spurious, wpc, seen, reported, history>>

\* Mutant: the flag is reset and the file written without mPartnerLock.
LockPartner_Unlocked(c) ==
  /\ pc[c] = "open"
  /\ newRole[c] \in Modes
  /\ mPartnerUp' = FALSE
  /\ pc' = [pc EXCEPT ![c] = "write"]
  /\ UNCHANGED <<kernel, locks, newRole, roleSwitch, spurious, wpc, seen, reported, history>>

LockPartner(c) ==
  /\ pc[c] = "open"
  /\ newRole[c] \in Modes
  /\ mPartnerLock = Nobody
  /\ mPartnerLock' = c
  /\ mPartnerUp' = FALSE
  /\ pc' = [pc EXCEPT ![c] = "write"]
  /\ UNCHANGED <<kernel, mRoleSwitchLock, mLock, newRole, roleSwitch, spurious, wpc, seen,
                 reported, history>>

\* Mutant: convertRoletoString() without its PortMode cases falls through to "none".
Write_NoMode(c) ==
  /\ pc[c] = "write"
  /\ port_type' = "none"
  /\ pc' = [pc EXCEPT ![c] = "written"]
  /\ UNCHANGED <<partner, uevents, mPartnerUp, locks, newRole, roleSwitch, spurious, wpc, seen,
                 reported, told, drpLost>>

\* fputs() only fills stdio's buffer: when the kernel refuses the value it is fclose() that fails,
\* whose result the code drops, and the switch waits for a partner with the port type unchanged.
Write(c) ==
  /\ pc[c] = "write"
  /\ \/ /\ port_type' \in {newRole[c], port_type}
        /\ pc' = [pc EXCEPT ![c] = "written"]
        /\ UNCHANGED mPartnerLock
     \/ /\ pc' = [pc EXCEPT ![c] = "drp"]          \* fputs() returned EOF
        /\ mPartnerLock' = Nobody
        /\ UNCHANGED port_type
  /\ UNCHANGED <<partner, uevents, mPartnerUp, mRoleSwitchLock, mLock, newRole, roleSwitch,
                 spurious, wpc, seen, reported, told, drpLost>>

\* pthread_cond_timedwait() releases mPartnerLock and sleeps in one step.
Wait(c) ==
  /\ pc[c] = "written"
  /\ mPartnerLock' = Nobody
  /\ pc' = [pc EXCEPT ![c] = "waiting"]
  /\ UNCHANGED <<kernel, mPartnerUp, mRoleSwitchLock, mLock, newRole, roleSwitch, spurious, wpc,
                 seen, reported, history>>

\* PORT_TYPE_TIMEOUT passes; the thread still has to get mPartnerLock back.
Timeout(c) ==
  /\ pc[c] = "waiting"
  /\ pc' = [pc EXCEPT ![c] = "timedout"]
  /\ UNCHANGED <<kernel, mPartnerUp, locks, newRole, roleSwitch, spurious, wpc, seen, reported, history>>

SpuriousWakeup(c) ==
  /\ pc[c] = "waiting"
  /\ spurious < MaxSpurious
  /\ spurious' = spurious + 1
  /\ pc' = [pc EXCEPT ![c] = "woken"]
  /\ UNCHANGED <<kernel, mPartnerUp, locks, newRole, roleSwitch, wpc, seen, reported, history>>

\* Woken up with mPartnerLock: the "sanity check" and, if it fails, wait_again.
Resume(c) ==
  /\ pc[c] = "woken"
  /\ mPartnerLock = Nobody
  /\ \/ /\ mPartnerUp
        /\ roleSwitch' = [roleSwitch EXCEPT ![c] = TRUE]
        /\ pc' = [pc EXCEPT ![c] = "notify"]
     \/ /\ ~mPartnerUp
        /\ pc' = [pc EXCEPT ![c] = "waiting"]
        /\ UNCHANGED roleSwitch
  /\ UNCHANGED <<kernel, mPartnerUp, locks, newRole, spurious, wpc, seen, reported, history>>

\* Mutant: a switch that timed out leaves the port in the role it was forced to.
GiveUp_KeepsRole(c) ==
  /\ pc[c] = "timedout"
  /\ mPartnerLock = Nobody
  /\ pc' = [pc EXCEPT ![c] = "notify"]
  /\ UNCHANGED <<kernel, mPartnerUp, locks, newRole, roleSwitch, spurious, wpc, seen, reported, history>>

GiveUp(c) ==
  /\ pc[c] = "timedout"
  /\ mPartnerLock = Nobody
  /\ pc' = [pc EXCEPT ![c] = "drp"]
  /\ UNCHANGED <<kernel, mPartnerUp, locks, newRole, roleSwitch, spurious, wpc, seen, reported, history>>

\* Writing "dual" to port_type, which may fail with a log line, or unnoticed in fclose().
switchToDrp ==
  \/ /\ port_type' = "dual"
     /\ UNCHANGED drpLost
  \/ /\ drpLost' = TRUE
     /\ UNCHANGED port_type

RestoreDrp(c) ==
  /\ pc[c] = "drp"
  /\ switchToDrp
  /\ pc' = [pc EXCEPT ![c] = "notify"]
  /\ UNCHANGED <<partner, uevents, mPartnerUp, locks, newRole, roleSwitch, spurious, wpc, seen,
                 reported, told>>

\* Mutant: an error path returns with mRoleSwitchLock still held.
NotifyRoleSwitch_KeepsLock(c) ==
  /\ pc[c] = "notify"
  /\ mLock = Nobody
  /\ told' = IF newRole[c] \notin Modes THEN told
             ELSE IF roleSwitch[c] THEN "SUCCESS" ELSE "ERROR"
  /\ mRoleSwitchLock' = IF roleSwitch[c] THEN Nobody ELSE c
  /\ pc' = [pc EXCEPT ![c] = "idle"]
  /\ newRole' = [newRole EXCEPT ![c] = "data"]
  /\ roleSwitch' = [roleSwitch EXCEPT ![c] = FALSE]
  /\ spurious' = 0
  /\ UNCHANGED <<kernel, mPartnerUp, mPartnerLock, mLock, wpc, seen, reported, drpLost>>

\* The locals of switchRole() end here; resetting them keeps the state space small.
NotifyRoleSwitch(c) ==
  /\ pc[c] = "notify"
  /\ mLock = Nobody
  /\ told' = IF newRole[c] \notin Modes THEN told
             ELSE IF roleSwitch[c] THEN "SUCCESS" ELSE "ERROR"
  /\ mRoleSwitchLock' = Nobody
  /\ pc' = [pc EXCEPT ![c] = "idle"]
  /\ newRole' = [newRole EXCEPT ![c] = "data"]
  /\ roleSwitch' = [roleSwitch EXCEPT ![c] = FALSE]
  /\ spurious' = 0
  /\ UNCHANGED <<kernel, mPartnerUp, mPartnerLock, mLock, wpc, seen, reported, drpLost>>

-----------------------------------------------------------------------------
(***************************************************************************)
(* queryPortStatus(): the port names are read, then the roles; a partner   *)
(* that disappears in between turns the result into an error.              *)
(***************************************************************************)
Reportable(t) == IF seen[t] = "connected" /\ ~partner THEN {"connected", "error"} ELSE {seen[t]}

\* Mutant: the status is read before mLock is taken.
QueryRead_Unlocked(c) ==
  /\ pc[c] = "idle"
  /\ seen' = [seen EXCEPT ![c] = PortStatus]
  /\ pc' = [pc EXCEPT ![c] = "report"]
  /\ UNCHANGED <<kernel, mPartnerUp, locks, newRole, roleSwitch, spurious, wpc, reported, history>>

QueryRead(c) ==
  /\ pc[c] = "idle"
  /\ mLock = Nobody
  /\ mLock' = c
  /\ seen' = [seen EXCEPT ![c] = PortStatus]
  /\ pc' = [pc EXCEPT ![c] = "report"]
  /\ UNCHANGED <<kernel, mPartnerUp, mRoleSwitchLock, mPartnerLock, newRole, roleSwitch, spurious,
                 wpc, reported, history>>

QueryReport(c) ==
  /\ pc[c] = "report"
  /\ reported' \in Reportable(c)
  /\ seen' = [seen EXCEPT ![c] = "disconnected"]
  /\ mLock' = Nobody
  /\ pc' = [pc EXCEPT ![c] = "idle"]
  /\ UNCHANGED <<kernel, mPartnerUp, mRoleSwitchLock, mPartnerLock, newRole, roleSwitch, spurious,
                 wpc, history>>

-----------------------------------------------------------------------------
(***************************************************************************)
(* uevent_event().  A uevent about a partner that was added matches twice: *)
(* first by its name, then by its DEVTYPE.                                 *)
(***************************************************************************)
Receive ==
  /\ wpc = "poll"
  /\ uevents # <<>>
  /\ uevents' = Tail(uevents)
  /\ wpc' = IF Head(uevents) = "add" THEN "partner" ELSE "status"
  /\ UNCHANGED <<port_type, partner, mPartnerUp, locks, pc, newRole, roleSwitch, spurious, seen,
                 reported, history>>

\* pthread_cond_signal(): a thread in pthread_cond_timedwait(), if any, wakes up.
PartnerAdded ==
  /\ wpc = "partner"
  /\ mPartnerLock = Nobody
  /\ mPartnerUp' = TRUE
  /\ IF \E c \in Clients : pc[c] = "waiting"
     THEN \E c \in Clients : pc[c] = "waiting" /\ pc' = [pc EXCEPT ![c] = "woken"]
     ELSE UNCHANGED pc
  /\ wpc' = "status"
  /\ UNCHANGED <<kernel, locks, newRole, roleSwitch, spurious, seen, reported, history>>

WorkerRead ==
  /\ wpc = "status"
  /\ mLock = Nobody
  /\ mLock' = Worker
  /\ seen' = [seen EXCEPT ![Worker] = PortStatus]
  /\ wpc' = "report"
  /\ UNCHANGED <<kernel, mPartnerUp, mRoleSwitchLock, mPartnerLock, pc, newRole, roleSwitch,
                 spurious, reported, history>>

WorkerReport ==
  /\ wpc = "report"
  /\ reported' \in Reportable(Worker)
  /\ seen' = [seen EXCEPT ![Worker] = "disconnected"]
  /\ mLock' = Nobody
  /\ wpc' = "trylock"
  /\ UNCHANGED <<kernel, mPartnerUp, mRoleSwitchLock, mPartnerLock, pc, newRole, roleSwitch,
                 spurious, history>>

\* Mutant: the port is put back to dual role whether or not a switch is under way.
TryLock_Ignored ==
  /\ wpc = "trylock"
  /\ wpc' = "check"
  /\ UNCHANGED <<kernel, mPartnerUp, locks, pc, newRole, roleSwitch, spurious, seen, reported, history>>

TryLock ==
  /\ wpc = "trylock"
  /\ \/ /\ mRoleSwitchLock = Nobody
        /\ mRoleSwitchLock' = Worker
        /\ wpc' = "check"
     \/ /\ mRoleSwitchLock # Nobody
        /\ wpc' = "poll"
        /\ UNCHANGED mRoleSwitchLock
  /\ UNCHANGED <<kernel, mPartnerUp, mPartnerLock, mLock, pc, newRole, roleSwitch, spurious, seen,
                 reported, history>>

\* opendir() of portN-partner, and what follows from it.
CheckPartner ==
  /\ wpc = "check"
  /\ \/ /\ partner
        /\ mRoleSwitchLock' = Nobody
        /\ wpc' = "poll"
     \/ /\ ~partner
        /\ wpc' = "todrp"
        /\ UNCHANGED mRoleSwitchLock
  /\ UNCHANGED <<kernel, mPartnerUp, mPartnerLock, mLock, pc, newRole, roleSwitch, spurious, seen,
                 reported, history>>

WorkerDrp ==
  /\ wpc = "todrp"
  /\ switchToDrp
  /\ mRoleSwitchLock' = Nobody
  /\ wpc' = "poll"
  /\ UNCHANGED <<partner, uevents, mPartnerUp, mPartnerLock, mLock, pc, newRole, roleSwitch,
                 spurious, seen, reported, told>>

-----------------------------------------------------------------------------
(***************************************************************************)
(* The kernel: a partner comes or goes, and a uevent says so.              *)
(***************************************************************************)
Attach ==
  /\ ~partner
  /\ Len(uevents) < MaxUevents
  /\ partner' = TRUE
  /\ uevents' = Append(uevents, "add")
  /\ UNCHANGED <<port_type, mPartnerUp, locks, pc, newRole, roleSwitch, spurious, wpc, seen,
                 reported, told, drpLost>>

Detach ==
  /\ partner
  /\ Len(uevents) < MaxUevents
  /\ partner' = FALSE
  /\ uevents' = Append(uevents, "remove")
  /\ UNCHANGED <<port_type, mPartnerUp, locks, pc, newRole, roleSwitch, spurious, wpc, seen,
                 reported, history>>

Init ==
  /\ port_type = "dual"
  /\ partner = FALSE
  /\ uevents = <<>>
  /\ mPartnerUp \in BOOLEAN       \* the constructor leaves it uninitialised
  /\ mRoleSwitchLock = Nobody
  /\ mPartnerLock = Nobody
  /\ mLock = Nobody
  /\ pc = [c \in Clients |-> "idle"]
  /\ newRole = [c \in Clients |-> "data"]
  /\ roleSwitch = [c \in Clients |-> FALSE]
  /\ spurious = 0
  /\ wpc = "poll"
  /\ seen = [t \in Clients \cup {Worker} |-> "disconnected"]
  /\ reported = "disconnected"
  /\ told = "none"
  /\ drpLost = FALSE

ClientStep(c) ==
  \/ LockRole(c) \/ SwitchOther(c) \/ OpenFails(c) \/ LockPartner(c) \/ Write(c) \/ Wait(c)
  \/ Timeout(c) \/ Resume(c) \/ GiveUp(c) \/ RestoreDrp(c) \/ NotifyRoleSwitch(c)
  \/ QueryReport(c)

WorkerStep ==
  \/ Receive \/ PartnerAdded \/ WorkerRead \/ WorkerReport
  \/ TryLock \/ CheckPartner \/ WorkerDrp

Next ==
  \/ \E c \in Clients : Call(c) \/ QueryRead(c) \/ SpuriousWakeup(c) \/ ClientStep(c)
  \/ WorkerStep
  \/ Attach
  \/ Detach

(***************************************************************************)
(* Threads that can run are scheduled, and a mutex that is released again  *)
(* and again is granted to a waiting thread in the end.  Clients need not  *)
(* call, wakeups need not be spurious, and the kernel owes nobody a        *)
(* partner.                                                                *)
(***************************************************************************)
Fairness ==
  /\ \A c \in Clients : SF_vars(ClientStep(c))
  /\ SF_vars(WorkerStep)

Spec == Init /\ [][Next]_vars
FairSpec == Spec /\ Fairness

-----------------------------------------------------------------------------
\* Program counters, lock owners and statuses keep to their sets.
TypeOK ==
  /\ port_type \in Modes \cup {"dual"}
  /\ partner \in BOOLEAN
  /\ uevents \in Seq({"add", "remove"}) /\ Len(uevents) <= MaxUevents
  /\ mPartnerUp \in BOOLEAN
  /\ {mRoleSwitchLock, mPartnerLock, mLock} \subseteq Clients \cup {Worker, Nobody}
  /\ pc \in [Clients -> {"idle", "want", "open", "write", "drp", "notify", "report"} \cup InSwitch]
  /\ newRole \in [Clients -> Roles]
  /\ roleSwitch \in [Clients -> BOOLEAN]
  /\ spurious \in 0..MaxSpurious
  /\ wpc \in {"poll", "partner", "status", "report", "trylock", "check", "todrp"}
  /\ seen \in [Clients \cup {Worker} -> Status]
  /\ reported \in Status
  /\ told \in {"none", "SUCCESS", "ERROR"}
  /\ drpLost \in BOOLEAN

(***************************************************************************)
(* NoLostSignal: "Hold the lock here to prevent loosing connected          *)
(* signals".  While a switch sleeps, no partner has been announced since   *)
(* it reset the flag: the announcement cannot fall between write and wait. *)
(***************************************************************************)
NoLostSignal == \A c \in Clients : pc[c] = "waiting" => ~mPartnerUp

(***************************************************************************)
(* NobodyInterferes: from the write of the new mode until its outcome is   *)
(* known, nobody else changes the port type; the worker keeps its hands    *)
(* off a port whose partner is gone only because the switch made it go.    *)
(***************************************************************************)
NobodyInterferes ==
  [][\A c \in Clients : pc[c] \in InSwitch => port_type' = port_type]_vars

(***************************************************************************)
(* FailedSwitchRestores: after a mode switch that was reported as an error *)
(* the port is in dual role again, unless switchToDrp() itself failed.     *)
(***************************************************************************)
FailedSwitchRestores ==
  told = "ERROR" /\ mRoleSwitchLock \notin Clients /\ ~drpLost => port_type = "dual"

(***************************************************************************)
(* ReportsCurrent: when the worker has dealt with every uevent, the status *)
(* reported last is the status of the port, whichever thread reported it.  *)
(***************************************************************************)
ReportsCurrent == wpc = "poll" /\ uevents = <<>> => reported = PortStatus

\* SwitchEnds: every switchRole() is answered, whether or not a partner comes back.
SwitchEnds == \A c \in Clients : pc[c] = "want" ~> pc[c] = "idle"

=============================================================================
