------------------------------ MODULE UsbGadget ------------------------------
(***************************************************************************)
(* The USB gadget HAL: UsbGadget::setCurrentUsbFunctions() takes the       *)
(* gadget down, links the new functions and pulls the gadget up; when a    *)
(* function belongs to a daemon (FunctionFS), the MonitorFfs thread pulls  *)
(* it up as soon as the daemons' endpoints exist, and again after a daemon *)
(* restarted.  UsbGadget::reset() pulses the pull-up without taking the    *)
(* request lock.                                                           *)
(***************************************************************************)
EXTENDS Naturals, Sequences, FiniteSets

CONSTANTS
  Functions,    \* the gadget functions that are ever asked for
  CallsReset,   \* whether the framework calls reset()
  MaxEvents     \* bound: inotify events waiting (the kernel merges equal ones)

\* The order in which setupFunctions() links them.
Order == <<"mtp", "ptp", "midi", "accessory", "audio_source", "rndis", "ncm", "adb">>
Ffs == {"mtp", "ptp", "adb"}    \* the functions with a daemon and endpoints

ASSUME FunctionsAssumption == Functions \subseteq {Order[i] : i \in DOMAIN Order}
ASSUME ResetAssumption == CallsReset \in BOOLEAN
ASSUME EventsAssumption == MaxEvents \in Nat \ {0}

VARIABLES
  udc,          \* kernel: the gadget is bound to the controller (pulled up)
  links,        \* kernel: the functions linked into the configuration
  epUp,         \* kernel: the daemons whose endpoints exist
  watched,      \* kernel: the directories with an inotify watch
  pending,      \* kernel: inotify events not read yet
  mCurrentUsbFunctions, mCurrentUsbFunctionsApplied,
  pc,           \* where setCurrentUsbFunctions() is
  told,         \* the status it reported, "none" if it has not (or could not)
  mMonitorRunning, mEndpointList, gadgetPullup,
  stop,         \* kernel: the monitor's eventfd holds kShutdownMonitor
  mpc,          \* where the monitor thread is
  writeUdc,     \* its local variable: the gadget still has to be pulled up
  rpc,          \* where reset() is
  boundWith,    \* history: the functions linked when the gadget was last bound
  writeFailed   \* history: the monitor's last pull-up failed, and no endpoint went since

kernel == <<udc, links, epUp, watched, pending>>
request == <<mCurrentUsbFunctions, mCurrentUsbFunctionsApplied, pc, told>>
monitor == <<mMonitorRunning, mEndpointList, gadgetPullup, stop, mpc, writeUdc>>
history == <<boundWith, writeFailed>>
vars == <<kernel, request, monitor, rpc, history>>

\* The combinations validateAndSetVidPid() has a product id for.
Supported ==
  {{"mtp"}, {"ptp"}, {"adb"}, {"midi"}, {"rndis"}, {"ncm"}, {"accessory"}, {"audio_source"},
   {"mtp", "adb"}, {"ptp", "adb"}, {"midi", "adb"}, {"rndis", "adb"}, {"ncm", "adb"},
   {"accessory", "adb"}, {"audio_source", "adb"}, {"rndis", "ncm"}, {"rndis", "ncm", "adb"},
   {"accessory", "audio_source"}, {"accessory", "audio_source", "adb"}}

Statuses == {"SUCCESS", "ERROR", "CONFIGURATION_NOT_SUPPORTED"}
Present == mEndpointList \subseteq epUp
Event == IF pending < MaxEvents THEN pending + 1 ELSE pending

-----------------------------------------------------------------------------
(***************************************************************************)
(* Writing the controller's name to UDC binds the gadget.  The kernel      *)
(* refuses it when the gadget is bound already, has no function or has one *)
(* whose daemon is not there, and may refuse it for reasons of its own.    *)
(***************************************************************************)
PullUp ==
  /\ ~udc /\ links # {} /\ links \cap Ffs \subseteq epUp
  /\ udc' = TRUE
  /\ boundWith' = links

PullUpFails == UNCHANGED <<udc, boundWith>>

-----------------------------------------------------------------------------
(***************************************************************************)
(* setCurrentUsbFunctions(), under mLockSetCurrentFunction                 *)
(***************************************************************************)
Begin(F) ==
  /\ pc = "idle"
  /\ mCurrentUsbFunctions' = F
  /\ mCurrentUsbFunctionsApplied' = FALSE
  /\ told' = "none"
  /\ pc' = "pulldown"
  /\ UNCHANGED <<kernel, monitor, rpc, history>>

Finish(status) == pc' = "idle" /\ told' = status

\* resetGadget(): a pull-down that fails is only logged.
PullDown ==
  /\ pc = "pulldown"
  /\ udc' \in {FALSE, udc}
  /\ pc' = "unlink"
  /\ UNCHANGED <<links, epUp, watched, pending, mCurrentUsbFunctions, mCurrentUsbFunctionsApplied,
                 told, monitor, rpc, history>>

\* Mutant: unlinkFunctions() skips what it cannot remove and reports success.
Unlink_Skips ==
  /\ pc = "unlink"
  /\ \E left \in SUBSET links : links' = left /\ udc' = (udc /\ left = links)
  /\ pc' = "stop"
  /\ UNCHANGED <<epUp, watched, pending, mCurrentUsbFunctions, mCurrentUsbFunctionsApplied, told,
                 monitor, rpc, history>>

\* The rest of resetGadget(); removing a link unbinds a gadget that is bound.
Unlink ==
  /\ pc = "unlink"
  /\ \/ /\ links' = {} /\ udc' = FALSE
        /\ pc' = "stop"
        /\ UNCHANGED told
     \/ /\ \E left \in SUBSET links : links' = left /\ udc' = (udc /\ left = links)
        /\ Finish("ERROR")
  /\ UNCHANGED <<epUp, watched, pending, mCurrentUsbFunctions, mCurrentUsbFunctionsApplied,
                 monitor, rpc, history>>

\* Mutant: the thread is joined and never told to stop.
StopMonitor_NoSignal ==
  /\ pc = "stop"
  /\ pc' = IF mMonitorRunning THEN "join" ELSE "setup"
  /\ UNCHANGED <<kernel, mCurrentUsbFunctions, mCurrentUsbFunctionsApplied, told, monitor, rpc, history>>

\* tearDownGadget() calls MonitorFfs::reset() only for a monitor that runs.
StopMonitor ==
  /\ pc = "stop"
  /\ stop' = mMonitorRunning
  /\ pc' = IF mMonitorRunning THEN "join" ELSE "setup"
  /\ UNCHANGED <<kernel, mCurrentUsbFunctions, mCurrentUsbFunctionsApplied, told,
                 mMonitorRunning, mEndpointList, gadgetPullup, mpc, writeUdc, rpc, history>>

\* Mutant: MonitorFfs::reset() forgets gadgetPullup.
Join_KeepsPullup ==
  /\ pc = "join"
  /\ mpc = "exited"
  /\ mpc' = "off"
  /\ mMonitorRunning' = FALSE
  /\ mEndpointList' = {}
  /\ watched' = {}
  /\ pc' = "setup"
  /\ UNCHANGED <<udc, links, epUp, pending, mCurrentUsbFunctions, mCurrentUsbFunctionsApplied,
                 told, gadgetPullup, stop, writeUdc, rpc, history>>

\* The rest of MonitorFfs::reset(); a watch that is removed leaves an event (IN_IGNORED).
Join ==
  /\ pc = "join"
  /\ mpc = "exited"
  /\ mpc' = "off"
  /\ mMonitorRunning' = FALSE
  /\ mEndpointList' = {}
  /\ gadgetPullup' = FALSE
  /\ watched' = {}
  /\ pending' = IF watched = {} THEN pending ELSE Event
  /\ pc' = "setup"
  /\ UNCHANGED <<udc, links, epUp, mCurrentUsbFunctions, mCurrentUsbFunctionsApplied, told, stop,
                 writeUdc, rpc, history>>

NoFunctions ==
  /\ pc = "setup"
  /\ mCurrentUsbFunctions = {}
  /\ Finish("SUCCESS")
  /\ UNCHANGED <<kernel, mCurrentUsbFunctions, mCurrentUsbFunctionsApplied, monitor, rpc, history>>

\* Mutant: a combination without a product id is let through.
Validate_Any ==
  /\ pc = "setup"
  /\ mCurrentUsbFunctions # {}
  /\ pc' = "link"
  /\ UNCHANGED <<kernel, mCurrentUsbFunctions, mCurrentUsbFunctionsApplied, told, monitor, rpc, history>>

\* The vendor's configuration may rule a combination out, and the id files may fail.
Validate ==
  /\ pc = "setup"
  /\ mCurrentUsbFunctions # {}
  /\ \/ /\ mCurrentUsbFunctions \in Supported
        /\ pc' = "link"
        /\ UNCHANGED told
     \/ /\ mCurrentUsbFunctions \in Supported
        /\ Finish("ERROR")
     \/ Finish("CONFIGURATION_NOT_SUPPORTED")
  /\ UNCHANGED <<kernel, mCurrentUsbFunctions, mCurrentUsbFunctionsApplied, monitor, rpc, history>>

Unlinked == mCurrentUsbFunctions \ links
Before(f, g) == \E i, j \in DOMAIN Order : i < j /\ Order[i] = f /\ Order[j] = g

\* Linking goes by Order; an rndis function that is really ncm comes after adb.
NextToLink(f) == f \in Unlinked /\ \A g \in Unlinked : Before(g, f) => g = "rndis"

\* For a daemon's function: a watch on its directory, the link, then its endpoints.
LinkFunction(f) ==
  /\ pc = "link"
  /\ NextToLink(f)
  /\ links' = links \cup {f}
  /\ watched' = watched \cup ({f} \cap Ffs)
  /\ mEndpointList' = mEndpointList \cup ({f} \cap Ffs)
  /\ UNCHANGED <<udc, epUp, pending, request, mMonitorRunning, gadgetPullup, stop, mpc, writeUdc,
                 rpc, history>>

\* The watch or the link cannot be made; what was made before it stays.
LinkFails(f) ==
  /\ pc = "link"
  /\ NextToLink(f)
  /\ watched' \in {watched, watched \cup ({f} \cap Ffs)}
  /\ Finish("ERROR")
  /\ UNCHANGED <<udc, links, epUp, pending, mCurrentUsbFunctions, mCurrentUsbFunctionsApplied,
                 monitor, rpc, history>>

\* No daemon has to be waited for.
PullUpNow ==
  /\ pc = "link"
  /\ Unlinked = {} /\ mCurrentUsbFunctions \cap Ffs = {}
  /\ \/ /\ PullUp
        /\ mCurrentUsbFunctionsApplied' = TRUE
        /\ Finish("SUCCESS")
     \/ /\ PullUpFails
        /\ Finish("ERROR")
        /\ UNCHANGED mCurrentUsbFunctionsApplied
  /\ UNCHANGED <<links, epUp, watched, pending, mCurrentUsbFunctions, monitor, rpc, writeFailed>>

\* Without a callback nobody waits for the pull-up.
StartMonitor ==
  /\ pc = "link"
  /\ Unlinked = {} /\ mCurrentUsbFunctions \cap Ffs # {}
  /\ mMonitorRunning' = TRUE
  /\ mpc' = "start"
  /\ writeUdc' = TRUE
  /\ writeFailed' = FALSE
  /\ pc' \in {"wait", "idle"}
  /\ UNCHANGED <<kernel, mCurrentUsbFunctions, mCurrentUsbFunctionsApplied, told, mEndpointList,
                 gadgetPullup, stop, rpc, boundWith>>

\* waitForPullUp(): the flag, or the timeout.
WaitForPullUp ==
  /\ pc = "wait"
  /\ Finish(IF gadgetPullup THEN "SUCCESS" ELSE "ERROR")
  /\ UNCHANGED <<kernel, mCurrentUsbFunctions, mCurrentUsbFunctionsApplied, monitor, rpc, history>>

-----------------------------------------------------------------------------
(***************************************************************************)
(* startMonitorFd(), the monitor thread                                    *)
(***************************************************************************)
\* Mutant: endpoints that are there before the monitor starts are overlooked.
FirstLook_Skipped ==
  /\ mpc = "start"
  /\ mpc' = "poll"
  /\ UNCHANGED <<kernel, request, mMonitorRunning, mEndpointList, gadgetPullup, stop, writeUdc,
                 rpc, history>>

FirstLook ==
  /\ mpc = "start"
  /\ mpc' = IF Present THEN "pullup" ELSE "poll"
  /\ UNCHANGED <<kernel, request, mMonitorRunning, mEndpointList, gadgetPullup, stop, writeUdc,
                 rpc, history>>

MonitorPullUp ==
  /\ mpc = "pullup"
  /\ \/ PullUp /\ mpc' = "tell" /\ UNCHANGED writeFailed
     \/ PullUpFails /\ mpc' = "poll" /\ writeFailed' = TRUE
  /\ UNCHANGED <<links, epUp, watched, pending, request, mMonitorRunning, mEndpointList,
                 gadgetPullup, stop, writeUdc, rpc>>

\* Under mLock: mCallback sets the HAL's flag, and the waiting request is notified.
TellPullUp ==
  /\ mpc = "tell"
  /\ mCurrentUsbFunctionsApplied' = TRUE
  /\ gadgetPullup' = TRUE
  /\ writeUdc' = FALSE
  /\ writeFailed' = FALSE
  /\ mpc' = "poll"
  /\ UNCHANGED <<kernel, mCurrentUsbFunctions, pc, told, mMonitorRunning, mEndpointList, stop,
                 rpc, boundWith>>

\* One inotify event, whatever it is, makes the monitor look at all endpoints.
EndpointEvent ==
  /\ mpc = "poll"
  /\ pending > 0
  /\ pending' = pending - 1
  /\ \/ ~Present /\ writeUdc' = TRUE /\ UNCHANGED mpc
     \/ Present /\ writeUdc /\ mpc' = "pullup" /\ UNCHANGED writeUdc
     \/ Present /\ ~writeUdc /\ UNCHANGED <<mpc, writeUdc>>
  /\ UNCHANGED <<udc, links, epUp, watched, request, mMonitorRunning, mEndpointList, gadgetPullup,
                 stop, rpc, history>>

MonitorStops ==
  /\ mpc = "poll"
  /\ stop
  /\ stop' = FALSE
  /\ mpc' = "exited"
  /\ UNCHANGED <<kernel, request, mMonitorRunning, mEndpointList, gadgetPullup, writeUdc, rpc, history>>

-----------------------------------------------------------------------------
(***************************************************************************)
(* UsbGadget::reset(), on another RPC thread; writing "none" to a gadget   *)
(* that is not bound fails and ends it.                                    *)
(***************************************************************************)
ResetDown ==
  /\ CallsReset
  /\ rpc = "idle"
  /\ udc
  /\ udc' = FALSE
  /\ rpc' = "up"
  /\ UNCHANGED <<links, epUp, watched, pending, request, monitor, history>>

ResetUp ==
  /\ rpc = "up"
  /\ PullUp \/ PullUpFails
  /\ rpc' = "idle"
  /\ UNCHANGED <<links, epUp, watched, pending, request, monitor, writeFailed>>

-----------------------------------------------------------------------------
(***************************************************************************)
(* A daemon writes its descriptors, uses its endpoints, or dies; its death *)
(* unbinds a gadget that has its function.                                 *)
(***************************************************************************)
EndpointsUp(f) ==
  /\ f \notin epUp
  /\ epUp' = epUp \cup {f}
  /\ pending' = IF f \in watched THEN Event ELSE pending
  /\ UNCHANGED <<udc, links, watched, request, monitor, rpc, history>>

EndpointsUsed(f) ==
  /\ f \in epUp \cap watched
  /\ pending < MaxEvents
  /\ pending' = pending + 1
  /\ UNCHANGED <<udc, links, epUp, watched, request, monitor, rpc, history>>

EndpointsDown(f) ==
  /\ f \in epUp
  /\ epUp' = epUp \ {f}
  /\ udc' = (udc /\ f \notin links)
  /\ pending' = IF f \in watched THEN Event ELSE pending
  /\ writeFailed' = (writeFailed /\ f \notin mEndpointList)
  /\ UNCHANGED <<links, watched, request, monitor, rpc, boundWith>>

\* The HAL's constructor leaves its two fields uninitialised.
Init ==
  /\ udc = FALSE
  /\ links = {}
  /\ epUp \in SUBSET (Functions \cap Ffs)
  /\ watched = {}
  /\ pending = 0
  /\ mCurrentUsbFunctions \in SUBSET Functions
  /\ mCurrentUsbFunctionsApplied \in BOOLEAN
  /\ pc = "idle"
  /\ told = "none"
  /\ mMonitorRunning = FALSE
  /\ mEndpointList = {}
  /\ gadgetPullup = FALSE
  /\ stop = FALSE
  /\ mpc = "off"
  /\ writeUdc = FALSE
  /\ rpc = "idle"
  /\ boundWith = {}
  /\ writeFailed = FALSE

RequestStep ==
  \/ PullDown \/ Unlink \/ StopMonitor \/ Join \/ NoFunctions \/ Validate
  \/ \E f \in Functions : LinkFunction(f) \/ LinkFails(f)
  \/ PullUpNow \/ StartMonitor \/ WaitForPullUp

MonitorStep == FirstLook \/ MonitorPullUp \/ TellPullUp \/ EndpointEvent

Next ==
  \/ \E F \in SUBSET Functions : Begin(F)
  \/ RequestStep
  \/ MonitorStep
  \/ MonitorStops
  \/ ResetDown
  \/ ResetUp
  \/ \E f \in Functions \cap Ffs : EndpointsUp(f) \/ EndpointsUsed(f) \/ EndpointsDown(f)

Spec == Init /\ [][Next]_vars

(***************************************************************************)
(* The threads run.  A stop that was asked for is seen, however many       *)
(* inotify events come with it: epoll_wait() returns both descriptors.     *)
(***************************************************************************)
FairSpec == Spec /\ WF_vars(RequestStep) /\ WF_vars(MonitorStep) /\ SF_vars(MonitorStops)

-----------------------------------------------------------------------------
\* The variables keep to their sets; no combination without a product id is bound.
TypeOK ==
  /\ udc \in BOOLEAN
  /\ links \subseteq Functions
  /\ epUp \subseteq Functions \cap Ffs
  /\ watched \subseteq Functions \cap Ffs
  /\ pending \in 0..MaxEvents
  /\ mCurrentUsbFunctions \subseteq Functions
  /\ mCurrentUsbFunctionsApplied \in BOOLEAN
  /\ pc \in {"idle", "pulldown", "unlink", "stop", "join", "setup", "link", "wait"}
  /\ told \in Statuses \cup {"none"}
  /\ mMonitorRunning \in BOOLEAN
  /\ mEndpointList \subseteq watched
  /\ gadgetPullup \in BOOLEAN
  /\ stop \in BOOLEAN
  /\ mpc \in {"off", "start", "pullup", "tell", "poll", "exited"}
  /\ writeUdc \in BOOLEAN
  /\ rpc \in {"idle", "up"}
  /\ boundWith \in Supported \cup {{}}
  /\ writeFailed \in BOOLEAN

(***************************************************************************)
(* NoneIsOff: after NONE was set with success nothing is linked, nothing   *)
(* is bound and no monitor is left that could bind it, whatever a running  *)
(* monitor or reset() did while the gadget was taken down.                 *)
(***************************************************************************)
NoneIsOff ==
  pc = "idle" /\ told = "SUCCESS" /\ mCurrentUsbFunctions = {} =>
    ~udc /\ links = {} /\ mpc = "off"

(***************************************************************************)
(* SuccessMeansBound: a request reports SUCCESS only when the gadget has   *)
(* been bound with exactly the functions it asked for: a pull-up for an    *)
(* earlier request, or by reset() half way through, does not count.        *)
(***************************************************************************)
SuccessMeansBound ==
  pc = "idle" /\ told = "SUCCESS" /\ mCurrentUsbFunctions # {} =>
    boundWith = mCurrentUsbFunctions /\ links = mCurrentUsbFunctions

(***************************************************************************)
(* MonitorAwake: the monitor does not sleep while the endpoints it waits   *)
(* for are all there and the gadget is still to be pulled up, unless the   *)
(* kernel refused the pull-up.  No endpoint appears unnoticed.             *)
(***************************************************************************)
MonitorAwake ==
  mpc = "poll" /\ pending = 0 /\ Present /\ writeUdc => writeFailed

\* RequestEnds: every request is answered; stopping the monitor never hangs.
RequestEnds == pc # "idle" ~> pc = "idle"

=============================================================================
