--------------------------- MODULE UsbGadgetProofs ---------------------------
(***************************************************************************)
(* Proofs about the USB gadget HAL, for every set of functions that is     *)
(* asked for, with and without reset(), and any number of waiting inotify  *)
(* events.                                                                 *)
(***************************************************************************)
EXTENDS UsbGadget, TLAPS

USE DEF kernel, request, monitor, history

-----------------------------------------------------------------------------
(***************************************************************************)
(* Product ids: what is left of a supported combination after some of its  *)
(* functions were unlinked, or before all were linked, is supported too.   *)
(***************************************************************************)
LEMMA PairSubsets ==
  ASSUME NEW a, NEW b, NEW S \in SUBSET {a, b}
  PROVE  S \in {{}, {a}, {b}, {a, b}}
OBVIOUS

\* The subsets of a combination of three, written out.
LEMMA TripleSubsets ==
  ASSUME NEW a, NEW b, NEW c, NEW S \in SUBSET {a, b, c}
  PROVE  S \in {{}, {a}, {b}, {c}, {a, b}, {a, c}, {b, c}, {a, b, c}}
OBVIOUS

\* A part of a supported combination is supported, or empty.
LEMMA SupportedParts ==
  ASSUME NEW F \in Supported, NEW S \in SUBSET F
  PROVE  S \in Supported \cup {{}}
<1>1. CASE F = {"rndis", "ncm", "adb"}
  <2>1. S \in {{}, {"rndis"}, {"ncm"}, {"adb"}, {"rndis", "ncm"}, {"rndis", "adb"},
               {"ncm", "adb"}, {"rndis", "ncm", "adb"}}
    BY <1>1, TripleSubsets
  <2> QED BY <2>1, Zenon DEF Supported
<1>2. CASE F = {"accessory", "audio_source", "adb"}
  <2>1. S \in {{}, {"accessory"}, {"audio_source"}, {"adb"}, {"accessory", "audio_source"}, {"accessory", "adb"},
               {"audio_source", "adb"}, {"accessory", "audio_source", "adb"}}
    BY <1>2, TripleSubsets
  <2> QED BY <2>1, Zenon DEF Supported
<1>3. CASE F = {"rndis", "ncm"}
  <2>1. S \in {{}, {"rndis"}, {"ncm"}, {"rndis", "ncm"}}
    BY <1>3, PairSubsets
  <2> QED BY <2>1, Zenon DEF Supported
<1>4. CASE F = {"accessory", "audio_source"}
  <2>1. S \in {{}, {"accessory"}, {"audio_source"}, {"accessory", "audio_source"}}
    BY <1>4, PairSubsets
  <2> QED BY <2>1, Zenon DEF Supported
<1>5. CASE \E f \in {"mtp", "ptp", "midi", "rndis", "ncm", "accessory", "audio_source"} : F = {f, "adb"}
  <2>1. PICK f \in {"mtp", "ptp", "midi", "rndis", "ncm", "accessory", "audio_source"} : F = {f, "adb"}
    BY <1>5
  <2>2. S \in {{}, {f}, {"adb"}, {f, "adb"}}
    BY <2>1, PairSubsets
  <2> QED BY <2>2, Zenon DEF Supported
<1>6. CASE \E f : F = {f}
  BY <1>6
<1> QED BY <1>1, <1>2, <1>3, <1>4, <1>5, <1>6, Zenon DEF Supported

-----------------------------------------------------------------------------
(***************************************************************************)
(* The inductive invariant.  First, the life of the monitor thread: it     *)
(* runs, and holds a pull-up, exactly from its start until it is joined;   *)
(* it is told to stop only by the request that then joins it; and a        *)
(* request sets up functions only when it is gone.                         *)
(***************************************************************************)
MonitorLife ==
  /\ mMonitorRunning <=> mpc # "off"
  /\ stop => pc = "join" /\ mpc \notin {"off", "exited"}
  /\ mpc = "exited" => pc = "join"
  /\ pc = "join" => mpc # "off"
  /\ pc \in {"setup", "link"} => mpc = "off"
  /\ gadgetPullup => mpc # "off"

\* A request that is under way has not been answered.
Unanswered == told # "none" => pc = "idle"

\* What is linked is part of a supported combination, and nothing is linked when a request begins
\* to set up its own.
LinksSupported ==
  /\ links \in Supported \cup {{}}
  /\ udc => links # {}
  /\ pc \in {"stop", "join", "setup"} => links = {}
  /\ pc = "link" => mCurrentUsbFunctions \in Supported /\ links \subseteq mCurrentUsbFunctions

\* While a request waits, a pull-up that is or will be announced is one of its functions.
Announced ==
  pc = "wait" =>
    /\ links = mCurrentUsbFunctions /\ links # {}
    /\ gadgetPullup \/ mpc = "tell" => boundWith = links

IInv ==
  /\ TypeOK /\ MonitorLife /\ Unanswered /\ LinksSupported /\ Announced
  /\ NoneIsOff /\ SuccessMeansBound /\ MonitorAwake

\* The constructor leaves two fields uninitialised; nothing depends on them.
LEMMA InitIInv == Init => IInv
<1> SUFFICES ASSUME Init PROVE IInv
  OBVIOUS
<1>1. TypeOK
  <2>1. pending \in 0..MaxEvents
    BY EventsAssumption DEF Init
  <2> QED BY <2>1, Zenon DEF Init, TypeOK
<1>2. MonitorLife /\ Unanswered /\ Announced
  BY DEF Init, MonitorLife, Unanswered, Announced
<1>3. LinksSupported
  BY DEF Init, LinksSupported
<1>4. NoneIsOff /\ SuccessMeansBound /\ MonitorAwake
  BY DEF Init, NoneIsOff, SuccessMeansBound, MonitorAwake
<1> QED BY <1>1, <1>2, <1>3, <1>4 DEF IInv

\* Types; a pull-up binds what is linked, which has a product id.
LEMMA TypeNext ==
  ASSUME TypeOK, LinksSupported, [Next]_vars
  PROVE  TypeOK'
<1> USE EventsAssumption DEF TypeOK, Statuses
<1>1. ASSUME NEW F \in SUBSET Functions, Begin(F) PROVE TypeOK'
  BY <1>1 DEF Begin
<1>2. CASE PullDown
  <2>1. udc' \in BOOLEAN
    BY <1>2, Zenon DEF PullDown
  <2> QED BY <1>2, <2>1 DEF PullDown
<1>3. CASE Unlink
  <2>1. udc' \in BOOLEAN /\ links' \subseteq links
    BY <1>3, Zenon DEF Unlink
  <2> QED BY <1>3, <2>1 DEF Unlink, Finish
<1>4. CASE StopMonitor
  BY <1>4 DEF StopMonitor
<1>5. CASE Join
  <2>1. pending' \in 0..MaxEvents
    BY <1>5 DEF Join, Event
  <2> QED BY <1>5, <2>1, Zenon DEF Join
<1>6. CASE NoFunctions
  BY <1>6 DEF NoFunctions, Finish
<1>7. CASE Validate
  BY <1>7 DEF Validate, Finish
<1>8. ASSUME NEW f \in Functions, LinkFunction(f) PROVE TypeOK'
  BY <1>8 DEF LinkFunction
<1>9. ASSUME NEW f \in Functions, LinkFails(f) PROVE TypeOK'
  BY <1>9 DEF LinkFails, Finish
<1>10. CASE PullUpNow
  <2>1. udc' \in BOOLEAN /\ boundWith' \in Supported \cup {{}}
    BY <1>10, Zenon DEF PullUpNow, PullUp, PullUpFails, LinksSupported
  <2> QED BY <1>10, <2>1 DEF PullUpNow, Finish
<1>11. CASE StartMonitor
  BY <1>11 DEF StartMonitor
<1>12. CASE WaitForPullUp
  BY <1>12 DEF WaitForPullUp, Finish
<1>13. CASE FirstLook
  BY <1>13 DEF FirstLook
<1>14. CASE MonitorPullUp
  <2>1. udc' \in BOOLEAN /\ boundWith' \in Supported \cup {{}}
    BY <1>14, Zenon DEF MonitorPullUp, PullUp, PullUpFails, LinksSupported
  <2>2. writeFailed' \in BOOLEAN /\ mpc' \in {"tell", "poll"}
    BY <1>14, Zenon DEF MonitorPullUp
  <2> QED BY <1>14, <2>1, <2>2 DEF MonitorPullUp
<1>15. CASE TellPullUp
  BY <1>15 DEF TellPullUp
<1>16. CASE EndpointEvent
  <2>1. pending' \in 0..MaxEvents
    BY <1>16 DEF EndpointEvent
  <2>2. writeUdc' \in BOOLEAN
    BY <1>16, Zenon DEF EndpointEvent
  <2> QED BY <1>16, <2>1, <2>2 DEF EndpointEvent
<1>17. CASE MonitorStops
  <2>1. stop' \in BOOLEAN
    BY <1>17, Zenon DEF MonitorStops
  <2> QED BY <1>17, <2>1 DEF MonitorStops
<1>18. CASE ResetDown
  <2>1. udc' \in BOOLEAN
    BY <1>18, Zenon DEF ResetDown
  <2> QED BY <1>18, <2>1 DEF ResetDown
<1>19. CASE ResetUp
  <2>1. udc' \in BOOLEAN /\ boundWith' \in Supported \cup {{}}
    BY <1>19, Zenon DEF ResetUp, PullUp, PullUpFails, LinksSupported
  <2> QED BY <1>19, <2>1 DEF ResetUp
<1>20. ASSUME NEW f \in Functions \cap Ffs, EndpointsUp(f) PROVE TypeOK'
  <2>1. pending' \in 0..MaxEvents
    BY <1>20 DEF EndpointsUp, Event
  <2> QED BY <1>20, <2>1 DEF EndpointsUp
<1>21. ASSUME NEW f \in Functions \cap Ffs, EndpointsUsed(f) PROVE TypeOK'
  BY <1>21 DEF EndpointsUsed
<1>22. ASSUME NEW f \in Functions \cap Ffs, EndpointsDown(f) PROVE TypeOK'
  <2>1. pending' \in 0..MaxEvents
    BY <1>22 DEF EndpointsDown, Event
  <2>2. udc' \in BOOLEAN /\ writeFailed' \in BOOLEAN
    BY <1>22, Zenon DEF EndpointsDown
  <2> QED BY <1>22, <2>1, <2>2 DEF EndpointsDown
<1>23. CASE UNCHANGED vars
  BY <1>23 DEF vars, Present
<1> QED
  BY <1>1, <1>2, <1>3, <1>4, <1>5, <1>6, <1>7, <1>8, <1>9, <1>10, <1>11, <1>12, <1>13, <1>14, <1>15, <1>16,
     <1>17, <1>18, <1>19, <1>20, <1>21, <1>22, <1>23
  DEF Next, RequestStep, MonitorStep

\* The monitor is started, stopped and joined by requests only.
LEMMA LifeNext ==
  ASSUME TypeOK, MonitorLife, [Next]_vars
  PROVE  MonitorLife'
<1> USE DEF TypeOK, MonitorLife
<1>1. ASSUME NEW F \in SUBSET Functions, Begin(F) PROVE MonitorLife'
  BY <1>1 DEF Begin
<1>2. CASE PullDown
  BY <1>2 DEF PullDown
<1>3. CASE Unlink
  BY <1>3 DEF Unlink, Finish
<1>4. CASE StopMonitor
  BY <1>4 DEF StopMonitor
<1>5. CASE Join
  BY <1>5 DEF Join, Event
<1>6. CASE NoFunctions
  BY <1>6 DEF NoFunctions, Finish
<1>7. CASE Validate
  BY <1>7 DEF Validate, Finish
<1>8. ASSUME NEW f \in Functions, LinkFunction(f) PROVE MonitorLife'
  BY <1>8 DEF LinkFunction
<1>9. ASSUME NEW f \in Functions, LinkFails(f) PROVE MonitorLife'
  BY <1>9 DEF LinkFails, Finish
<1>10. CASE PullUpNow
  BY <1>10 DEF PullUpNow, Finish, PullUp, PullUpFails
<1>11. CASE StartMonitor
  BY <1>11 DEF StartMonitor
<1>12. CASE WaitForPullUp
  BY <1>12 DEF WaitForPullUp, Finish
<1>13. CASE FirstLook
  BY <1>13 DEF FirstLook
<1>14. CASE MonitorPullUp
  BY <1>14 DEF MonitorPullUp, PullUp, PullUpFails
<1>15. CASE TellPullUp
  BY <1>15 DEF TellPullUp
<1>16. CASE EndpointEvent
  BY <1>16 DEF EndpointEvent
<1>17. CASE MonitorStops
  BY <1>17 DEF MonitorStops
<1>18. CASE ResetDown
  BY <1>18 DEF ResetDown
<1>19. CASE ResetUp
  BY <1>19 DEF ResetUp, PullUp, PullUpFails
<1>20. ASSUME NEW f \in Functions \cap Ffs, EndpointsUp(f) PROVE MonitorLife'
  BY <1>20 DEF EndpointsUp, Event
<1>21. ASSUME NEW f \in Functions \cap Ffs, EndpointsUsed(f) PROVE MonitorLife'
  BY <1>21 DEF EndpointsUsed
<1>22. ASSUME NEW f \in Functions \cap Ffs, EndpointsDown(f) PROVE MonitorLife'
  BY <1>22 DEF EndpointsDown, Event
<1>23. CASE UNCHANGED vars
  BY <1>23 DEF vars, Present
<1> QED
  BY <1>1, <1>2, <1>3, <1>4, <1>5, <1>6, <1>7, <1>8, <1>9, <1>10, <1>11, <1>12, <1>13, <1>14, <1>15, <1>16,
     <1>17, <1>18, <1>19, <1>20, <1>21, <1>22, <1>23
  DEF Next, RequestStep, MonitorStep

\* An answer ends the request.
LEMMA UnansweredNext ==
  ASSUME Unanswered, [Next]_vars
  PROVE  Unanswered'
<1> USE DEF Unanswered
<1>1. ASSUME NEW F \in SUBSET Functions, Begin(F) PROVE Unanswered'
  BY <1>1 DEF Begin
<1>2. CASE PullDown
  BY <1>2 DEF PullDown
<1>3. CASE Unlink
  BY <1>3 DEF Unlink, Finish
<1>4. CASE StopMonitor
  BY <1>4 DEF StopMonitor
<1>5. CASE Join
  BY <1>5 DEF Join, Event
<1>6. CASE NoFunctions
  BY <1>6 DEF NoFunctions, Finish
<1>7. CASE Validate
  BY <1>7 DEF Validate, Finish
<1>8. ASSUME NEW f \in Functions, LinkFunction(f) PROVE Unanswered'
  BY <1>8 DEF LinkFunction
<1>9. ASSUME NEW f \in Functions, LinkFails(f) PROVE Unanswered'
  BY <1>9 DEF LinkFails, Finish
<1>10. CASE PullUpNow
  BY <1>10 DEF PullUpNow, Finish, PullUp, PullUpFails
<1>11. CASE StartMonitor
  BY <1>11 DEF StartMonitor
<1>12. CASE WaitForPullUp
  BY <1>12 DEF WaitForPullUp, Finish
<1>13. CASE FirstLook
  BY <1>13 DEF FirstLook
<1>14. CASE MonitorPullUp
  BY <1>14 DEF MonitorPullUp, PullUp, PullUpFails
<1>15. CASE TellPullUp
  BY <1>15 DEF TellPullUp
<1>16. CASE EndpointEvent
  BY <1>16 DEF EndpointEvent
<1>17. CASE MonitorStops
  BY <1>17 DEF MonitorStops
<1>18. CASE ResetDown
  BY <1>18 DEF ResetDown
<1>19. CASE ResetUp
  BY <1>19 DEF ResetUp, PullUp, PullUpFails
<1>20. ASSUME NEW f \in Functions \cap Ffs, EndpointsUp(f) PROVE Unanswered'
  BY <1>20 DEF EndpointsUp, Event
<1>21. ASSUME NEW f \in Functions \cap Ffs, EndpointsUsed(f) PROVE Unanswered'
  BY <1>21 DEF EndpointsUsed
<1>22. ASSUME NEW f \in Functions \cap Ffs, EndpointsDown(f) PROVE Unanswered'
  BY <1>22 DEF EndpointsDown, Event
<1>23. CASE UNCHANGED vars
  BY <1>23 DEF vars, Present
<1> QED
  BY <1>1, <1>2, <1>3, <1>4, <1>5, <1>6, <1>7, <1>8, <1>9, <1>10, <1>11, <1>12, <1>13, <1>14, <1>15, <1>16,
     <1>17, <1>18, <1>19, <1>20, <1>21, <1>22, <1>23
  DEF Next, RequestStep, MonitorStep

\* Linking adds functions of the request to an empty configuration.
LEMMA LinksNext ==
  ASSUME TypeOK, LinksSupported, [Next]_vars
  PROVE  LinksSupported'
<1> USE DEF TypeOK, LinksSupported
<1>1. ASSUME NEW F \in SUBSET Functions, Begin(F) PROVE LinksSupported'
  BY <1>1 DEF Begin
<1>2. CASE PullDown
  <2>1. udc' => udc
    BY <1>2, Zenon DEF PullDown
  <2> QED BY <1>2, <2>1 DEF PullDown
<1>3. CASE Unlink
  <2>1. links' \in Supported \cup {{}}
    BY <1>3, SupportedParts DEF Unlink
  <2>2. udc' => links' # {}
    BY <1>3, Zenon DEF Unlink
  <2> QED BY <1>3, <2>1, <2>2 DEF Unlink, Finish
<1>4. CASE StopMonitor
  BY <1>4 DEF StopMonitor
<1>5. CASE Join
  BY <1>5 DEF Join, Event
<1>6. CASE NoFunctions
  BY <1>6 DEF NoFunctions, Finish
<1>7. CASE Validate
  BY <1>7 DEF Validate, Finish
<1>8. ASSUME NEW f \in Functions, LinkFunction(f) PROVE LinksSupported'
  <2>1. links' \subseteq mCurrentUsbFunctions /\ mCurrentUsbFunctions \in Supported
    BY <1>8 DEF LinkFunction, NextToLink, Unlinked
  <2>2. links' \in Supported \cup {{}}
    BY <2>1, SupportedParts
  <2> QED BY <1>8, <2>1, <2>2, Zenon DEF LinkFunction
<1>9. ASSUME NEW f \in Functions, LinkFails(f) PROVE LinksSupported'
  BY <1>9 DEF LinkFails, Finish, NextToLink, Unlinked
<1>10. CASE PullUpNow
  BY <1>10 DEF PullUpNow, Finish, PullUp, PullUpFails
<1>11. CASE StartMonitor
  BY <1>11 DEF StartMonitor
<1>12. CASE WaitForPullUp
  BY <1>12 DEF WaitForPullUp, Finish
<1>13. CASE FirstLook
  BY <1>13 DEF FirstLook
<1>14. CASE MonitorPullUp
  BY <1>14 DEF MonitorPullUp, PullUp, PullUpFails
<1>15. CASE TellPullUp
  BY <1>15 DEF TellPullUp
<1>16. CASE EndpointEvent
  BY <1>16 DEF EndpointEvent
<1>17. CASE MonitorStops
  BY <1>17 DEF MonitorStops
<1>18. CASE ResetDown
  BY <1>18 DEF ResetDown
<1>19. CASE ResetUp
  BY <1>19 DEF ResetUp, PullUp, PullUpFails
<1>20. ASSUME NEW f \in Functions \cap Ffs, EndpointsUp(f) PROVE LinksSupported'
  BY <1>20 DEF EndpointsUp, Event
<1>21. ASSUME NEW f \in Functions \cap Ffs, EndpointsUsed(f) PROVE LinksSupported'
  BY <1>21 DEF EndpointsUsed
<1>22. ASSUME NEW f \in Functions \cap Ffs, EndpointsDown(f) PROVE LinksSupported'
  BY <1>22 DEF EndpointsDown, Event
<1>23. CASE UNCHANGED vars
  BY <1>23 DEF vars, Present
<1> QED
  BY <1>1, <1>2, <1>3, <1>4, <1>5, <1>6, <1>7, <1>8, <1>9, <1>10, <1>11, <1>12, <1>13, <1>14, <1>15, <1>16,
     <1>17, <1>18, <1>19, <1>20, <1>21, <1>22, <1>23
  DEF Next, RequestStep, MonitorStep

\* No pull-up is left over from an earlier request, and reset() binds what is linked.
LEMMA AnnouncedNext ==
  ASSUME TypeOK, MonitorLife, LinksSupported, Announced, [Next]_vars
  PROVE  Announced'
<1> USE DEF TypeOK, MonitorLife, LinksSupported, Announced
<1>1. ASSUME NEW F \in SUBSET Functions, Begin(F) PROVE Announced'
  BY <1>1 DEF Begin
<1>2. CASE PullDown
  BY <1>2 DEF PullDown
<1>3. CASE Unlink
  BY <1>3 DEF Unlink, Finish
<1>4. CASE StopMonitor
  BY <1>4 DEF StopMonitor
<1>5. CASE Join
  BY <1>5 DEF Join, Event
<1>6. CASE NoFunctions
  BY <1>6 DEF NoFunctions, Finish
<1>7. CASE Validate
  BY <1>7 DEF Validate, Finish
<1>8. ASSUME NEW f \in Functions, LinkFunction(f) PROVE Announced'
  BY <1>8 DEF LinkFunction
<1>9. ASSUME NEW f \in Functions, LinkFails(f) PROVE Announced'
  BY <1>9 DEF LinkFails, Finish
<1>10. CASE PullUpNow
  BY <1>10 DEF PullUpNow, Finish, PullUp, PullUpFails
<1>11. CASE StartMonitor
  BY <1>11 DEF StartMonitor, Unlinked
<1>12. CASE WaitForPullUp
  BY <1>12 DEF WaitForPullUp, Finish
<1>13. CASE FirstLook
  BY <1>13 DEF FirstLook
<1>14. CASE MonitorPullUp
  BY <1>14 DEF MonitorPullUp, PullUp, PullUpFails
<1>15. CASE TellPullUp
  BY <1>15 DEF TellPullUp
<1>16. CASE EndpointEvent
  BY <1>16 DEF EndpointEvent
<1>17. CASE MonitorStops
  BY <1>17 DEF MonitorStops
<1>18. CASE ResetDown
  BY <1>18 DEF ResetDown
<1>19. CASE ResetUp
  BY <1>19 DEF ResetUp, PullUp, PullUpFails
<1>20. ASSUME NEW f \in Functions \cap Ffs, EndpointsUp(f) PROVE Announced'
  BY <1>20 DEF EndpointsUp, Event
<1>21. ASSUME NEW f \in Functions \cap Ffs, EndpointsUsed(f) PROVE Announced'
  BY <1>21 DEF EndpointsUsed
<1>22. ASSUME NEW f \in Functions \cap Ffs, EndpointsDown(f) PROVE Announced'
  BY <1>22 DEF EndpointsDown, Event
<1>23. CASE UNCHANGED vars
  BY <1>23 DEF vars, Present
<1> QED
  BY <1>1, <1>2, <1>3, <1>4, <1>5, <1>6, <1>7, <1>8, <1>9, <1>10, <1>11, <1>12, <1>13, <1>14, <1>15, <1>16,
     <1>17, <1>18, <1>19, <1>20, <1>21, <1>22, <1>23
  DEF Next, RequestStep, MonitorStep

\* What a successful NONE leaves behind stays.
LEMMA NoneNext ==
  ASSUME TypeOK, MonitorLife, Unanswered, LinksSupported, Announced, NoneIsOff, [Next]_vars
  PROVE  NoneIsOff'
<1> USE DEF Announced, TypeOK, MonitorLife, Unanswered, LinksSupported, NoneIsOff, Supported
<1>1. ASSUME NEW F \in SUBSET Functions, Begin(F) PROVE NoneIsOff'
  BY <1>1 DEF Begin
<1>2. CASE PullDown
  BY <1>2 DEF PullDown
<1>3. CASE Unlink
  BY <1>3 DEF Unlink, Finish
<1>4. CASE StopMonitor
  BY <1>4 DEF StopMonitor
<1>5. CASE Join
  BY <1>5 DEF Join, Event
<1>6. CASE NoFunctions
  BY <1>6 DEF NoFunctions, Finish
<1>7. CASE Validate
  BY <1>7 DEF Validate, Finish
<1>8. ASSUME NEW f \in Functions, LinkFunction(f) PROVE NoneIsOff'
  BY <1>8 DEF LinkFunction
<1>9. ASSUME NEW f \in Functions, LinkFails(f) PROVE NoneIsOff'
  BY <1>9 DEF LinkFails, Finish
<1>10. CASE PullUpNow
  BY <1>10 DEF PullUpNow, Finish, PullUp, PullUpFails
<1>11. CASE StartMonitor
  BY <1>11 DEF StartMonitor
<1>12. CASE WaitForPullUp
  BY <1>12 DEF WaitForPullUp, Finish
<1>13. CASE FirstLook
  BY <1>13 DEF FirstLook
<1>14. CASE MonitorPullUp
  BY <1>14 DEF MonitorPullUp, PullUp, PullUpFails
<1>15. CASE TellPullUp
  BY <1>15 DEF TellPullUp
<1>16. CASE EndpointEvent
  BY <1>16 DEF EndpointEvent
<1>17. CASE MonitorStops
  BY <1>17 DEF MonitorStops
<1>18. CASE ResetDown
  BY <1>18 DEF ResetDown
<1>19. CASE ResetUp
  BY <1>19 DEF ResetUp, PullUp, PullUpFails
<1>20. ASSUME NEW f \in Functions \cap Ffs, EndpointsUp(f) PROVE NoneIsOff'
  BY <1>20 DEF EndpointsUp, Event
<1>21. ASSUME NEW f \in Functions \cap Ffs, EndpointsUsed(f) PROVE NoneIsOff'
  BY <1>21 DEF EndpointsUsed
<1>22. ASSUME NEW f \in Functions \cap Ffs, EndpointsDown(f) PROVE NoneIsOff'
  BY <1>22 DEF EndpointsDown, Event
<1>23. CASE UNCHANGED vars
  BY <1>23 DEF vars, Present
<1> QED
  BY <1>1, <1>2, <1>3, <1>4, <1>5, <1>6, <1>7, <1>8, <1>9, <1>10, <1>11, <1>12, <1>13, <1>14, <1>15, <1>16,
     <1>17, <1>18, <1>19, <1>20, <1>21, <1>22, <1>23
  DEF Next, RequestStep, MonitorStep

\* What a successful request binds stays linked, and any later pull-up binds the same.
LEMMA BoundNext ==
  ASSUME TypeOK, MonitorLife, Unanswered, LinksSupported, Announced, SuccessMeansBound, [Next]_vars
  PROVE  SuccessMeansBound'
<1> USE DEF TypeOK, MonitorLife, Unanswered, LinksSupported, Announced, SuccessMeansBound
<1>1. ASSUME NEW F \in SUBSET Functions, Begin(F) PROVE SuccessMeansBound'
  BY <1>1 DEF Begin
<1>2. CASE PullDown
  BY <1>2 DEF PullDown
<1>3. CASE Unlink
  BY <1>3 DEF Unlink, Finish
<1>4. CASE StopMonitor
  BY <1>4 DEF StopMonitor
<1>5. CASE Join
  BY <1>5 DEF Join, Event
<1>6. CASE NoFunctions
  BY <1>6 DEF NoFunctions, Finish
<1>7. CASE Validate
  BY <1>7 DEF Validate, Finish
<1>8. ASSUME NEW f \in Functions, LinkFunction(f) PROVE SuccessMeansBound'
  BY <1>8 DEF LinkFunction
<1>9. ASSUME NEW f \in Functions, LinkFails(f) PROVE SuccessMeansBound'
  BY <1>9 DEF LinkFails, Finish
<1>10. CASE PullUpNow
  BY <1>10 DEF PullUpNow, Finish, PullUp, PullUpFails, Unlinked
<1>11. CASE StartMonitor
  BY <1>11 DEF StartMonitor
<1>12. CASE WaitForPullUp
  <2>1. CASE gadgetPullup
    BY <1>12, <2>1 DEF WaitForPullUp, Finish
  <2>2. CASE ~gadgetPullup
    BY <1>12, <2>2 DEF WaitForPullUp, Finish
  <2> QED BY <2>1, <2>2
<1>13. CASE FirstLook
  BY <1>13 DEF FirstLook
<1>14. CASE MonitorPullUp
  BY <1>14 DEF MonitorPullUp, PullUp, PullUpFails
<1>15. CASE TellPullUp
  BY <1>15 DEF TellPullUp
<1>16. CASE EndpointEvent
  BY <1>16 DEF EndpointEvent
<1>17. CASE MonitorStops
  BY <1>17 DEF MonitorStops
<1>18. CASE ResetDown
  BY <1>18 DEF ResetDown
<1>19. CASE ResetUp
  BY <1>19 DEF ResetUp, PullUp, PullUpFails
<1>20. ASSUME NEW f \in Functions \cap Ffs, EndpointsUp(f) PROVE SuccessMeansBound'
  BY <1>20 DEF EndpointsUp, Event
<1>21. ASSUME NEW f \in Functions \cap Ffs, EndpointsUsed(f) PROVE SuccessMeansBound'
  BY <1>21 DEF EndpointsUsed
<1>22. ASSUME NEW f \in Functions \cap Ffs, EndpointsDown(f) PROVE SuccessMeansBound'
  BY <1>22 DEF EndpointsDown, Event
<1>23. CASE UNCHANGED vars
  BY <1>23 DEF vars, Present
<1> QED
  BY <1>1, <1>2, <1>3, <1>4, <1>5, <1>6, <1>7, <1>8, <1>9, <1>10, <1>11, <1>12, <1>13, <1>14, <1>15, <1>16,
     <1>17, <1>18, <1>19, <1>20, <1>21, <1>22, <1>23
  DEF Next, RequestStep, MonitorStep

\* An endpoint that comes up is watched, so it leaves an event.
LEMMA AwakeNext ==
  ASSUME TypeOK, MonitorLife, MonitorAwake, [Next]_vars
  PROVE  MonitorAwake'
<1> USE EventsAssumption DEF TypeOK, MonitorLife, MonitorAwake, Present
<1>1. ASSUME NEW F \in SUBSET Functions, Begin(F) PROVE MonitorAwake'
  BY <1>1 DEF Begin
<1>2. CASE PullDown
  BY <1>2 DEF PullDown
<1>3. CASE Unlink
  BY <1>3 DEF Unlink, Finish
<1>4. CASE StopMonitor
  BY <1>4 DEF StopMonitor
<1>5. CASE Join
  BY <1>5 DEF Join, Event
<1>6. CASE NoFunctions
  BY <1>6 DEF NoFunctions, Finish
<1>7. CASE Validate
  BY <1>7 DEF Validate, Finish
<1>8. ASSUME NEW f \in Functions, LinkFunction(f) PROVE MonitorAwake'
  BY <1>8 DEF LinkFunction
<1>9. ASSUME NEW f \in Functions, LinkFails(f) PROVE MonitorAwake'
  BY <1>9 DEF LinkFails, Finish
<1>10. CASE PullUpNow
  BY <1>10 DEF PullUpNow, Finish, PullUp, PullUpFails
<1>11. CASE StartMonitor
  BY <1>11 DEF StartMonitor
<1>12. CASE WaitForPullUp
  BY <1>12 DEF WaitForPullUp, Finish
<1>13. CASE FirstLook
  BY <1>13 DEF FirstLook
<1>14. CASE MonitorPullUp
  BY <1>14 DEF MonitorPullUp, PullUp, PullUpFails
<1>15. CASE TellPullUp
  BY <1>15 DEF TellPullUp
<1>16. CASE EndpointEvent
  BY <1>16 DEF EndpointEvent
<1>17. CASE MonitorStops
  BY <1>17 DEF MonitorStops
<1>18. CASE ResetDown
  BY <1>18 DEF ResetDown
<1>19. CASE ResetUp
  BY <1>19 DEF ResetUp, PullUp, PullUpFails
<1>20. ASSUME NEW f \in Functions \cap Ffs, EndpointsUp(f) PROVE MonitorAwake'
  BY <1>20 DEF EndpointsUp, Event
<1>21. ASSUME NEW f \in Functions \cap Ffs, EndpointsUsed(f) PROVE MonitorAwake'
  BY <1>21 DEF EndpointsUsed
<1>22. ASSUME NEW f \in Functions \cap Ffs, EndpointsDown(f) PROVE MonitorAwake'
  BY <1>22 DEF EndpointsDown, Event
<1>23. CASE UNCHANGED vars
  BY <1>23 DEF vars, Present
<1> QED
  BY <1>1, <1>2, <1>3, <1>4, <1>5, <1>6, <1>7, <1>8, <1>9, <1>10, <1>11, <1>12, <1>13, <1>14, <1>15, <1>16,
     <1>17, <1>18, <1>19, <1>20, <1>21, <1>22, <1>23
  DEF Next, RequestStep, MonitorStep

\* The parts together are inductive.
LEMMA Invariance == Spec => []IInv
<1>1. IInv /\ [Next]_vars => IInv'
  BY TypeNext, LifeNext, UnansweredNext, LinksNext, AnnouncedNext, NoneNext, BoundNext, AwakeNext
  DEF IInv
<1> QED BY InitIInv, <1>1, PTL DEF Spec

-----------------------------------------------------------------------------
\* Type correctness; with it, that no combination without a product id is ever bound.
THEOREM TypeCorrect == Spec => []TypeOK
<1>1. IInv => TypeOK
  BY DEF IInv
<1> QED BY <1>1, Invariance, PTL

\* After NONE was set with success the gadget is off and nobody can switch it on.
THEOREM NoneSwitchesOff == Spec => []NoneIsOff
<1>1. IInv => NoneIsOff
  BY DEF IInv
<1> QED BY <1>1, Invariance, PTL

\* SUCCESS is reported only for a gadget that was bound with the functions asked for.
THEOREM SuccessBinds == Spec => []SuccessMeansBound
<1>1. IInv => SuccessMeansBound
  BY DEF IInv
<1> QED BY <1>1, Invariance, PTL

\* The monitor never sleeps through the endpoints it waits for.
THEOREM MonitorNotices == Spec => []MonitorAwake
<1>1. IInv => MonitorAwake
  BY DEF IInv
<1> QED BY <1>1, Invariance, PTL
=============================================================================
