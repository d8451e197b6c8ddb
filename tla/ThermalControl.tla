--------------------------- MODULE ThermalControl ---------------------------
(***************************************************************************)
(* The control loop of the thermal daemon (exynos-thermal).  A sensor      *)
(* thread samples a temperature and activates the algorithms whose trigger *)
(* point it passes; each algorithm thread runs the decisions of its active *)
(* algorithms, step by step ("SS") or by thresholds ("monitor"), and asks  *)
(* devices for a level; a device applies the strictest level asked for.    *)
(*                                                                         *)
(* One sensor and one scenario; lowactive algorithms, which negate every   *)
(* number, are left out.  The threads' sampling times are not modelled:    *)
(* any thread may run next.                                                *)
(***************************************************************************)
EXTENDS Integers, Sequences, FiniteSets

CONSTANTS
  SS,            \* the SS algorithms: [name -> their configuration]
  Monitors,      \* the monitor algorithms: [name -> their configuration]
  Devices,       \* the devices: [name -> number of levels]
  Threads,       \* the algorithm threads: [name -> sequence of the algorithms they run]
  AlgoItems,     \* the sensor's algorithms, a sequence
  Temps,         \* the temperatures the sensor may show
  Unit,          \* 1000 in the code: the readings in one degree
  NoAlgo,        \* no algorithm
  MaxStatus      \* bound: the status up to which time ticks are counted

Algos == DOMAIN SS \cup DOMAIN Monitors

INT_MAX == 2147483647

(***************************************************************************)
(* The configuration.  The parser refuses an algorithm with a property     *)
(* missing and takes every number as it is.  Assumed of it here: points    *)
(* and thresholds are not negative and are cleared no later than they are  *)
(* set, thresholds rise, and the lists of a monitor are of one length (the *)
(* code would index beyond their ends).  Levels, floors and ticks are any  *)
(* int.                                                                    *)
(***************************************************************************)
SSConfigured(a) ==
  /\ SS[a].device \in DOMAIN Devices
  /\ SS[a].clearPoint \in Nat /\ SS[a].triggerPoint \in Nat
  /\ SS[a].clearPoint <= SS[a].triggerPoint
  /\ SS[a].devicePerfFloor \in Int /\ SS[a].startLevel \in Int /\ SS[a].timeTickTrigger \in Int

Rising(q) == q \in Seq(Nat) /\ \A i, j \in 1..Len(q) : i <= j => q[i] <= q[j]

MonitorConfigured(a) ==
  LET m == Monitors[a] IN
  /\ Rising(m.thresholds) /\ Rising(m.clrThresholds)
  /\ Len(m.thresholds) > 0
  /\ Len(m.clrThresholds) = Len(m.thresholds) /\ Len(m.actions) = Len(m.thresholds)
  /\ m.thresholds[1] > 0
  /\ \A i \in 1..Len(m.thresholds) : m.clrThresholds[i] <= m.thresholds[i]
  /\ \A i \in 1..Len(m.actions) :
       /\ DOMAIN m.actions[i] \subseteq DOMAIN Devices
       /\ \A d \in DOMAIN m.actions[i] : m.actions[i][d] \in Int /\ m.actions[i][d] <= INT_MAX

\* Algorithm a is one of the items of thread t.
Runs(t, a) == \E i \in 1..Len(Threads[t]) : Threads[t][i] = a

ASSUME SSAssumption == \A a \in DOMAIN SS : SSConfigured(a)
ASSUME MonitorsAssumption == \A a \in DOMAIN Monitors : MonitorConfigured(a)
ASSUME AlgosAssumption ==
  DOMAIN SS \cap DOMAIN Monitors = {} /\ IsFiniteSet(Algos) /\ NoAlgo \notin Algos
ASSUME DevicesAssumption == \A d \in DOMAIN Devices : Devices[d] \in 1..INT_MAX
ASSUME ThreadsAssumption ==
  /\ AlgoItems \in Seq(Algos)
  /\ \A t \in DOMAIN Threads : Threads[t] \in Seq(Algos)
  /\ \A a \in Algos : \E t \in DOMAIN Threads : Runs(t, a)
  /\ \A t, u \in DOMAIN Threads : \A a \in Algos : Runs(t, a) /\ Runs(u, a) => t = u
ASSUME NumbersAssumption == Temps \subseteq Nat /\ Unit \in Nat \ {0} /\ MaxStatus \in Nat

VARIABLES
  temperature,    \* the sensor's last reading
  activeStatus,   \* [Algos -> BOOLEAN]
  status,         \* [Algos -> Nat]: 0 does not limit anything
  decidedAt,      \* [Algos -> Nat]: the temperature of the last decision (prevTemperature)
  timeTick,       \* [DOMAIN SS -> Nat]
  numActive,      \* per thread: the number of active algorithms
  request,        \* per device: the level each algorithm asks for
  currentStatus,  \* per device: the level that is applied
  spc, toCheck, activating,   \* the sensor thread: its place, what is left of its loop, its algorithm
  pc, toRun, cur, next        \* each algorithm thread: place, loop, algorithm, status to go to

sensor == <<temperature, spc, toCheck, activating>>
algos == <<activeStatus, status, decidedAt, timeTick>>
devices == <<request, currentStatus>>
threads == <<pc, toRun, cur, next>>
vars == <<sensor, algos, numActive, devices, threads>>

ThreadOf(a) == CHOOSE t \in DOMAIN Threads : Runs(t, a)

TriggerPoint(a) == IF a \in DOMAIN SS THEN SS[a].triggerPoint ELSE Monitors[a].thresholds[1]

-----------------------------------------------------------------------------
(***************************************************************************)
(* Pure parts of the decisions                                             *)
(***************************************************************************)
Larger(m, n) == IF m < n THEN n ELSE m
Smaller(m, n) == IF m < n THEN m ELSE n

\* How many of the first elements of q are not above t.
Passed(q, t) ==
  CHOOSE n \in 0..Len(q) : (\A i \in 1..n : q[i] <= t) /\ (n < Len(q) => q[n + 1] > t)

\* Mutant: a temperature equal to the next threshold does not raise the status.
MonitorStatus_Above(m, s, t) ==
  IF s = 0 \/ (s < Len(m.thresholds) /\ t > m.thresholds[s + 1])
  THEN Passed(m.thresholds, t)
  ELSE IF t < m.clrThresholds[s] THEN Passed(m.clrThresholds, t) ELSE s

MonitorStatus(m, s, t) ==
  IF s = 0 \/ (s < Len(m.thresholds) /\ t >= m.thresholds[s + 1])
  THEN Passed(m.thresholds, t)
  ELSE IF t < m.clrThresholds[s] THEN Passed(m.clrThresholds, t) ELSE s

\* Mutant: the step to the trigger point itself is not counted.
TempDiff_OneLess(c, s, last, t) ==
  IF s = 0 THEN t \div Unit - c.triggerPoint \div Unit
           ELSE t \div Unit - last \div Unit

TempDiff(c, s, last, t) ==
  IF s = 0 THEN t \div Unit - c.triggerPoint \div Unit + 1
           ELSE t \div Unit - last \div Unit

\* Mutant: the level is not kept within the device's table.
Level_Unchecked(c, s) == s + c.startLevel

\* A negative nextStatus is compared as an unsigned number and counts as too large.
Level(c, s) ==
  LET n == s + c.startLevel - 1
      last == Devices[c.device] - 1
  IN  Smaller(IF n \in 0..last THEN n ELSE last, c.devicePerfFloor)

\* The levels an algorithm asks for in status s: a function on some devices.
Demand(a, s) ==
  IF a \in DOMAIN SS THEN [d \in {SS[a].device} |-> Level(SS[a], s)]
  ELSE IF s = 0 THEN [d \in {} |-> 0] ELSE Monitors[a].actions[s]

\* The levels getLowestStatus() looks at.
LevelsIn(r) == {r[a] : a \in Algos} \cup {0}

\* Mutant: the smallest level is taken for the lowest performance.
Strictest_Smallest(r) == CHOOSE n \in LevelsIn(r) : \A k \in LevelsIn(r) : n <= k

\* getLowestStatus()
Strictest(r) == CHOOSE n \in LevelsIn(r) : \A k \in LevelsIn(r) : k <= n

-----------------------------------------------------------------------------
(***************************************************************************)
(* The sensor thread: traverseSensors() and Sensor::traversItems()         *)
(***************************************************************************)
\* After its sleep the sensor thread reads the temperature and starts another round.
Sample(t) ==
  /\ spc = "scan"
  /\ toCheck = <<>>
  /\ temperature' = t
  /\ toCheck' = AlgoItems
  /\ UNCHANGED <<spc, activating, algos, numActive, devices, threads>>

Pass ==
  /\ spc = "scan"
  /\ toCheck # <<>>
  /\ activeStatus[Head(toCheck)] \/ temperature < TriggerPoint(Head(toCheck))
  /\ toCheck' = Tail(toCheck)
  /\ UNCHANGED <<temperature, spc, activating, algos, numActive, devices, threads>>

\* Algo::activate() sets the flag, then tells the thread.
Activate ==
  /\ spc = "scan"
  /\ toCheck # <<>>
  /\ ~activeStatus[Head(toCheck)] /\ temperature >= TriggerPoint(Head(toCheck))
  /\ toCheck' = Tail(toCheck)
  /\ activeStatus' = [activeStatus EXCEPT ![Head(toCheck)] = TRUE]
  /\ activating' = Head(toCheck)
  /\ spc' = "count"
  /\ UNCHANGED <<temperature, status, decidedAt, timeTick, numActive, devices, threads>>

\* Mutant: thermalThread::activate() only counts the first algorithm.
CountActive_First ==
  /\ spc = "count"
  /\ LET t == ThreadOf(activating) IN
       /\ numActive' = [numActive EXCEPT ![t] = 1]
       /\ pc' = IF numActive[t] = 0 /\ pc[t] = "waiting" THEN [pc EXCEPT ![t] = "scan"] ELSE pc
       /\ toRun' = IF numActive[t] = 0 /\ pc[t] = "waiting"
                   THEN [toRun EXCEPT ![t] = Threads[t]] ELSE toRun
  /\ activating' = NoAlgo
  /\ spc' = "scan"
  /\ UNCHANGED <<temperature, toCheck, algos, devices, cur, next>>

\* thermalThread::activate(): notify_one() reaches a thread only if it is waiting.
CountActive ==
  /\ spc = "count"
  /\ LET t == ThreadOf(activating)
         woken == numActive[t] = 0 /\ pc[t] = "waiting"
     IN  /\ numActive' = [numActive EXCEPT ![t] = @ + 1]
         /\ pc' = IF woken THEN [pc EXCEPT ![t] = "scan"] ELSE pc
         /\ toRun' = IF woken THEN [toRun EXCEPT ![t] = Threads[t]] ELSE toRun
  /\ activating' = NoAlgo
  /\ spc' = "scan"
  /\ UNCHANGED <<temperature, toCheck, algos, devices, cur, next>>

-----------------------------------------------------------------------------
(***************************************************************************)
(* SSThread and MonitorThread: operator()                                  *)
(***************************************************************************)
\* After a round and its sleep numActive is tested; "towait" lies between the test and
\* cond.wait().
Top(t) ==
  /\ pc[t] = "scan"
  /\ toRun[t] = <<>>
  /\ pc' = [pc EXCEPT ![t] = IF numActive[t] = 0 THEN "towait" ELSE "scan"]
  /\ toRun' = [toRun EXCEPT ![t] = IF numActive[t] = 0 THEN <<>> ELSE Threads[t]]
  /\ UNCHANGED <<sensor, algos, numActive, devices, cur, next>>

Wait(t) ==
  /\ pc[t] = "towait"
  /\ pc' = [pc EXCEPT ![t] = "waiting"]
  /\ UNCHANGED <<sensor, algos, numActive, devices, toRun, cur, next>>

SpuriousWakeup(t) ==
  /\ pc[t] = "waiting"
  /\ pc' = [pc EXCEPT ![t] = "scan"]
  /\ toRun' = [toRun EXCEPT ![t] = Threads[t]]
  /\ UNCHANGED <<sensor, algos, numActive, devices, cur, next>>

Skip(t, a) ==
  /\ pc[t] = "scan"
  /\ toRun[t] # <<>> /\ a = Head(toRun[t])
  /\ ~activeStatus[a]
  /\ toRun' = [toRun EXCEPT ![t] = Tail(@)]
  /\ UNCHANGED <<sensor, algos, numActive, devices, pc, cur, next>>

\* A decision that changes nothing, one that goes on to another status, one that ends.
Unchanged(t, a) ==
  /\ toRun' = [toRun EXCEPT ![t] = Tail(@)]
  /\ UNCHANGED <<pc, cur, next>>

GoTo(t, a, place, s) ==
  /\ toRun' = [toRun EXCEPT ![t] = Tail(@)]
  /\ pc' = [pc EXCEPT ![t] = place]
  /\ cur' = [cur EXCEPT ![t] = a]
  /\ next' = [next EXCEPT ![t] = s]

MonitorDecision(t, a) ==
  /\ pc[t] = "scan"
  /\ toRun[t] # <<>> /\ a = Head(toRun[t]) /\ a \in DOMAIN Monitors
  /\ activeStatus[a]
  /\ LET new == MonitorStatus(Monitors[a], status[a], temperature) IN
       IF new = status[a] THEN Unchanged(t, a)
       ELSE GoTo(t, a, IF new = 0 THEN "switchoff" ELSE "release", new)
  /\ decidedAt' = [decidedAt EXCEPT ![a] = temperature]
  /\ UNCHANGED <<sensor, activeStatus, status, timeTick, numActive, devices>>

\* SS::decision() below the clear point.
SSClear(t, a) ==
  /\ pc[t] = "scan"
  /\ toRun[t] # <<>> /\ a = Head(toRun[t]) /\ a \in DOMAIN SS
  /\ activeStatus[a]
  /\ temperature < SS[a].clearPoint
  /\ timeTick' = [timeTick EXCEPT ![a] = 0]
  /\ GoTo(t, a, "switchoff", 0)
  /\ UNCHANGED <<sensor, activeStatus, status, decidedAt, numActive, devices>>

SSDecision(t, a) ==
  /\ pc[t] = "scan"
  /\ toRun[t] # <<>> /\ a = Head(toRun[t]) /\ a \in DOMAIN SS
  /\ activeStatus[a]
  /\ temperature >= SS[a].clearPoint
  /\ LET c == SS[a]
         diff == TempDiff(c, status[a], decidedAt[a], temperature)
         ticks == IF /\ c.timeTickTrigger # 0 /\ diff = 0 /\ status[a] < MaxStatus
                     /\ currentStatus[c.device] <= c.devicePerfFloor
                  THEN timeTick[a] + 1 ELSE 0
         tick == IF ticks # 0 /\ ticks = c.timeTickTrigger THEN 1 ELSE 0
         new == Larger(status[a] + diff + tick, 0)
     IN  /\ timeTick' = [timeTick EXCEPT ![a] = IF new # status[a] THEN 0 ELSE ticks]
         /\ IF new = status[a] THEN Unchanged(t, a) ELSE GoTo(t, a, "request", new)
  /\ decidedAt' = [decidedAt EXCEPT ![a] = temperature]
  /\ UNCHANGED <<sensor, activeStatus, status, numActive, devices>>

\* deviceControl() for each device of a function from devices to levels.
Requested(a, levels) ==
  [d \in DOMAIN Devices |->
     IF d \in DOMAIN levels THEN [request[d] EXCEPT ![a] = levels[d]] ELSE request[d]]

\* deviceControl(name, 0) for the devices of the status that is left.
Released(a) == Requested(a, [d \in DOMAIN Demand(a, status[a]) |-> 0])

Release(t) ==
  /\ pc[t] = "release"
  /\ request' = Released(cur[t])
  /\ pc' = [pc EXCEPT ![t] = "request"]
  /\ UNCHANGED <<sensor, algos, numActive, currentStatus, toRun, cur, next>>

Request(t) ==
  /\ pc[t] = "request"
  /\ request' = Requested(cur[t], Demand(cur[t], next[t]))
  /\ pc' = [pc EXCEPT ![t] = "apply"]
  /\ UNCHANGED <<sensor, algos, numActive, currentStatus, toRun, cur, next>>

\* Mutant: deactivate() leaves the algorithm's request behind.
SwitchOff_KeepsRequest(t) ==
  /\ pc[t] = "switchoff"
  /\ pc' = [pc EXCEPT ![t] = "applyoff"]
  /\ UNCHANGED <<sensor, algos, numActive, devices, toRun, cur, next>>

\* The first half of SS::deactivate() and Monitor::deactivate().
SwitchOff(t) ==
  /\ pc[t] = "switchoff"
  /\ request' = Released(cur[t])
  /\ pc' = [pc EXCEPT ![t] = "applyoff"]
  /\ UNCHANGED <<sensor, algos, numActive, currentStatus, toRun, cur, next>>

\* statusApply() for each of a set of devices.
Applied(ds) ==
  [d \in DOMAIN Devices |-> IF d \in ds THEN Strictest(request[d]) ELSE currentStatus[d]]

\* Mutant: only the devices of the new status are brought up to date.
Apply_OnlyNew(t) ==
  /\ pc[t] \in {"apply", "applyoff"}
  /\ currentStatus' = Applied(DOMAIN Demand(cur[t], next[t]))
  /\ status' = [status EXCEPT ![cur[t]] = next[t]]
  /\ pc' = [pc EXCEPT ![t] = IF pc[t] = "apply" THEN "scan" ELSE "unflag"]
  /\ cur' = IF pc[t] = "apply" THEN [cur EXCEPT ![t] = NoAlgo] ELSE cur
  /\ next' = [next EXCEPT ![t] = 0]
  /\ UNCHANGED <<sensor, activeStatus, decidedAt, timeTick, numActive, request, toRun>>

Apply(t) ==
  /\ pc[t] \in {"apply", "applyoff"}
  /\ LET a == cur[t] IN
       /\ currentStatus' = Applied(DOMAIN Demand(a, status[a]) \cup DOMAIN Demand(a, next[t]))
       /\ status' = [status EXCEPT ![a] = next[t]]
  /\ pc' = [pc EXCEPT ![t] = IF pc[t] = "apply" THEN "scan" ELSE "unflag"]
  /\ cur' = IF pc[t] = "apply" THEN [cur EXCEPT ![t] = NoAlgo] ELSE cur
  /\ next' = [next EXCEPT ![t] = 0]
  /\ UNCHANGED <<sensor, activeStatus, decidedAt, timeTick, numActive, request, toRun>>

Unflag(t) ==
  /\ pc[t] = "unflag"
  /\ activeStatus' = [activeStatus EXCEPT ![cur[t]] = FALSE]
  /\ pc' = [pc EXCEPT ![t] = "uncount"]
  /\ UNCHANGED <<sensor, status, decidedAt, timeTick, numActive, devices, toRun, cur, next>>

\* thermalThread::deactivate()
Uncount(t) ==
  /\ pc[t] = "uncount"
  /\ numActive' = [numActive EXCEPT ![t] = IF @ > 0 THEN @ - 1 ELSE 0]
  /\ pc' = [pc EXCEPT ![t] = "scan"]
  /\ cur' = [cur EXCEPT ![t] = NoAlgo]
  /\ UNCHANGED <<sensor, algos, devices, toRun, next>>

-----------------------------------------------------------------------------
Init ==
  /\ temperature = 0
  /\ activeStatus = [a \in Algos |-> FALSE]
  /\ status = [a \in Algos |-> 0]
  /\ decidedAt = [a \in Algos |-> 0]
  /\ timeTick = [a \in DOMAIN SS |-> 0]
  /\ numActive = [t \in DOMAIN Threads |-> 0]
  /\ request = [d \in DOMAIN Devices |-> [a \in Algos |-> 0]]
  /\ currentStatus = [d \in DOMAIN Devices |-> 0]
  /\ spc = "scan" /\ toCheck = <<>> /\ activating = NoAlgo
  /\ pc = [t \in DOMAIN Threads |-> "scan"]
  /\ toRun = [t \in DOMAIN Threads |-> <<>>]
  /\ cur = [t \in DOMAIN Threads |-> NoAlgo]
  /\ next = [t \in DOMAIN Threads |-> 0]

SensorStep ==
  \/ \E x \in Temps : Sample(x)
  \/ Pass \/ Activate \/ CountActive

ThreadStep(t) ==
  \/ Top(t) \/ Wait(t)
  \/ \E a \in Algos :
       Skip(t, a) \/ MonitorDecision(t, a) \/ SSClear(t, a) \/ SSDecision(t, a)
  \/ Release(t) \/ Request(t) \/ SwitchOff(t) \/ Apply(t) \/ Unflag(t) \/ Uncount(t)

Next ==
  \/ SensorStep
  \/ \E t \in DOMAIN Threads : ThreadStep(t) \/ SpuriousWakeup(t)

Spec == Init /\ [][Next]_vars

\* The scheduler keeps running every thread that can run.
FairSpec ==
  /\ Spec
  /\ WF_vars(SensorStep)
  /\ \A t \in DOMAIN Threads : WF_vars(ThreadStep(t))

-----------------------------------------------------------------------------
(***************************************************************************)
(* Properties                                                              *)
(***************************************************************************)
Places == {"towait", "waiting", "scan", "switchoff", "release", "request",
           "apply", "applyoff", "unflag", "uncount"}

\* Every level the monitors' action_info names for device d is one of its table.
ActionsInTable(d) ==
  \A a \in DOMAIN Monitors : \A i \in 1..Len(Monitors[a].actions) :
    d \in DOMAIN Monitors[a].actions[i] => Monitors[a].actions[i][d] < Devices[d]

\* A level algorithm a may ask device d for.
Askable(d, a, n) ==
  /\ n \in Int /\ n <= INT_MAX
  /\ a \in DOMAIN SS \/ ActionsInTable(d) => n < Devices[d]

\* The type of every variable.  The levels SS algorithms compute are within their device's table
\* whatever start_level and floor they are given, and a level that is applied, with which
\* Device::statusApply() indexes leveltoValue unchecked, is within it too unless the action_info
\* of a monitor, which the parser does not check, already names one that is not.
TypeOK ==
  /\ temperature \in Nat
  /\ activeStatus \in [Algos -> BOOLEAN]
  /\ status \in [Algos -> Nat] /\ decidedAt \in [Algos -> Nat]
  /\ timeTick \in [DOMAIN SS -> Nat]
  /\ numActive \in [DOMAIN Threads -> Nat]
  /\ request \in [DOMAIN Devices -> [Algos -> Int]]
  /\ currentStatus \in [DOMAIN Devices -> Nat]
  /\ \A d \in DOMAIN Devices : \A a \in Algos : Askable(d, a, request[d][a])
  /\ \A d \in DOMAIN Devices : ActionsInTable(d) => currentStatus[d] < Devices[d]
  /\ spc \in {"scan", "count"}
  /\ toCheck \in Seq(Algos)
  /\ IF spc = "count" THEN activating \in Algos ELSE activating = NoAlgo
  /\ pc \in [DOMAIN Threads -> Places]
  /\ toRun \in [DOMAIN Threads -> Seq(Algos)]
  /\ cur \in [DOMAIN Threads -> Algos \cup {NoAlgo}]
  /\ next \in [DOMAIN Threads -> Nat]

\* A thread is in the middle of carrying out a decision of algorithm a.
Deciding(a) ==
  \E t \in DOMAIN Threads :
    cur[t] = a /\ pc[t] \in {"switchoff", "release", "request", "apply", "applyoff"}

\* Whatever the other threads ask of the same device between one algorithm's deviceControl()
\* and its statusApply(), no request gets lost: when no decision about a device is under way,
\* the level applied is the strictest one asked for.
DeviceFollowsRequests ==
  \A d \in DOMAIN Devices :
    \/ currentStatus[d] = Strictest(request[d])
    \/ \E t \in DOMAIN Threads :
         /\ pc[t] \in {"request", "apply", "applyoff"}
         /\ d \in DOMAIN Demand(cur[t], status[cur[t]]) \cup DOMAIN Demand(cur[t], next[t])

\* An algorithm that limits keeps every device of its status at least at the level its table
\* gives, whatever the algorithms of other threads request or release.
LimitIsKept ==
  \A a \in Algos :
    (status[a] > 0 /\ ~Deciding(a)) =>
      \A d \in DOMAIN Demand(a, status[a]) : currentStatus[d] >= Demand(a, status[a])[d]

\* An algorithm that is switched off holds no request: nobody would ever release it, as
\* only the decisions of an active algorithm do.
InactiveReleases ==
  \A a \in Algos : ~activeStatus[a] => \A d \in DOMAIN Devices : request[d][a] = 0

\* Monitor::decision() keeps the hysteresis: the status lies between the number of thresholds
\* the temperature it decided on has passed and the number it has not been cleared of.
MonitorBand ==
  \A a \in DOMAIN Monitors :
    (activeStatus[a] /\ status[a] > 0 /\ ~Deciding(a)) =>
      /\ Passed(Monitors[a].thresholds, decidedAt[a]) <= status[a]
      /\ status[a] <= Passed(Monitors[a].clrThresholds, decidedAt[a])

\* SS::decision() adds up differences of rounded temperatures; the sum never falls behind the
\* distance of the temperature it last decided on from the trigger point.
SSNeverBehind ==
  \A a \in DOMAIN SS :
    (status[a] > 0 /\ ~Deciding(a)) =>
      status[a] >= decidedAt[a] \div Unit - SS[a].triggerPoint \div Unit + 1

ActiveIn(t) == {a \in Algos : Runs(t, a) /\ activeStatus[a]}

\* Algo::activate() and deactivate() change the flag and the counter in separate steps of
\* different threads; but for steps under way the counter is the number of flags set.
CountsActive ==
  \A t \in DOMAIN Threads :
    numActive[t] + (IF spc = "count" /\ Runs(t, activating) THEN 1 ELSE 0)
      = Cardinality(ActiveIn(t)) + (IF pc[t] = "uncount" THEN 1 ELSE 0)

Cold ==
  /\ \A a \in DOMAIN SS : temperature < SS[a].clearPoint
  /\ \A a \in DOMAIN Monitors : temperature < Monitors[a].clrThresholds[1]

\* thermal-thread.cpp:83, "If there has no active SS Item, goto wait": a thread that waits has
\* nothing active, but for what the sensor thread is activating.  It does not hold: numActive
\* is tested without the lock that activate() takes, and a notification between the test and
\* cond.wait() is lost.
WaitsWhenIdle ==
  \A t \in DOMAIN Threads :
    pc[t] = "waiting" => \/ ActiveIn(t) = {}
                         \/ spc = "count" /\ ActiveIn(t) = {activating}

\* Once it stays cold, the active algorithms release every device for good.  A lost wakeup
\* is the only thing that can prevent it.
Recovers ==
  ([]WaitsWhenIdle /\ <>[]Cold) => <>[](\A d \in DOMAIN Devices : currentStatus[d] = 0)

\* SS::decision(), "If status move 0 to upper, calculate tempDiff from triggerPoint": 0 is the
\* lowest status, left when the trigger point is reached.  An algorithm that has cooled down to it
\* does not ask for a stricter level than in status 1.  It does not hold for the default
\* start_level 0: the level is -1 then, and the unsigned comparison turns it into the strictest.
StatusZeroMildest ==
  \A a \in DOMAIN SS :
    (status[a] = 0 /\ ~Deciding(a)) => request[SS[a].device][a] <= Larger(Level(SS[a], 1), 0)

=============================================================================
