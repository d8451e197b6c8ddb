------------------------ MODULE ThermalControlProofs ------------------------
(***************************************************************************)
(* Proofs about the thermal control loop, for every configuration of       *)
(* algorithms, devices and threads and every range of temperatures.        *)
(***************************************************************************)
EXTENDS ThermalControl, FiniteSetTheorems, WellFoundedInduction, TLAPS

-----------------------------------------------------------------------------
(***************************************************************************)
(* The choices of the pure operators exist                                 *)
(***************************************************************************)
\* A non-empty set of natural numbers has a least element.
LEMMA Least ==
  ASSUME NEW S \in SUBSET Nat, S # {}
  PROVE  \E n \in S : \A k \in S : n <= k
<1>1. PICK n \in S : \A k \in S : ~(<<k, n>> \in OpToRel(<, Nat))
  BY NatLessThanWellFounded, WFMin
<1>2. ASSUME NEW k \in S, k < n PROVE FALSE
  <2>1. <<k, n>> \in {ss \in Nat \X Nat : ss[1] < ss[2]}
    BY <1>2, SMT
  <2>2. OpToRel(<, Nat) = {ss \in Nat \X Nat : ss[1] < ss[2]}
    BY Zenon DEF OpToRel
  <2> QED BY <1>1, <2>1, <2>2, Zenon
<1> QED BY <1>2, SMT

\* The loops of Monitor::decision() count how many of the first thresholds the temperature has
\* reached.
LEMMA PassedMeaning ==
  ASSUME NEW q, Rising(q), NEW t \in Nat
  PROVE  /\ Passed(q, t) \in 0..Len(q)
         /\ \A i \in 1..Len(q) : q[i] <= t <=> i <= Passed(q, t)
<1> DEFINE P(n) == (\A i \in 1..n : q[i] <= t) /\ (n < Len(q) => q[n + 1] > t)
           S == {n \in 0..Len(q) : n < Len(q) => q[n + 1] > t}
<1>0. q \in Seq(Nat) /\ Len(q) \in Nat /\ \A i \in 1..Len(q) : q[i] \in Nat
  BY SMT DEF Rising
<1>1. PICK n \in S : \A k \in S : n <= k
  <2>1. Len(q) \in S /\ S \in SUBSET Nat
    BY <1>0, SMT
  <2> QED BY <2>1, Least
<1>2. P(n)
  <2>1. ASSUME NEW i \in 1..n, q[i] > t PROVE FALSE
    <3>1. i - 1 \in S /\ n \in Nat
      BY <1>0, <2>1, SMT
    <3>2. n <= i - 1
      BY <1>1, <3>1
    <3> QED BY <3>1, <3>2, SMT
  <2> QED BY <1>0, <2>1, SMT
<1>3. Passed(q, t) \in 0..Len(q) /\ P(Passed(q, t))
  <2> HIDE DEF P
  <2>1. \E k \in 0..Len(q) : P(k)
    BY <1>1, <1>2
  <2>2. Passed(q, t) = CHOOSE k \in 0..Len(q) : P(k)
    BY DEF Passed, P
  <2> QED BY <2>1, <2>2
<1> DEFINE p == Passed(q, t)
<1>4. ASSUME NEW i \in 1..Len(q) PROVE q[i] <= t <=> i <= p
  <2>1. CASE i <= p
    BY <1>0, <1>3, <2>1, SMT
  <2>2. CASE i > p
    <3>1. p + 1 \in 1..Len(q) /\ q[p + 1] > t /\ q[p + 1] <= q[i]
      <4> HIDE DEF p
      <4>1. p \in 0..Len(q) /\ (p < Len(q) => q[p + 1] > t)
        BY <1>3 DEF p
      <4> QED BY <1>0, <4>1, <2>2, SMT DEF Rising
    <3>2. p \in Nat
      BY <1>0, <1>3, SMT
    <3> HIDE DEF p
    <3> QED BY <1>0, <3>1, <3>2, <2>2, SMT
  <2> QED BY <1>0, <1>3, <2>1, <2>2, SMT
<1> QED BY <1>3, <1>4

\* getLowestStatus() returns 0 or one of the levels asked for, and no request exceeds it.
LEMMA StrictestMeaning ==
  ASSUME NEW r \in [Algos -> Int], NEW K \in Nat \ {0}, \A a \in Algos : r[a] < K
  PROVE  /\ Strictest(r) \in 0..K - 1
         /\ \A a \in Algos : r[a] <= Strictest(r)
<1> DEFINE L == LevelsIn(r)
           S == {K - n : n \in L}
           P(n) == \A k \in L : k <= n
<1>1. L \subseteq Int /\ (\A n \in L : n < K) /\ 0 \in L /\ \A a \in Algos : r[a] \in L
  BY SMT DEF LevelsIn
<1> HIDE DEF L
<1>2. S \in SUBSET Nat /\ S # {}
  BY <1>1, SMT
<1>3. PICK m \in S : \A k \in S : m <= k
  BY <1>2, Least
<1>4. PICK n \in L : m = K - n
  BY <1>3
<1>5. ASSUME NEW k \in L PROVE k <= n
  <2>1. K - k \in S
    OBVIOUS
  <2>2. m <= K - k
    BY <1>3, <2>1
  <2> QED BY <1>1, <1>4, <2>2, SMT
<1>6. P(n)
  BY <1>5
<1>7. Strictest(r) \in L /\ P(Strictest(r))
  <2>1. Strictest(r) = CHOOSE k \in L : P(k)
    BY DEF Strictest, L
  <2> HIDE DEF P
  <2> QED BY <1>4, <1>6, <2>1
<1> DEFINE x == Strictest(r)
<1>8. x \in L /\ \A k \in L : k <= x
  BY <1>7
<1> HIDE DEF x, P, S
<1>9. x \in Int /\ x < K
  BY <1>1, <1>8, Zenon
<1>10. 0 <= x
  BY <1>1, <1>8, Zenon
<1>11. x \in 0..K - 1
  BY <1>9, <1>10, SMT
<1>12. \A a \in Algos : r[a] <= x
  BY <1>1, <1>8, Zenon
<1> QED BY <1>11, <1>12 DEF x

-----------------------------------------------------------------------------
(***************************************************************************)
(* The inductive invariant, in three layers.  The first: the types, every  *)
(* status within its table, and every thread at work on an active          *)
(* algorithm of its own.                                                   *)
(***************************************************************************)
InTable(a, s) == a \in DOMAIN Monitors => s <= Len(Monitors[a].thresholds)

StatusInTable ==
  /\ \A a \in Algos : InTable(a, status[a])
  /\ \A t \in DOMAIN Threads : InTable(cur[t], next[t])

Carrying == {"switchoff", "release", "request", "apply", "applyoff", "unflag"}

OwnAlgorithms ==
  \A t \in DOMAIN Threads :
    /\ \A i \in 1..Len(toRun[t]) : Runs(t, toRun[t][i])
    /\ IF pc[t] \in Carrying \cup {"uncount"} THEN cur[t] \in Algos /\ Runs(t, cur[t])
                                              ELSE cur[t] = NoAlgo
    /\ pc[t] \in Carrying => activeStatus[cur[t]]

Shape == TypeOK /\ StatusInTable /\ OwnAlgorithms

-----------------------------------------------------------------------------
\* The largest int is a number.
LEMMA IntMax == INT_MAX \in Nat
BY DEF INT_MAX

\* Nothing can be asked of any device.
LEMMA ZeroAskable ==
  ASSUME NEW d \in DOMAIN Devices, NEW a PROVE Askable(d, a, 0)
BY DevicesAssumption, IntMax, SMT DEF Askable

\* The level an SS algorithm computes is below the number of its device's levels.
LEMMA LevelType ==
  ASSUME NEW a \in DOMAIN SS, NEW s \in Nat
  PROVE  Askable(SS[a].device, a, Level(SS[a], s))
BY SSAssumption, DevicesAssumption, IntMax, SMT DEF SSConfigured, Level, Smaller, Askable

\* What an algorithm asks for in a status of its table, it asks of existing devices.
LEMMA DemandType ==
  ASSUME NEW a \in Algos, NEW s \in Nat, InTable(a, s)
  PROVE  /\ DOMAIN Demand(a, s) \subseteq DOMAIN Devices
         /\ \A d \in DOMAIN Demand(a, s) : Askable(d, a, Demand(a, s)[d])
<1>1. CASE a \in DOMAIN SS
  <2>1. Demand(a, s) = [d \in {SS[a].device} |-> Level(SS[a], s)]
    BY <1>1 DEF Demand
  <2>2. SS[a].device \in DOMAIN Devices
    BY <1>1, SSAssumption DEF SSConfigured
  <2> QED BY <1>1, <2>1, <2>2, LevelType
<1>2. CASE a \notin DOMAIN SS /\ s = 0
  <2>1. DOMAIN Demand(a, s) = {}
    BY <1>2 DEF Demand
  <2> QED BY <2>1
<1>3. CASE a \notin DOMAIN SS /\ s # 0
  <2>1. a \in DOMAIN Monitors /\ Demand(a, s) = Monitors[a].actions[s]
    BY <1>3 DEF Demand, Algos
  <2>2. Rising(Monitors[a].thresholds) /\ Len(Monitors[a].actions) = Len(Monitors[a].thresholds)
    BY <2>1, MonitorsAssumption DEF MonitorConfigured
  <2>3. s \in 1..Len(Monitors[a].actions)
    BY <1>3, <2>1, <2>2, SMT DEF InTable, Rising
  <2>4. /\ DOMAIN Demand(a, s) \subseteq DOMAIN Devices
        /\ \A d \in DOMAIN Demand(a, s) : Demand(a, s)[d] \in Int /\ Demand(a, s)[d] <= INT_MAX
    BY <2>1, <2>3, MonitorsAssumption DEF MonitorConfigured
  <2>5. \A d \in DOMAIN Demand(a, s) : ActionsInTable(d) => Demand(a, s)[d] < Devices[d]
    BY <2>1, <2>3 DEF ActionsInTable
  <2> QED BY <1>3, <2>4, <2>5 DEF Askable
<1> QED BY <1>1, <1>2, <1>3

\* A decision of a monitor yields a status of its table.
LEMMA MonitorStatusType ==
  ASSUME NEW a \in DOMAIN Monitors, NEW s \in Nat, InTable(a, s), NEW t \in Nat
  PROVE  MonitorStatus(Monitors[a], s, t) \in Nat /\ InTable(a, MonitorStatus(Monitors[a], s, t))
<1> DEFINE m == Monitors[a]
<1>1. Rising(m.thresholds) /\ Rising(m.clrThresholds) /\ Len(m.clrThresholds) = Len(m.thresholds)
  BY MonitorsAssumption DEF MonitorConfigured
<1>2. Passed(m.thresholds, t) \in 0..Len(m.thresholds)
      /\ Passed(m.clrThresholds, t) \in 0..Len(m.thresholds)
  BY <1>1, PassedMeaning
<1>3. Len(m.thresholds) \in Nat
  BY <1>1, SMT DEF Rising
<1> QED BY <1>2, <1>3, SMT DEF MonitorStatus, InTable

\* Requests that can be asked keep the requests such.
LEMMA RequestedType ==
  ASSUME TypeOK, NEW a \in Algos, NEW levels,
         \A d \in DOMAIN levels : Askable(d, a, levels[d])
  PROVE  /\ Requested(a, levels) \in [DOMAIN Devices -> [Algos -> Int]]
         /\ \A d \in DOMAIN Devices : \A b \in Algos : Askable(d, b, Requested(a, levels)[d][b])
         /\ \A d \in DOMAIN Devices : \A b \in Algos :
              Requested(a, levels)[d][b] = IF b = a /\ d \in DOMAIN levels THEN levels[d]
                                           ELSE request[d][b]
<1>1. request \in [DOMAIN Devices -> [Algos -> Int]]
      /\ \A d \in DOMAIN Devices : \A b \in Algos : Askable(d, b, request[d][b])
  BY DEF TypeOK
<1>2. \A d \in DOMAIN levels : levels[d] \in Int
  BY DEF Askable
<1>3. /\ Requested(a, levels) \in [DOMAIN Devices -> [Algos -> Int]]
      /\ \A d \in DOMAIN Devices : \A b \in Algos :
           Requested(a, levels)[d][b] = IF b = a /\ d \in DOMAIN levels THEN levels[d]
                                        ELSE request[d][b]
  BY <1>1, <1>2, SMT DEF Requested
<1> QED BY <1>1, <1>3

\* The first element of a thread's loop is one of its algorithms, and so are the others.
LEMMA HeadRuns ==
  ASSUME Shape, NEW t \in DOMAIN Threads, toRun[t] # <<>>
  PROVE  /\ Head(toRun[t]) \in Algos /\ Runs(t, Head(toRun[t]))
         /\ Tail(toRun[t]) \in Seq(Algos)
         /\ \A i \in 1..Len(Tail(toRun[t])) : Runs(t, Tail(toRun[t])[i])
<1>1. toRun[t] \in Seq(Algos) /\ \A i \in 1..Len(toRun[t]) : Runs(t, toRun[t][i])
  BY DEF Shape, TypeOK, OwnAlgorithms
<1> HIDE DEF Runs
<1>2. Len(toRun[t]) \in Nat \ {0} /\ Head(toRun[t]) = toRun[t][1]
  BY <1>1, SMT
<1> QED BY <1>1, <1>2, SMT

\* A thread's own sequence has only algorithms it runs.
LEMMA ThreadRuns ==
  ASSUME NEW t \in DOMAIN Threads
  PROVE  Threads[t] \in Seq(Algos) /\ \A i \in 1..Len(Threads[t]) : Runs(t, Threads[t][i])
BY ThreadsAssumption DEF Runs

LEMMA ShapeInit == Init => Shape
<1> SUFFICES ASSUME Init PROVE Shape
  OBVIOUS
<1>1. TypeOK
  BY DevicesAssumption, ZeroAskable, SMT DEF Init, TypeOK, Places
<1>2. StatusInTable
  <2>1. \A a \in DOMAIN Monitors : 0 <= Len(Monitors[a].thresholds)
    BY MonitorsAssumption, SMT DEF MonitorConfigured, Rising
  <2> QED BY <2>1, SMT DEF Init, StatusInTable, InTable
<1>3. OwnAlgorithms
  BY SMT DEF Init, OwnAlgorithms, Carrying
<1> QED BY <1>1, <1>2, <1>3 DEF Shape

\* The sensor thread's steps.
LEMMA ShapeSensor ==
  ASSUME Shape, SensorStep
  PROVE  Shape'
<1> USE DEF Shape
<1>1. ASSUME NEW x \in Temps, Sample(x) PROVE Shape'
  BY <1>1, NumbersAssumption, ThreadsAssumption, SMT
  DEF Sample, TypeOK, StatusInTable, InTable, OwnAlgorithms, algos, devices, threads, Places
<1>2. CASE Pass
  BY <1>2, SMT
  DEF Pass, TypeOK, StatusInTable, InTable, OwnAlgorithms, algos, devices, threads, Places
<1>3. CASE Activate
  <2>1. Head(toCheck) \in Algos /\ Tail(toCheck) \in Seq(Algos)
    BY <1>3, SMT DEF Activate, TypeOK
  <2> QED
    BY <1>3, <2>1, SMT
    DEF Activate, TypeOK, StatusInTable, InTable, OwnAlgorithms, devices, threads, Places
<1>4. CASE CountActive
  <2> DEFINE t == ThreadOf(activating)
             woken == numActive[t] = 0 /\ pc[t] = "waiting"
  <2>1. t \in DOMAIN Threads
    BY <1>4, ThreadsAssumption DEF CountActive, TypeOK, ThreadOf
  <2>2. Threads[t] \in Seq(Algos) /\ \A i \in 1..Len(Threads[t]) : Runs(t, Threads[t][i])
    BY <2>1, ThreadRuns
  <2> HIDE DEF t
  <2>3. /\ numActive' = [numActive EXCEPT ![t] = @ + 1]
        /\ pc' = IF woken THEN [pc EXCEPT ![t] = "scan"] ELSE pc
        /\ toRun' = IF woken THEN [toRun EXCEPT ![t] = Threads[t]] ELSE toRun
        /\ activating' = NoAlgo /\ spc' = "scan"
        /\ UNCHANGED <<temperature, toCheck, algos, devices, cur, next>>
    BY <1>4 DEF CountActive, t
  <2>4. TypeOK'
    BY <2>1, <2>2, <2>3, SMT DEF TypeOK, algos, devices, Places
  <2>5. StatusInTable'
    BY <2>3, SMT DEF StatusInTable, InTable, algos
  <2>6. OwnAlgorithms'
    BY <2>1, <2>2, <2>3, SMT DEF TypeOK, OwnAlgorithms, algos, Carrying
  <2> QED BY <2>4, <2>5, <2>6
<1> QED BY <1>1, <1>2, <1>3, <1>4 DEF SensorStep

\* SS::decision() above the clear point: a status and a tick count, both natural numbers.
LEMMA DecisionSS ==
  ASSUME TypeOK, NEW t \in DOMAIN Threads, NEW a \in DOMAIN SS, SSDecision(t, a)
  PROVE  \E new \in Nat, ticks \in Nat :
           /\ timeTick' = [timeTick EXCEPT ![a] = ticks]
           /\ IF new = status[a] THEN Unchanged(t, a) ELSE GoTo(t, a, "request", new)
           /\ new >= status[a] + TempDiff(SS[a], status[a], decidedAt[a], temperature)
<1> DEFINE c == SS[a]
           diff == TempDiff(c, status[a], decidedAt[a], temperature)
           ticks == IF /\ c.timeTickTrigger # 0 /\ diff = 0 /\ status[a] < MaxStatus
                       /\ currentStatus[c.device] <= c.devicePerfFloor
                    THEN timeTick[a] + 1 ELSE 0
           tick == IF ticks # 0 /\ ticks = c.timeTickTrigger THEN 1 ELSE 0
           new == Larger(status[a] + diff + tick, 0)
<1>1. a \in Algos /\ status[a] \in Nat /\ decidedAt[a] \in Nat /\ temperature \in Nat
      /\ timeTick[a] \in Nat
  BY DEF TypeOK, Algos
<1>2. diff \in Int
  <2>1. c.triggerPoint \in Nat /\ Unit \in Nat \ {0}
    BY SSAssumption, NumbersAssumption DEF SSConfigured
  <2>2. temperature \div Unit \in Int /\ decidedAt[a] \div Unit \in Int /\ c.triggerPoint \div Unit \in Int
    BY <1>1, <2>1, SMT
  <2> QED BY <2>2, SMT DEF TempDiff
<1>3. /\ timeTick' = [timeTick EXCEPT ![a] = IF new # status[a] THEN 0 ELSE ticks]
      /\ IF new = status[a] THEN Unchanged(t, a) ELSE GoTo(t, a, "request", new)
  BY DEF SSDecision
<1> HIDE DEF diff
<1>4. ticks \in Nat /\ tick \in Nat
  BY <1>1, SMT
<1> HIDE DEF ticks, tick
<1>5. new \in Nat /\ new >= status[a] + diff
  BY <1>1, <1>2, <1>4, SMT DEF Larger
<1> HIDE DEF new
<1>6. (IF new # status[a] THEN 0 ELSE ticks) \in Nat
  BY <1>4, SMT
<1> QED BY <1>3, <1>5, <1>6 DEF diff

\* Releasing sets an algorithm's requests to the devices of its status to 0, and no other.
LEMMA ReleasedMeaning ==
  ASSUME Shape, NEW a \in Algos
  PROVE  /\ Released(a) \in [DOMAIN Devices -> [Algos -> Int]]
         /\ \A d \in DOMAIN Devices : \A b \in Algos : Askable(d, b, Released(a)[d][b])
         /\ \A d \in DOMAIN Devices : \A b \in Algos :
              Released(a)[d][b] = IF b = a /\ d \in DOMAIN Demand(a, status[a]) THEN 0
                                  ELSE request[d][b]
<1> DEFINE ds == DOMAIN Demand(a, status[a])
           levels == [d \in ds |-> 0]
<1>1. ds \subseteq DOMAIN Devices
  BY DemandType DEF Shape, TypeOK, StatusInTable
<1> HIDE DEF ds
<1>2. DOMAIN levels = ds /\ \A d \in ds : levels[d] = 0
  OBVIOUS
<1>3. \A d \in ds : Askable(d, a, 0)
  BY <1>1, ZeroAskable
<1> HIDE DEF levels
<1>4. /\ Requested(a, levels) \in [DOMAIN Devices -> [Algos -> Int]]
      /\ \A d \in DOMAIN Devices : \A b \in Algos : Askable(d, b, Requested(a, levels)[d][b])
      /\ \A d \in DOMAIN Devices : \A b \in Algos :
           Requested(a, levels)[d][b] = IF b = a /\ d \in DOMAIN levels THEN levels[d]
                                        ELSE request[d][b]
  BY <1>2, <1>3, RequestedType DEF Shape
<1>5. Released(a) = Requested(a, levels)
  BY DEF Released, levels, ds
<1> QED BY <1>2, <1>4, <1>5 DEF ds

\* Applying brings the devices it is about to the strictest level, which no request exceeds.
LEMMA AppliedMeaning ==
  ASSUME TypeOK, NEW ds
  PROVE  /\ Applied(ds) \in [DOMAIN Devices -> Nat]
         /\ \A d \in DOMAIN Devices : ActionsInTable(d) => Applied(ds)[d] < Devices[d]
         /\ \A d \in DOMAIN Devices : d \in ds => \A a \in Algos : request[d][a] <= Applied(ds)[d]
         /\ \A d \in DOMAIN Devices :
              Applied(ds)[d] = IF d \in ds THEN Strictest(request[d]) ELSE currentStatus[d]
<1>1. ASSUME NEW d \in DOMAIN Devices
      PROVE  /\ Strictest(request[d]) \in Nat
             /\ ActionsInTable(d) => Strictest(request[d]) < Devices[d]
             /\ \A a \in Algos : request[d][a] <= Strictest(request[d])
  <2>1. request[d] \in [Algos -> Int] /\ \A a \in Algos : Askable(d, a, request[d][a])
    BY DEF TypeOK
  <2>2. /\ \A a \in Algos : request[d][a] < INT_MAX + 1
        /\ ActionsInTable(d) => \A a \in Algos : request[d][a] < Devices[d]
    BY <2>1, IntMax, SMT DEF Askable
  <2>3. INT_MAX + 1 \in Nat \ {0} /\ Devices[d] \in Nat \ {0}
    BY DevicesAssumption, IntMax, SMT
  <2>4. /\ Strictest(request[d]) \in 0..(INT_MAX + 1) - 1
        /\ \A a \in Algos : request[d][a] <= Strictest(request[d])
    BY <2>1, <2>2, <2>3, StrictestMeaning
  <2>5. ActionsInTable(d) => Strictest(request[d]) \in 0..Devices[d] - 1
    BY <2>1, <2>2, <2>3, StrictestMeaning
  <2> QED BY <2>3, <2>4, <2>5, SMT
<1>2. \A d \in DOMAIN Devices :
        currentStatus[d] \in Nat /\ (ActionsInTable(d) => currentStatus[d] < Devices[d])
  BY DEF TypeOK
<1>3. \A d \in DOMAIN Devices :
        Applied(ds)[d] = IF d \in ds THEN Strictest(request[d]) ELSE currentStatus[d]
  BY DEF Applied
<1>4. \A d \in DOMAIN Devices :
        Applied(ds)[d] \in Nat /\ (ActionsInTable(d) => Applied(ds)[d] < Devices[d])
  BY <1>1, <1>2, <1>3
<1> QED BY <1>1, <1>3, <1>4 DEF Applied

\* What the decisions have in common: the thread goes on with its loop, or turns to carrying
\* out the decision.
LEMMA ShapeCarries ==
  ASSUME Shape, NEW t \in DOMAIN Threads, pc[t] = "scan",
         NEW a \in Algos, Runs(t, a), activeStatus[a],
         NEW rest \in Seq(Algos), \A i \in 1..Len(rest) : Runs(t, rest[i]),
         NEW place \in Carrying, NEW s \in Nat, InTable(a, s),
         toRun' = [toRun EXCEPT ![t] = rest],
         \/ UNCHANGED <<pc, cur, next>>
         \/ /\ pc' = [pc EXCEPT ![t] = place]
            /\ cur' = [cur EXCEPT ![t] = a]
            /\ next' = [next EXCEPT ![t] = s],
         decidedAt' \in [Algos -> Nat], timeTick' \in [DOMAIN SS -> Nat],
         UNCHANGED <<sensor, activeStatus, status, numActive, devices>>
  PROVE  Shape'
<1>1. TypeOK'
  <2>1. toRun' \in [DOMAIN Threads -> Seq(Algos)]
    BY DEF Shape, TypeOK
  <2>2. /\ pc' \in [DOMAIN Threads -> Places]
        /\ cur' \in [DOMAIN Threads -> Algos \cup {NoAlgo}]
        /\ next' \in [DOMAIN Threads -> Nat]
    <3>1. place \in Places
      BY DEF Carrying, Places
    <3>2. /\ pc \in [DOMAIN Threads -> Places]
          /\ cur \in [DOMAIN Threads -> Algos \cup {NoAlgo}]
          /\ next \in [DOMAIN Threads -> Nat]
      BY DEF Shape, TypeOK
    <3>3. CASE UNCHANGED <<pc, cur, next>>
      BY <3>2, <3>3
    <3>4. CASE /\ pc' = [pc EXCEPT ![t] = place]
               /\ cur' = [cur EXCEPT ![t] = a]
               /\ next' = [next EXCEPT ![t] = s]
      BY <3>1, <3>2, <3>4
    <3> QED BY <3>3, <3>4
  <2> QED BY <2>1, <2>2 DEF Shape, TypeOK, sensor, devices
<1>2. \A u \in DOMAIN Threads :
        /\ toRun'[u] = IF u = t THEN rest ELSE toRun[u]
        /\ \/ pc'[u] = pc[u] /\ cur'[u] = cur[u] /\ next'[u] = next[u]
           \/ u = t /\ pc'[u] = place /\ cur'[u] = a /\ next'[u] = s
  <2>0. /\ DOMAIN toRun = DOMAIN Threads /\ DOMAIN pc = DOMAIN Threads
        /\ DOMAIN cur = DOMAIN Threads /\ DOMAIN next = DOMAIN Threads
    BY DEF Shape, TypeOK
  <2>1. \A u \in DOMAIN Threads : toRun'[u] = IF u = t THEN rest ELSE toRun[u]
    BY <2>0
  <2>2. CASE UNCHANGED <<pc, cur, next>>
    BY <2>1, <2>2
  <2>3. CASE /\ pc' = [pc EXCEPT ![t] = place]
             /\ cur' = [cur EXCEPT ![t] = a]
             /\ next' = [next EXCEPT ![t] = s]
    BY <2>0, <2>1, <2>3
  <2> QED BY <2>2, <2>3
<1>3. activeStatus' = activeStatus /\ status' = status
  OBVIOUS
<1>4. StatusInTable'
  <2>1. \A u \in DOMAIN Threads : InTable(cur'[u], next'[u])
    BY <1>2 DEF Shape, StatusInTable
  <2> QED BY <1>3, <2>1 DEF Shape, StatusInTable, InTable
<1>5. OwnAlgorithms'
  <2> SUFFICES ASSUME NEW u \in DOMAIN Threads
               PROVE  /\ \A i \in 1..Len(toRun'[u]) : Runs(u, toRun'[u][i])
                      /\ IF pc'[u] \in Carrying \cup {"uncount"}
                         THEN cur'[u] \in Algos /\ Runs(u, cur'[u])
                         ELSE cur'[u] = NoAlgo
                      /\ pc'[u] \in Carrying => activeStatus[cur'[u]]
    BY <1>3 DEF OwnAlgorithms, Runs
  <2> QED BY <1>2 DEF Shape, OwnAlgorithms
<1> QED BY <1>1, <1>4, <1>5 DEF Shape

LEMMA ShapeDecision ==
  ASSUME Shape, NEW t \in DOMAIN Threads, pc[t] = "scan", toRun[t] # <<>>,
         NEW a, a = Head(toRun[t]), activeStatus[a],
         NEW place \in Carrying, NEW s \in Nat, InTable(a, s),
         Unchanged(t, a) \/ GoTo(t, a, place, s),
         decidedAt' \in [Algos -> Nat], timeTick' \in [DOMAIN SS -> Nat],
         UNCHANGED <<sensor, activeStatus, status, numActive, devices>>
  PROVE  Shape'
<1> DEFINE rest == Tail(toRun[t])
<1>1. /\ a \in Algos /\ Runs(t, a)
      /\ rest \in Seq(Algos) /\ \A i \in 1..Len(rest) : Runs(t, rest[i])
  BY HeadRuns
<1>2. /\ toRun' = [toRun EXCEPT ![t] = rest]
      /\ \/ UNCHANGED <<pc, cur, next>>
         \/ /\ pc' = [pc EXCEPT ![t] = place]
            /\ cur' = [cur EXCEPT ![t] = a]
            /\ next' = [next EXCEPT ![t] = s]
  BY DEF Unchanged, GoTo
<1> HIDE DEF rest
<1> QED BY <1>1, <1>2, ShapeCarries

\* A thread that only goes on to the next place of carrying out its decision keeps its own
\* algorithms.
LEMMA OwnMoved ==
  ASSUME Shape, NEW t \in DOMAIN Threads, pc[t] \in Carrying,
         NEW p \in Carrying, pc' = [pc EXCEPT ![t] = p],
         UNCHANGED <<activeStatus, toRun, cur>>
  PROVE  OwnAlgorithms'
<1>1. DOMAIN pc = DOMAIN Threads
  BY DEF Shape, TypeOK
<1>2. \A u \in DOMAIN Threads : pc'[u] = IF u = t THEN p ELSE pc[u]
  BY <1>1
<1>3. \A u \in DOMAIN Threads :
        \/ pc'[u] = pc[u]
        \/ pc'[u] \in Carrying /\ pc[u] \in Carrying
  BY <1>2
<1>4. activeStatus' = activeStatus /\ toRun' = toRun /\ cur' = cur
  OBVIOUS
<1> SUFFICES ASSUME NEW u \in DOMAIN Threads
             PROVE  /\ \A i \in 1..Len(toRun[u]) : Runs(u, toRun[u][i])
                    /\ IF pc'[u] \in Carrying \cup {"uncount"}
                       THEN cur[u] \in Algos /\ Runs(u, cur[u])
                       ELSE cur[u] = NoAlgo
                    /\ pc'[u] \in Carrying => activeStatus[cur[u]]
  BY <1>4 DEF OwnAlgorithms, Runs
<1> QED BY <1>3 DEF Shape, OwnAlgorithms

\* An algorithm thread's steps.
LEMMA ShapeThread ==
  ASSUME Shape, NEW t \in DOMAIN Threads, ThreadStep(t) \/ SpuriousWakeup(t)
  PROVE  Shape'
<1> USE DEF Shape
<1>0. Threads[t] \in Seq(Algos) /\ \A i \in 1..Len(Threads[t]) : Runs(t, Threads[t][i])
  BY ThreadRuns
<1>1. CASE Top(t)
  <2> DEFINE q == IF numActive[t] = 0 THEN <<>> ELSE Threads[t]
  <2>1. q \in Seq(Algos) /\ \A i \in 1..Len(q) : Runs(t, q[i])
    <3> HIDE DEF Runs
    <3>1. CASE numActive[t] = 0
      BY <3>1, SMT
    <3>2. CASE numActive[t] # 0
      BY <1>0, <3>2
    <3> QED BY <3>1, <3>2
  <2>2. toRun' = [toRun EXCEPT ![t] = q]
    BY <1>1 DEF Top
  <2> HIDE DEF q
  <2>3. /\ pc[t] = "scan"
        /\ \E p \in {"towait", "scan"} : pc' = [pc EXCEPT ![t] = p]
        /\ UNCHANGED <<sensor, algos, numActive, devices, cur, next>>
    BY <1>1 DEF Top
  <2>4. TypeOK'
    BY <2>1, <2>2, <2>3, SMT DEF TypeOK, sensor, algos, devices, Places
  <2>5. StatusInTable'
    BY <2>3, SMT DEF StatusInTable, InTable, algos
  <2>6. OwnAlgorithms'
    BY <2>1, <2>2, <2>3, SMT DEF TypeOK, OwnAlgorithms, algos, Carrying
  <2> QED BY <2>4, <2>5, <2>6
<1>2. CASE Wait(t)
  <2>1. TypeOK'
    BY <1>2, SMT DEF Wait, TypeOK, sensor, algos, devices, Places
  <2>2. StatusInTable'
    BY <1>2, SMT DEF Wait, StatusInTable, InTable, algos
  <2>3. OwnAlgorithms'
    BY <1>2, SMT DEF Wait, TypeOK, OwnAlgorithms, algos, Carrying
  <2> QED BY <2>1, <2>2, <2>3
<1>3. CASE SpuriousWakeup(t)
  BY <1>0, <1>3, SMT
  DEF SpuriousWakeup, TypeOK, StatusInTable, InTable, OwnAlgorithms, sensor, algos, devices,
      Places, Carrying
<1>4. ASSUME NEW a \in Algos, Skip(t, a) PROVE Shape'
  <2> DEFINE rest == Tail(toRun[t])
  <2>1. rest \in Seq(Algos) /\ \A i \in 1..Len(rest) : Runs(t, rest[i])
    BY <1>4, HeadRuns DEF Skip
  <2>2. /\ toRun' = [toRun EXCEPT ![t] = rest]
        /\ UNCHANGED <<sensor, algos, numActive, devices, pc, cur, next>>
    BY <1>4 DEF Skip
  <2> HIDE DEF rest
  <2>3. toRun' \in [DOMAIN Threads -> Seq(Algos)]
    BY <2>1, <2>2 DEF TypeOK
  <2>4. TypeOK'
    BY <2>2, <2>3 DEF TypeOK, sensor, algos, devices
  <2>5. StatusInTable'
    BY <2>2, SMT DEF StatusInTable, InTable, algos
  <2>6. OwnAlgorithms'
    BY <2>1, <2>2, SMT DEF TypeOK, OwnAlgorithms, algos
  <2> QED BY <2>4, <2>5, <2>6
<1>5. ASSUME NEW a \in Algos, MonitorDecision(t, a) PROVE Shape'
  <2> DEFINE new == MonitorStatus(Monitors[a], status[a], temperature)
             place == IF new = 0 THEN "switchoff" ELSE "release"
  <2>1. new \in Nat /\ InTable(a, new)
    BY <1>5, MonitorStatusType DEF MonitorDecision, TypeOK, StatusInTable
  <2>2. Unchanged(t, a) \/ GoTo(t, a, place, new)
    BY <1>5 DEF MonitorDecision
  <2>3. place \in Carrying
    BY DEF Carrying
  <2>4. decidedAt' \in [Algos -> Nat] /\ timeTick' \in [DOMAIN SS -> Nat]
    BY <1>5 DEF MonitorDecision, TypeOK
  <2>5. /\ pc[t] = "scan" /\ toRun[t] # <<>> /\ a = Head(toRun[t]) /\ activeStatus[a]
        /\ UNCHANGED <<sensor, activeStatus, status, numActive, devices>>
    BY <1>5 DEF MonitorDecision
  <2> HIDE DEF new, place
  <2> QED BY <2>1, <2>2, <2>3, <2>4, <2>5, ShapeDecision
<1>6. ASSUME NEW a \in Algos, SSClear(t, a) PROVE Shape'
  <2>1. InTable(a, 0)
    BY <1>6, AlgosAssumption DEF SSClear, InTable
  <2>2. GoTo(t, a, "switchoff", 0) /\ "switchoff" \in Carrying
    BY <1>6 DEF SSClear, Carrying
  <2>3. decidedAt' \in [Algos -> Nat] /\ timeTick' \in [DOMAIN SS -> Nat]
    BY <1>6 DEF SSClear, TypeOK
  <2>4. /\ pc[t] = "scan" /\ toRun[t] # <<>> /\ a = Head(toRun[t]) /\ activeStatus[a]
        /\ UNCHANGED <<sensor, activeStatus, status, numActive, devices>>
    BY <1>6 DEF SSClear
  <2> QED BY <2>1, <2>2, <2>3, <2>4, ShapeDecision
<1>7. ASSUME NEW a \in Algos, SSDecision(t, a) PROVE Shape'
  <2>1. a \in DOMAIN SS /\ \A s : InTable(a, s)
    BY <1>7, AlgosAssumption DEF SSDecision, InTable
  <2>2. PICK new \in Nat, ticks \in Nat :
          /\ timeTick' = [timeTick EXCEPT ![a] = ticks]
          /\ IF new = status[a] THEN Unchanged(t, a) ELSE GoTo(t, a, "request", new)
    BY <1>7, <2>1, DecisionSS
  <2>3. decidedAt' \in [Algos -> Nat] /\ timeTick' \in [DOMAIN SS -> Nat]
    <3>1. decidedAt' = [decidedAt EXCEPT ![a] = temperature]
      BY <1>7 DEF SSDecision
    <3>2. decidedAt \in [Algos -> Nat] /\ timeTick \in [DOMAIN SS -> Nat] /\ temperature \in Nat
      BY DEF TypeOK
    <3> QED BY <2>2, <3>1, <3>2
  <2>4. /\ pc[t] = "scan" /\ toRun[t] # <<>> /\ a = Head(toRun[t]) /\ activeStatus[a]
        /\ UNCHANGED <<sensor, activeStatus, status, numActive, devices>>
    BY <1>7 DEF SSDecision
  <2>5. "request" \in Carrying
    BY DEF Carrying
  <2> QED BY <2>1, <2>2, <2>3, <2>4, <2>5, ShapeDecision
<1>8. ASSUME Release(t) \/ SwitchOff(t) PROVE Shape'
  <2>1. cur[t] \in Algos /\ pc[t] \in Carrying
    BY <1>8 DEF Release, SwitchOff, OwnAlgorithms, Carrying
  <2>2. /\ request' \in [DOMAIN Devices -> [Algos -> Int]]
        /\ \A d \in DOMAIN Devices : \A b \in Algos : Askable(d, b, request'[d][b])
    BY <1>8, <2>1, ReleasedMeaning DEF Release, SwitchOff
  <2>3. /\ \E p \in {"request", "applyoff"} : pc' = [pc EXCEPT ![t] = p]
        /\ UNCHANGED <<sensor, algos, numActive, currentStatus, toRun, cur, next>>
    BY <1>8 DEF Release, SwitchOff
  <2>4. TypeOK'
    BY <2>2, <2>3, SMT DEF TypeOK, sensor, algos, Places
  <2>5. StatusInTable'
    BY <1>8, SMT DEF Release, SwitchOff, StatusInTable, InTable, algos
  <2>6. OwnAlgorithms'
    <3>1. PICK p \in {"request", "applyoff"} : pc' = [pc EXCEPT ![t] = p]
      BY <2>3
    <3>2. p \in Carrying
      BY DEF Carrying
    <3>3. UNCHANGED <<activeStatus, toRun, cur>>
      BY <2>3 DEF algos
    <3> QED BY <2>1, <3>1, <3>2, <3>3, OwnMoved
  <2> QED BY <2>4, <2>5, <2>6
<1>9. CASE Request(t)
  <2>1. cur[t] \in Algos /\ pc[t] \in Carrying
    BY <1>9 DEF Request, OwnAlgorithms, Carrying
  <2>2. \A d \in DOMAIN Demand(cur[t], next[t]) :
          Askable(d, cur[t], Demand(cur[t], next[t])[d])
    BY <2>1, DemandType DEF TypeOK, StatusInTable
  <2>3. /\ request' \in [DOMAIN Devices -> [Algos -> Int]]
        /\ \A d \in DOMAIN Devices : \A b \in Algos : Askable(d, b, request'[d][b])
    BY <1>9, <2>1, <2>2, RequestedType DEF Request
  <2>4. TypeOK'
    BY <1>9, <2>3, SMT DEF Request, TypeOK, sensor, algos, Places
  <2>5. StatusInTable'
    BY <1>9, SMT DEF Request, StatusInTable, InTable, algos
  <2>6. OwnAlgorithms'
    <3>1. pc' = [pc EXCEPT ![t] = "apply"] /\ UNCHANGED <<activeStatus, toRun, cur>>
      BY <1>9 DEF Request, algos
    <3>2. "apply" \in Carrying
      BY DEF Carrying
    <3> QED BY <2>1, <3>1, <3>2, OwnMoved
  <2> QED BY <2>4, <2>5, <2>6
<1>10. CASE Apply(t)
  <2> DEFINE ds == DOMAIN Demand(cur[t], status[cur[t]]) \cup DOMAIN Demand(cur[t], next[t])
  <2>1. cur[t] \in Algos /\ pc[t] \in Carrying /\ pc[t] \in {"apply", "applyoff"}
    BY <1>10 DEF Apply, OwnAlgorithms, Carrying
  <2>2. /\ currentStatus' = Applied(ds)
        /\ status' = [status EXCEPT ![cur[t]] = next[t]]
        /\ pc' = [pc EXCEPT ![t] = IF pc[t] = "apply" THEN "scan" ELSE "unflag"]
        /\ cur' = IF pc[t] = "apply" THEN [cur EXCEPT ![t] = NoAlgo] ELSE cur
        /\ next' = [next EXCEPT ![t] = 0]
        /\ UNCHANGED <<sensor, activeStatus, decidedAt, timeTick, numActive, request, toRun>>
    BY <1>10 DEF Apply
  <2>3. /\ currentStatus' \in [DOMAIN Devices -> Nat]
        /\ \A d \in DOMAIN Devices : ActionsInTable(d) => currentStatus'[d] < Devices[d]
    BY <2>2, AppliedMeaning
  <2> HIDE DEF ds
  <2>4. TypeOK'
    <3>1. /\ pc \in [DOMAIN Threads -> Places] /\ next \in [DOMAIN Threads -> Nat]
          /\ cur \in [DOMAIN Threads -> Algos \cup {NoAlgo}] /\ status \in [Algos -> Nat]
      BY DEF TypeOK
    <3>2. "scan" \in Places /\ "unflag" \in Places
      BY DEF Places
    <3>3. pc' \in [DOMAIN Threads -> Places] /\ next' \in [DOMAIN Threads -> Nat]
      BY <2>2, <3>1, <3>2
    <3>4. cur' \in [DOMAIN Threads -> Algos \cup {NoAlgo}]
      BY <2>2, <3>1
    <3>5. status' \in [Algos -> Nat]
      BY <2>1, <2>2, <3>1
    <3> QED BY <2>2, <2>3, <3>3, <3>4, <3>5 DEF TypeOK, sensor
  <2>5. StatusInTable'
    <3>1. \A a \in DOMAIN Monitors : 0 <= Len(Monitors[a].thresholds)
      BY MonitorsAssumption, SMT DEF MonitorConfigured, Rising
    <3>2. \A u \in DOMAIN Threads :
            /\ next'[u] = IF u = t THEN 0 ELSE next[u]
            /\ cur'[u] = cur[u] \/ (u = t /\ cur'[u] = NoAlgo)
      BY <2>2, SMT DEF TypeOK
    <3>3. \A u \in DOMAIN Threads : InTable(cur'[u], next'[u])
      BY <3>1, <3>2, AlgosAssumption, SMT DEF StatusInTable, InTable, Algos
    <3>4. \A a \in Algos : InTable(a, status'[a])
      BY <2>1, <2>2, SMT DEF StatusInTable, TypeOK
    <3> QED BY <3>3, <3>4 DEF StatusInTable, InTable
  <2>6. OwnAlgorithms'
    <3>1. CASE pc[t] = "applyoff"
      <4>1. pc' = [pc EXCEPT ![t] = "unflag"] /\ UNCHANGED <<activeStatus, toRun, cur>>
        BY <2>2, <3>1
      <4>2. "unflag" \in Carrying
        BY DEF Carrying
      <4> QED BY <2>1, <4>1, <4>2, OwnMoved
    <3>2. CASE pc[t] = "apply"
      <4>1. DOMAIN pc = DOMAIN Threads /\ DOMAIN cur = DOMAIN Threads
        BY DEF TypeOK
      <4>2. \A u \in DOMAIN Threads :
              /\ pc'[u] = IF u = t THEN "scan" ELSE pc[u]
              /\ cur'[u] = IF u = t THEN NoAlgo ELSE cur[u]
        BY <2>2, <3>2, <4>1
      <4>3. activeStatus' = activeStatus /\ toRun' = toRun
        BY <2>2
      <4>4. "scan" \notin Carrying \cup {"uncount"}
        BY DEF Carrying
      <4> SUFFICES ASSUME NEW u \in DOMAIN Threads
                   PROVE  /\ \A i \in 1..Len(toRun[u]) : Runs(u, toRun[u][i])
                          /\ IF pc'[u] \in Carrying \cup {"uncount"}
                             THEN cur'[u] \in Algos /\ Runs(u, cur'[u])
                             ELSE cur'[u] = NoAlgo
                          /\ pc'[u] \in Carrying => activeStatus[cur'[u]]
        BY <4>3 DEF OwnAlgorithms, Runs
      <4> QED BY <4>2, <4>4 DEF OwnAlgorithms
    <3> QED BY <2>1, <3>1, <3>2
  <2> QED BY <2>4, <2>5, <2>6
<1>11. CASE Unflag(t)
  <2>1. cur[t] \in Algos /\ Runs(t, cur[t]) /\ pc[t] \in Carrying
    BY <1>11 DEF Unflag, OwnAlgorithms, Carrying
  <2>2. \A u \in DOMAIN Threads : u # t /\ pc[u] \in Carrying => cur[u] # cur[t]
    BY <2>1, ThreadsAssumption DEF OwnAlgorithms
  <2>4. TypeOK'
    BY <1>11, <2>1, SMT DEF Unflag, TypeOK, sensor, devices, Places
  <2>5. StatusInTable'
    BY <1>11, SMT DEF Unflag, StatusInTable, InTable
  <2>6. OwnAlgorithms'
    BY <1>11, <2>1, <2>2, SMT DEF Unflag, TypeOK, OwnAlgorithms, Carrying
  <2> QED BY <2>4, <2>5, <2>6
<1>12. CASE Uncount(t)
  <2>4. TypeOK'
    BY <1>12, SMT DEF Uncount, TypeOK, sensor, algos, devices, Places
  <2>5. StatusInTable'
    BY <1>12, AlgosAssumption, SMT DEF Uncount, StatusInTable, InTable, TypeOK, algos, Algos
  <2>6. OwnAlgorithms'
    BY <1>12, SMT DEF Uncount, TypeOK, OwnAlgorithms, Carrying, algos
  <2> QED BY <2>4, <2>5, <2>6
<1> QED
  BY <1>1, <1>2, <1>3, <1>4, <1>5, <1>6, <1>7, <1>8, <1>9, <1>10, <1>11, <1>12 DEF ThreadStep

LEMMA ShapeStep == Shape /\ [Next]_vars => Shape'
<1> SUFFICES ASSUME Shape, [Next]_vars PROVE Shape'
  OBVIOUS
<1>1. CASE SensorStep
  BY <1>1, ShapeSensor
<1>2. ASSUME NEW t \in DOMAIN Threads, ThreadStep(t) \/ SpuriousWakeup(t) PROVE Shape'
  BY <1>2, ShapeThread
<1>3. CASE UNCHANGED vars
  BY <1>3
  DEF vars, sensor, algos, devices, threads, Shape, TypeOK, StatusInTable, InTable, OwnAlgorithms
<1> QED BY <1>1, <1>2, <1>3 DEF Next

\* Every variable keeps its type.  In particular no start_level and no floor makes an SS algorithm
\* ask for a level beyond its device's table, and Device::statusApply() indexes beyond it only if
\* the action_info of some monitor already does.
THEOREM TypeCorrect == Spec => []TypeOK
<1>1. Shape => TypeOK
  BY DEF Shape
<1> QED BY ShapeInit, ShapeStep, <1>1, PTL DEF Spec

-----------------------------------------------------------------------------
(***************************************************************************)
(* The second layer: the counters.  An algorithm that is being activated   *)
(* is not being switched off at the same time, since the temperature that  *)
(* activates it, at or above its trigger point, does not clear it.         *)
(***************************************************************************)
Ending == {"switchoff", "applyoff", "unflag"}

Pending ==
  spc = "count" =>
    /\ activeStatus[activating]
    /\ temperature >= TriggerPoint(activating)
    /\ \A t \in DOMAIN Threads : pc[t] \in Ending => cur[t] # activating

\* A monitor whose first threshold is reached does not decide for status 0.
LEMMA HotMonitorStays ==
  ASSUME NEW a \in DOMAIN Monitors, NEW s \in Nat, InTable(a, s), NEW t \in Nat,
         t >= TriggerPoint(a)
  PROVE  MonitorStatus(Monitors[a], s, t) # 0
<1> DEFINE m == Monitors[a]
<1>1. /\ Rising(m.thresholds) /\ Rising(m.clrThresholds) /\ Len(m.thresholds) > 0
      /\ Len(m.clrThresholds) = Len(m.thresholds)
      /\ m.clrThresholds[1] <= m.thresholds[1]
  <2>1. Len(m.thresholds) \in Nat /\ Len(m.thresholds) > 0
    BY MonitorsAssumption, SMT DEF MonitorConfigured, Rising
  <2>2. 1 \in 1..Len(m.thresholds)
    BY <2>1, SMT
  <2> QED BY <2>2, MonitorsAssumption DEF MonitorConfigured
<1>2. m.thresholds[1] <= t /\ m.clrThresholds[1] <= t
  <2>1. a \notin DOMAIN SS
    BY AlgosAssumption
  <2>2. m.thresholds \in Seq(Nat) /\ m.clrThresholds \in Seq(Nat)
    BY <1>1 DEF Rising
  <2>3. m.thresholds[1] \in Nat /\ m.clrThresholds[1] \in Nat
    BY <1>1, <2>2, SMT
  <2> QED BY <1>1, <2>1, <2>3, SMT DEF TriggerPoint
<1>3. Passed(m.thresholds, t) # 0 /\ Passed(m.clrThresholds, t) # 0
  <2>1. ASSUME NEW q, Rising(q), Len(q) > 0, q[1] <= t PROVE Passed(q, t) # 0
    <3>1. \A i \in 1..Len(q) : q[i] <= t <=> i <= Passed(q, t)
      BY <2>1, PassedMeaning
    <3>2. Len(q) \in Nat
      BY <2>1, SMT DEF Rising
    <3>3. 1 <= Passed(q, t)
      BY <2>1, <3>1, <3>2, SMT
    <3> QED BY <3>3, SMT
  <2>2. Len(m.clrThresholds) > 0
    BY <1>1
  <2> QED BY <1>1, <1>2, <2>1, <2>2
<1> QED BY <1>3, SMT DEF MonitorStatus

LEMMA PendingStep == Shape /\ Pending /\ [Next]_vars => Pending'
<1> SUFFICES ASSUME Shape, Pending, [Next]_vars PROVE Pending'
  OBVIOUS
<1>0. /\ activeStatus \in [Algos -> BOOLEAN] /\ pc \in [DOMAIN Threads -> Places]
      /\ cur \in [DOMAIN Threads -> Algos \cup {NoAlgo}]
      /\ spc = "count" => activating \in Algos
  BY DEF Shape, TypeOK
<1>1. ASSUME NEW x \in Temps, Sample(x) PROVE Pending'
  BY <1>1 DEF Sample, Pending
<1>2. CASE Pass
  BY <1>2 DEF Pass, Pending
<1>3. CASE Activate
  <2>1. Head(toCheck) \in Algos
    BY <1>3, SMT DEF Activate, Shape, TypeOK
  <2>2. \A t \in DOMAIN Threads : pc[t] \in Ending => activeStatus[cur[t]]
    BY DEF Shape, OwnAlgorithms, Carrying, Ending
  <2> QED BY <1>0, <1>3, <2>1, <2>2 DEF Activate, Pending, threads, TriggerPoint
<1>4. CASE CountActive
  BY <1>4 DEF CountActive, Pending
\* While the sensor thread is between flag and counter, an algorithm thread ends nothing of
\* the algorithm being activated.
<1>5. ASSUME NEW t \in DOMAIN Threads, spc = "count", UNCHANGED sensor,
             \/ UNCHANGED activeStatus
             \/ cur[t] # activating /\ activeStatus' = [activeStatus EXCEPT ![cur[t]] = FALSE],
             \A u \in DOMAIN Threads : u # t => pc'[u] = pc[u] /\ cur'[u] = cur[u],
             pc'[t] \in Ending => cur'[t] # activating
      PROVE  Pending'
  <2>1. activeStatus'[activating]
    BY <1>0, <1>5 DEF Pending
  <2>2. \A u \in DOMAIN Threads : pc'[u] \in Ending => cur'[u] # activating
    BY <1>5 DEF Pending
  <2> QED BY <1>5, <2>1, <2>2 DEF Pending, sensor, TriggerPoint
<1>6. ASSUME NEW t \in DOMAIN Threads, ThreadStep(t) \/ SpuriousWakeup(t) PROVE Pending'
  <2>0. UNCHANGED sensor
    BY <1>6
    DEF ThreadStep, SpuriousWakeup, Top, Wait, Skip, MonitorDecision, SSClear, SSDecision,
        Release, Request, SwitchOff, Apply, Unflag, Uncount
  <2>1. SUFFICES ASSUME spc = "count" PROVE Pending'
    BY <2>0 DEF Pending, sensor
  <2>2. CASE Top(t) \/ Wait(t) \/ SpuriousWakeup(t)
    <3>1. pc'[t] \notin Ending
      BY <1>0, <2>2 DEF Top, Wait, SpuriousWakeup, Ending
    <3> QED BY <1>0, <1>5, <2>0, <2>1, <2>2, <3>1 DEF Top, Wait, SpuriousWakeup, algos
  <2>3. ASSUME NEW a \in Algos, Skip(t, a) PROVE Pending'
    BY <1>0, <1>5, <2>0, <2>1, <2>3 DEF Skip, algos, Ending
  <2>4. ASSUME NEW a \in Algos, MonitorDecision(t, a) \/ SSClear(t, a) \/ SSDecision(t, a)
        PROVE Pending'
    <3>1. pc[t] = "scan" /\ UNCHANGED activeStatus
      BY <2>4 DEF MonitorDecision, SSClear, SSDecision
    <3>2. CASE Unchanged(t, a)
      BY <1>5, <2>0, <2>1, <3>1, <3>2 DEF Unchanged, Ending
    <3>3. ASSUME NEW place, NEW s, GoTo(t, a, place, s), place \in Ending => a # activating
          PROVE Pending'
      BY <1>0, <1>5, <2>0, <2>1, <3>1, <3>3 DEF GoTo
    <3>4. CASE MonitorDecision(t, a)
      <4> DEFINE new == MonitorStatus(Monitors[a], status[a], temperature)
                 place == IF new = 0 THEN "switchoff" ELSE "release"
      <4>1. Unchanged(t, a) \/ GoTo(t, a, place, new)
        BY <3>4 DEF MonitorDecision
      <4>2. a = activating => new # 0
        BY <2>1, <3>4, HotMonitorStays DEF MonitorDecision, Pending, Shape, TypeOK, StatusInTable
      <4>3. place \in Ending => a # activating
        BY <4>2 DEF Ending
      <4> HIDE DEF new, place
      <4> QED BY <3>2, <3>3, <4>1, <4>3
    <3>5. CASE SSClear(t, a)
      <4>1. temperature < SS[a].clearPoint /\ a \in DOMAIN SS
        BY <3>5 DEF SSClear
      <4>2. a # activating
        <5>1. SS[a].clearPoint \in Nat /\ SS[a].triggerPoint \in Nat
              /\ SS[a].clearPoint <= SS[a].triggerPoint
          BY <4>1, SSAssumption DEF SSConfigured
        <5>2. temperature \in Nat
          BY DEF Shape, TypeOK
        <5>3. ~(temperature >= SS[a].triggerPoint)
          BY <4>1, <5>1, <5>2, SMT
        <5> QED BY <2>1, <4>1, <5>3 DEF Pending, TriggerPoint
      <4> QED BY <3>3, <3>5, <4>2 DEF SSClear
    <3>6. CASE SSDecision(t, a)
      <4>1. \E s : Unchanged(t, a) \/ GoTo(t, a, "request", s)
        BY <3>6 DEF SSDecision
      <4> QED BY <3>2, <3>3, <4>1 DEF Ending
    <3> QED BY <2>4, <3>4, <3>5, <3>6
  <2>5. CASE Release(t) \/ Request(t)
    <3>1. pc'[t] \notin Ending
      BY <1>0, <2>5 DEF Release, Request, Ending
    <3> QED BY <1>0, <1>5, <2>0, <2>1, <2>5, <3>1 DEF Release, Request, algos
  <2>6. CASE SwitchOff(t)
    <3>1. cur[t] # activating
      BY <2>1, <2>6 DEF SwitchOff, Ending, Pending
    <3> QED BY <1>0, <1>5, <2>0, <2>1, <2>6, <3>1 DEF SwitchOff, algos
  <2>7. CASE Apply(t)
    <3>1. pc'[t] \in Ending => pc[t] = "applyoff" /\ cur' = cur
      BY <1>0, <2>7 DEF Apply, Ending
    <3>2. pc'[t] \in Ending => cur'[t] # activating
      BY <2>1, <3>1 DEF Ending, Pending
    <3>3. UNCHANGED activeStatus /\ \A u \in DOMAIN Threads : u # t => pc'[u] = pc[u] /\ cur'[u] = cur[u]
      BY <1>0, <2>7 DEF Apply
    <3> QED BY <1>5, <2>0, <2>1, <3>2, <3>3
  <2>8. CASE Unflag(t)
    <3>1. cur[t] # activating
      BY <2>1, <2>8 DEF Unflag, Ending, Pending
    <3> QED BY <1>0, <1>5, <2>0, <2>1, <2>8, <3>1 DEF Unflag
  <2>9. CASE Uncount(t)
    <3>1. pc'[t] \notin Ending
      BY <1>0, <2>9 DEF Uncount, Ending
    <3> QED BY <1>0, <1>5, <2>0, <2>1, <2>9, <3>1 DEF Uncount, algos
  <2> QED BY <1>6, <2>2, <2>3, <2>4, <2>5, <2>6, <2>7, <2>8, <2>9 DEF ThreadStep
<1>7. CASE UNCHANGED vars
  BY <1>7 DEF vars, sensor, algos, threads, Pending, TriggerPoint
<1> QED BY <1>1, <1>2, <1>3, <1>4, <1>6, <1>7 DEF Next, SensorStep

\* The active algorithms of a thread are finitely many.
LEMMA ActiveInType ==
  ASSUME NEW t \in DOMAIN Threads
  PROVE  IsFiniteSet(ActiveIn(t)) /\ Cardinality(ActiveIn(t)) \in Nat
<1>1. ActiveIn(t) \subseteq Algos
  BY DEF ActiveIn
<1> QED BY <1>1, AlgosAssumption, FS_Subset, FS_CardinalityType

\* What is left of CountsActive when the flags do not change.
LEMMA CountsUnchanged ==
  ASSUME Shape, CountsActive, UNCHANGED <<activeStatus, numActive, spc, activating>>,
         \A t \in DOMAIN Threads : pc'[t] = "uncount" <=> pc[t] = "uncount"
  PROVE  CountsActive'
BY DEF CountsActive, ActiveIn, Runs

LEMMA CountsStep == Shape /\ Pending /\ CountsActive /\ [Next]_vars => CountsActive'
<1> SUFFICES ASSUME Shape, Pending, CountsActive, [Next]_vars PROVE CountsActive'
  OBVIOUS
<1>0. /\ activeStatus \in [Algos -> BOOLEAN] /\ pc \in [DOMAIN Threads -> Places]
      /\ cur \in [DOMAIN Threads -> Algos \cup {NoAlgo}]
      /\ numActive \in [DOMAIN Threads -> Nat]
      /\ spc \in {"scan", "count"}
      /\ spc = "count" => activating \in Algos
  BY DEF Shape, TypeOK
<1>1. ASSUME NEW x \in Temps, Sample(x) PROVE CountsActive'
  BY <1>1, CountsUnchanged DEF Sample, algos, threads
<1>2. CASE Pass
  BY <1>2, CountsUnchanged DEF Pass, algos, threads
<1>3. CASE Activate
  <2> DEFINE a == Head(toCheck)
  <2>1. a \in Algos
    BY <1>3, SMT DEF Activate, Shape, TypeOK
  <2>2. /\ ~activeStatus[a] /\ spc = "scan" /\ spc' = "count" /\ activating' = a
        /\ activeStatus' = [activeStatus EXCEPT ![a] = TRUE]
        /\ numActive' = numActive /\ pc' = pc
    BY <1>3 DEF Activate, threads
  <2> HIDE DEF a
  <2> SUFFICES ASSUME NEW t \in DOMAIN Threads
               PROVE  numActive[t] + (IF Runs(t, a) THEN 1 ELSE 0)
                        = Cardinality(ActiveIn(t)') + (IF pc[t] = "uncount" THEN 1 ELSE 0)
    BY <2>2 DEF CountsActive, Runs
  <2>3. numActive[t] = Cardinality(ActiveIn(t)) + (IF pc[t] = "uncount" THEN 1 ELSE 0)
    <3>1. numActive[t] + 0 = Cardinality(ActiveIn(t)) + (IF pc[t] = "uncount" THEN 1 ELSE 0)
      BY <2>2 DEF CountsActive
    <3> QED BY <1>0, <3>1, SMT
  <2>4. CASE Runs(t, a)
    <3>1. ActiveIn(t)' = ActiveIn(t) \cup {a} /\ a \notin ActiveIn(t)
      BY <1>0, <2>1, <2>2, <2>4 DEF ActiveIn, Runs
    <3>2. Cardinality(ActiveIn(t)') = Cardinality(ActiveIn(t)) + 1
      BY <3>1, ActiveInType, FS_AddElement
    <3> QED BY <1>0, <2>3, <2>4, <3>2, ActiveInType, SMT
  <2>5. CASE ~Runs(t, a)
    <3>1. ActiveIn(t)' = ActiveIn(t)
      BY <1>0, <2>1, <2>2, <2>5 DEF ActiveIn, Runs
    <3> QED BY <1>0, <2>3, <2>5, <3>1, SMT
  <2> QED BY <2>4, <2>5
<1>4. CASE CountActive
  <2> DEFINE owner == ThreadOf(activating)
  <2>1. owner \in DOMAIN Threads /\ activating \in Algos /\ Runs(owner, activating)
    BY <1>0, <1>4, ThreadsAssumption DEF CountActive, ThreadOf
  <2>2. \A t \in DOMAIN Threads : Runs(t, activating) <=> t = owner
    BY <2>1, ThreadsAssumption
  <2>3. /\ spc = "count" /\ spc' = "scan" /\ activeStatus' = activeStatus
        /\ numActive' = [numActive EXCEPT ![owner] = @ + 1]
        /\ \A t \in DOMAIN Threads : pc'[t] = "uncount" <=> pc[t] = "uncount"
    BY <1>0, <1>4, <2>1 DEF CountActive, algos
  <2> HIDE DEF owner
  <2> SUFFICES ASSUME NEW t \in DOMAIN Threads
               PROVE  numActive'[t] + 0
                        = Cardinality(ActiveIn(t)) + (IF pc[t] = "uncount" THEN 1 ELSE 0)
    BY <2>3 DEF CountsActive, ActiveIn, Runs
  <2>4. numActive[t] + (IF t = owner THEN 1 ELSE 0)
          = Cardinality(ActiveIn(t)) + (IF pc[t] = "uncount" THEN 1 ELSE 0)
    BY <2>2, <2>3 DEF CountsActive
  <2> QED BY <1>0, <2>3, <2>4, ActiveInType, SMT
<1>5. ASSUME NEW t \in DOMAIN Threads, Unflag(t) PROVE CountsActive'
  <2> DEFINE a == cur[t]
  <2>1. a \in Algos /\ Runs(t, a) /\ activeStatus[a]
    BY <1>5 DEF Unflag, Shape, OwnAlgorithms, Carrying
  <2>2. /\ pc[t] = "unflag" /\ pc' = [pc EXCEPT ![t] = "uncount"]
        /\ activeStatus' = [activeStatus EXCEPT ![a] = FALSE]
        /\ UNCHANGED <<numActive, spc, activating>>
    BY <1>5 DEF Unflag, sensor
  <2> HIDE DEF a
  <2> DEFINE Before(u) == IF spc = "count" /\ Runs(u, activating) THEN 1 ELSE 0
  <2> SUFFICES ASSUME NEW u \in DOMAIN Threads
               PROVE  numActive[u] + Before(u)
                        = Cardinality(ActiveIn(u)') + (IF pc'[u] = "uncount" THEN 1 ELSE 0)
    BY <2>2 DEF CountsActive, Runs
  <2>3. numActive[u] + Before(u) = Cardinality(ActiveIn(u)) + (IF pc[u] = "uncount" THEN 1 ELSE 0)
    BY DEF CountsActive
  <2> HIDE DEF Before
  <2>4. CASE u = t
    <3>1. ActiveIn(u)' = ActiveIn(u) \ {a} /\ a \in ActiveIn(u)
      BY <1>0, <2>1, <2>2, <2>4 DEF ActiveIn, Runs
    <3>2. Cardinality(ActiveIn(u)') = Cardinality(ActiveIn(u)) - 1
      BY <3>1, ActiveInType, FS_RemoveElement
    <3>3. pc[u] # "uncount" /\ pc'[u] = "uncount"
      BY <1>0, <2>2, <2>4
    <3> QED BY <2>3, <3>2, <3>3, ActiveInType, SMT
  <2>5. CASE u # t
    <3>1. ~Runs(u, a)
      BY <2>1, <2>5, ThreadsAssumption
    <3>2. ActiveIn(u)' = ActiveIn(u) /\ pc'[u] = pc[u]
      BY <1>0, <2>1, <2>2, <2>5, <3>1 DEF ActiveIn, Runs
    <3> QED BY <2>3, <3>2
  <2> QED BY <2>4, <2>5
<1>6. ASSUME NEW t \in DOMAIN Threads, Uncount(t) PROVE CountsActive'
  <2>1. /\ pc[t] = "uncount" /\ pc' = [pc EXCEPT ![t] = "scan"]
        /\ numActive' = [numActive EXCEPT ![t] = IF @ > 0 THEN @ - 1 ELSE 0]
        /\ UNCHANGED <<activeStatus, spc, activating>>
    BY <1>6 DEF Uncount, sensor, algos
  <2> DEFINE Before(u) == IF spc = "count" /\ Runs(u, activating) THEN 1 ELSE 0
  <2> SUFFICES ASSUME NEW u \in DOMAIN Threads
               PROVE  numActive'[u] + Before(u)
                        = Cardinality(ActiveIn(u)) + (IF pc'[u] = "uncount" THEN 1 ELSE 0)
    BY <2>1 DEF CountsActive, ActiveIn, Runs
  <2>2. numActive[u] + Before(u) = Cardinality(ActiveIn(u)) + (IF pc[u] = "uncount" THEN 1 ELSE 0)
    BY DEF CountsActive
  <2>3. Before(u) \in 0..1 /\ (Before(u) = 1 => Cardinality(ActiveIn(u)) > 0)
    <3>1. Before(u) = 1 => activating \in ActiveIn(u)
      BY <1>0 DEF Pending, ActiveIn
    <3>2. activating \in ActiveIn(u) => Cardinality(ActiveIn(u)) # 0
      BY ActiveInType, FS_EmptySet
    <3> QED BY <3>1, <3>2, ActiveInType, SMT
  <2> HIDE DEF Before
  <2>4. CASE u = t
    <3>1. numActive'[u] = (IF numActive[u] > 0 THEN numActive[u] - 1 ELSE 0) /\ pc'[u] = "scan"
          /\ pc[u] = "uncount"
      BY <1>0, <2>1, <2>4
    <3> QED BY <1>0, <2>2, <2>3, <3>1, ActiveInType, SMT
  <2>5. CASE u # t
    BY <1>0, <2>1, <2>2, <2>5
  <2> QED BY <2>4, <2>5
<1>7. ASSUME NEW t \in DOMAIN Threads, ThreadStep(t) \/ SpuriousWakeup(t),
             ~Unflag(t), ~Uncount(t)
      PROVE  CountsActive'
  <2>1. UNCHANGED <<activeStatus, numActive, spc, activating>>
    BY <1>7
    DEF ThreadStep, SpuriousWakeup, Top, Wait, Skip, MonitorDecision, SSClear, SSDecision,
        Release, Request, SwitchOff, Apply, sensor, algos
  <2> DEFINE Goal == /\ pc[t] # "uncount" /\ pc'[t] # "uncount"
                     /\ \A u \in DOMAIN Threads : u # t => pc'[u] = pc[u]
  <2>2. Goal
    <3>1. ASSUME NEW a \in Algos,
                 Skip(t, a) \/ MonitorDecision(t, a) \/ SSClear(t, a) \/ SSDecision(t, a)
          PROVE  Goal
      <4>1. pc[t] = "scan"
        BY <3>1 DEF Skip, MonitorDecision, SSClear, SSDecision
      <4>2. \/ pc' = pc
            \/ \E p \in {"switchoff", "release", "request"} : pc' = [pc EXCEPT ![t] = p]
        BY <3>1 DEF Skip, MonitorDecision, SSClear, SSDecision, Unchanged, GoTo
      <4> QED BY <1>0, <4>1, <4>2
    <3>2. CASE Top(t) \/ Wait(t) \/ SpuriousWakeup(t) \/ Release(t) \/ Request(t)
               \/ SwitchOff(t) \/ Apply(t)
      BY <1>0, <3>2 DEF Top, Wait, SpuriousWakeup, Release, Request, SwitchOff, Apply
    <3> QED BY <1>7, <3>1, <3>2 DEF ThreadStep
  <2> QED BY <2>1, <2>2, CountsUnchanged
<1>8. CASE UNCHANGED vars
  BY <1>8, CountsUnchanged DEF vars, sensor, algos, threads
<1> QED BY <1>1, <1>2, <1>3, <1>4, <1>5, <1>6, <1>7, <1>8 DEF Next, SensorStep

\* The counter a thread goes to sleep on is the number of its algorithms whose flag is set, but
\* for an activation or a deactivation between its two steps (Algo::activate(), deactivate(),
\* thermalThread::activate(), deactivate()).
THEOREM CountsCorrect == Spec => []CountsActive
<1>1. Init => Pending
  BY DEF Init, Pending
<1>2. Init => CountsActive
  <2> SUFFICES ASSUME Init, NEW t \in DOMAIN Threads
               PROVE  numActive[t] + (IF spc = "count" /\ Runs(t, activating) THEN 1 ELSE 0)
                        = Cardinality(ActiveIn(t)) + (IF pc[t] = "uncount" THEN 1 ELSE 0)
    BY DEF CountsActive
  <2>1. ActiveIn(t) = {} /\ numActive[t] = 0 /\ spc # "count" /\ pc[t] # "uncount"
    BY DEF Init, ActiveIn
  <2> QED BY <2>1, FS_EmptySet, SMT
<1> QED BY ShapeInit, ShapeStep, PendingStep, CountsStep, <1>1, <1>2, PTL DEF Spec

-----------------------------------------------------------------------------
(***************************************************************************)
(* The third layer: what an algorithm has asked of the devices, which      *)
(* depends on how far the thread carrying out its decision has got.        *)
(***************************************************************************)
Zero(a) == \A d \in DOMAIN Devices : request[d][a] = 0

\* The requests of a are those of status s.
AsksFor(a, s) ==
  \A d \in DOMAIN Devices :
    request[d][a] = IF d \in DOMAIN Demand(a, s) THEN Demand(a, s)[d] ELSE 0

Settled(a) == AsksFor(a, status[a]) \/ (status[a] = 0 /\ Zero(a))

\* The thread carrying out a decision of a has begun to change its requests.
Changing(t) ==
  \/ pc[t] \in {"apply", "applyoff"}
  \/ pc[t] = "request" /\ cur[t] \in DOMAIN Monitors

Decided ==
  \A t \in DOMAIN Threads :
    /\ pc[t] = "release" => cur[t] \in DOMAIN Monitors
    /\ pc[t] \in {"switchoff", "applyoff"} => next[t] = 0

Asked ==
  \A t \in DOMAIN Threads :
    /\ pc[t] = "apply" => AsksFor(cur[t], next[t])
    /\ pc[t] = "request" /\ cur[t] \in DOMAIN Monitors => Zero(cur[t])
    /\ pc[t] \in {"applyoff", "unflag"} => Zero(cur[t])

AtRest ==
  \A a \in Algos : Settled(a) \/ \E t \in DOMAIN Threads : cur[t] = a /\ Changing(t)

\* What an algorithm has asked for is applied, unless the thread is about to.
Kept ==
  \A a \in Algos :
    \/ \A d \in DOMAIN Devices : request[d][a] <= currentStatus[d]
    \/ \E t \in DOMAIN Threads : cur[t] = a /\ Changing(t)

Requests == Decided /\ Asked /\ AtRest /\ Kept /\ InactiveReleases

\* What a step does to the place of a thread and to what the devices are asked for: a thread
\* outside of a decision moves, or one begins a decision or carries it on.
Untouched(u) == pc'[u] = pc[u] /\ cur'[u] = cur[u] /\ next'[u] = next[u]

OthersUntouched(t) == \A u \in DOMAIN Threads : u # t => Untouched(u)

Quiet ==
  /\ UNCHANGED <<status, devices>>
  /\ \A a \in Algos : activeStatus[a] => activeStatus'[a]
  /\ \A u \in DOMAIN Threads : Untouched(u) \/ (pc[u] \notin Carrying /\ pc'[u] \notin Carrying)

Begins(t) ==
  /\ pc[t] = "scan"
  /\ UNCHANGED <<activeStatus, status, devices>>
  /\ OthersUntouched(t)
  /\ cur'[t] \in Algos
  /\ \/ pc'[t] = "switchoff" /\ next'[t] = 0
     \/ pc'[t] = "release" /\ cur'[t] \in DOMAIN Monitors
     \/ pc'[t] = "request" /\ cur'[t] \in DOMAIN SS

LEMMA Effects ==
  ASSUME Shape, [Next]_vars
  PROVE  \/ Quiet
         \/ \E t \in DOMAIN Threads :
              Begins(t) \/ Release(t) \/ SwitchOff(t) \/ Request(t) \/ Apply(t) \/ Unflag(t)
<1>0. /\ activeStatus \in [Algos -> BOOLEAN] /\ pc \in [DOMAIN Threads -> Places]
      /\ cur \in [DOMAIN Threads -> Algos \cup {NoAlgo}]
      /\ next \in [DOMAIN Threads -> Nat]
  BY DEF Shape, TypeOK
<1>1. ASSUME NEW x \in Temps, Sample(x) PROVE Quiet
  BY <1>1 DEF Sample, Quiet, Untouched, algos, threads
<1>2. CASE Pass
  BY <1>2 DEF Pass, Quiet, Untouched, algos, threads
<1>3. CASE Activate
  <2>1. Head(toCheck) \in Algos
    BY <1>3, SMT DEF Activate, Shape, TypeOK
  <2>2. \A a \in Algos : activeStatus[a] => activeStatus'[a]
    BY <1>0, <1>3, <2>1 DEF Activate
  <2> QED BY <1>3, <2>2 DEF Activate, Quiet, Untouched, threads
<1>4. CASE CountActive
  <2> DEFINE t == ThreadOf(activating)
  <2>1. pc' = pc \/ (pc[t] = "waiting" /\ pc' = [pc EXCEPT ![t] = "scan"])
    BY <1>4 DEF CountActive
  <2> HIDE DEF t
  <2>2. \A u \in DOMAIN Threads : pc'[u] = pc[u] \/ (pc[u] \notin Carrying /\ pc'[u] \notin Carrying)
    BY <1>0, <2>1 DEF Carrying
  <2> QED BY <1>4, <2>2 DEF CountActive, Quiet, Untouched, algos
<1>5. ASSUME NEW t \in DOMAIN Threads, Top(t) \/ Wait(t) \/ SpuriousWakeup(t) PROVE Quiet
  <2>1. \A u \in DOMAIN Threads : pc'[u] = pc[u] \/ (pc[u] \notin Carrying /\ pc'[u] \notin Carrying)
    BY <1>0, <1>5 DEF Top, Wait, SpuriousWakeup, Carrying
  <2> QED BY <1>5, <2>1 DEF Top, Wait, SpuriousWakeup, Quiet, Untouched, algos
<1>6. ASSUME NEW t \in DOMAIN Threads, Uncount(t) PROVE Quiet
  <2>1. \A u \in DOMAIN Threads : Untouched(u) \/ (pc[u] \notin Carrying /\ pc'[u] \notin Carrying)
    BY <1>0, <1>6 DEF Uncount, Carrying, Untouched
  <2> QED BY <1>6, <2>1 DEF Uncount, Quiet, algos
<1>7. ASSUME NEW t \in DOMAIN Threads, NEW a \in Algos,
             Skip(t, a) \/ MonitorDecision(t, a) \/ SSClear(t, a) \/ SSDecision(t, a)
      PROVE  Quiet \/ Begins(t)
  <2>1. pc[t] = "scan" /\ UNCHANGED <<activeStatus, status, devices>>
    BY <1>7 DEF Skip, MonitorDecision, SSClear, SSDecision, algos
  <2>2. CASE Skip(t, a) \/ Unchanged(t, a)
    BY <2>1, <2>2 DEF Skip, Unchanged, Quiet, Untouched
  <2>3. ASSUME NEW place, NEW n, GoTo(t, a, place, n),
               \/ place = "switchoff" /\ n = 0
               \/ place = "release" /\ a \in DOMAIN Monitors
               \/ place = "request" /\ a \in DOMAIN SS
        PROVE  Begins(t)
    <3>1. pc'[t] = place /\ cur'[t] = a /\ next'[t] = n /\ OthersUntouched(t)
      BY <1>0, <2>3 DEF GoTo, OthersUntouched, Untouched
    <3> QED BY <2>1, <2>3, <3>1 DEF Begins
  <2>4. CASE MonitorDecision(t, a)
    <3> DEFINE new == MonitorStatus(Monitors[a], status[a], temperature)
    <3>1. /\ a \in DOMAIN Monitors
          /\ Unchanged(t, a) \/ GoTo(t, a, IF new = 0 THEN "switchoff" ELSE "release", new)
      BY <2>4 DEF MonitorDecision
    <3> HIDE DEF new
    <3>2. CASE new = 0
      BY <2>2, <2>3, <3>1, <3>2
    <3>3. CASE new # 0
      BY <2>2, <2>3, <3>1, <3>3
    <3> QED BY <3>2, <3>3
  <2>5. CASE SSClear(t, a)
    BY <2>3, <2>5 DEF SSClear
  <2>6. CASE SSDecision(t, a)
    <3>1. a \in DOMAIN SS /\ \E n : Unchanged(t, a) \/ GoTo(t, a, "request", n)
      BY <2>6 DEF SSDecision
    <3> QED BY <2>2, <2>3, <3>1
  <2> QED BY <1>7, <2>2, <2>4, <2>5, <2>6
<1>8. CASE UNCHANGED vars
  BY <1>8 DEF vars, algos, threads, Quiet, Untouched
<1> QED BY <1>1, <1>2, <1>3, <1>4, <1>5, <1>6, <1>7, <1>8 DEF Next, SensorStep, ThreadStep

\* No two threads carry out a decision of the same algorithm.
LEMMA OnlyOne ==
  ASSUME Shape, NEW t \in DOMAIN Threads, NEW u \in DOMAIN Threads,
         pc[t] \in Carrying, pc[u] \in Carrying, cur[t] = cur[u]
  PROVE  t = u
BY ThreadsAssumption DEF Shape, OwnAlgorithms

\* A thread that has begun to change requests is carrying out a decision.
LEMMA ChangingCarries == \A t : Changing(t) => pc[t] \in Carrying
BY DEF Changing, Carrying

LEMMA RequestsQuiet ==
  ASSUME Shape, Requests, Quiet
  PROVE  Requests'
<1>1. \A u \in DOMAIN Threads : pc'[u] \in Carrying \/ pc[u] \in Carrying => Untouched(u)
  BY DEF Quiet
<1>2. request' = request /\ currentStatus' = currentStatus /\ status' = status
  BY DEF Quiet, devices
<1>3. \A u \in DOMAIN Threads : Changing(u) => Changing(u)' /\ cur'[u] = cur[u]
  BY <1>1 DEF Changing, Carrying, Untouched
<1>4. Decided'
  BY <1>1 DEF Requests, Decided, Carrying, Untouched
<1>5. Asked'
  BY <1>1, <1>2 DEF Requests, Asked, Carrying, Untouched, AsksFor, Zero
<1>6. AtRest'
  BY <1>2, <1>3 DEF Requests, AtRest, Settled, AsksFor, Zero
<1>7. Kept'
  BY <1>2, <1>3 DEF Requests, Kept
<1>8. InactiveReleases'
  BY <1>2 DEF Requests, InactiveReleases, Quiet
<1> QED BY <1>4, <1>5, <1>6, <1>7, <1>8 DEF Requests

LEMMA RequestsBegins ==
  ASSUME Shape, Requests, NEW t \in DOMAIN Threads, Begins(t)
  PROVE  Requests'
<1>1. \A u \in DOMAIN Threads : u # t => Untouched(u)
  BY DEF Begins, OthersUntouched
<1>2. request' = request /\ currentStatus' = currentStatus /\ status' = status
      /\ activeStatus' = activeStatus
  BY DEF Begins, devices
<1>3. \A u \in DOMAIN Threads : Changing(u) => Changing(u)' /\ cur'[u] = cur[u]
  BY <1>1 DEF Changing, Untouched, Begins
<1>4. Decided'
  BY <1>1 DEF Requests, Decided, Untouched, Begins
<1>5. Asked'
  BY <1>1, <1>2, AlgosAssumption DEF Requests, Asked, Untouched, AsksFor, Zero, Begins
<1>6. AtRest'
  BY <1>2, <1>3 DEF Requests, AtRest, Settled, AsksFor, Zero
<1>7. Kept'
  BY <1>2, <1>3 DEF Requests, Kept
<1>8. InactiveReleases'
  BY <1>2 DEF Requests, InactiveReleases
<1> QED BY <1>4, <1>5, <1>6, <1>7, <1>8 DEF Requests

\* A thread changes requests of its own algorithm only: what the other threads and algorithms
\* rely on stays.
LEMMA RequestsOwn ==
  ASSUME Shape, Requests, NEW t \in DOMAIN Threads, pc[t] \in Carrying, OthersUntouched(t),
         \A d \in DOMAIN Devices : \A b \in Algos : b # cur[t] => request'[d][b] = request[d][b],
         UNCHANGED <<activeStatus, status, currentStatus>>,
         cur'[t] = cur[t], Changing(t)',
         pc'[t] \in {"request", "apply", "applyoff"},
         pc'[t] = "apply" => AsksFor(cur[t], next[t])' /\ next'[t] = next[t],
         pc'[t] # "apply" => Zero(cur[t])',
         pc'[t] = "applyoff" => next'[t] = 0
  PROVE  Requests'
<1> DEFINE a == cur[t]
<1>1. a \in Algos /\ activeStatus[a]
  BY DEF Shape, OwnAlgorithms
<1>2. \A u \in DOMAIN Threads : u # t /\ pc[u] \in Carrying => cur[u] \in Algos /\ cur[u] # a
  BY OnlyOne DEF Shape, OwnAlgorithms
<1>3. \A u \in DOMAIN Threads : u # t => Untouched(u)
  BY DEF OthersUntouched
<1>4. Decided'
  BY <1>3 DEF Requests, Decided, Untouched
<1>5. Asked'
  <2> SUFFICES ASSUME NEW u \in DOMAIN Threads
               PROVE  /\ pc'[u] = "apply" => AsksFor(cur[u], next[u])'
                      /\ pc'[u] = "request" /\ cur'[u] \in DOMAIN Monitors => Zero(cur[u])'
                      /\ pc'[u] \in {"applyoff", "unflag"} => Zero(cur[u])'
    BY DEF Asked
  <2>1. CASE u = t
    BY <2>1 DEF AsksFor, Zero
  <2>2. CASE u # t
    BY <1>2, <1>3, <2>2 DEF Requests, Asked, Untouched, AsksFor, Zero, Carrying
  <2> QED BY <2>1, <2>2
<1>6. \A b \in Algos : b # a => (Settled(b) => Settled(b)')
  BY DEF Settled, AsksFor, Zero
<1>7. \A b \in Algos : (\E u \in DOMAIN Threads : cur[u] = b /\ Changing(u))
                       => (\E u \in DOMAIN Threads : cur[u] = b /\ Changing(u))'
  BY <1>3 DEF Changing, Untouched
<1>8. AtRest'
  BY <1>6, <1>7 DEF Requests, AtRest
<1>9. Kept'
  BY <1>7 DEF Requests, Kept
<1>10. InactiveReleases'
  BY <1>1 DEF Requests, InactiveReleases
<1> QED BY <1>4, <1>5, <1>8, <1>9, <1>10 DEF Requests

\* An algorithm no thread has begun to change the requests of has those of its status.
LEMMA SettledUntilChanging ==
  ASSUME Shape, Requests, NEW t \in DOMAIN Threads, pc[t] \in Carrying, ~Changing(t)
  PROVE  cur[t] \in Algos /\ Settled(cur[t])
<1>1. cur[t] \in Algos
  BY DEF Shape, OwnAlgorithms
<1>2. ASSUME NEW u \in DOMAIN Threads, cur[u] = cur[t], Changing(u) PROVE FALSE
  BY <1>2, OnlyOne, ChangingCarries
<1> QED BY <1>1, <1>2 DEF Requests, AtRest

LEMMA RequestsReleases ==
  ASSUME Shape, Requests, NEW t \in DOMAIN Threads, Release(t) \/ SwitchOff(t)
  PROVE  Requests'
<1> DEFINE a == cur[t]
<1>0. /\ pc \in [DOMAIN Threads -> Places] /\ cur \in [DOMAIN Threads -> Algos \cup {NoAlgo}]
      /\ next \in [DOMAIN Threads -> Nat]
  BY DEF Shape, TypeOK
<1>1. /\ pc[t] \in Carrying /\ ~Changing(t)
      /\ request' = Released(a) /\ UNCHANGED <<activeStatus, status, currentStatus, cur, next>>
      /\ \/ pc[t] = "release" /\ pc' = [pc EXCEPT ![t] = "request"]
         \/ pc[t] = "switchoff" /\ pc' = [pc EXCEPT ![t] = "applyoff"]
  BY DEF Release, SwitchOff, Carrying, Changing, algos
<1>2. a \in Algos /\ Settled(a)
  BY <1>1, SettledUntilChanging
<1>3. \A d \in DOMAIN Devices : \A b \in Algos :
        request'[d][b] = IF b = a /\ d \in DOMAIN Demand(a, status[a]) THEN 0 ELSE request[d][b]
  BY <1>1, <1>2, ReleasedMeaning
<1>4. \A d \in DOMAIN Devices : request'[d][a] = 0
  BY <1>2, <1>3 DEF Settled, AsksFor, Zero
<1>5. Zero(cur[t])'
  BY <1>1, <1>4 DEF Zero
<1>6. OthersUntouched(t) /\ (pc'[t] = "request" \/ pc'[t] = "applyoff") /\ cur'[t] = cur[t]
  BY <1>0, <1>1 DEF OthersUntouched, Untouched
<1>7. Changing(t)' /\ (pc'[t] = "applyoff" => next'[t] = 0)
  BY <1>0, <1>1, <1>6 DEF Requests, Decided, Changing
<1>8. \A d \in DOMAIN Devices : \A b \in Algos : b # cur[t] => request'[d][b] = request[d][b]
  BY <1>3
<1> QED BY <1>1, <1>5, <1>6, <1>7, <1>8, RequestsOwn

LEMMA RequestsRequest ==
  ASSUME Shape, Requests, NEW t \in DOMAIN Threads, Request(t)
  PROVE  Requests'
<1> DEFINE a == cur[t]
<1>0. /\ pc \in [DOMAIN Threads -> Places] /\ cur \in [DOMAIN Threads -> Algos \cup {NoAlgo}]
      /\ next \in [DOMAIN Threads -> Nat]
  BY DEF Shape, TypeOK
<1>1. /\ pc[t] = "request" /\ pc[t] \in Carrying
      /\ request' = Requested(a, Demand(a, next[t]))
      /\ UNCHANGED <<activeStatus, status, currentStatus, cur, next>>
      /\ pc' = [pc EXCEPT ![t] = "apply"]
  BY DEF Request, Carrying, algos
<1>2. a \in Algos
  BY <1>1 DEF Shape, OwnAlgorithms
<1>3. \A d \in DOMAIN Demand(a, next[t]) : Askable(d, a, Demand(a, next[t])[d])
  BY <1>0, <1>2, DemandType DEF Shape, StatusInTable
<1>4. \A d \in DOMAIN Devices : \A b \in Algos :
        request'[d][b] = IF b = a /\ d \in DOMAIN Demand(a, next[t]) THEN Demand(a, next[t])[d]
                         ELSE request[d][b]
  BY <1>1, <1>2, <1>3, RequestedType DEF Shape
<1>5. \A d \in DOMAIN Devices : d \notin DOMAIN Demand(a, next[t]) => request[d][a] = 0
  <2>1. CASE a \in DOMAIN Monitors
    BY <1>1, <2>1 DEF Requests, Asked, Zero
  <2>2. CASE a \in DOMAIN SS
    <3>1. Settled(a)
      BY <1>1, <2>2, AlgosAssumption, SettledUntilChanging DEF Changing
    <3>2. DOMAIN Demand(a, next[t]) = DOMAIN Demand(a, status[a])
      BY <2>2 DEF Demand
    <3> QED BY <3>1, <3>2 DEF Settled, AsksFor, Zero
  <2> QED BY <1>2, <2>1, <2>2 DEF Algos
<1>6. AsksFor(cur[t], next[t])'
  BY <1>1, <1>2, <1>4, <1>5 DEF AsksFor
<1>7. OthersUntouched(t) /\ pc'[t] = "apply" /\ cur'[t] = cur[t] /\ next'[t] = next[t]
  BY <1>0, <1>1 DEF OthersUntouched, Untouched
<1>8. \A d \in DOMAIN Devices : \A b \in Algos : b # cur[t] => request'[d][b] = request[d][b]
  BY <1>4
<1>9. Changing(t)'
  BY <1>7 DEF Changing
<1> QED BY <1>1, <1>6, <1>7, <1>8, <1>9, RequestsOwn

LEMMA RequestsApply ==
  ASSUME Shape, Requests, NEW t \in DOMAIN Threads, Apply(t)
  PROVE  Requests'
<1> DEFINE a == cur[t]
           ds == DOMAIN Demand(a, status[a]) \cup DOMAIN Demand(a, next[t])
<1>0. /\ pc \in [DOMAIN Threads -> Places] /\ cur \in [DOMAIN Threads -> Algos \cup {NoAlgo}]
      /\ next \in [DOMAIN Threads -> Nat] /\ status \in [Algos -> Nat]
      /\ request \in [DOMAIN Devices -> [Algos -> Int]]
  BY DEF Shape, TypeOK
<1>1. /\ pc[t] \in {"apply", "applyoff"} /\ pc[t] \in Carrying
      /\ currentStatus' = Applied(ds)
      /\ status' = [status EXCEPT ![a] = next[t]]
      /\ UNCHANGED <<activeStatus, request>>
      /\ pc'[t] = (IF pc[t] = "apply" THEN "scan" ELSE "unflag")
      /\ pc[t] = "applyoff" => cur'[t] = a
      /\ OthersUntouched(t)
  BY <1>0 DEF Apply, Carrying, OthersUntouched, Untouched
<1>2. a \in Algos
  BY <1>1 DEF Shape, OwnAlgorithms
<1>3. \A u \in DOMAIN Threads : u # t /\ pc[u] \in Carrying => cur[u] # a
  BY <1>1, OnlyOne
<1>4. \A u \in DOMAIN Threads : u # t => Untouched(u)
  BY <1>1 DEF OthersUntouched
<1>5. /\ \A d \in DOMAIN Devices : currentStatus'[d] \in Nat
      /\ \A d \in DOMAIN Devices : d \in ds => \A b \in Algos : request[d][b] <= currentStatus'[d]
      /\ \A d \in DOMAIN Devices : d \notin ds => currentStatus'[d] = currentStatus[d]
  <2> HIDE DEF ds
  <2> QED BY <1>1, AppliedMeaning DEF Shape
<1>6. \A d \in DOMAIN Devices : d \notin ds => request[d][a] = 0
  BY <1>1 DEF Requests, Asked, AsksFor, Zero
<1>7. Decided'
  BY <1>1, <1>4 DEF Requests, Decided, Untouched
<1>8. Asked'
  BY <1>1, <1>4 DEF Requests, Asked, Untouched, AsksFor, Zero
<1>9. \A b \in Algos : b = a => Settled(b)'
  <2> SUFFICES ASSUME NEW b \in Algos, b = a PROVE Settled(b)'
    OBVIOUS
  <2>1. status'[b] = next[t] /\ request' = request
    BY <1>0, <1>1
  <2>2. CASE pc[t] = "apply"
    <3>1. AsksFor(b, next[t])
      BY <2>2 DEF Requests, Asked
    <3> QED BY <2>1, <3>1 DEF Settled, AsksFor
  <2>3. CASE pc[t] = "applyoff"
    <3>1. Zero(b) /\ next[t] = 0
      BY <2>3 DEF Requests, Asked, Decided
    <3> QED BY <2>1, <3>1 DEF Settled, Zero
  <2> QED BY <1>1, <2>2, <2>3
<1>10. \A b \in Algos : b # a /\ (\E u \in DOMAIN Threads : cur[u] = b /\ Changing(u))
                        => (\E u \in DOMAIN Threads : cur[u] = b /\ Changing(u))'
  BY <1>4 DEF Changing, Untouched
<1>11. AtRest'
  <2>1. \A b \in Algos : b # a /\ Settled(b) => Settled(b)'
    BY <1>0, <1>1 DEF Settled, AsksFor, Zero
  <2> QED BY <1>9, <1>10, <2>1 DEF Requests, AtRest
<1>12. Kept'
  <2> HIDE DEF ds
  <2>1. \A d \in DOMAIN Devices : request[d][a] <= currentStatus'[d]
    BY <1>2, <1>5, <1>6, SMT
  <2>2. ASSUME NEW b \in Algos, \A d \in DOMAIN Devices : request[d][b] <= currentStatus[d]
        PROVE  \A d \in DOMAIN Devices : request[d][b] <= currentStatus'[d]
    BY <1>5, <2>2
  <2> QED BY <1>1, <1>10, <2>1, <2>2 DEF Requests, Kept
<1>13. InactiveReleases'
  BY <1>1 DEF Requests, InactiveReleases
<1> QED BY <1>7, <1>8, <1>11, <1>12, <1>13 DEF Requests

LEMMA RequestsUnflag ==
  ASSUME Shape, Requests, NEW t \in DOMAIN Threads, Unflag(t)
  PROVE  Requests'
<1>0. /\ pc \in [DOMAIN Threads -> Places] /\ activeStatus \in [Algos -> BOOLEAN]
  BY DEF Shape, TypeOK
<1>1. /\ pc[t] = "unflag" /\ pc'[t] = "uncount" /\ OthersUntouched(t)
      /\ UNCHANGED <<status, request, currentStatus>>
      /\ activeStatus' = [activeStatus EXCEPT ![cur[t]] = FALSE]
  BY <1>0 DEF Unflag, OthersUntouched, Untouched, devices
<1>2. \A u \in DOMAIN Threads : u # t => Untouched(u)
  BY <1>1 DEF OthersUntouched
<1>3. \A u \in DOMAIN Threads : Changing(u) => Changing(u)' /\ cur'[u] = cur[u]
  BY <1>1, <1>2 DEF Changing, Untouched
<1>4. Decided'
  BY <1>1, <1>2 DEF Requests, Decided, Untouched
<1>5. Asked'
  BY <1>1, <1>2 DEF Requests, Asked, Untouched, AsksFor, Zero
<1>6. AtRest'
  BY <1>1, <1>3 DEF Requests, AtRest, Settled, AsksFor, Zero
<1>7. Kept'
  BY <1>1, <1>3 DEF Requests, Kept
<1>8. InactiveReleases'
  BY <1>0, <1>1 DEF Requests, InactiveReleases, Asked, Zero
<1> QED BY <1>4, <1>5, <1>6, <1>7, <1>8 DEF Requests

LEMMA RequestsInit == Init => Requests
<1> SUFFICES ASSUME Init PROVE Requests
  OBVIOUS
<1>1. Decided /\ Asked
  BY DEF Init, Decided, Asked
<1>2. AtRest
  BY DEF Init, AtRest, Settled, Zero
<1>3. Kept
  BY SMT DEF Init, Kept
<1>4. InactiveReleases
  BY DEF Init, InactiveReleases
<1> QED BY <1>1, <1>2, <1>3, <1>4 DEF Requests

LEMMA RequestsStep == Shape /\ Requests /\ [Next]_vars => Requests'
BY Effects, RequestsQuiet, RequestsBegins, RequestsReleases, RequestsRequest, RequestsApply,
   RequestsUnflag

\* A switched off algorithm holds no request that nobody would ever release: deactivate() has
\* released them all before it clears the flag.
THEOREM InactiveReleased == Spec => []InactiveReleases
<1>1. Requests => InactiveReleases
  BY DEF Requests
<1> QED BY ShapeInit, ShapeStep, RequestsInit, RequestsStep, <1>1, PTL DEF Spec

\* Whatever the other threads request, release and apply, a device stays at least at the level
\* the status of each algorithm asks for, except while that algorithm itself decides anew.
THEOREM LimitsKept == Spec => []LimitIsKept
<1>1. Shape /\ Requests => LimitIsKept
  <2> SUFFICES ASSUME Shape, Requests, NEW a \in Algos, status[a] > 0, ~Deciding(a),
                      NEW d \in DOMAIN Demand(a, status[a])
               PROVE  currentStatus[d] >= Demand(a, status[a])[d]
    BY DEF LimitIsKept
  <2>1. ~\E t \in DOMAIN Threads : cur[t] = a /\ Changing(t)
    BY DEF Deciding, Changing
  <2>2. d \in DOMAIN Devices
    BY DemandType DEF Shape, TypeOK, StatusInTable
  <2>3. request[d][a] = Demand(a, status[a])[d]
    <3>1. status[a] # 0
      BY SMT DEF Shape, TypeOK
    <3> QED BY <2>1, <2>2, <3>1 DEF Requests, AtRest, Settled, AsksFor
  <2>4. request[d][a] <= currentStatus[d]
    BY <2>1, <2>2 DEF Requests, Kept
  <2>5. currentStatus[d] \in Nat /\ request[d][a] \in Int
    BY <2>2 DEF Shape, TypeOK
  <2> QED BY <2>3, <2>4, <2>5, SMT
<1> QED BY ShapeInit, ShapeStep, RequestsInit, RequestsStep, <1>1, PTL DEF Spec

-----------------------------------------------------------------------------
\* A decision under way will apply device d.
WillApply(t, d) ==
  /\ pc[t] \in {"request", "apply", "applyoff"}
  /\ d \in DOMAIN Demand(cur[t], status[cur[t]]) \cup DOMAIN Demand(cur[t], next[t])

\* A thread that is not touched still will, if its algorithm's status is not either.
LEMMA StillWillApply ==
  ASSUME Shape, NEW u \in DOMAIN Threads, NEW d, WillApply(u, d), Untouched(u),
         status'[cur[u]] = status[cur[u]]
  PROVE  WillApply(u, d)'
BY DEF WillApply, Untouched

\* Requests that change only for devices that will be applied do not break the agreement.
LEMMA FollowsOwn ==
  ASSUME Shape, DeviceFollowsRequests, NEW t \in DOMAIN Threads, OthersUntouched(t),
         UNCHANGED <<status, currentStatus>>,
         \A d \in DOMAIN Devices : WillApply(t, d) => WillApply(t, d)',
         \A d \in DOMAIN Devices : request'[d] = request[d] \/ WillApply(t, d)'
  PROVE  DeviceFollowsRequests'
<1> SUFFICES ASSUME NEW d \in DOMAIN Devices
             PROVE  currentStatus'[d] = Strictest(request'[d])
                    \/ \E u \in DOMAIN Threads : WillApply(u, d)'
  BY DEF DeviceFollowsRequests, WillApply, Strictest
<1>1. CASE \E u \in DOMAIN Threads : WillApply(u, d)
  BY <1>1, StillWillApply DEF OthersUntouched
<1>2. CASE currentStatus[d] = Strictest(request[d])
  BY <1>2
<1> QED BY <1>1, <1>2 DEF DeviceFollowsRequests, WillApply

LEMMA FollowsStep ==
  Shape /\ DeviceFollowsRequests /\ [Next]_vars => DeviceFollowsRequests'
<1> SUFFICES ASSUME Shape, DeviceFollowsRequests, [Next]_vars PROVE DeviceFollowsRequests'
  OBVIOUS
<1>0. /\ pc \in [DOMAIN Threads -> Places] /\ cur \in [DOMAIN Threads -> Algos \cup {NoAlgo}]
      /\ next \in [DOMAIN Threads -> Nat] /\ status \in [Algos -> Nat]
  BY DEF Shape, TypeOK
<1>1. CASE Quiet
  <2> SUFFICES ASSUME NEW d \in DOMAIN Devices
               PROVE  currentStatus'[d] = Strictest(request'[d])
                      \/ \E u \in DOMAIN Threads : WillApply(u, d)'
    BY DEF DeviceFollowsRequests, WillApply, Strictest
  <2>1. request' = request /\ currentStatus' = currentStatus /\ status' = status
    BY <1>1 DEF Quiet, devices
  <2>2. \A u \in DOMAIN Threads : WillApply(u, d) => WillApply(u, d)'
    BY <1>1, <2>1, StillWillApply DEF Quiet, WillApply, Carrying
  <2> QED BY <2>1, <2>2 DEF DeviceFollowsRequests, WillApply
<1>2. ASSUME NEW t \in DOMAIN Threads, Begins(t) PROVE DeviceFollowsRequests'
  <2>1. \A d \in DOMAIN Devices : ~WillApply(t, d)
    BY <1>2 DEF Begins, WillApply
  <2> QED BY <1>2, <2>1, FollowsOwn DEF Begins, devices
<1>3. ASSUME NEW t \in DOMAIN Threads, Release(t) \/ SwitchOff(t) PROVE DeviceFollowsRequests'
  <2>1. /\ pc[t] \notin {"request", "apply", "applyoff"} /\ pc'[t] \in {"request", "applyoff"}
        /\ OthersUntouched(t) /\ UNCHANGED <<status, currentStatus, cur, next>>
        /\ request' = Released(cur[t])
    BY <1>0, <1>3 DEF Release, SwitchOff, OthersUntouched, Untouched, algos
  <2>2. \A d \in DOMAIN Devices : d \notin DOMAIN Demand(cur[t], status[cur[t]])
                                  => request'[d] = request[d]
    BY <2>1 DEF Released, Requested
  <2>3. \A d \in DOMAIN Demand(cur[t], status[cur[t]]) : WillApply(t, d)'
    BY <2>1 DEF WillApply
  <2>4. \A d \in DOMAIN Devices : ~WillApply(t, d)
    BY <2>1 DEF WillApply
  <2> QED BY <2>1, <2>2, <2>3, <2>4, FollowsOwn
<1>4. ASSUME NEW t \in DOMAIN Threads, Request(t) PROVE DeviceFollowsRequests'
  <2>1. /\ pc[t] = "request" /\ pc'[t] = "apply"
        /\ OthersUntouched(t) /\ UNCHANGED <<status, currentStatus, cur, next>>
        /\ request' = Requested(cur[t], Demand(cur[t], next[t]))
    BY <1>0, <1>4 DEF Request, OthersUntouched, Untouched, algos
  <2>2. \A d \in DOMAIN Devices : d \notin DOMAIN Demand(cur[t], next[t]) => request'[d] = request[d]
    BY <2>1 DEF Requested
  <2>3. \A d \in DOMAIN Demand(cur[t], next[t]) : WillApply(t, d)'
    BY <2>1 DEF WillApply
  <2>4. \A d \in DOMAIN Devices : WillApply(t, d) => WillApply(t, d)'
    BY <2>1 DEF WillApply
  <2> QED BY <2>1, <2>2, <2>3, <2>4, FollowsOwn
<1>5. ASSUME NEW t \in DOMAIN Threads, Apply(t) PROVE DeviceFollowsRequests'
  <2> DEFINE ds == DOMAIN Demand(cur[t], status[cur[t]]) \cup DOMAIN Demand(cur[t], next[t])
  <2>1. /\ pc[t] \in Carrying /\ OthersUntouched(t) /\ request' = request
        /\ currentStatus' = Applied(ds)
        /\ status' = [status EXCEPT ![cur[t]] = next[t]]
    BY <1>0, <1>5 DEF Apply, Carrying, OthersUntouched, Untouched
  <2> SUFFICES ASSUME NEW d \in DOMAIN Devices
               PROVE  currentStatus'[d] = Strictest(request'[d])
                      \/ \E u \in DOMAIN Threads : WillApply(u, d)'
    BY DEF DeviceFollowsRequests, WillApply, Strictest
  <2>2. CASE d \in ds
    BY <2>1, <2>2 DEF Applied
  <2>3. CASE d \notin ds
    <3>1. currentStatus'[d] = currentStatus[d] /\ ~WillApply(t, d)
      BY <2>1, <2>3 DEF Applied, WillApply
    <3>2. ASSUME NEW u \in DOMAIN Threads, WillApply(u, d) PROVE WillApply(u, d)'
      <4>1. u # t /\ pc[u] \in Carrying
        BY <3>1, <3>2 DEF WillApply, Carrying
      <4>2. cur[u] # cur[t] /\ cur[u] \in Algos
        BY <2>1, <4>1, OnlyOne DEF Shape, OwnAlgorithms
      <4>3. status'[cur[u]] = status[cur[u]]
        BY <1>0, <2>1, <4>2
      <4> QED BY <2>1, <3>2, <4>1, <4>3, StillWillApply DEF OthersUntouched
    <3> QED BY <2>1, <3>1, <3>2 DEF DeviceFollowsRequests, WillApply
  <2> QED BY <2>2, <2>3
<1>6. ASSUME NEW t \in DOMAIN Threads, Unflag(t) PROVE DeviceFollowsRequests'
  <2>1. /\ pc[t] = "unflag" /\ OthersUntouched(t)
        /\ UNCHANGED <<status, currentStatus>> /\ request' = request
    BY <1>0, <1>6 DEF Unflag, OthersUntouched, Untouched, devices
  <2>2. \A d \in DOMAIN Devices : ~WillApply(t, d)
    BY <2>1 DEF WillApply
  <2> QED BY <2>1, <2>2, FollowsOwn
<1> QED BY <1>1, <1>2, <1>3, <1>4, <1>5, <1>6, Effects

\* A device is at the strictest level asked for whenever no thread is between its requests and
\* its statusApply() for that device, in every interleaving of the threads.
THEOREM DevicesFollow == Spec => []DeviceFollowsRequests
<1>1. Init => DeviceFollowsRequests
  <2> SUFFICES ASSUME Init, NEW d \in DOMAIN Devices PROVE currentStatus[d] = Strictest(request[d])
    BY DEF DeviceFollowsRequests
  <2> DEFINE r == request[d]
  <2>1. currentStatus[d] = 0 /\ r = [a \in Algos |-> 0]
    BY DEF Init
  <2>2. LevelsIn(r) = {0}
    BY <2>1 DEF LevelsIn
  <2> HIDE DEF r
  <2>3. Strictest(r) = 0
    BY <2>2 DEF Strictest
  <2> QED BY <2>1, <2>3 DEF r
<1> QED BY ShapeInit, ShapeStep, FollowsStep, <1>1, PTL DEF Spec


-----------------------------------------------------------------------------
(***************************************************************************)
(* The decisions are right: a status fits the temperature it was decided   *)
(* on, and the status a thread is about to reach fits it already.  The     *)
(* second part is what carries the first over the steps of a decision.     *)
(***************************************************************************)
Fits(a, s, x) ==
  /\ a \in DOMAIN Monitors => /\ Passed(Monitors[a].thresholds, x) <= s
                              /\ s <= Passed(Monitors[a].clrThresholds, x)
  /\ a \in DOMAIN SS => s >= x \div Unit - SS[a].triggerPoint \div Unit + 1

Working == {"switchoff", "release", "request", "apply", "applyoff"}

StatusFits == \A a \in Algos : (status[a] > 0 /\ ~Deciding(a)) => Fits(a, status[a], decidedAt[a])

NextFits ==
  \A t \in DOMAIN Threads :
    (pc[t] \in Working /\ next[t] > 0) => Fits(cur[t], next[t], decidedAt[cur[t]])

Fitting == StatusFits /\ NextFits

\* Monitor::decision(): a status other than 0 lies within the band of the temperature.
LEMMA MonitorFits ==
  ASSUME NEW a \in DOMAIN Monitors, NEW s \in Nat, InTable(a, s), NEW x \in Nat,
         MonitorStatus(Monitors[a], s, x) > 0
  PROVE  Fits(a, MonitorStatus(Monitors[a], s, x), x)
<1> DEFINE m == Monitors[a]
           q == m.thresholds
           r == m.clrThresholds
           p == Passed(q, x)
           c == Passed(r, x)
           N == Len(q)
           new == MonitorStatus(m, s, x)
<1>1. /\ Rising(q) /\ Rising(r) /\ Len(r) = N
      /\ \A i \in 1..N : r[i] <= q[i]
  BY MonitorsAssumption DEF MonitorConfigured
<1>2. /\ p \in 0..N /\ \A i \in 1..N : q[i] <= x <=> i <= p
      /\ c \in 0..N /\ \A i \in 1..N : r[i] <= x <=> i <= c
  BY <1>1, PassedMeaning
<1>3. N \in Nat /\ \A i \in 1..N : q[i] \in Nat /\ r[i] \in Nat
  BY <1>1, SMT DEF Rising
<1>4. s <= N
  BY DEF InTable
<1>5. new = IF s = 0 \/ (s < N /\ x >= q[s + 1]) THEN p ELSE IF x < r[s] THEN c ELSE s
  BY DEF MonitorStatus
<1>6. a \notin DOMAIN SS
  BY AlgosAssumption
<1> HIDE DEF m, q, r, p, c, N, new
<1>7. p <= c
  BY <1>1, <1>2, <1>3, SMT
<1>8. p <= new /\ new <= c
  <2>1. CASE s = 0 \/ (s < N /\ x >= q[s + 1])
    BY <1>2, <1>3, <1>5, <1>7, <2>1, SMT
  <2>2. CASE ~(s = 0 \/ (s < N /\ x >= q[s + 1])) /\ x < r[s]
    BY <1>2, <1>3, <1>5, <1>7, <2>2, SMT
  <2>3. CASE ~(s = 0 \/ (s < N /\ x >= q[s + 1])) /\ ~(x < r[s])
    <3>1. new = s /\ s \in 1..N
      BY <1>3, <1>4, <1>5, <2>3, SMT
    <3>2. s <= c
      BY <1>2, <1>3, <2>3, <3>1, SMT
    <3>3. p <= s
      BY <1>2, <1>3, <2>3, <3>1, SMT
    <3> QED BY <3>1, <3>2, <3>3
  <2> QED BY <2>1, <2>2, <2>3
<1> QED BY <1>6, <1>8 DEF Fits, new, m, p, c, q, r

\* SS::decision(): the differences of rounded temperatures add up.
LEMMA SSFits ==
  ASSUME NEW a \in DOMAIN SS, NEW s \in Nat, NEW x \in Nat, NEW y \in Nat, NEW new \in Nat,
         s > 0 => Fits(a, s, y), new >= s + TempDiff(SS[a], s, y, x)
  PROVE  Fits(a, new, x)
<1> DEFINE dx == x \div Unit
           dy == y \div Unit
           dt == SS[a].triggerPoint \div Unit
<1>1. dx \in Int /\ dy \in Int /\ dt \in Int
  BY SSAssumption, NumbersAssumption, SMT DEF SSConfigured
<1>2. TempDiff(SS[a], s, y, x) = IF s = 0 THEN dx - dt + 1 ELSE dx - dy
  BY DEF TempDiff
<1>3. s > 0 => s >= dy - dt + 1
  BY DEF Fits
<1>4. a \notin DOMAIN Monitors
  BY AlgosAssumption
<1> HIDE DEF dx, dy, dt
<1>5. new >= dx - dt + 1
  BY <1>1, <1>2, <1>3, SMT
<1> QED BY <1>4, <1>5 DEF Fits, dx, dt

\* Steps that neither decide nor finish carrying out a decision.
Passive ==
  /\ UNCHANGED <<status, decidedAt>>
  /\ \A u \in DOMAIN Threads :
       /\ pc'[u] \in Working =>
            next'[u] = 0 \/ (pc[u] \in Working /\ cur'[u] = cur[u] /\ next'[u] = next[u])
       /\ pc[u] \in Working => pc'[u] \in Working /\ cur'[u] = cur[u]

LEMMA FittingPassive ==
  ASSUME Shape, Fitting, Passive
  PROVE  Fitting'
<1>1. \A a \in Algos : Deciding(a) => Deciding(a)'
  BY DEF Passive, Deciding, Working
<1>2. StatusFits'
  BY <1>1 DEF Fitting, StatusFits, Fits, Passive
<1>3. NextFits'
  BY SMT DEF Fitting, NextFits, Fits, Passive
<1> QED BY <1>2, <1>3 DEF Fitting

\* Thread t decides for its algorithm a to be in status new.
Decides(t, a, new) ==
  /\ pc[t] = "scan" /\ Runs(t, a) /\ (new > 0 => Fits(a, new, temperature))
  /\ status' = status /\ decidedAt' = [decidedAt EXCEPT ![a] = temperature]
  /\ OthersUntouched(t)
  /\ \/ new = status[a] /\ Untouched(t)
     \/ pc'[t] \in Working /\ cur'[t] = a /\ next'[t] = new

LEMMA FittingDecides ==
  ASSUME Shape, Fitting, NEW t \in DOMAIN Threads, NEW a \in Algos, NEW new, Decides(t, a, new)
  PROVE  Fitting'
<1>0. decidedAt \in [Algos -> Nat]
  BY DEF Shape, TypeOK
<1>1. \A u \in DOMAIN Threads : pc[u] \in Working => u # t /\ cur[u] # a /\ cur[u] \in Algos
  BY ThreadsAssumption DEF Shape, OwnAlgorithms, Decides, Working, Carrying
<1>2. /\ decidedAt'[a] = temperature
      /\ \A b \in Algos : b # a => decidedAt'[b] = decidedAt[b]
  BY <1>0 DEF Decides
<1>3. \A u \in DOMAIN Threads : u # t => pc'[u] = pc[u] /\ cur'[u] = cur[u] /\ next'[u] = next[u]
  BY DEF Decides, OthersUntouched, Untouched
<1>4. \A b \in Algos : Deciding(b) => Deciding(b)'
  BY <1>1, <1>3 DEF Deciding, Working
<1>5. StatusFits'
  <2> SUFFICES ASSUME NEW b \in Algos, status'[b] > 0, ~Deciding(b)'
               PROVE  Fits(b, status'[b], decidedAt'[b])
    BY DEF StatusFits, Fits
  <2>1. status'[b] = status[b]
    BY DEF Decides
  <2>2. CASE b # a
    BY <1>2, <1>4, <2>1, <2>2 DEF Fitting, StatusFits
  <2>3. CASE b = a
    <3>1. new = status[a]
      BY <2>3 DEF Decides, Deciding, Working
    <3> QED BY <1>2, <2>1, <2>3, <3>1 DEF Decides
  <2> QED BY <2>2, <2>3
<1>6. NextFits'
  <2> SUFFICES ASSUME NEW u \in DOMAIN Threads, pc'[u] \in Working, next'[u] > 0
               PROVE  Fits(cur'[u], next'[u], decidedAt'[cur'[u]])
    BY DEF NextFits, Fits
  <2>1. CASE u # t
    BY <1>1, <1>2, <1>3, <2>1 DEF Fitting, NextFits
  <2>2. CASE u = t
    <3>1. cur'[t] = a /\ next'[t] = new
      BY <2>2 DEF Decides, Untouched, Working
    <3> QED BY <1>2, <2>2, <3>1 DEF Decides
  <2> QED BY <2>1, <2>2
<1> QED BY <1>5, <1>6 DEF Fitting

LEMMA FittingApply ==
  ASSUME Shape, Fitting, NEW t \in DOMAIN Threads, Apply(t)
  PROVE  Fitting'
<1>0. /\ pc \in [DOMAIN Threads -> Places] /\ cur \in [DOMAIN Threads -> Algos \cup {NoAlgo}]
      /\ next \in [DOMAIN Threads -> Nat] /\ status \in [Algos -> Nat]
  BY DEF Shape, TypeOK
<1>1. /\ pc[t] \in Working /\ pc[t] \in Carrying
      /\ status' = [status EXCEPT ![cur[t]] = next[t]] /\ decidedAt' = decidedAt
      /\ pc'[t] \notin Working
      /\ \A u \in DOMAIN Threads : u # t => pc'[u] = pc[u] /\ cur'[u] = cur[u] /\ next'[u] = next[u]
  BY <1>0 DEF Apply, Working, Carrying
<1>2. cur[t] \in Algos
  BY <1>1 DEF Shape, OwnAlgorithms
<1>3. \A b \in Algos : b # cur[t] /\ Deciding(b) => Deciding(b)'
  BY <1>1 DEF Deciding
<1>4. StatusFits'
  <2> SUFFICES ASSUME NEW b \in Algos, status'[b] > 0, ~Deciding(b)'
               PROVE  Fits(b, status'[b], decidedAt'[b])
    BY DEF StatusFits, Fits
  <2>1. CASE b # cur[t]
    <3>1. status'[b] = status[b]
      BY <1>0, <1>1, <2>1
    <3> QED BY <1>1, <1>3, <2>1, <3>1 DEF Fitting, StatusFits
  <2>2. CASE b = cur[t]
    <3>1. status'[b] = next[t]
      BY <1>0, <1>1, <2>2
    <3> QED BY <1>1, <2>2, <3>1 DEF Fitting, NextFits
  <2> QED BY <2>1, <2>2
<1>5. NextFits'
  <2> SUFFICES ASSUME NEW u \in DOMAIN Threads, pc'[u] \in Working, next'[u] > 0
               PROVE  Fits(cur'[u], next'[u], decidedAt'[cur'[u]])
    BY DEF NextFits, Fits
  <2> QED BY <1>1 DEF Fitting, NextFits
<1> QED BY <1>4, <1>5 DEF Fitting

LEMMA FittingMonitor ==
  ASSUME Shape, Fitting, NEW t \in DOMAIN Threads, NEW a \in Algos, MonitorDecision(t, a)
  PROVE  Fitting'
<1> DEFINE new == MonitorStatus(Monitors[a], status[a], temperature)
<1>0. /\ pc \in [DOMAIN Threads -> Places] /\ cur \in [DOMAIN Threads -> Algos \cup {NoAlgo}]
      /\ next \in [DOMAIN Threads -> Nat] /\ status[a] \in Nat /\ temperature \in Nat
  BY DEF Shape, TypeOK
<1>1. a \in DOMAIN Monitors /\ Runs(t, a) /\ pc[t] = "scan"
  BY HeadRuns DEF MonitorDecision
<1>2. new > 0 => Fits(a, new, temperature)
  BY <1>0, <1>1, MonitorFits DEF Shape, StatusInTable
<1>3. /\ status' = status /\ decidedAt' = [decidedAt EXCEPT ![a] = temperature]
      /\ IF new = status[a] THEN Unchanged(t, a)
         ELSE GoTo(t, a, IF new = 0 THEN "switchoff" ELSE "release", new)
  BY DEF MonitorDecision
<1> HIDE DEF new
<1>4. Decides(t, a, new)
  <2>1. CASE new = status[a]
    BY <1>1, <1>2, <1>3, <2>1 DEF Unchanged, Decides, OthersUntouched, Untouched
  <2>2. CASE new # status[a]
    <3>1. pc'[t] \in Working /\ cur'[t] = a /\ next'[t] = new /\ OthersUntouched(t)
      BY <1>0, <1>3, <2>2 DEF GoTo, Working, OthersUntouched, Untouched
    <3> QED BY <1>1, <1>2, <1>3, <3>1 DEF Decides
  <2> QED BY <2>1, <2>2
<1> QED BY <1>4, FittingDecides

LEMMA FittingSS ==
  ASSUME Shape, Fitting, NEW t \in DOMAIN Threads, NEW a \in Algos, SSDecision(t, a)
  PROVE  Fitting'
<1>0. /\ pc \in [DOMAIN Threads -> Places] /\ cur \in [DOMAIN Threads -> Algos \cup {NoAlgo}]
      /\ next \in [DOMAIN Threads -> Nat] /\ status[a] \in Nat /\ temperature \in Nat
      /\ decidedAt[a] \in Nat
  BY DEF Shape, TypeOK
<1>1. a \in DOMAIN SS /\ Runs(t, a) /\ pc[t] = "scan"
  BY HeadRuns DEF SSDecision
<1>2. PICK new \in Nat :
        /\ IF new = status[a] THEN Unchanged(t, a) ELSE GoTo(t, a, "request", new)
        /\ new >= status[a] + TempDiff(SS[a], status[a], decidedAt[a], temperature)
  BY <1>1, DecisionSS DEF Shape
<1>3. ~Deciding(a)
  BY <1>1, ThreadsAssumption DEF Shape, OwnAlgorithms, Deciding, Carrying
<1>4. status[a] > 0 => Fits(a, status[a], decidedAt[a])
  BY <1>3 DEF Fitting, StatusFits
<1>5. Fits(a, new, temperature)
  BY <1>0, <1>1, <1>2, <1>4, SSFits
<1>6. status' = status /\ decidedAt' = [decidedAt EXCEPT ![a] = temperature]
  BY DEF SSDecision
<1>7. Decides(t, a, new)
  <2>1. CASE new = status[a]
    BY <1>1, <1>2, <1>5, <1>6, <2>1 DEF Unchanged, Decides, OthersUntouched, Untouched
  <2>2. CASE new # status[a]
    <3>1. pc'[t] \in Working /\ cur'[t] = a /\ next'[t] = new /\ OthersUntouched(t)
      BY <1>0, <1>2, <2>2 DEF GoTo, Working, OthersUntouched, Untouched
    <3> QED BY <1>1, <1>5, <1>6, <3>1 DEF Decides
  <2> QED BY <2>1, <2>2
<1> QED BY <1>7, FittingDecides

LEMMA FittingStep == Shape /\ Fitting /\ [Next]_vars => Fitting'
<1> SUFFICES ASSUME Shape, Fitting, [Next]_vars PROVE Fitting'
  OBVIOUS
<1>0. /\ pc \in [DOMAIN Threads -> Places] /\ cur \in [DOMAIN Threads -> Algos \cup {NoAlgo}]
      /\ next \in [DOMAIN Threads -> Nat]
  BY DEF Shape, TypeOK
<1>1. ASSUME NEW x \in Temps, Sample(x) PROVE Passive
  BY <1>1 DEF Sample, Passive, algos, threads
<1>2. CASE Pass \/ Activate \/ UNCHANGED vars
  <2>1. UNCHANGED <<status, decidedAt, pc, cur, next>>
    BY <1>2 DEF Pass, Activate, vars, algos, threads
  <2> QED BY <2>1, FittingPassive DEF Passive
<1>3. CASE CountActive
  <2> DEFINE t == ThreadOf(activating)
  <2>1. pc' = pc \/ (pc[t] = "waiting" /\ pc' = [pc EXCEPT ![t] = "scan"])
    BY <1>3 DEF CountActive
  <2> HIDE DEF t
  <2>2. \A u \in DOMAIN Threads : pc'[u] = pc[u] \/ (pc[u] \notin Working /\ pc'[u] \notin Working)
    BY <1>0, <2>1 DEF Working
  <2>3. Passive
    BY <1>3, <2>2 DEF CountActive, Passive, algos
  <2> QED BY <2>3, FittingPassive
<1>4. ASSUME NEW t \in DOMAIN Threads,
             Top(t) \/ Wait(t) \/ SpuriousWakeup(t) \/ Unflag(t) \/ Uncount(t)
      PROVE  Fitting'
  <2>1. /\ UNCHANGED <<status, decidedAt, next>>
        /\ pc[t] \notin Working /\ pc'[t] \notin Working
        /\ \A u \in DOMAIN Threads : u # t => pc'[u] = pc[u] /\ cur'[u] = cur[u]
    BY <1>0, <1>4 DEF Top, Wait, SpuriousWakeup, Unflag, Uncount, algos, Working
  <2>2. Passive
    BY <2>1 DEF Passive
  <2> QED BY <2>2, FittingPassive
<1>5. ASSUME NEW t \in DOMAIN Threads, Release(t) \/ Request(t) \/ SwitchOff(t) PROVE Fitting'
  <2>1. /\ UNCHANGED <<status, decidedAt, cur, next>>
        /\ pc[t] \in Working /\ pc'[t] \in Working
        /\ \A u \in DOMAIN Threads : u # t => pc'[u] = pc[u]
    BY <1>0, <1>5 DEF Release, Request, SwitchOff, algos, Working
  <2>2. Passive
    BY <2>1 DEF Passive
  <2> QED BY <2>2, FittingPassive
<1>6. ASSUME NEW t \in DOMAIN Threads, NEW a \in Algos, Skip(t, a) PROVE Fitting'
  <2>1. Passive
    BY <1>6 DEF Skip, Passive, algos
  <2> QED BY <2>1, FittingPassive
<1>7. ASSUME NEW t \in DOMAIN Threads, NEW a \in Algos, SSClear(t, a) PROVE Fitting'
  <2>1. /\ UNCHANGED <<status, decidedAt>>
        /\ pc[t] = "scan" /\ next'[t] = 0
        /\ \A u \in DOMAIN Threads : u # t => pc'[u] = pc[u] /\ cur'[u] = cur[u] /\ next'[u] = next[u]
    BY <1>0, <1>7 DEF SSClear, GoTo
  <2>2. Passive
    BY <2>1 DEF Passive, Working
  <2> QED BY <2>2, FittingPassive
<1> QED BY <1>1, <1>2, <1>3, <1>4, <1>5, <1>6, <1>7, FittingPassive, FittingMonitor, FittingSS,
           FittingApply DEF Next, SensorStep, ThreadStep

LEMMA FittingInit == Init => Fitting
BY SMT DEF Init, Fitting, StatusFits, NextFits, Working

\* The status a monitor algorithm rests in lies within the hysteresis band of the temperature
\* it last decided on, whatever the other threads do while its decision is carried out.
THEOREM MonitorInBand == Spec => []MonitorBand
<1>1. Fitting => MonitorBand
  BY DEF Fitting, StatusFits, Fits, MonitorBand, Algos
<1> QED BY ShapeInit, ShapeStep, FittingInit, FittingStep, <1>1, PTL DEF Spec

\* The sum of rounded differences that an SS algorithm keeps as its status is never behind the
\* distance of the last temperature from the trigger point.
THEOREM SSKeepsUp == Spec => []SSNeverBehind
<1>1. Fitting => SSNeverBehind
  BY DEF Fitting, StatusFits, Fits, SSNeverBehind, Algos
<1> QED BY ShapeInit, ShapeStep, FittingInit, FittingStep, <1>1, PTL DEF Spec

=============================================================================
