--------------------------- MODULE ThermalScenario ---------------------------
(***************************************************************************)
(* Scenario changes of the thermal daemon (exynos-thermal): ScenarioThread *)
(* stops the sensor threads, gives them the new scenario, has them clear   *)
(* the old one, and, when a new configuration file is to be used, does so  *)
(* twice and destroys the algorithms of the old configuration.             *)
(*                                                                         *)
(* The counter sensorThreadsWaitCnt is incremented without the lock under  *)
(* which it is decremented, and conditions are tested under other locks    *)
(* than they change under.  Load and store, test and wait are therefore    *)
(* separate steps here, and slips records which of the races was lost.     *)
(***************************************************************************)
EXTENDS Integers, FiniteSets

CONSTANTS
  SensorThreads,   \* one per sampling time of the sensors
  Owner,           \* the thread of the sensor whose algorithms are followed
  Scenarios,       \* names of scenarios a configuration may define
  Followed,        \* those of them with an algorithm for that sensor
  Nothing          \* no thread, no generation

ASSUME ThreadsAssumption == IsFiniteSet(SensorThreads)
ASSUME OwnerAssumption == Owner \in SensorThreads
ASSUME DefaultAssumption == "Default" \in Scenarios
ASSUME FollowedAssumption == Followed \subseteq Scenarios
ASSUME NothingAssumption == Nothing \notin SensorThreads \cup {0, 1}

VARIABLES
  spc,                   \* where the scenario thread is
  phase, todo, loaded,   \* its loop over the sensor threads, and the value of cnt it loaded
  curScen, newScen,
  scenarioMap,           \* the scenarios of the configuration in use
  conf,                  \* a new configuration file is to be parsed
  job,                   \* "scenario", or the first or second half of "reload"
  cnt,                   \* sensorThreadsWaitCnt
  countLock,             \* numSensorThreadLock, and the value its owner loaded
  pc, isScenChanging, needWait, announced,   \* of the sensor threads
  scen, oldScen,         \* newScen and oldScen of their sensors
  generation,            \* of the algorithms under plain and under OLDSCEN_ names
  status,                \* of the owner's algorithms: activeStatus, and whether status is above 0
  deciding,              \* those whose thread is in decision()
  destroyed,             \* those that were deleted
  slips                  \* history: the races that were lost

scenarioThread == <<spc, phase, todo, loaded, curScen, newScen, scenarioMap, conf, job>>
counter == <<cnt, countLock>>
sensorThreads == <<pc, isScenChanging, needWait, announced, scen, oldScen>>
algorithms == <<generation, status, deciding, destroyed>>
vars == <<scenarioThread, counter, sensorThreads, algorithms, slips>>

\* A scenario as the sensors name it: with the prefix OLDSCEN_ or without.
Key(s, isOld) == [name |-> s, prefixed |-> isOld]
Keys == [name : Scenarios, prefixed : BOOLEAN]

Generations == {0, 1}
Algos == Followed \X Generations

\* algoItems[k] of the owner's sensor: one algorithm, or none.
Items(k) ==
  LET g == IF k.prefixed THEN generation.old ELSE generation.plain
  IN  IF g = Nothing THEN {} ELSE {<<k.name, g>>} \cap Algos

-----------------------------------------------------------------------------
(***************************************************************************)
(* The sensor threads.                                                     *)
(***************************************************************************)
\* The sensor finds the algorithms of its scenario hot or not, and activates inactive ones.
Activated(k) ==
  {[a \in Algos |-> CASE a \in hot /\ status[a] = "off" -> "undecided"
                      [] a \in hot /\ status[a] = "leftover" -> "limiting"
                      [] OTHER -> status[a]] : hot \in SUBSET Items(k)}

\* A round of the loop without a change: traverseSensors(false).
Traverse(t) ==
  /\ pc[t] = "loop" /\ ~isScenChanging[t]
  /\ IF t = Owner THEN status' \in Activated(scen[t]) ELSE UNCHANGED status
  /\ UNCHANGED <<scenarioThread, counter, sensorThreads, generation, deciding, destroyed, slips>>

\* A round with one.  The thread should have left the last change before it sees this one.
StartChanging(t) ==
  /\ pc[t] = "loop" /\ isScenChanging[t]
  /\ needWait' = [needWait EXCEPT ![t] = TRUE]
  /\ pc' = [pc EXCEPT ![t] = "load0"]
  /\ slips' = IF phase = 1 THEN slips ELSE slips \cup {"reentry"}
  /\ UNCHANGED <<scenarioThread, counter, isScenChanging, announced, scen, oldScen, algorithms>>

AfterLoad(place) ==
  CASE place = "load0" -> "store0" [] place = "load1" -> "store1" [] place = "load2" -> "store2"

\* sendSignalToScenThreads(): under its lock the counter is loaded ...
CountLoad(t) ==
  /\ pc[t] \in {"load0", "load1", "load2"} /\ countLock.owner = Nothing
  /\ countLock' = [owner |-> t, value |-> cnt]
  /\ pc' = [pc EXCEPT ![t] = AfterLoad(@)]
  /\ UNCHANGED <<scenarioThread, cnt, isScenChanging, needWait, announced, scen, oldScen,
                 algorithms, slips>>

AfterStore(place) ==
  CASE place = "store0" -> "test0" [] place = "store1" -> "test1" [] place = "store2" -> "loop"

\* Mutant: the scenario thread is told when one thread is left.
CountStore_Early(t) ==
  LET n == countLock.value - 1
  IN  /\ pc[t] \in {"store0", "store1", "store2"}
      /\ cnt' = n
      /\ countLock' = [owner |-> Nothing, value |-> 0]
      /\ pc' = [pc EXCEPT ![t] = AfterStore(@)]
      /\ spc' = IF n <= 1 /\ spc = "waiting" THEN "next" ELSE spc
      /\ slips' = slips \cup (IF cnt # countLock.value THEN {"update"} ELSE {})
                        \cup (IF n = 0 /\ spc = "towait" THEN {"wakeup"} ELSE {})
      /\ UNCHANGED <<phase, todo, loaded, curScen, newScen, scenarioMap, conf, job,
                     isScenChanging, needWait, announced, scen, oldScen, algorithms>>

\* ... and stored, and whoever brings it to zero wakes the scenario thread.
CountStore(t) ==
  LET n == countLock.value - 1
  IN  /\ pc[t] \in {"store0", "store1", "store2"}
      /\ cnt' = n
      /\ countLock' = [owner |-> Nothing, value |-> 0]
      /\ pc' = [pc EXCEPT ![t] = AfterStore(@)]
      /\ spc' = IF n = 0 /\ spc = "waiting" THEN "next" ELSE spc
      /\ slips' = slips \cup (IF cnt # countLock.value THEN {"update"} ELSE {})
                        \cup (IF n = 0 /\ spc = "towait" THEN {"wakeup"} ELSE {})
      /\ UNCHANGED <<phase, todo, loaded, curScen, newScen, scenarioMap, conf, job,
                     isScenChanging, needWait, announced, scen, oldScen, algorithms>>

\* waitForScenThread(): needWait is tested ...
TestWait(t) ==
  /\ pc[t] \in {"test0", "test1"}
  /\ pc' = [pc EXCEPT ![t] =
              IF needWait[t] THEN (IF @ = "test0" THEN "towait0" ELSE "towait1")
                             ELSE (IF @ = "test0" THEN "apply" ELSE "clear")]
  /\ UNCHANGED <<scenarioThread, counter, isScenChanging, needWait, announced, scen, oldScen,
                 algorithms, slips>>

\* ... and then waited for.
EnterWait(t) ==
  /\ pc[t] \in {"towait0", "towait1"}
  /\ pc' = [pc EXCEPT ![t] = IF @ = "towait0" THEN "waiting0" ELSE "waiting1"]
  /\ UNCHANGED <<scenarioThread, counter, isScenChanging, needWait, announced, scen, oldScen,
                 algorithms, slips>>

\* traverseSensors(true)
ApplyNew(t) ==
  /\ pc[t] = "apply"
  /\ needWait' = [needWait EXCEPT ![t] = TRUE]
  /\ scen' = [scen EXCEPT ![t] = announced[t]]
  /\ IF t = Owner THEN status' \in Activated(announced[t]) ELSE UNCHANGED status
  /\ pc' = [pc EXCEPT ![t] = "load1"]
  /\ UNCHANGED <<scenarioThread, counter, isScenChanging, announced, oldScen, generation,
                 deciding, destroyed, slips>>

\* deactivateOldScen() of monitors, which leave an algorithm without a status alone, and
\* setOldScenToNewScen().
ClearOld(t) ==
  /\ pc[t] = "clear"
  /\ status' = [a \in Algos |-> IF t = Owner /\ a \in Items(oldScen[t]) /\ status[a] = "limiting"
                                THEN "off" ELSE status[a]]
  /\ oldScen' = [oldScen EXCEPT ![t] = scen[t]]
  /\ pc' = [pc EXCEPT ![t] = "load2"]
  /\ UNCHANGED <<scenarioThread, counter, isScenChanging, needWait, announced, scen, generation,
                 deciding, destroyed, slips>>

-----------------------------------------------------------------------------
(***************************************************************************)
(* The scenario thread.                                                    *)
(***************************************************************************)
\* The first half of a round: look for another scenario, or change to the one found before.
PollScenario ==
  /\ spc = "scenario" /\ curScen = newScen
  /\ newScen' \in scenarioMap
  /\ spc' = "conf"
  /\ UNCHANGED <<phase, todo, loaded, curScen, scenarioMap, conf, job, counter, sensorThreads,
                 algorithms, slips>>

BeginChange(j) ==
  /\ job' = j
  /\ phase' = 1
  /\ todo' = SensorThreads
  /\ spc' = "load"

ChangeScenario ==
  /\ spc = "scenario" /\ curScen # newScen
  /\ BeginChange("scenario")
  /\ UNCHANGED <<loaded, curScen, newScen, scenarioMap, conf, counter, sensorThreads,
                 algorithms, slips>>

\* The second half: look for another configuration file, or use the one found before.
PollConf ==
  /\ spc = "conf" /\ ~conf
  /\ conf' \in BOOLEAN
  /\ spc' = "scenario"
  /\ UNCHANGED <<phase, todo, loaded, curScen, newScen, scenarioMap, job, counter,
                 sensorThreads, algorithms, slips>>

Reload ==
  /\ spc = "conf" /\ conf
  /\ BeginChange("old")
  /\ UNCHANGED <<loaded, curScen, newScen, scenarioMap, conf, counter, sensorThreads,
                 algorithms, slips>>

\* scenUpdateWithSensorThread(): sensorThreadsWaitCnt++, and a signal, for every thread.
CntLoad ==
  /\ spc = "load" /\ todo # {}
  /\ loaded' = cnt
  /\ spc' = "store"
  /\ UNCHANGED <<phase, todo, curScen, newScen, scenarioMap, conf, job, counter, sensorThreads,
                 algorithms, slips>>

CntStore ==
  /\ spc = "store"
  /\ cnt' = loaded + 1
  /\ slips' = IF cnt # loaded THEN slips \cup {"update"} ELSE slips
  /\ spc' = "signal"
  /\ loaded' = 0
  /\ UNCHANGED <<phase, todo, curScen, newScen, scenarioMap, conf, job, countLock,
                 sensorThreads, algorithms>>

\* The signal of each phase to thread t: that a change begins, what it is to, and that it is over.
Announce(t) ==
  /\ phase = 1
  /\ isScenChanging' = [isScenChanging EXCEPT ![t] = TRUE]
  /\ UNCHANGED <<pc, needWait, announced, generation, slips>>

\* Mutant: needWait is reset and nobody is notified.
Wake_Silent(t, step) ==
  /\ needWait' = [needWait EXCEPT ![t] = FALSE]
  /\ UNCHANGED <<pc, slips>>

\* needWait is reset and the thread woken, if it is waiting already.
Wake(t, step) ==
  LET waiting == IF step = 0 THEN "waiting0" ELSE "waiting1"
      towait == IF step = 0 THEN "towait0" ELSE "towait1"
      woken == IF step = 0 THEN "apply" ELSE "clear"
  IN  /\ needWait' = [needWait EXCEPT ![t] = FALSE]
      /\ pc' = [pc EXCEPT ![t] = IF @ = waiting THEN woken ELSE @]
      /\ slips' = IF pc[t] = towait THEN slips \cup {"wakeup"} ELSE slips

Tell(t) ==
  LET isSetOld == job = "old"
  IN  /\ phase = 2
      /\ announced' = [announced EXCEPT ![t] = Key(newScen, isSetOld)]
      /\ generation' = IF isSetOld /\ t = Owner
                       THEN [plain |-> Nothing, old |-> generation.plain] ELSE generation
      /\ Wake(t, 0)
      /\ UNCHANGED isScenChanging

Release(t) ==
  /\ phase = 3
  /\ Wake(t, 1)
  /\ UNCHANGED <<isScenChanging, announced, generation>>

Signal(t) ==
  /\ spc = "signal" /\ t \in todo
  /\ Announce(t) \/ Tell(t) \/ Release(t)
  /\ todo' = todo \ {t}
  /\ loaded' = IF phase = 3 THEN t ELSE 0
  /\ spc' = IF phase = 3 THEN "unflag" ELSE "load"
  /\ UNCHANGED <<phase, curScen, newScen, scenarioMap, conf, job, counter, scen, oldScen, status,
                 deciding, destroyed>>

\* isScenChanging is reset only after the thread has been woken.
Unflag ==
  /\ spc = "unflag"
  /\ isScenChanging' = [isScenChanging EXCEPT ![loaded] = FALSE]
  /\ loaded' = 0
  /\ spc' = "load"
  /\ UNCHANGED <<phase, todo, curScen, newScen, scenarioMap, conf, job, counter, pc, needWait,
                 announced, scen, oldScen, algorithms, slips>>

\* waitForAllSensorThreads()
TestCount ==
  /\ spc = "load" /\ todo = {}
  /\ spc' = IF cnt > 0 THEN "towait" ELSE "next"
  /\ UNCHANGED <<phase, todo, loaded, curScen, newScen, scenarioMap, conf, job, counter,
                 sensorThreads, algorithms, slips>>

WaitCount ==
  /\ spc = "towait"
  /\ spc' = "waiting"
  /\ UNCHANGED <<phase, todo, loaded, curScen, newScen, scenarioMap, conf, job, counter,
                 sensorThreads, algorithms, slips>>

NextPhase ==
  /\ spc = "next" /\ phase < 3
  /\ phase' = phase + 1
  /\ todo' = SensorThreads
  /\ spc' = "load"
  /\ UNCHANGED <<loaded, curScen, newScen, scenarioMap, conf, job, counter, sensorThreads,
                 algorithms, slips>>

ChangeDone ==
  /\ spc = "next" /\ phase = 3
  /\ curScen' = newScen
  /\ phase' = 1
  /\ spc' = CASE job = "scenario" -> "conf" [] job = "old" -> "parse" [] job = "new" -> "destroy"
  /\ UNCHANGED <<todo, loaded, newScen, scenarioMap, conf, job, counter, sensorThreads,
                 algorithms, slips>>

\* Mutant: the scenario in use is kept although the new configuration does not have it.
Parse_KeepsScenario ==
  /\ spc = "parse"
  /\ \E map \in SUBSET Scenarios : "Default" \in map /\ scenarioMap' = map
  /\ LET g == 1 - generation.old
     IN  /\ generation' = [generation EXCEPT !.plain = g]
         /\ destroyed' = destroyed \ (Followed \X {g})
         /\ status' = [a \in Algos |-> IF a[2] = g THEN "off" ELSE status[a]]
  /\ BeginChange("new")
  /\ UNCHANGED <<loaded, curScen, newScen, conf, counter, sensorThreads, deciding, slips>>

\* dynamicConfParse(), and the change to the new algorithms; the scenario in use may be gone.
Parse ==
  /\ spc = "parse"
  /\ \E map \in SUBSET Scenarios :
       /\ "Default" \in map
       /\ scenarioMap' = map
       /\ curScen' = IF curScen \in map THEN curScen ELSE "Default"
       /\ newScen' = IF curScen \in map THEN newScen ELSE "Default"
  /\ LET g == 1 - generation.old
     IN  /\ generation' = [generation EXCEPT !.plain = g]
         /\ destroyed' = destroyed \ (Followed \X {g})
         /\ status' = [a \in Algos |-> IF a[2] = g THEN "off" ELSE status[a]]
  /\ BeginChange("new")
  /\ UNCHANGED <<loaded, conf, counter, sensorThreads, deciding, slips>>

\* destroyOldUnusings().  An algorithm that is still active, or being decided, is used after it
\* was deleted.
DestroyOld ==
  /\ spc = "destroy"
  /\ LET gone == Followed \X {generation.old}
     IN  /\ destroyed' = destroyed \cup gone
         /\ slips' = IF \A a \in gone : status[a] = "off" /\ a \notin deciding
                     THEN slips ELSE slips \cup {"destroyed"}
  /\ generation' = [generation EXCEPT !.old = Nothing]
  /\ conf' = FALSE
  /\ job' = "scenario"
  /\ spc' = "scenario"
  /\ UNCHANGED <<phase, todo, loaded, curScen, newScen, scenarioMap, counter, sensorThreads,
                 status, deciding>>

-----------------------------------------------------------------------------
(***************************************************************************)
(* The algorithms' own threads.                                            *)
(***************************************************************************)
DecisionBegins(a) ==
  /\ status[a] \in {"undecided", "limiting"} /\ a \notin deciding \cup destroyed
  /\ deciding' = deciding \cup {a}
  /\ UNCHANGED <<scenarioThread, counter, sensorThreads, generation, status, destroyed, slips>>

\* The status becomes positive, stays, or falls to zero, which deactivates.  When the sensor
\* thread has deactivated the algorithm meanwhile, a limit may be left over that nobody owns.
DecisionEnds(a) ==
  /\ a \in deciding
  /\ deciding' = deciding \ {a}
  /\ \E s \in CASE status[a] = "undecided" -> {"undecided", "limiting"}
                 [] status[a] = "limiting" -> {"limiting", "off"}
                 [] OTHER -> {"off", "leftover"} :
       status' = [status EXCEPT ![a] = s]
  /\ UNCHANGED <<scenarioThread, counter, sensorThreads, generation, destroyed, slips>>

-----------------------------------------------------------------------------
Init ==
  /\ spc = "scenario" /\ phase = 1 /\ todo = {} /\ loaded = 0
  /\ curScen = "Default" /\ newScen = "Default"
  /\ scenarioMap = Scenarios
  /\ conf = FALSE /\ job = "scenario"
  /\ cnt = 0 /\ countLock = [owner |-> Nothing, value |-> 0]
  /\ pc = [t \in SensorThreads |-> "loop"]
  /\ isScenChanging = [t \in SensorThreads |-> FALSE]
  /\ needWait = [t \in SensorThreads |-> FALSE]
  /\ announced = [t \in SensorThreads |-> Key("Default", FALSE)]
  /\ scen = [t \in SensorThreads |-> Key("Default", FALSE)]
  /\ oldScen = [t \in SensorThreads |-> Key("Default", FALSE)]
  /\ generation = [plain |-> 0, old |-> Nothing]
  /\ status = [a \in Algos |-> "off"]
  /\ deciding = {} /\ destroyed = {} /\ slips = {}

ScenarioStep ==
  \/ PollScenario \/ ChangeScenario \/ PollConf \/ Reload
  \/ CntLoad \/ CntStore \/ (\E t \in SensorThreads : Signal(t)) \/ Unflag
  \/ TestCount \/ WaitCount \/ NextPhase \/ ChangeDone \/ Parse \/ DestroyOld

SensorStep(t) ==
  \/ Traverse(t) \/ StartChanging(t) \/ CountLoad(t) \/ CountStore(t)
  \/ TestWait(t) \/ EnterWait(t) \/ ApplyNew(t) \/ ClearOld(t)

AlgoStep(a) == DecisionBegins(a) \/ DecisionEnds(a)

\* What follows a lost race is not explored: the counter is off for good, somebody sleeps, or a
\* deleted object is used.
Next ==
  /\ slips = {}
  /\ \/ ScenarioStep
     \/ \E t \in SensorThreads : SensorStep(t)
     \/ \E a \in Algos : AlgoStep(a)

Spec == Init /\ [][Next]_vars

\* The scenario thread and the sensor threads keep running.
FairSpec ==
  /\ Spec
  /\ WF_vars(slips = {} /\ ScenarioStep)
  /\ \A t \in SensorThreads : WF_vars(slips = {} /\ SensorStep(t))

-----------------------------------------------------------------------------
SensorPlaces ==
  {"loop", "load0", "store0", "test0", "towait0", "waiting0", "apply",
   "load1", "store1", "test1", "towait1", "waiting1", "clear", "load2", "store2"}

\* Type invariant; with it, the counter stays between zero and the number of sensor threads as
\* long as no race was lost.
TypeOK ==
  /\ spc \in {"scenario", "conf", "load", "store", "signal", "unflag", "towait", "waiting",
              "next", "parse", "destroy"}
  /\ phase \in 1..3 /\ todo \subseteq SensorThreads
  /\ loaded \in Int \cup SensorThreads
  /\ curScen \in scenarioMap /\ newScen \in Scenarios
  /\ scenarioMap \subseteq Scenarios /\ conf \in BOOLEAN
  /\ job \in {"scenario", "old", "new"}
  /\ cnt \in Int /\ (slips = {} => cnt \in 0..Cardinality(SensorThreads))
  /\ countLock.owner \in SensorThreads \cup {Nothing} /\ countLock.value \in Int
  /\ pc \in [SensorThreads -> SensorPlaces]
  /\ isScenChanging \in [SensorThreads -> BOOLEAN] /\ needWait \in [SensorThreads -> BOOLEAN]
  /\ announced \in [SensorThreads -> Keys]
  /\ scen \in [SensorThreads -> Keys] /\ oldScen \in [SensorThreads -> Keys]
  /\ generation \in [plain : Generations \cup {Nothing}, old : Generations \cup {Nothing}]
  /\ status \in [Algos -> {"off", "undecided", "limiting", "leftover"}]
  /\ deciding \subseteq Algos /\ destroyed \subseteq Algos
  /\ slips \subseteq {"update", "wakeup", "reentry", "destroyed"}

\* A sensor thread has adopted the new scenario, and has not finished changing.
AdoptedPlaces == {"load1", "store1", "test1", "towait1", "waiting1", "clear", "load2", "store2"}

\* No thread acts on a scenario another one has left: a thread that is not stopped follows the
\* scenario that those in the middle of a change have adopted; when the change is done all follow
\* the scenario it was to; and none meets an algorithm that was destroyed - as long as no race was
\* lost.
SwitchTogether ==
  slips = {} =>
    /\ \A t, u \in SensorThreads :
         pc[t] \in {"loop", "load0", "store0"} /\ pc[u] \in AdoptedPlaces => scen[t] = scen[u]
    /\ spc \in {"scenario", "conf"}
         => \A t \in SensorThreads : pc[t] = "loop" /\ scen[t] = Key(curScen, FALSE)
    /\ Items(scen[Owner]) \cap destroyed = {}

\* A change that was begun ends, unless a race was lost: every thread that waits is woken by the
\* one it waits for.
ChangeEnds == [](spc = "load" => <>(spc \in {"scenario", "conf"} \/ slips # {}))

\* Only "unusing" algorithms are destroyed: no thread is deciding for them, and they limit nothing.
DestroyUnused == \A a \in destroyed : status[a] = "off" /\ a \notin deciding
=============================================================================
