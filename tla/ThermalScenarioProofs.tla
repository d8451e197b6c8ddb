------------------------ MODULE ThermalScenarioProofs ------------------------
(***************************************************************************)
(* Proofs about the scenario changes of the thermal daemon, for any number *)
(* of sensor threads and any set of scenarios.                             *)
(*                                                                         *)
(* A change is a barrier passed three times: the scenario thread counts    *)
(* the sensor threads up, signals each, and goes on when they have counted *)
(* themselves down.  As long as no race was lost the counter is the number *)
(* of threads that were signalled and have not answered; zero therefore    *)
(* means that every one of them has reached its next stop.                 *)
(***************************************************************************)
EXTENDS ThermalScenario, FiniteSetTheorems, TLAPS

(***************************************************************************)
(* The inductive invariant.  First, what holds even after a lost race: the *)
(* types without the bound on the counter, and what the scenario thread's  *)
(* local variables are when it uses them.                                  *)
(***************************************************************************)
ScenarioTypes ==
  /\ spc \in {"scenario", "conf", "load", "store", "signal", "unflag", "towait", "waiting",
              "next", "parse", "destroy"}
  /\ phase \in 1..3 /\ todo \subseteq SensorThreads
  /\ loaded \in Int \cup SensorThreads
  /\ curScen \in scenarioMap /\ newScen \in scenarioMap
  /\ scenarioMap \subseteq Scenarios
  /\ job \in {"scenario", "old", "new"}
  /\ slips \subseteq {"update", "wakeup", "reentry", "destroyed"}

CounterTypes ==
  /\ cnt \in Int
  /\ countLock.owner \in SensorThreads \cup {Nothing} /\ countLock.value \in Int
  /\ spc = "store" => loaded \in Int

FlagTypes ==
  /\ conf \in BOOLEAN
  /\ pc \in [SensorThreads -> SensorPlaces]
  /\ isScenChanging \in [SensorThreads -> BOOLEAN] /\ needWait \in [SensorThreads -> BOOLEAN]

KeyTypes ==
  /\ announced \in [SensorThreads -> Keys]
  /\ scen \in [SensorThreads -> Keys] /\ oldScen \in [SensorThreads -> Keys]

AlgoTypes ==
  /\ generation \in [plain : Generations \cup {Nothing}, old : Generations \cup {Nothing}]
  /\ status \in [Algos -> {"off", "undecided", "limiting", "leftover"}]
  /\ deciding \subseteq Algos /\ destroyed \subseteq Algos

Types == ScenarioTypes /\ CounterTypes /\ FlagTypes /\ KeyTypes /\ AlgoTypes

(***************************************************************************)
(* Second, what holds until a race is lost.  Where the scenario thread is  *)
(* in a change, and what that says of its loop over the threads.           *)
(***************************************************************************)
Changing == spc \in {"load", "store", "signal", "unflag", "towait", "waiting", "next"}

Control ==
  /\ ~Changing => phase = 1 /\ todo = {}
  /\ spc \in {"towait", "waiting", "next"} => todo = {}
  /\ spc \in {"store", "signal"} => todo # {}
  /\ spc = "unflag" => phase = 3 /\ loaded \in SensorThreads /\ loaded \notin todo
  /\ spc \in {"scenario", "conf"} => job = "scenario"
  /\ spc = "parse" => job = "old" /\ newScen = curScen
  /\ spc = "destroy" => job = "new"
  /\ spc = "next" => cnt = 0

(***************************************************************************)
(* Where a sensor thread may be: before and after the signal of each of    *)
(* the three phases.                                                       *)
(***************************************************************************)
Resting(t) == pc[t] = "loop" /\ ~isScenChanging[t]

Stopping(t) ==
  /\ isScenChanging[t]
  /\ \/ pc[t] = "loop"
     \/ pc[t] \in {"load0", "store0", "test0", "towait0", "waiting0"} /\ needWait[t]

Stopped(t) ==
  isScenChanging[t] /\ pc[t] \in {"test0", "towait0", "waiting0"} /\ needWait[t]

Told(t) ==
  /\ isScenChanging[t]
  /\ \/ pc[t] \in {"test0", "apply"} /\ ~needWait[t]
     \/ pc[t] \in {"load1", "store1", "test1", "towait1", "waiting1"} /\ needWait[t]

Held(t) ==
  isScenChanging[t] /\ pc[t] \in {"test1", "towait1", "waiting1"} /\ needWait[t]

Freed(t) ==
  \/ pc[t] \in {"test1", "clear"} /\ ~needWait[t]
  \/ pc[t] \in {"load2", "store2", "loop"}

Flagged(t) == spc = "unflag" /\ loaded = t

InPlace(t) ==
  /\ ~Changing \/ (phase = 1 /\ t \in todo) => Resting(t)
  /\ Changing /\ phase = 1 /\ t \notin todo => Stopping(t)
  /\ phase = 2 /\ t \in todo => Stopped(t)
  /\ phase = 2 /\ t \notin todo => Told(t)
  /\ phase = 3 /\ t \in todo => Held(t)
  /\ phase = 3 /\ t \notin todo => Freed(t) /\ (isScenChanging[t] => Flagged(t))

Barrier == \A t \in SensorThreads : InPlace(t)

(***************************************************************************)
(* The threads that were signalled and have not counted themselves down.   *)
(***************************************************************************)
Owes(t) ==
  /\ Changing /\ t \notin todo
  /\ \/ phase = 1 /\ pc[t] \in {"loop", "load0", "store0"}
     \/ phase = 2 /\ pc[t] \in {"test0", "apply", "load1", "store1"}
     \/ phase = 3 /\ pc[t] \in {"test1", "clear", "load2", "store2"}

Owing == {t \in SensorThreads : Owes(t)}

Counted == cnt = Cardinality(Owing) + (IF spc = "signal" THEN 1 ELSE 0)

(***************************************************************************)
(* What the threads have been told, and what they have made of it.         *)
(***************************************************************************)
Announced == \A t \in SensorThreads :
  (phase = 2 /\ t \notin todo) \/ phase = 3 => announced[t] = Key(newScen, job = "old")

Adopted == \A t \in SensorThreads :
  /\ phase = 2 /\ pc[t] \in {"load1", "store1", "test1", "towait1", "waiting1"}
       => scen[t] = announced[t]
  /\ phase = 3 => scen[t] = announced[t]
  /\ ~Changing => scen[t] = Key(curScen, spc = "parse")

(***************************************************************************)
(* The algorithms of the configurations: before a new one is in sight,     *)
(* after the owner's were renamed, and with both in memory.                *)
(***************************************************************************)
Alive(g) == g \in Generations /\ destroyed \cap (Followed \X {g}) = {}

Renamed == job = "old" /\ (spc = "parse" \/ phase = 3 \/ (phase = 2 /\ Owner \notin todo))

Lineage ==
  /\ job = "scenario" \/ (job = "old" /\ ~Renamed)
       => Alive(generation.plain) /\ generation.old = Nothing
  /\ Renamed => Alive(generation.old) /\ generation.plain = Nothing
  /\ job = "new" => /\ generation.plain \in Generations /\ generation.old \in Generations
                    /\ generation.plain # generation.old /\ destroyed = {}

Orderly == Control /\ Barrier /\ Counted /\ Announced /\ Adopted /\ Lineage

IInv == Types /\ (slips = {} => Orderly)

-----------------------------------------------------------------------------
(***************************************************************************)
(* The types.                                                              *)
(***************************************************************************)
\* A scenario with or without the prefix is a key.
LEMMA KeyType == \A s \in Scenarios : \A b \in BOOLEAN : Key(s, b) \in Keys
BY DEF Key, Keys

\* The places a sensor thread goes to are places.
LEMMA AfterPlaces ==
  /\ \A p \in {"load0", "load1", "load2"} : AfterLoad(p) \in {"store0", "store1", "store2"}
  /\ \A p \in {"store0", "store1", "store2"} : AfterStore(p) \in {"test0", "test1", "loop"}
<1>1. AfterLoad("load0") = "store0" /\ AfterLoad("load1") = "store1" /\ AfterLoad("load2") = "store2"
  BY SMT DEF AfterLoad
<1>2. AfterStore("store0") = "test0" /\ AfterStore("store1") = "test1" /\ AfterStore("store2") = "loop"
  BY SMT DEF AfterStore
<1> QED BY <1>1, <1>2

\* What an activation makes of the statuses are statuses.
LEMMA ActivatedType ==
  ASSUME AlgoTypes, NEW k, NEW s \in Activated(k)
  PROVE  s \in [Algos -> {"off", "undecided", "limiting", "leftover"}]
<1>1. PICK hot : s = [a \in Algos |-> CASE a \in hot /\ status[a] = "off" -> "undecided"
                                       [] a \in hot /\ status[a] = "leftover" -> "limiting"
                                       [] OTHER -> status[a]]
  BY DEF Activated
<1>2. status \in [Algos -> {"off", "undecided", "limiting", "leftover"}]
  BY DEF AlgoTypes
<1>3. \A a \in Algos : s[a] \in {"off", "undecided", "limiting", "leftover"}
  BY <1>1, <1>2, SMT
<1> QED BY <1>1, <1>3

\* The daemon starts with its first configuration and no change under way.
LEMMA TypesInit == Init => Types
<1> SUFFICES ASSUME Init PROVE Types
  OBVIOUS
<1>1. ScenarioTypes
  BY DefaultAssumption, SMT DEF Init, ScenarioTypes
<1>2. CounterTypes
  BY SMT DEF Init, CounterTypes
<1>3. FlagTypes
  <2>1. pc \in [SensorThreads -> SensorPlaces]
    BY DEF Init, SensorPlaces
  <2> QED BY <2>1, Zenon DEF Init, FlagTypes
<1>4. KeyTypes
  <2>1. Key("Default", FALSE) \in Keys
    BY KeyType, DefaultAssumption
  <2> QED BY <2>1 DEF Init, KeyTypes
<1>5. AlgoTypes
  BY DEF Init, AlgoTypes, Generations
<1> QED BY <1>1, <1>2, <1>3, <1>4, <1>5 DEF Types

\* Each part of the types is kept by every step.
LEMMA ScenarioTypesStep ==
  ASSUME Types, Orderly, Next
  PROVE  ScenarioTypes'
<1> DEFINE Slips == {"update", "wakeup", "reentry", "destroyed"}
<1>0. ScenarioTypes
  BY DEF Types
<1>1. CASE UNCHANGED <<scenarioThread, slips>>
  BY <1>0, <1>1 DEF ScenarioTypes, scenarioThread
<1>2. ASSUME NEW t \in SensorThreads, StartChanging(t) PROVE ScenarioTypes'
  BY <1>0, <1>2 DEF StartChanging, ScenarioTypes, scenarioThread
<1>3. ASSUME NEW t \in SensorThreads, CountStore(t) PROVE ScenarioTypes'
  <2>1. spc' \in {spc, "next"} /\ slips' \subseteq Slips
    BY <1>0, <1>3 DEF CountStore, ScenarioTypes
  <2>2. UNCHANGED <<phase, todo, loaded, curScen, newScen, scenarioMap, conf, job>>
    BY <1>3 DEF CountStore
  <2> QED BY <1>0, <2>1, <2>2 DEF ScenarioTypes
<1>4. ASSUME NEW t \in SensorThreads, SensorStep(t) PROVE ScenarioTypes'
  BY <1>1, <1>2, <1>3, <1>4
  DEF SensorStep, Traverse, CountLoad, TestWait, EnterWait, ApplyNew, ClearOld
<1>5. ASSUME NEW a \in Algos, AlgoStep(a) PROVE ScenarioTypes'
  BY <1>1, <1>5 DEF AlgoStep, DecisionBegins, DecisionEnds
<1>6. CASE PollScenario \/ ChangeScenario \/ PollConf \/ Reload
  <2>1. /\ spc' \in {"scenario", "conf", "load"} /\ todo' \in {todo, SensorThreads}
        /\ phase' \in {phase, 1} /\ job' \in {job, "scenario", "old"}
        /\ newScen' \in scenarioMap \cup {newScen}
        /\ UNCHANGED <<loaded, curScen, scenarioMap, slips>>
    BY <1>6 DEF PollScenario, ChangeScenario, PollConf, Reload, BeginChange
  <2> QED BY <1>0, <2>1, SMT DEF ScenarioTypes
<1>7. CASE CntLoad \/ CntStore
  <2>1. /\ spc' \in {"store", "signal"} /\ loaded' \in {cnt, 0}
        /\ slips' \in {slips, slips \cup {"update"}}
        /\ UNCHANGED <<phase, todo, curScen, newScen, scenarioMap, job>>
    BY <1>7 DEF CntLoad, CntStore
  <2>2. cnt \in Int
    BY DEF Types, CounterTypes
  <2> QED BY <1>0, <2>1, <2>2, SMT DEF ScenarioTypes
<1>8. ASSUME NEW t \in SensorThreads, Signal(t) PROVE ScenarioTypes'
  <2>1. slips' \subseteq Slips
    BY <1>0, <1>8 DEF Signal, Announce, Tell, Release, Wake, ScenarioTypes
  <2>2. /\ spc' \in {"unflag", "load"} /\ loaded' \in Int \cup SensorThreads
        /\ todo' \subseteq SensorThreads
    BY <1>0, <1>8, SMT DEF Signal, ScenarioTypes
  <2>3. UNCHANGED <<phase, curScen, newScen, scenarioMap, conf, job>>
    BY <1>8 DEF Signal
  <2> QED BY <1>0, <2>1, <2>2, <2>3 DEF ScenarioTypes
<1>9. CASE Unflag \/ TestCount \/ WaitCount
  <2>1. /\ spc' \in {"load", "towait", "waiting", "next"} /\ loaded' \in {loaded, 0}
        /\ UNCHANGED <<phase, todo, curScen, newScen, scenarioMap, job, slips>>
    BY <1>9 DEF Unflag, TestCount, WaitCount
  <2> QED BY <1>0, <2>1, SMT DEF ScenarioTypes
<1>10. CASE NextPhase
  BY <1>0, <1>10, SMT DEF NextPhase, ScenarioTypes
<1>11. CASE ChangeDone
  <2>1. spc' \in {"conf", "parse", "destroy"}
    BY <1>0, <1>11, SMT DEF ChangeDone, ScenarioTypes
  <2> QED BY <1>0, <1>11, <2>1, SMT DEF ChangeDone, ScenarioTypes
<1>12. CASE Parse
  <2>1. newScen = curScen
    BY <1>12 DEF Parse, Orderly, Control
  <2> QED BY <1>0, <1>12, <2>1, SMT DEF Parse, BeginChange, ScenarioTypes
<1>13. CASE DestroyOld
  <2>1. slips' \subseteq Slips
    BY <1>0, <1>13 DEF DestroyOld, ScenarioTypes
  <2> QED BY <1>0, <1>13, <2>1 DEF DestroyOld, ScenarioTypes
<1> QED BY <1>4, <1>5, <1>6, <1>7, <1>8, <1>9, <1>10, <1>11, <1>12, <1>13 DEF Next, ScenarioStep

LEMMA CounterTypesStep ==
  ASSUME Types, Next
  PROVE  CounterTypes'
<1>0. CounterTypes
  BY DEF Types
<1>1. CASE UNCHANGED <<counter, loaded>> /\ spc' \in {spc, "next", "scenario", "conf", "load",
             "unflag", "towait", "waiting", "parse", "destroy"}
  BY <1>0, <1>1, SMT DEF CounterTypes, counter
<1>2. ASSUME NEW t \in SensorThreads, CountLoad(t) PROVE CounterTypes'
  <2>1. countLock' = [owner |-> t, value |-> cnt] /\ UNCHANGED <<cnt, spc, loaded>>
    BY <1>2 DEF CountLoad, scenarioThread
  <2> QED BY <1>0, <2>1 DEF CounterTypes
<1>3. ASSUME NEW t \in SensorThreads, CountStore(t) PROVE CounterTypes'
  <2>1. /\ countLock' = [owner |-> Nothing, value |-> 0] /\ cnt' = countLock.value - 1
        /\ spc' \in {spc, "next"} /\ loaded' = loaded
    BY <1>3 DEF CountStore
  <2> QED BY <1>0, <2>1, SMT DEF CounterTypes
<1>4. ASSUME NEW t \in SensorThreads, SensorStep(t) PROVE CounterTypes'
  BY <1>1, <1>2, <1>3, <1>4
  DEF SensorStep, Traverse, StartChanging, TestWait, EnterWait, ApplyNew, ClearOld, scenarioThread
<1>5. ASSUME NEW a \in Algos, AlgoStep(a) PROVE CounterTypes'
  BY <1>1, <1>5 DEF AlgoStep, DecisionBegins, DecisionEnds, scenarioThread
<1>6. CASE PollScenario \/ ChangeScenario \/ PollConf \/ Reload \/ TestCount \/ WaitCount
           \/ NextPhase \/ Parse \/ DestroyOld
  BY <1>1, <1>6
  DEF PollScenario, ChangeScenario, PollConf, Reload, BeginChange, TestCount, WaitCount,
      NextPhase, Parse, DestroyOld
<1>7. CASE CntLoad \/ CntStore
  BY <1>0, <1>7, SMT DEF CntLoad, CntStore, CounterTypes, counter
<1>8. CASE Unflag \/ \E t \in SensorThreads : Signal(t)
  BY <1>0, <1>8, SMT DEF Signal, Unflag, CounterTypes, counter
<1>9. CASE ChangeDone
  <2>1. spc' \in {"conf", "parse", "destroy"}
    BY <1>9, SMT DEF ChangeDone, Types, ScenarioTypes
  <2> QED BY <1>1, <1>9, <2>1 DEF ChangeDone
<1> QED BY <1>4, <1>5, <1>6, <1>7, <1>8, <1>9 DEF Next, ScenarioStep

LEMMA FlagTypesStep ==
  ASSUME Types, Next
  PROVE  FlagTypes'
<1>0. FlagTypes
  BY DEF Types
<1>1. CASE UNCHANGED <<conf, pc, isScenChanging, needWait>>
  BY <1>0, <1>1 DEF FlagTypes
<1>2. ASSUME NEW t \in SensorThreads, NEW p \in SensorPlaces, pc' = [pc EXCEPT ![t] = p],
             UNCHANGED <<conf, isScenChanging>>,
             needWait' = needWait \/ needWait' = [needWait EXCEPT ![t] = TRUE]
                                  \/ needWait' = [needWait EXCEPT ![t] = FALSE]
      PROVE  FlagTypes'
  <2>1. pc' \in [SensorThreads -> SensorPlaces]
    BY <1>0, <1>2 DEF FlagTypes
  <2>2. needWait' \in [SensorThreads -> BOOLEAN]
    BY <1>0, <1>2, Zenon DEF FlagTypes
  <2> QED BY <1>0, <1>2, <2>1, <2>2, Zenon DEF FlagTypes
<1>3. ASSUME NEW t \in SensorThreads, SensorStep(t) PROVE FlagTypes'
  <2>0. pc \in [SensorThreads -> SensorPlaces]
    BY <1>0 DEF FlagTypes
  <2>1. CASE Traverse(t)
    BY <1>1, <2>1 DEF Traverse, scenarioThread, sensorThreads
  <2>2. CASE StartChanging(t)
    BY <1>2, <2>2 DEF StartChanging, scenarioThread, SensorPlaces
  <2>3. CASE CountLoad(t)
    <3>1. AfterLoad(pc[t]) \in SensorPlaces /\ pc' = [pc EXCEPT ![t] = AfterLoad(pc[t])]
      BY <2>3, AfterPlaces DEF CountLoad, SensorPlaces
    <3> QED BY <1>2, <2>3, <3>1 DEF CountLoad, scenarioThread
  <2>4. CASE CountStore(t)
    <3>1. AfterStore(pc[t]) \in SensorPlaces /\ pc' = [pc EXCEPT ![t] = AfterStore(pc[t])]
      BY <2>4, AfterPlaces DEF CountStore, SensorPlaces
    <3> QED BY <1>2, <2>4, <3>1 DEF CountStore
  <2>5. CASE TestWait(t)
    <3>1. \E p \in {"towait0", "towait1", "apply", "clear"} : pc' = [pc EXCEPT ![t] = p]
      BY <2>5 DEF TestWait
    <3> QED BY <1>2, <2>5, <3>1 DEF TestWait, scenarioThread, SensorPlaces
  <2>6. CASE EnterWait(t)
    <3>1. \E p \in {"waiting0", "waiting1"} : pc' = [pc EXCEPT ![t] = p]
      BY <2>6 DEF EnterWait
    <3> QED BY <1>2, <2>6, <3>1 DEF EnterWait, scenarioThread, SensorPlaces
  <2>7. CASE ApplyNew(t) \/ ClearOld(t)
    BY <1>2, <2>7 DEF ApplyNew, ClearOld, scenarioThread, SensorPlaces
  <2> QED BY <1>3, <2>1, <2>2, <2>3, <2>4, <2>5, <2>6, <2>7 DEF SensorStep
<1>4. ASSUME NEW a \in Algos, AlgoStep(a) PROVE FlagTypes'
  BY <1>1, <1>4 DEF AlgoStep, DecisionBegins, DecisionEnds, scenarioThread, sensorThreads
<1>5. ASSUME NEW t \in SensorThreads, Signal(t) PROVE FlagTypes'
  <2>0. conf' = conf
    BY <1>5 DEF Signal
  <2>1. CASE Announce(t)
    <3>1. isScenChanging' \in [SensorThreads -> BOOLEAN]
      BY <1>0, <2>1, Zenon DEF FlagTypes, Announce
    <3> QED BY <1>0, <2>0, <2>1, <3>1, Zenon DEF FlagTypes, Announce
  <2>2. ASSUME NEW step, Wake(t, step), UNCHANGED isScenChanging PROVE FlagTypes'
    <3>1. \E p \in {pc[t], "apply", "clear"} : pc' = [pc EXCEPT ![t] = p]
      BY <2>2 DEF Wake
    <3>2. {pc[t], "apply", "clear"} \subseteq SensorPlaces
      BY <1>0 DEF FlagTypes, SensorPlaces
    <3> QED BY <1>2, <2>0, <2>2, <3>1, <3>2 DEF Wake
  <2> QED BY <1>5, <2>1, <2>2 DEF Signal, Tell, Release
<1>6. CASE Unflag
  <2>1. isScenChanging' \in [SensorThreads -> BOOLEAN]
    BY <1>0, <1>6, Zenon DEF FlagTypes, Unflag
  <2> QED BY <1>0, <1>6, <2>1, Zenon DEF FlagTypes, Unflag
<1>7. CASE PollConf \/ DestroyOld
  <2>1. conf' \in BOOLEAN /\ UNCHANGED <<pc, isScenChanging, needWait>>
    BY <1>7, Zenon DEF PollConf, DestroyOld, sensorThreads
  <2> QED BY <1>0, <2>1, Zenon DEF FlagTypes
<1>8. CASE PollScenario \/ ChangeScenario \/ Reload \/ CntLoad \/ CntStore \/ TestCount
           \/ WaitCount \/ NextPhase \/ ChangeDone \/ Parse
  BY <1>1, <1>8
  DEF PollScenario, ChangeScenario, Reload, CntLoad, CntStore, TestCount, WaitCount, NextPhase,
      ChangeDone, Parse, sensorThreads
<1> QED BY <1>3, <1>4, <1>5, <1>6, <1>7, <1>8 DEF Next, ScenarioStep

LEMMA KeyTypesStep ==
  ASSUME Types, Next
  PROVE  KeyTypes'
<1>0. KeyTypes
  BY DEF Types
<1>1. CASE UNCHANGED <<announced, scen, oldScen>>
  BY <1>0, <1>1 DEF KeyTypes
<1>2. ASSUME NEW t \in SensorThreads, SensorStep(t) PROVE KeyTypes'
  BY <1>0, <1>2
  DEF SensorStep, Traverse, StartChanging, CountLoad, CountStore, TestWait, EnterWait, ApplyNew,
      ClearOld, sensorThreads, KeyTypes
<1>3. ASSUME NEW a \in Algos, AlgoStep(a) PROVE KeyTypes'
  BY <1>1, <1>3 DEF AlgoStep, DecisionBegins, DecisionEnds, sensorThreads
<1>4. ASSUME NEW t \in SensorThreads, Signal(t) PROVE KeyTypes'
  <2>1. CASE Tell(t)
    <3> DEFINE b == job = "old"
    <3>1. b \in BOOLEAN /\ announced' = [announced EXCEPT ![t] = Key(newScen, b)]
      BY <2>1, Zenon DEF Tell
    <3> HIDE DEF b
    <3>2. Key(newScen, b) \in Keys
      BY <3>1, KeyType DEF Types, ScenarioTypes
    <3>3. announced' \in [SensorThreads -> Keys] /\ UNCHANGED <<scen, oldScen>>
      BY <1>0, <1>4, <3>1, <3>2 DEF KeyTypes, Signal
    <3> QED BY <1>0, <3>3 DEF KeyTypes
  <2>2. CASE Announce(t) \/ Release(t)
    BY <1>1, <1>4, <2>2 DEF Signal, Announce, Release
  <2> QED BY <1>4, <2>1, <2>2 DEF Signal
<1>5. CASE PollScenario \/ ChangeScenario \/ PollConf \/ Reload \/ CntLoad \/ CntStore
           \/ Unflag \/ TestCount \/ WaitCount \/ NextPhase \/ ChangeDone \/ Parse \/ DestroyOld
  BY <1>1, <1>5
  DEF PollScenario, ChangeScenario, PollConf, Reload, CntLoad, CntStore, Unflag, TestCount,
      WaitCount, NextPhase, ChangeDone, Parse, DestroyOld, sensorThreads
<1> QED BY <1>2, <1>3, <1>4, <1>5 DEF Next, ScenarioStep

\* When the new configuration is parsed the algorithms of the old one have their old names.
LEMMA ParseGenerations ==
  ASSUME Types, Orderly, spc = "parse"
  PROVE  /\ generation.old \in Generations /\ 1 - generation.old \in Generations
         /\ 1 - generation.old # generation.old
<1>1. generation.old \in {0, 1}
  BY DEF Orderly, Control, Lineage, Renamed, Alive, Generations
<1> QED BY <1>1, SMT DEF Generations

LEMMA AlgoTypesStep ==
  ASSUME Types, Orderly, Next
  PROVE  AlgoTypes'
<1> DEFINE Statuses == {"off", "undecided", "limiting", "leftover"}
<1>0. /\ generation \in [plain : Generations \cup {Nothing}, old : Generations \cup {Nothing}]
      /\ status \in [Algos -> Statuses]
      /\ deciding \subseteq Algos /\ destroyed \subseteq Algos
  BY DEF Types, AlgoTypes
<1>1. CASE UNCHANGED <<generation, status, deciding, destroyed>>
  BY <1>0, <1>1 DEF AlgoTypes
<1>2. CASE UNCHANGED <<generation, deciding, destroyed>> /\ status' \in [Algos -> Statuses]
  BY <1>0, <1>2 DEF AlgoTypes
<1>3. ASSUME NEW t \in SensorThreads, SensorStep(t) PROVE AlgoTypes'
  <2>1. CASE Traverse(t) \/ ApplyNew(t)
    BY <1>0, <1>1, <1>2, <2>1, ActivatedType DEF Traverse, ApplyNew, Types
  <2>2. CASE ClearOld(t)
    <3>1. status' \in [Algos -> Statuses]
      BY <1>0, <2>2 DEF ClearOld
    <3> QED BY <1>2, <2>2, <3>1 DEF ClearOld
  <2> QED BY <1>1, <1>3, <2>1, <2>2
      DEF SensorStep, StartChanging, CountLoad, CountStore, TestWait, EnterWait, algorithms
<1>4. ASSUME NEW a \in Algos, AlgoStep(a) PROVE AlgoTypes'
  <2>1. CASE DecisionBegins(a)
    BY <1>0, <2>1 DEF DecisionBegins, AlgoTypes
  <2>2. CASE DecisionEnds(a)
    <3>1. \E s : status' = [status EXCEPT ![a] = s] /\ s \in Statuses
      <4>1. (CASE status[a] = "undecided" -> {"undecided", "limiting"}
               [] status[a] = "limiting" -> {"limiting", "off"}
               [] OTHER -> {"off", "leftover"}) \subseteq Statuses
        BY SMT
      <4> QED BY <2>2, <4>1 DEF DecisionEnds
    <3>2. status' \in [Algos -> Statuses]
      BY <1>0, <3>1
    <3> QED BY <1>0, <2>2, <3>2 DEF DecisionEnds, AlgoTypes
  <2> QED BY <1>4, <2>1, <2>2 DEF AlgoStep
<1>5. ASSUME NEW t \in SensorThreads, Signal(t) PROVE AlgoTypes'
  <2>1. generation' \in {generation, [plain |-> Nothing, old |-> generation.plain]}
    BY <1>5 DEF Signal, Announce, Tell, Release
  <2>2. generation' \in [plain : Generations \cup {Nothing}, old : Generations \cup {Nothing}]
    BY <1>0, <2>1
  <2> QED BY <1>0, <1>5, <2>2 DEF Signal, AlgoTypes
<1>6. CASE Parse
  <2> DEFINE g == 1 - generation.old
  <2>1. /\ generation' = [generation EXCEPT !.plain = g]
        /\ destroyed' = destroyed \ (Followed \X {g})
        /\ status' = [a \in Algos |-> IF a[2] = g THEN "off" ELSE status[a]]
        /\ deciding' = deciding
    BY <1>6 DEF Parse
  <2>2. g \in Generations
    BY <1>6, ParseGenerations DEF Parse
  <2> HIDE DEF g
  <2> QED BY <1>0, <2>1, <2>2 DEF AlgoTypes
<1>7. CASE DestroyOld
  <2>1. destroyed' = destroyed \cup (Followed \X {generation.old}) /\ UNCHANGED <<status, deciding>>
        /\ generation' = [generation EXCEPT !.old = Nothing]
    BY <1>7 DEF DestroyOld
  <2>2. generation.old \in Generations
    BY <1>7 DEF DestroyOld, Orderly, Control, Lineage
  <2>3. destroyed' \subseteq Algos
    BY <1>0, <2>1, <2>2 DEF Algos
  <2> QED BY <1>0, <2>1, <2>3 DEF AlgoTypes
<1>8. CASE PollScenario \/ ChangeScenario \/ PollConf \/ Reload \/ CntLoad \/ CntStore
           \/ Unflag \/ TestCount \/ WaitCount \/ NextPhase \/ ChangeDone
  BY <1>1, <1>8
  DEF PollScenario, ChangeScenario, PollConf, Reload, CntLoad, CntStore, Unflag, TestCount,
      WaitCount, NextPhase, ChangeDone, algorithms
<1> QED BY <1>3, <1>4, <1>5, <1>6, <1>7, <1>8 DEF Next, ScenarioStep

\* The types are kept: a step begins in an orderly state, as nothing follows a lost race.
LEMMA TypesStep ==
  ASSUME Types, Orderly, Next
  PROVE  Types'
BY ScenarioTypesStep, CounterTypesStep, FlagTypesStep, KeyTypesStep, AlgoTypesStep DEF Types

-----------------------------------------------------------------------------
(***************************************************************************)
(* The barrier: what a step that leaves a thread alone keeps for it.       *)
(***************************************************************************)
\* A set of sensor threads can be counted.
LEMMA ThreadSets ==
  ASSUME NEW S \in SUBSET SensorThreads
  PROVE  /\ IsFiniteSet(S) /\ Cardinality(S) \in Nat
         /\ Cardinality(S) <= Cardinality(SensorThreads)
BY FS_Subset, FS_CardinalityType, ThreadsAssumption

\* A thread whose own state stays, in the same phase, is where it was.
Alone(u) ==
  /\ pc'[u] = pc[u] /\ needWait'[u] = needWait[u] /\ isScenChanging'[u] = isScenChanging[u]

\* A thread that others leave alone stays in its place.
LEMMA PlaceStays ==
  ASSUME NEW u, Alone(u), phase' = phase, u \in todo' <=> u \in todo, Changing' = Changing,
         Flagged(u) => Flagged(u)', InPlace(u)
  PROVE  InPlace(u)'
<1>1. (Resting(u) => Resting(u)') /\ (Stopping(u) => Stopping(u)') /\ (Stopped(u) => Stopped(u)')
  BY Zenon DEF Alone, Resting, Stopping, Stopped
<1>2. (Told(u) => Told(u)') /\ (Held(u) => Held(u)') /\ (Freed(u) => Freed(u)')
  BY Zenon DEF Alone, Told, Held, Freed
<1>3. isScenChanging'[u] => isScenChanging[u]
  BY Zenon DEF Alone
<1> QED BY <1>1, <1>2, <1>3, Zenon DEF InPlace

\* So does what it owes.
LEMMA OwesStays ==
  ASSUME NEW u, pc'[u] = pc[u], phase' = phase, u \in todo' <=> u \in todo, Changing' = Changing
  PROVE  Owes(u)' = Owes(u)
BY Zenon DEF Owes

\* The counter is right if nobody's debt and nobody's unsignalled increment changes.
LEMMA CountStays ==
  ASSUME Counted, cnt' = cnt, \A t \in SensorThreads : Owes(t)' <=> Owes(t),
         spc' = "signal" <=> spc = "signal"
  PROVE  Counted'
<1>1. Owing' = Owing
  BY Zenon DEF Owing
<1> QED BY <1>1 DEF Counted

\* The steps outside of the protocol.
LEMMA OrderlyStays ==
  ASSUME Orderly, UNCHANGED <<scenarioThread, counter, sensorThreads, generation, destroyed>>
  PROVE  Orderly'
<1>1. /\ UNCHANGED <<spc, phase, todo, loaded, curScen, newScen, job, cnt>>
      /\ UNCHANGED <<pc, isScenChanging, needWait, announced, scen, generation, destroyed>>
  BY DEF scenarioThread, counter, sensorThreads
<1>2. Control'
  BY <1>1 DEF Orderly, Control, Changing
<1>3. Changing' = Changing /\ \A u : Flagged(u)' = Flagged(u) /\ Alone(u)
  BY <1>1, Zenon DEF Changing, Flagged, Alone
<1>4. Barrier'
  BY <1>1, <1>3, PlaceStays DEF Orderly, Barrier
<1>5. Counted'
  BY <1>1, <1>3, OwesStays, CountStays DEF Orderly
<1>6. Announced'
  BY <1>1 DEF Orderly, Announced, Key
<1>7. Adopted'
  BY <1>1 DEF Orderly, Adopted, Key, Changing
<1>8. Lineage'
  BY <1>1 DEF Orderly, Lineage, Renamed, Alive
<1> QED BY <1>2, <1>4, <1>5, <1>6, <1>7, <1>8 DEF Orderly

\* A sensor thread moves within its part of the phase.
Past == {"load1", "store1", "test1", "towait1", "waiting1"}

\* What a step of one sensor thread that does not count must show.
LEMMA SensorMoves ==
  ASSUME Orderly, NEW t \in SensorThreads,
         UNCHANGED <<scenarioThread, cnt, announced, generation, destroyed>>,
         \A u \in SensorThreads : u # t => Alone(u) /\ scen'[u] = scen[u],
         InPlace(t)', Owes(t)' <=> Owes(t),
         phase = 2 /\ pc'[t] \in Past => scen'[t] = announced[t],
         phase = 3 \/ ~Changing => scen'[t] = scen[t]
  PROVE  Orderly'
<1>1. UNCHANGED <<spc, phase, todo, loaded, curScen, newScen, job, cnt, announced>>
  BY DEF scenarioThread
<1>2. Control'
  BY <1>1 DEF Orderly, Control, Changing
<1>3. Changing' = Changing /\ \A u : Flagged(u)' = Flagged(u)
  BY <1>1, Zenon DEF Changing, Flagged
<1>4. Barrier'
  BY <1>1, <1>3, PlaceStays DEF Orderly, Barrier
<1>5. \A u \in SensorThreads : Owes(u)' <=> Owes(u)
  BY <1>1, <1>3, OwesStays DEF Alone
<1>6. Counted'
  BY <1>1, <1>5, CountStays DEF Orderly
<1>7. Announced'
  BY <1>1 DEF Orderly, Announced, Key
<1>8. Adopted'
  BY <1>1, <1>3 DEF Orderly, Adopted, Key, Alone, Past
<1>9. Lineage'
  BY <1>1 DEF Orderly, Lineage, Renamed, Alive
<1> QED BY <1>2, <1>4, <1>6, <1>7, <1>8, <1>9 DEF Orderly

\* Six kinds of places: outside of a change, and before and after the signals.
AtRest(t) == (~Changing \/ (phase = 1 /\ t \in todo)) /\ Resting(t)
AtStopping(t) == Changing /\ phase = 1 /\ t \notin todo /\ Stopping(t)
AtStopped(t) == Changing /\ phase = 2 /\ t \in todo /\ Stopped(t)
AtTold(t) == Changing /\ phase = 2 /\ t \notin todo /\ Told(t)
AtHeld(t) == Changing /\ phase = 3 /\ t \in todo /\ Held(t)
AtFreed(t) ==
  Changing /\ phase = 3 /\ t \notin todo /\ Freed(t) /\ (isScenChanging[t] => Flagged(t))

\* The six places as cases to prove from, and to prove.
LEMMA PlaceCases ==
  ASSUME Types, Orderly, NEW t \in SensorThreads
  PROVE  AtRest(t) \/ AtStopping(t) \/ AtStopped(t) \/ AtTold(t) \/ AtHeld(t) \/ AtFreed(t)
<1>1. InPlace(t)
  BY DEF Orderly, Barrier
<1>2. phase \in 1..3 /\ (~Changing => phase = 1)
  BY DEF Types, ScenarioTypes, Orderly, Control
<1>3. phase = 1 \/ (phase = 2 /\ Changing) \/ (phase = 3 /\ Changing)
  BY <1>2, SMT
<1> QED BY <1>1, <1>3, Zenon DEF InPlace, AtRest, AtStopping, AtStopped, AtTold, AtHeld, AtFreed

LEMMA PlaceIntro ==
  ASSUME NEW t,
         \/ AtRest(t)' /\ phase' = 1
         \/ AtStopping(t)' \/ AtStopped(t)' \/ AtTold(t)' \/ AtHeld(t)' \/ AtFreed(t)'
  PROVE  InPlace(t)'
<1>1. 1 # 2 /\ 1 # 3 /\ 2 # 3
  BY SMT
<1> QED BY <1>1, Zenon DEF InPlace, AtRest, AtStopping, AtStopped, AtTold, AtHeld, AtFreed

\* Where a thread is tells the phase.
LEMMA PlacePhase ==
  ASSUME Types, Orderly, NEW t \in SensorThreads
  PROVE  /\ pc[t] = "loop" /\ isScenChanging[t] /\ phase = 1 => AtStopping(t)
         /\ pc[t] \in {"load0", "store0"} => AtStopping(t)
         /\ pc[t] = "test0" /\ needWait[t] => AtStopping(t) \/ AtStopped(t)
         /\ pc[t] = "towait0" => AtStopping(t) \/ AtStopped(t)
         /\ pc[t] \in {"apply", "load1", "store1"} => AtTold(t)
         /\ pc[t] = "test0" /\ ~needWait[t] => AtTold(t)
         /\ pc[t] = "test1" /\ needWait[t] => AtTold(t) \/ AtHeld(t)
         /\ pc[t] = "towait1" => AtTold(t) \/ AtHeld(t)
         /\ pc[t] \in {"clear", "load2", "store2"} => AtFreed(t)
         /\ pc[t] = "test1" /\ ~needWait[t] => AtFreed(t)
<1>1. AtRest(t) => pc[t] = "loop" /\ ~isScenChanging[t]
  BY DEF AtRest, Resting
<1>2. AtStopping(t) => pc[t] = "loop"
                       \/ (pc[t] \in {"load0", "store0", "test0", "towait0", "waiting0"} /\ needWait[t])
  BY DEF AtStopping, Stopping
<1>3. AtStopped(t) => phase = 2 /\ pc[t] \in {"test0", "towait0", "waiting0"} /\ needWait[t]
  BY DEF AtStopped, Stopped
<1>4. AtTold(t) => /\ phase = 2
                   /\ \/ pc[t] \in {"test0", "apply"} /\ ~needWait[t]
                      \/ pc[t] \in Past /\ needWait[t]
  BY DEF AtTold, Told, Past
<1>5. AtHeld(t) => phase = 3 /\ pc[t] \in {"test1", "towait1", "waiting1"} /\ needWait[t]
  BY DEF AtHeld, Held
<1>6. AtFreed(t) => /\ phase = 3
                    /\ \/ pc[t] \in {"test1", "clear"} /\ ~needWait[t]
                       \/ pc[t] \in {"load2", "store2", "loop"}
  BY DEF AtFreed, Freed
<1>7. AtRest(t) \/ AtStopping(t) \/ AtStopped(t) \/ AtTold(t) \/ AtHeld(t) \/ AtFreed(t)
  BY PlaceCases
<1> HIDE DEF AtRest, AtStopping, AtStopped, AtTold, AtHeld, AtFreed
<1> QED BY <1>1, <1>2, <1>3, <1>4, <1>5, <1>6, <1>7, SMT DEF Past

-----------------------------------------------------------------------------
(***************************************************************************)
(* The steps of the sensor threads.                                        *)
(***************************************************************************)
\* A thread that stays on its side of the signal stays counted or uncounted.
LEMMA MovesWithin ==
  ASSUME Types, Orderly, NEW t \in SensorThreads, NEW p, pc' = [pc EXCEPT ![t] = p],
         UNCHANGED <<scenarioThread, cnt, isScenChanging, announced, generation, destroyed>>,
         \/ AtStopping(t) /\ p \in {"load0", "store0"} /\ pc[t] \in {"loop", "load0"} /\ needWait'[t]
         \/ AtStopping(t) /\ p \in {"towait0", "waiting0"} /\ pc[t] \in {"test0", "towait0"} /\ needWait'[t]
         \/ AtStopped(t) /\ p \in {"towait0", "waiting0"} /\ needWait'[t]
         \/ AtTold(t) /\ p = "apply" /\ pc[t] = "test0" /\ ~needWait'[t]
         \/ AtTold(t) /\ p \in {"load1", "store1"} /\ pc[t] \in {"apply", "load1"} /\ needWait'[t]
         \/ AtTold(t) /\ p \in {"towait1", "waiting1"} /\ pc[t] \in {"test1", "towait1"} /\ needWait'[t]
         \/ AtHeld(t) /\ p \in {"towait1", "waiting1"} /\ needWait'[t]
         \/ AtFreed(t) /\ p = "clear" /\ pc[t] = "test1" /\ ~needWait'[t]
         \/ AtFreed(t) /\ p \in {"load2", "store2"} /\ pc[t] \in {"clear", "load2"},
         \A u \in SensorThreads : u # t => needWait'[u] = needWait[u] /\ scen'[u] = scen[u],
         phase = 2 /\ p \in Past => scen'[t] = announced[t],
         phase = 3 => scen'[t] = scen[t]
  PROVE  Orderly'
<1>0. pc \in [SensorThreads -> SensorPlaces]
  BY DEF Types, FlagTypes
<1>1. pc'[t] = p /\ \A u \in SensorThreads : u # t => pc'[u] = pc[u]
  BY <1>0
<1>2. \A u \in SensorThreads : u # t => Alone(u) /\ scen'[u] = scen[u]
  BY <1>1 DEF Alone
<1>3. UNCHANGED <<spc, phase, todo, loaded>> /\ isScenChanging'[t] = isScenChanging[t]
  BY DEF scenarioThread
<1>4. Changing' = Changing /\ Flagged(t)' = Flagged(t)
  BY <1>3, Zenon DEF Changing, Flagged
<1>5. Changing
  BY DEF AtStopping, AtStopped, AtTold, AtHeld, AtFreed
<1>6. AtStopping(t)' \/ AtStopped(t)' \/ AtTold(t)' \/ AtHeld(t)' \/ AtFreed(t)'
  <2>1. CASE AtStopping(t) /\ p \in {"load0", "store0", "towait0", "waiting0"} /\ needWait'[t]
    BY <1>1, <1>3, <1>4, <2>1, Zenon DEF AtStopping, Stopping
  <2>2. CASE AtStopped(t) /\ p \in {"towait0", "waiting0"} /\ needWait'[t]
    BY <1>1, <1>3, <1>4, <2>2, Zenon DEF AtStopped, Stopped
  <2>3. CASE AtTold(t) /\ p = "apply" /\ ~needWait'[t]
    BY <1>1, <1>3, <1>4, <2>3, Zenon DEF AtTold, Told
  <2>4. CASE AtTold(t) /\ p \in {"load1", "store1", "towait1", "waiting1"} /\ needWait'[t]
    BY <1>1, <1>3, <1>4, <2>4, Zenon DEF AtTold, Told
  <2>5. CASE AtHeld(t) /\ p \in {"towait1", "waiting1"} /\ needWait'[t]
    BY <1>1, <1>3, <1>4, <2>5, Zenon DEF AtHeld, Held
  <2>6. CASE AtFreed(t) /\ ((p = "clear" /\ ~needWait'[t]) \/ p \in {"load2", "store2"})
    BY <1>1, <1>3, <1>4, <2>6, Zenon DEF AtFreed, Freed
  <2> QED BY <2>1, <2>2, <2>3, <2>4, <2>5, <2>6, Zenon
<1>7. InPlace(t)'
  BY <1>6, PlaceIntro
<1>8. Owes(t)' <=> Owes(t)
  <2>1. CASE AtStopping(t)
    BY <1>1, <1>3, <1>4, <2>1, SMT DEF AtStopping, AtStopped, AtTold, AtHeld, AtFreed, Owes
  <2>2. CASE AtStopped(t) \/ AtHeld(t)
    BY <1>3, <2>2 DEF AtStopped, AtHeld, Owes
  <2>3. CASE AtTold(t)
    BY <1>1, <1>3, <1>4, <2>3, SMT DEF AtStopping, AtStopped, AtTold, AtHeld, AtFreed, Owes
  <2>4. CASE AtFreed(t)
    BY <1>1, <1>3, <1>4, <2>4, SMT DEF AtStopping, AtStopped, AtTold, AtHeld, AtFreed, Owes
  <2> QED BY <2>1, <2>2, <2>3, <2>4
<1> QED BY <1>1, <1>2, <1>5, <1>7, <1>8, SensorMoves

\* The steps of a sensor thread that do not change the counter.
LEMMA OrderlyMoves ==
  ASSUME Types, Orderly, slips' = {}, NEW t \in SensorThreads,
         \/ StartChanging(t) \/ CountLoad(t) \/ TestWait(t) \/ EnterWait(t)
         \/ ApplyNew(t) \/ ClearOld(t)
  PROVE  Orderly'
<1>0. pc \in [SensorThreads -> SensorPlaces] /\ needWait \in [SensorThreads -> BOOLEAN]
  BY DEF Types, FlagTypes
<1>1. CASE StartChanging(t)
  <2>1. pc[t] = "loop" /\ isScenChanging[t] /\ phase = 1
    BY <1>1 DEF StartChanging
  <2>2. AtStopping(t)
    BY <2>1, PlacePhase
  <2>3. needWait'[t] /\ \A u \in SensorThreads : u # t => needWait'[u] = needWait[u]
    BY <1>0, <1>1, Zenon DEF StartChanging
  <2>4. /\ pc' = [pc EXCEPT ![t] = "load0"] /\ scen' = scen
        /\ UNCHANGED <<scenarioThread, cnt, isScenChanging, announced, generation, destroyed>>
    BY <1>1 DEF StartChanging, counter, algorithms
  <2>5. phase # 2 /\ phase # 3
    BY <2>1
  <2> QED BY <2>1, <2>2, <2>3, <2>4, <2>5, MovesWithin
<1>2. CASE CountLoad(t)
  <2> DEFINE p == AfterLoad(pc[t])
  <2>1. \/ pc[t] = "load0" /\ p = "store0"
        \/ pc[t] = "load1" /\ p = "store1"
        \/ pc[t] = "load2" /\ p = "store2"
    BY <1>2, SMT DEF CountLoad, AfterLoad
  <2>2. /\ pc' = [pc EXCEPT ![t] = p] /\ UNCHANGED <<needWait, scen>>
        /\ UNCHANGED <<scenarioThread, cnt, isScenChanging, announced, generation, destroyed>>
    BY <1>2 DEF CountLoad, algorithms
  <2> HIDE DEF p
  <2>3. /\ pc[t] = "load0" => AtStopping(t)
        /\ pc[t] = "load1" => AtTold(t)
        /\ pc[t] = "load2" => AtFreed(t)
    BY PlacePhase
  <2>4. pc[t] \in {"load0", "load1"} => needWait'[t]
    BY <2>2, <2>3 DEF AtStopping, Stopping, AtTold, Told
  <2>5. phase = 2 /\ p \in Past => scen'[t] = announced[t]
    BY <2>1, <2>2, <2>3, SMT DEF Past, Orderly, Adopted, AtStopping, AtFreed
  <2> QED BY <2>1, <2>2, <2>3, <2>4, <2>5, MovesWithin
<1>3. CASE TestWait(t)
  <2>1. PICK p : /\ pc' = [pc EXCEPT ![t] = p]
                 /\ \/ pc[t] = "test0" /\ needWait[t] /\ p = "towait0"
                    \/ pc[t] = "test0" /\ ~needWait[t] /\ p = "apply"
                    \/ pc[t] = "test1" /\ needWait[t] /\ p = "towait1"
                    \/ pc[t] = "test1" /\ ~needWait[t] /\ p = "clear"
    BY <1>3 DEF TestWait
  <2>2. /\ UNCHANGED <<needWait, scen>>
        /\ UNCHANGED <<scenarioThread, cnt, isScenChanging, announced, generation, destroyed>>
    BY <1>3 DEF TestWait, counter, algorithms
  <2>3. /\ pc[t] = "test0" /\ needWait[t] => AtStopping(t) \/ AtStopped(t)
        /\ pc[t] = "test0" /\ ~needWait[t] => AtTold(t)
        /\ pc[t] = "test1" /\ needWait[t] => AtTold(t) \/ AtHeld(t)
        /\ pc[t] = "test1" /\ ~needWait[t] => AtFreed(t)
    BY PlacePhase
  <2>4. phase = 2 /\ p \in Past => scen'[t] = announced[t]
    BY <2>1, <2>2, SMT DEF Past, Orderly, Adopted
  <2> QED BY <2>1, <2>2, <2>3, <2>4, MovesWithin
<1>4. CASE EnterWait(t)
  <2>1. PICK p : /\ pc' = [pc EXCEPT ![t] = p]
                 /\ \/ pc[t] = "towait0" /\ p = "waiting0"
                    \/ pc[t] = "towait1" /\ p = "waiting1"
    BY <1>4 DEF EnterWait
  <2>2. /\ UNCHANGED <<needWait, scen>>
        /\ UNCHANGED <<scenarioThread, cnt, isScenChanging, announced, generation, destroyed>>
    BY <1>4 DEF EnterWait, counter, algorithms
  <2>3. /\ pc[t] = "towait0" => AtStopping(t) \/ AtStopped(t)
        /\ pc[t] = "towait1" => AtTold(t) \/ AtHeld(t)
    BY PlacePhase
  <2>4. needWait'[t]
    BY <2>1, <2>2, <2>3
    DEF AtStopping, Stopping, AtTold, Told, AtStopped, Stopped, AtHeld, Held
  <2>5. phase = 2 /\ p \in Past => scen'[t] = announced[t]
    BY <2>1, <2>2, SMT DEF Past, Orderly, Adopted
  <2> QED BY <2>1, <2>2, <2>3, <2>4, <2>5, MovesWithin
<1>5. CASE ApplyNew(t)
  <2>1. pc[t] = "apply" /\ pc' = [pc EXCEPT ![t] = "load1"]
        /\ scen' = [scen EXCEPT ![t] = announced[t]]
        /\ UNCHANGED <<scenarioThread, cnt, isScenChanging, announced, generation, destroyed>>
    BY <1>5 DEF ApplyNew, counter
  <2>2. needWait'[t] /\ \A u \in SensorThreads : u # t => needWait'[u] = needWait[u]
    BY <1>0, <1>5, Zenon DEF ApplyNew
  <2>3. AtTold(t)
    BY <2>1, PlacePhase
  <2>4. scen'[t] = announced[t] /\ \A u \in SensorThreads : u # t => scen'[u] = scen[u]
    BY <2>1 DEF Types, KeyTypes
  <2>5. phase # 3
    BY <2>3, SMT DEF AtTold
  <2> QED BY <2>1, <2>2, <2>3, <2>4, <2>5, MovesWithin
<1>6. CASE ClearOld(t)
  <2>1. pc[t] = "clear" /\ pc' = [pc EXCEPT ![t] = "load2"] /\ UNCHANGED <<needWait, scen>>
        /\ UNCHANGED <<scenarioThread, cnt, isScenChanging, announced, generation, destroyed>>
    BY <1>6 DEF ClearOld, counter
  <2>2. AtFreed(t)
    BY <2>1, PlacePhase
  <2>3. phase # 2
    BY <2>2, SMT DEF AtFreed
  <2> QED BY <2>1, <2>2, <2>3, MovesWithin
<1> QED BY <1>1, <1>2, <1>3, <1>4, <1>5, <1>6

\* A thread that counts itself down was counted, and the last one means that all have.
LEMMA OrderlyStore ==
  ASSUME Types, Orderly, slips' = {}, NEW t \in SensorThreads, CountStore(t)
  PROVE  Orderly'
<1> DEFINE p == AfterStore(pc[t])
<1>0. pc \in [SensorThreads -> SensorPlaces] /\ cnt \in Int
  BY DEF Types, FlagTypes, CounterTypes
<1>1. \/ pc[t] = "store0" /\ p = "test0"
      \/ pc[t] = "store1" /\ p = "test1"
      \/ pc[t] = "store2" /\ p = "loop"
  BY SMT DEF CountStore, AfterStore
<1>2. pc' = [pc EXCEPT ![t] = p]
  BY DEF CountStore
<1>3. /\ UNCHANGED <<phase, todo, loaded, curScen, newScen, job, isScenChanging, needWait>>
      /\ UNCHANGED <<announced, scen, generation, destroyed>>
  BY DEF CountStore, algorithms
<1> HIDE DEF p
<1>4. countLock.value = cnt /\ cnt' = cnt - 1
  BY DEF CountStore
<1>5. spc' = spc \/ (spc = "waiting" /\ spc' = "next" /\ cnt' = 0)
  BY DEF CountStore
<1>6. Changing' = Changing /\ \A u : Flagged(u)' = Flagged(u)
  BY <1>3, <1>5 DEF Changing, Flagged
<1>7. pc'[t] = p /\ \A u \in SensorThreads : u # t => Alone(u)
  BY <1>0, <1>2, <1>3 DEF Alone
<1>8. /\ pc[t] = "store0" => AtStopping(t)
      /\ pc[t] = "store1" => AtTold(t)
      /\ pc[t] = "store2" => AtFreed(t)
  BY PlacePhase
<1>9. Owes(t) /\ ~Owes(t)'
  BY <1>1, <1>3, <1>6, <1>7, <1>8, SMT DEF AtStopping, AtTold, AtFreed, Owes
<1>10. \A u \in SensorThreads : u # t => (Owes(u)' <=> Owes(u))
  BY <1>3, <1>6, <1>7, OwesStays DEF Alone
<1>11. Owing' = Owing \ {t} /\ t \in Owing
  BY <1>9, <1>10 DEF Owing
<1>12. Cardinality(Owing') = Cardinality(Owing) - 1 /\ Cardinality(Owing) \in Nat
  <2>1. IsFiniteSet(Owing) /\ Cardinality(Owing) \in Nat
    BY ThreadSets DEF Owing
  <2> QED BY <1>11, <2>1, FS_RemoveElement
<1>13. Counted'
  <2>1. cnt = Cardinality(Owing) + (IF spc = "signal" THEN 1 ELSE 0)
    BY DEF Orderly, Counted
  <2>2. spc' = "signal" <=> spc = "signal"
    BY <1>5
  <2> QED BY <1>4, <1>12, <2>1, <2>2, SMT DEF Counted
<1>14. spc # "next"
  <2>1. Cardinality(Owing) # 0
    <3>1. Cardinality(Owing') \in Nat
      BY ThreadSets DEF Owing
    <3> QED BY <1>12, <3>1, SMT
  <2>2. spc = "next" => cnt = 0 /\ cnt = Cardinality(Owing)
    BY <1>12, SMT DEF Orderly, Control, Counted
  <2> QED BY <2>1, <2>2
<1>15. Control'
  BY <1>3, <1>5, <1>6, <1>14 DEF Orderly, Control, Changing
<1>16. InPlace(t)'
  <2>1. CASE pc[t] = "store0"
    <3>1. AtStopping(t)'
      BY <1>1, <1>3, <1>6, <1>7, <1>8, <2>1 DEF AtStopping, Stopping
    <3> QED BY <3>1, PlaceIntro
  <2>2. CASE pc[t] = "store1"
    <3>1. AtTold(t)'
      BY <1>1, <1>3, <1>6, <1>7, <1>8, <2>2 DEF AtTold, Told
    <3> QED BY <3>1, PlaceIntro
  <2>3. CASE pc[t] = "store2"
    <3>1. AtFreed(t)'
      BY <1>1, <1>3, <1>6, <1>7, <1>8, <2>3 DEF AtFreed, Freed
    <3> QED BY <3>1, PlaceIntro
  <2> QED BY <1>1, <2>1, <2>2, <2>3
<1>17. Barrier'
  BY <1>3, <1>6, <1>7, <1>16, PlaceStays DEF Orderly, Barrier
<1>18. Announced'
  BY <1>3 DEF Orderly, Announced, Key
<1>19. Adopted'
  <2>1. (spc' = "parse") = (spc = "parse")
    BY <1>5
  <2>2. p \in {"load1", "store1", "test1", "towait1", "waiting1"} => pc[t] = "store1"
    BY <1>1
  <2> QED BY <1>3, <1>6, <1>7, <2>1, <2>2, Zenon DEF Orderly, Adopted, Alone
<1>20. Lineage'
  <2>1. spc' = "parse" <=> spc = "parse"
    BY <1>5
  <2> QED BY <1>3, <2>1 DEF Orderly, Lineage, Renamed, Alive
<1> QED BY <1>13, <1>15, <1>17, <1>18, <1>19, <1>20 DEF Orderly

-----------------------------------------------------------------------------
(***************************************************************************)
(* The steps of the scenario thread.                                       *)
(***************************************************************************)
\* Counting up, testing the counter and going to sleep touch no sensor thread.
LEMMA OrderlyCounting ==
  ASSUME Types, Orderly, slips' = {}, CntLoad \/ CntStore \/ TestCount \/ WaitCount
  PROVE  Orderly'
<1>1. /\ UNCHANGED <<phase, todo, curScen, newScen, job, pc, isScenChanging, needWait>>
      /\ UNCHANGED <<announced, scen, generation, destroyed>>
  BY DEF CntLoad, CntStore, TestCount, WaitCount, sensorThreads, algorithms
<1>2. /\ spc \in {"load", "store", "towait"} /\ spc' \in {"store", "signal", "towait", "waiting", "next"}
      /\ spc' \in {"store", "signal"} => todo # {}
      /\ spc' \in {"towait", "waiting", "next"} => todo = {}
  BY DEF CntLoad, CntStore, TestCount, WaitCount, Orderly, Control
<1>3. Changing /\ Changing' /\ \A u : ~Flagged(u) /\ ~Flagged(u)'
  BY <1>2 DEF Changing, Flagged
<1>4. \A u : Alone(u)
  BY <1>1 DEF Alone
<1>5. Barrier'
  BY <1>1, <1>3, <1>4, PlaceStays DEF Orderly, Barrier
<1>6. Owing' = Owing
  BY <1>1, <1>3, OwesStays DEF Owing
<1>7. Cardinality(Owing) \in Nat
  BY ThreadSets DEF Owing
<1>8. Counted' /\ (spc' = "next" => cnt' = 0)
  <2>1. cnt \in Int /\ cnt = Cardinality(Owing)
    BY <1>2, <1>7, SMT DEF Orderly, Counted, Types, CounterTypes
  <2>2. CASE CntStore
    <3>1. cnt' = cnt + 1 /\ spc' = "signal"
      BY <2>2 DEF CntStore
    <3> QED BY <1>6, <2>1, <3>1 DEF Counted
  <2>3. CASE CntLoad \/ TestCount \/ WaitCount
    <3>1. cnt' = cnt /\ spc' # "signal" /\ (spc' = "next" => ~(cnt > 0))
      BY <2>3 DEF CntLoad, TestCount, WaitCount, counter
    <3> QED BY <1>6, <1>7, <2>1, <3>1, SMT DEF Counted
  <2> QED BY <2>2, <2>3
<1>9. Control'
  BY <1>1, <1>2, <1>3, <1>8 DEF Orderly, Control
<1>10. Announced'
  BY <1>1 DEF Orderly, Announced, Key
<1>11. Adopted'
  BY <1>1, <1>3 DEF Orderly, Adopted
<1>12. Lineage'
  BY <1>1, <1>2 DEF Orderly, Lineage, Renamed, Alive
<1> QED BY <1>5, <1>8, <1>9, <1>10, <1>11, <1>12 DEF Orderly

\* Outside of a change nobody owes an answer, and at its beginning nobody does yet.
LEMMA NobodyOwes ==
  ASSUME cnt' = 0, spc' # "signal", ~Changing' \/ todo' = SensorThreads
  PROVE  Counted'
<1>1. Owing' = {}
  BY DEF Owing, Owes
<1> QED BY <1>1, FS_EmptySet, SMT DEF Counted

\* Between changes the counter is 0.
LEMMA OutsideCount ==
  ASSUME Orderly, ~Changing
  PROVE  cnt = 0
<1>1. Owing = {} /\ spc # "signal"
  BY DEF Owing, Owes, Changing
<1>2. Cardinality({}) = 0
  BY FS_EmptySet
<1> QED BY <1>1, <1>2, SMT DEF Orderly, Counted

\* The steps of the scenario thread: polling its two files.
LEMMA OrderlyPolls ==
  ASSUME Types, Orderly, PollScenario \/ PollConf
  PROVE  Orderly'
<1>1. /\ UNCHANGED <<phase, todo, loaded, curScen, job, cnt, pc, isScenChanging, needWait>>
      /\ UNCHANGED <<announced, scen, generation, destroyed>>
      /\ spc \in {"scenario", "conf"} /\ spc' \in {"scenario", "conf"}
  BY DEF PollScenario, PollConf, counter, sensorThreads, algorithms
<1>2. ~Changing /\ ~Changing' /\ \A u : ~Flagged(u)
  BY <1>1 DEF Changing, Flagged
<1>3. phase = 1 /\ todo = {} /\ job = "scenario"
  BY <1>1, <1>2 DEF Orderly, Control
<1>4. Control'
  BY <1>1, <1>2, <1>3 DEF Control
<1>5. Barrier'
  <2>1. \A u : Alone(u)
    BY <1>1 DEF Alone
  <2>2. Changing' = Changing
    BY <1>1 DEF Changing
  <2> QED BY <1>1, <1>2, <2>1, <2>2, PlaceStays DEF Orderly, Barrier
<1>6. Counted'
  BY <1>1, <1>2, OutsideCount, NobodyOwes
<1>7. Announced'
  BY <1>1, <1>3, SMT DEF Announced
<1>8. Adopted'
  <2>1. (spc' = "parse") = (spc = "parse")
    BY <1>1
  <2>2. phase' # 2 /\ phase' # 3
    BY <1>1, <1>3, SMT
  <2> QED BY <1>1, <1>2, <2>1, <2>2, Zenon DEF Orderly, Adopted
<1>9. Lineage'
  BY <1>1, <1>3 DEF Orderly, Lineage, Renamed, Alive
<1> QED BY <1>4, <1>5, <1>6, <1>7, <1>8, <1>9 DEF Orderly

\* A change begins: every thread is to be stopped, and none is yet.
LEMMA BeginsOrderly ==
  ASSUME Orderly, ~Changing, NEW j \in {"scenario", "old", "new"}, BeginChange(j),
         UNCHANGED <<cnt, pc, isScenChanging, needWait, announced, scen>>, Lineage'
  PROVE  Orderly'
<1>1. job' = j /\ phase' = 1 /\ todo' = SensorThreads /\ spc' = "load"
  BY DEF BeginChange
<1>2. Changing' /\ phase' # 2 /\ phase' # 3
  BY <1>1, SMT DEF Changing
<1>3. Control'
  BY <1>1, <1>2 DEF Control
<1>4. Barrier'
  <2> SUFFICES ASSUME NEW t \in SensorThreads PROVE InPlace(t)'
    BY DEF Barrier
  <2>1. Resting(t)
    BY DEF Orderly, Barrier, InPlace
  <2>2. AtRest(t)'
    BY <1>1, <2>1 DEF AtRest, Resting
  <2> QED BY <1>1, <2>2, PlaceIntro
<1>5. Counted'
  BY <1>1, OutsideCount, NobodyOwes
<1>6. Announced' /\ Adopted'
  BY <1>2 DEF Announced, Adopted
<1> QED BY <1>3, <1>4, <1>5, <1>6 DEF Orderly

\* A change begins with every thread at rest.
LEMMA OrderlyBegins ==
  ASSUME Types, Orderly, ChangeScenario \/ Reload \/ Parse
  PROVE  Orderly'
<1>1. CASE ChangeScenario \/ Reload
  <2>1. ~Changing /\ job = "scenario"
    BY <1>1 DEF ChangeScenario, Reload, Changing, Orderly, Control
  <2>2. PICK j \in {"scenario", "old"} : BeginChange(j)
    BY <1>1 DEF ChangeScenario, Reload
  <2>3. UNCHANGED <<cnt, pc, isScenChanging, needWait, announced, scen, generation, destroyed>>
    BY <1>1 DEF ChangeScenario, Reload, counter, sensorThreads, algorithms
  <2>4. Lineage'
    BY <2>1, <2>2, <2>3, SMT DEF Orderly, Lineage, Renamed, Alive, BeginChange
  <2> QED BY <2>1, <2>2, <2>3, <2>4, BeginsOrderly
<1>2. CASE Parse
  <2> DEFINE g == 1 - generation.old
  <2>1. ~Changing /\ job = "old" /\ spc = "parse" /\ BeginChange("new")
    BY <1>2 DEF Parse, Changing, Orderly, Control
  <2>2. g \in Generations /\ generation.old \in Generations /\ g # generation.old
    BY <2>1, ParseGenerations
  <2>3. /\ generation' = [generation EXCEPT !.plain = g]
        /\ destroyed' = destroyed \ (Followed \X {g})
        /\ UNCHANGED <<cnt, pc, isScenChanging, needWait, announced, scen>>
    BY <1>2 DEF Parse, counter, sensorThreads
  <2>4. destroyed' = {}
    <3>1. destroyed \cap (Followed \X {generation.old}) = {}
      BY <2>1 DEF Orderly, Lineage, Renamed, Alive
    <3>2. destroyed \subseteq Followed \X Generations
      BY DEF Types, AlgoTypes, Algos
    <3>3. Generations = {g, generation.old}
      BY <2>2, SMT DEF Generations
    <3> HIDE DEF g
    <3>4. destroyed \subseteq (Followed \X {g}) \cup (Followed \X {generation.old})
      BY <3>2, <3>3
    <3> QED BY <2>3, <3>1, <3>4
  <2> HIDE DEF g
  <2>5. generation'.plain = g /\ generation'.old = generation.old
    BY <2>3 DEF Types, AlgoTypes
  <2>6. Lineage'
    BY <2>1, <2>2, <2>4, <2>5 DEF Lineage, Renamed, BeginChange
  <2> QED BY <2>1, <2>3, <2>6, BeginsOrderly
<1> QED BY <1>1, <1>2

\* When the counter is zero every thread has reached the stop of the phase.
LEMMA AllAnswered ==
  ASSUME Types, Orderly, spc = "next", NEW t \in SensorThreads
  PROVE  /\ todo = {} /\ cnt = 0 /\ Changing
         /\ phase = 1 => Stopped(t)
         /\ phase = 2 => Held(t)
         /\ phase = 3 => Resting(t)
<1>1. todo = {} /\ cnt = 0 /\ Changing /\ ~Flagged(t)
  BY DEF Orderly, Control, Changing, Flagged
<1>2. Owing = {}
  <2>1. IsFiniteSet(Owing) /\ Cardinality(Owing) \in Nat
    BY ThreadSets DEF Owing
  <2>2. Cardinality(Owing) = 0
    BY <1>1, <2>1, SMT DEF Orderly, Counted
  <2> QED BY <2>1, <2>2, FS_EmptySet
<1>3. ~Owes(t)
  BY <1>2 DEF Owing
<1>4. phase = 1 => pc[t] \notin {"loop", "load0", "store0"}
  BY <1>1, <1>3 DEF Owes
<1>5. phase = 2 => pc[t] \notin {"test0", "apply", "load1", "store1"}
  BY <1>1, <1>3 DEF Owes
<1>6. phase = 3 => pc[t] \notin {"test1", "clear", "load2", "store2"}
  BY <1>1, <1>3 DEF Owes
<1>7. InPlace(t)
  BY DEF Orderly, Barrier
<1>8. phase = 1 => Stopped(t)
  BY <1>1, <1>4, <1>7 DEF InPlace, Stopping, Stopped
<1>9. phase = 2 => Held(t)
  BY <1>1, <1>5, <1>7 DEF InPlace, Told, Held
<1>10. phase = 3 => Resting(t)
  BY <1>1, <1>6, <1>7 DEF InPlace, Freed, Resting
<1> QED BY <1>1, <1>8, <1>9, <1>10

\* The counter is 0, so nobody owes: all have passed the barrier.
LEMMA OrderlyNextPhase ==
  ASSUME Types, Orderly, NextPhase
  PROVE  Orderly'
<1>1. /\ spc = "next" /\ todo' = SensorThreads /\ spc' = "load" /\ phase' = phase + 1
      /\ UNCHANGED <<curScen, newScen, job, cnt, pc, isScenChanging, needWait>>
      /\ UNCHANGED <<announced, scen, generation, destroyed>>
  BY DEF NextPhase, counter, sensorThreads, algorithms
<1>2. (phase = 1 /\ phase' = 2) \/ (phase = 2 /\ phase' = 3)
  BY SMT DEF NextPhase, Types, ScenarioTypes
<1>3. cnt = 0 /\ todo = {} /\ Changing'
  BY <1>1 DEF Orderly, Control, Changing
<1>4. Control'
  BY <1>1, <1>3 DEF Control
<1>5. Barrier'
  <2> SUFFICES ASSUME NEW t \in SensorThreads PROVE InPlace(t)'
    BY DEF Barrier
  <2>1. CASE phase = 1 /\ phase' = 2
    <3>1. Stopped(t)
      BY <1>1, <2>1, AllAnswered
    <3>2. AtStopped(t)'
      BY <1>1, <1>3, <2>1, <3>1 DEF AtStopped, Stopped
    <3> QED BY <3>2, PlaceIntro
  <2>2. CASE phase = 2 /\ phase' = 3
    <3>1. Held(t)
      BY <1>1, <2>2, AllAnswered
    <3>2. AtHeld(t)'
      BY <1>1, <1>3, <2>2, <3>1 DEF AtHeld, Held
    <3> QED BY <3>2, PlaceIntro
  <2> QED BY <1>2, <2>1, <2>2
<1>6. Counted'
  BY <1>1, <1>3, NobodyOwes
<1>7. Announced'
  <2>1. phase' = 3 => phase = 2 /\ todo = {}
    BY <1>2, <1>3
  <2>2. \A t \in SensorThreads : phase' = 3 => announced[t] = Key(newScen, job = "old")
    BY <2>1 DEF Orderly, Announced
  <2> QED BY <1>1, <2>2, Zenon DEF Announced
<1>8. Adopted'
  <2> SUFFICES ASSUME NEW t \in SensorThreads
               PROVE  /\ phase' = 2 => pc[t] \notin Past
                      /\ phase' = 3 => scen[t] = announced[t]
    BY <1>1, <1>3 DEF Adopted, Past
  <2>1. phase' = 2 => pc[t] \in {"test0", "towait0", "waiting0"}
    BY <1>1, <1>2, AllAnswered DEF Stopped
  <2>2. phase' = 3 => phase = 2 /\ pc[t] \in {"test1", "towait1", "waiting1"}
    BY <1>1, <1>2, AllAnswered DEF Held
  <2>3. phase' = 3 => scen[t] = announced[t]
    BY <2>2 DEF Orderly, Adopted
  <2> QED BY <2>1, <2>3, SMT DEF Past
<1>9. Lineage'
  <2>1. Renamed' <=> Renamed
    BY <1>1, <1>2, <1>3, OwnerAssumption DEF Renamed
  <2> QED BY <1>1, <2>1 DEF Orderly, Lineage, Alive
<1> QED BY <1>4, <1>5, <1>6, <1>7, <1>8, <1>9 DEF Orderly

\* After the third barrier all threads are at rest, in the new scenario.
LEMMA OrderlyDone ==
  ASSUME Types, Orderly, ChangeDone
  PROVE  Orderly'
<1>1. /\ spc = "next" /\ phase = 3 /\ phase' = 1 /\ curScen' = newScen
      /\ UNCHANGED <<todo, newScen, job, cnt, pc, isScenChanging, needWait>>
      /\ UNCHANGED <<announced, scen, generation, destroyed>>
  BY DEF ChangeDone, counter, sensorThreads, algorithms
<1>2. \/ job = "scenario" /\ spc' = "conf"
      \/ job = "old" /\ spc' = "parse"
      \/ job = "new" /\ spc' = "destroy"
  BY SMT DEF ChangeDone, Types, ScenarioTypes
<1>3. todo = {} /\ cnt = 0 /\ ~Changing'
  BY <1>1, <1>2 DEF Orderly, Control, Changing
<1>4. Control'
  BY <1>1, <1>2, <1>3 DEF Control
<1>5. Barrier'
  <2> SUFFICES ASSUME NEW t \in SensorThreads PROVE InPlace(t)'
    BY DEF Barrier
  <2>1. Resting(t)
    BY <1>1, AllAnswered
  <2>2. AtRest(t)'
    BY <1>1, <1>3, <2>1 DEF AtRest, Resting
  <2> QED BY <1>1, <2>2, PlaceIntro
<1>6. Counted'
  BY <1>1, <1>2, <1>3, NobodyOwes
<1>7. phase' # 2 /\ phase' # 3
  BY <1>1, SMT
<1>8. Announced'
  BY <1>7 DEF Announced
<1>9. Adopted'
  <2>1. (spc' = "parse") = (job = "old")
    BY <1>2
  <2>2. \A t \in SensorThreads : scen[t] = announced[t] /\ announced[t] = Key(newScen, job = "old")
    BY <1>1 DEF Orderly, Adopted, Announced
  <2>3. \A t \in SensorThreads : scen'[t] = Key(curScen', spc' = "parse")
    BY <1>1, <2>1, <2>2, Zenon
  <2> QED BY <1>7, <2>3, Zenon DEF Adopted
<1>10. Lineage'
  <2>1. Renamed' <=> Renamed
    BY <1>1, <1>2, <1>7 DEF Renamed
  <2> QED BY <1>1, <2>1 DEF Orderly, Lineage, Alive
<1> QED BY <1>4, <1>5, <1>6, <1>8, <1>9, <1>10 DEF Orderly

\* The generation destroyed is not the one under the plain names.
LEMMA OrderlyDestroy ==
  ASSUME Types, Orderly, DestroyOld
  PROVE  Orderly'
<1>1. /\ spc = "destroy" /\ spc' = "scenario" /\ job' = "scenario"
      /\ UNCHANGED <<phase, todo, curScen, newScen, cnt, pc, isScenChanging, needWait>>
      /\ UNCHANGED <<announced, scen>>
      /\ destroyed' = destroyed \cup (Followed \X {generation.old})
      /\ generation' = [generation EXCEPT !.old = Nothing]
  BY DEF DestroyOld, counter, sensorThreads
<1>2. ~Changing /\ ~Changing' /\ job = "new" /\ phase = 1 /\ todo = {}
  BY <1>1 DEF Orderly, Control, Changing
<1>3. Control'
  BY <1>1, <1>2 DEF Control
<1>4. Barrier'
  <2>1. \A u : Alone(u) /\ ~Flagged(u)
    BY <1>1 DEF Alone, Flagged
  <2>2. Changing' = Changing
    BY <1>1 DEF Changing
  <2> QED BY <1>1, <2>1, <2>2, PlaceStays DEF Orderly, Barrier
<1>5. Counted'
  BY <1>1, <1>2, OutsideCount, NobodyOwes
<1>6. phase' # 2 /\ phase' # 3
  BY <1>1, <1>2, SMT
<1>7. Announced'
  BY <1>6 DEF Announced
<1>8. Adopted'
  <2>1. (spc' = "parse") = (spc = "parse")
    BY <1>1
  <2> QED BY <1>1, <1>2, <1>6, <2>1, Zenon DEF Orderly, Adopted
<1>9. Lineage'
  <2>1. /\ generation.plain \in Generations /\ generation.plain # generation.old /\ destroyed = {}
    BY <1>2 DEF Orderly, Lineage
  <2>2. generation'.plain = generation.plain /\ generation'.old = Nothing
    BY <1>1 DEF Types, AlgoTypes
  <2>3. destroyed' \cap (Followed \X {generation.plain}) = {}
    BY <1>1, <2>1
  <2> QED BY <1>1, <2>1, <2>2, <2>3 DEF Lineage, Alive, Renamed
<1> QED BY <1>3, <1>4, <1>5, <1>7, <1>8, <1>9 DEF Orderly

\* The flag of the thread freed last is reset.
LEMMA OrderlyUnflag ==
  ASSUME Types, Orderly, Unflag
  PROVE  Orderly'
<1>1. /\ spc = "unflag" /\ spc' = "load"
      /\ UNCHANGED <<phase, todo, curScen, newScen, job, cnt, pc, needWait>>
      /\ UNCHANGED <<announced, scen, generation, destroyed>>
  BY DEF Unflag, counter, algorithms
<1>2. phase = 3 /\ loaded \in SensorThreads /\ loaded \notin todo
  BY <1>1 DEF Orderly, Control
<1>3. ~isScenChanging'[loaded]
      /\ \A u \in SensorThreads : u # loaded => isScenChanging'[u] = isScenChanging[u]
  BY <1>2, Zenon DEF Unflag, Types, FlagTypes
<1>4. Changing /\ Changing' /\ Changing' = Changing
  BY <1>1 DEF Changing
<1>5. Barrier'
  <2> SUFFICES ASSUME NEW u \in SensorThreads PROVE InPlace(u)'
    BY DEF Barrier
  <2>1. CASE u = loaded
    <3>1. Freed(u)
      BY <1>2, <2>1 DEF Orderly, Barrier, InPlace
    <3>2. AtFreed(u)'
      BY <1>1, <1>2, <1>3, <1>4, <2>1, <3>1 DEF AtFreed, Freed
    <3> QED BY <3>2, PlaceIntro
  <2>2. CASE u # loaded
    <3>1. Alone(u) /\ ~Flagged(u)
      BY <1>1, <1>3, <2>2, Zenon DEF Alone, Flagged
    <3> QED BY <1>1, <1>4, <3>1, PlaceStays DEF Orderly, Barrier
  <2> QED BY <2>1, <2>2
<1>6. Counted'
  BY <1>1, <1>4, OwesStays, CountStays DEF Orderly
<1>7. Control'
  BY <1>1, <1>4 DEF Control
<1>8. Announced'
  BY <1>1 DEF Orderly, Announced, Key
<1>9. Adopted'
  BY <1>1, <1>4 DEF Orderly, Adopted
<1>10. Lineage'
  BY <1>1 DEF Orderly, Lineage, Renamed, Alive
<1> QED BY <1>5, <1>6, <1>7, <1>8, <1>9, <1>10 DEF Orderly

\* The thread that is signalled leaves its stop, or will, and owes an answer.
LEMMA Signalled ==
  ASSUME Types, Orderly, slips' = {}, NEW t \in SensorThreads, Signal(t)
  PROVE  /\ AtStopping(t)' \/ AtTold(t)' \/ AtFreed(t)'
         /\ Owes(t)' /\ ~Owes(t)
         /\ phase = 2 => pc'[t] \in {"test0", "apply"}
         /\ \A u \in SensorThreads : u # t => Alone(u)
<1>0. /\ pc \in [SensorThreads -> SensorPlaces] /\ needWait \in [SensorThreads -> BOOLEAN]
      /\ isScenChanging \in [SensorThreads -> BOOLEAN]
  BY DEF Types, FlagTypes
<1>1. /\ spc = "signal" /\ t \in todo /\ t \notin todo' /\ phase' = phase
      /\ Changing /\ Changing'
  BY DEF Signal, Changing
<1>2. ~Owes(t)
  BY <1>1 DEF Owes
<1>3. InPlace(t)
  BY DEF Orderly, Barrier
<1>4. CASE Announce(t)
  <2>1. phase = 1 /\ pc' = pc /\ needWait' = needWait
    BY <1>4 DEF Announce
  <2>2. isScenChanging'[t] /\ \A u \in SensorThreads : u # t => isScenChanging'[u] = isScenChanging[u]
    BY <1>0, <1>4, Zenon DEF Announce
  <2>3. pc'[t] = "loop"
    BY <1>1, <1>3, <2>1 DEF InPlace, Resting
  <2>4. AtStopping(t)'
    BY <1>1, <2>1, <2>2, <2>3 DEF AtStopping, Stopping
  <2>5. Owes(t)'
    BY <1>1, <2>1, <2>3 DEF Owes
  <2>6. \A u \in SensorThreads : u # t => Alone(u)
    BY <2>1, <2>2 DEF Alone
  <2>7. phase # 2
    BY <2>1
  <2> QED BY <1>2, <2>4, <2>5, <2>6, <2>7
<1>5. ASSUME NEW step, Wake(t, step)
      PROVE  ~needWait'[t] /\ \A u \in SensorThreads : u # t => needWait'[u] = needWait[u]
  BY <1>0, <1>5, Zenon DEF Wake
<1>6. CASE Tell(t)
  <2>1. phase = 2 /\ Wake(t, 0) /\ isScenChanging' = isScenChanging
    BY <1>6 DEF Tell
  <2>2. pc[t] # "towait0" /\ pc' = [pc EXCEPT ![t] = IF pc[t] = "waiting0" THEN "apply" ELSE pc[t]]
    BY <2>1, SMT DEF Wake
  <2>3. isScenChanging[t] /\ pc[t] \in {"test0", "towait0", "waiting0"}
    BY <1>1, <1>3, <2>1 DEF InPlace, Stopped
  <2>4. pc'[t] \in {"test0", "apply"} /\ \A u \in SensorThreads : u # t => pc'[u] = pc[u]
    BY <1>0, <2>2, <2>3
  <2>5. AtTold(t)'
    BY <1>1, <1>5, <2>1, <2>3, <2>4 DEF AtTold, Told
  <2>6. Owes(t)'
    BY <1>1, <2>1, <2>4 DEF Owes
  <2>7. \A u \in SensorThreads : u # t => Alone(u)
    BY <1>5, <2>1, <2>4 DEF Alone
  <2> QED BY <1>2, <2>4, <2>5, <2>6, <2>7
<1>7. CASE Release(t)
  <2>1. phase = 3 /\ Wake(t, 1) /\ isScenChanging' = isScenChanging
    BY <1>7 DEF Release
  <2>2. pc[t] # "towait1" /\ pc' = [pc EXCEPT ![t] = IF pc[t] = "waiting1" THEN "clear" ELSE pc[t]]
    BY <2>1, SMT DEF Wake
  <2>3. pc[t] \in {"test1", "towait1", "waiting1"}
    BY <1>1, <1>3, <2>1 DEF InPlace, Held
  <2>4. pc'[t] \in {"test1", "clear"} /\ \A u \in SensorThreads : u # t => pc'[u] = pc[u]
    BY <1>0, <2>2, <2>3
  <2>5. Flagged(t)'
    BY <2>1 DEF Signal, Flagged
  <2>6. AtFreed(t)'
    BY <1>1, <1>5, <2>1, <2>4, <2>5 DEF AtFreed, Freed
  <2>7. Owes(t)'
    BY <1>1, <2>1, <2>4 DEF Owes
  <2>8. \A u \in SensorThreads : u # t => Alone(u)
    BY <1>5, <2>1, <2>4 DEF Alone
  <2>9. phase # 2
    BY <2>1
  <2> QED BY <1>2, <2>6, <2>7, <2>8, <2>9
<1> QED BY <1>4, <1>6, <1>7 DEF Signal

\* A signal moves one thread over the barrier, and makes its count its debt.
LEMMA OrderlySignal ==
  ASSUME Types, Orderly, slips' = {}, NEW t \in SensorThreads, Signal(t)
  PROVE  Orderly'
<1>1. /\ spc = "signal" /\ t \in todo /\ todo' = todo \ {t}
      /\ spc' = (IF phase = 3 THEN "unflag" ELSE "load")
      /\ UNCHANGED <<phase, curScen, newScen, job, cnt, scen, destroyed>>
  BY DEF Signal, counter
<1>2. Changing /\ Changing' /\ Changing' = Changing /\ \A u : ~Flagged(u)
  BY <1>1 DEF Changing, Flagged
<1>3. \A u \in SensorThreads : u # t => Alone(u) /\ (u \in todo' <=> u \in todo)
  BY <1>1, Signalled
<1>4. Barrier'
  <2>1. InPlace(t)'
    BY Signalled, PlaceIntro
  <2> QED BY <1>1, <1>2, <1>3, <2>1, PlaceStays DEF Orderly, Barrier
<1>5. Counted'
  <2>1. \A u \in SensorThreads : u # t => (Owes(u)' <=> Owes(u))
    BY <1>1, <1>2, <1>3, OwesStays DEF Alone
  <2>2. Owing' = Owing \cup {t} /\ t \notin Owing
    BY <2>1, Signalled DEF Owing
  <2>3. IsFiniteSet(Owing) /\ Cardinality(Owing) \in Nat
    BY ThreadSets DEF Owing
  <2>4. Cardinality(Owing') = Cardinality(Owing) + 1
    BY <2>2, <2>3, FS_AddElement
  <2>5. cnt = Cardinality(Owing) + 1 /\ cnt' = cnt /\ spc' # "signal"
    BY <1>1 DEF Orderly, Counted
  <2> QED BY <2>3, <2>4, <2>5, SMT DEF Counted
<1>6. Control'
  <2>1. phase = 3 => loaded' = t
    BY DEF Signal
  <2> QED BY <1>1, <1>2, <2>1 DEF Control
<1>7. announced' = announced \/ (phase = 2 /\ announced' = [announced EXCEPT ![t] = Key(newScen, job = "old")])
  BY DEF Signal, Announce, Tell, Release
<1>8. phase = 2 => announced'[t] = Key(newScen, job = "old")
  <2>1. phase = 2 => announced' = [announced EXCEPT ![t] = Key(newScen, job = "old")]
    BY SMT DEF Signal, Announce, Tell, Release
  <2> QED BY <2>1 DEF Types, KeyTypes
<1>9. \A u \in SensorThreads : u # t => announced'[u] = announced[u]
  BY <1>7 DEF Types, KeyTypes
<1>10. phase = 3 => announced' = announced
  BY <1>7, SMT
<1>11. Announced'
  <2>1. Key(newScen', job' = "old") = Key(newScen, job = "old")
    BY <1>1
  <2> SUFFICES ASSUME NEW u \in SensorThreads, (phase = 2 /\ u \notin todo') \/ phase = 3
               PROVE  announced'[u] = Key(newScen, job = "old")
    BY <1>1, <2>1, Zenon DEF Announced
  <2>2. CASE phase = 3
    BY <1>10, <2>2 DEF Orderly, Announced
  <2>3. CASE phase = 2 /\ u \notin todo'
    BY <1>3, <1>8, <1>9, <2>3 DEF Orderly, Announced
  <2> QED BY <2>2, <2>3
<1>12. Adopted'
  <2>1. phase = 2 => pc'[t] \notin Past
    BY Signalled DEF Past
  <2>2. \A u \in SensorThreads : phase = 2 /\ pc'[u] \in Past => scen[u] = announced'[u]
    BY <1>3, <1>9, <2>1 DEF Alone, Orderly, Adopted, Past
  <2>3. \A u \in SensorThreads : phase = 3 => scen[u] = announced'[u]
    BY <1>10 DEF Orderly, Adopted
  <2> QED BY <1>1, <1>2, <2>2, <2>3 DEF Adopted, Past
<1>13. Lineage'
  <2>1. CASE phase = 2 /\ job = "old" /\ t = Owner
    <3>1. generation' = [plain |-> Nothing, old |-> generation.plain]
      BY <2>1, SMT DEF Signal, Announce, Tell, Release
    <3>2. ~Renamed /\ Renamed'
      BY <1>1, <2>1, SMT DEF Renamed
    <3>3. Alive(generation.plain)
      BY <2>1, <3>2 DEF Orderly, Lineage
    <3>4. generation'.plain = Nothing /\ generation'.old = generation.plain
      BY <3>1
    <3> QED BY <1>1, <2>1, <3>2, <3>3, <3>4 DEF Lineage, Alive
  <2>2. CASE ~(phase = 2 /\ job = "old" /\ t = Owner)
    <3>1. generation' = generation
      BY <2>2 DEF Signal, Announce, Tell, Release
    <3>2. Renamed' <=> Renamed
      BY <1>1, <2>2 DEF Renamed
    <3> QED BY <1>1, <3>1, <3>2 DEF Orderly, Lineage, Alive
  <2> QED BY <2>1, <2>2
<1> QED BY <1>4, <1>5, <1>6, <1>11, <1>12, <1>13 DEF Orderly

-----------------------------------------------------------------------------
\* The invariant holds at the start, and is kept.
LEMMA InitIInv == Init => IInv
<1> SUFFICES ASSUME Init PROVE IInv
  OBVIOUS
<1>1. ~Changing /\ phase = 1 /\ todo = {} /\ phase # 2 /\ phase # 3
  BY SMT DEF Init, Changing
<1>2. Control
  BY <1>1 DEF Init, Control
<1>3. Barrier
  BY <1>1 DEF Init, Barrier, InPlace, Resting
<1>4. Counted
  <2>1. Owing = {} /\ cnt = 0 /\ spc # "signal"
    BY <1>1 DEF Init, Owing, Owes
  <2> QED BY <2>1, FS_EmptySet, SMT DEF Counted
<1>5. Announced
  BY <1>1 DEF Announced
<1>6. Adopted
  <2>1. (spc = "parse") = FALSE
    BY DEF Init
  <2>2. \A t \in SensorThreads : scen[t] = Key(curScen, spc = "parse")
    BY <2>1, Zenon DEF Init
  <2> QED BY <1>1, <2>2 DEF Adopted
<1>7. Lineage
  BY SMT DEF Init, Lineage, Alive, Renamed, Generations
<1> QED BY TypesInit, <1>2, <1>3, <1>4, <1>5, <1>6, <1>7 DEF IInv, Orderly

LEMMA NextIInv == IInv /\ [Next]_vars => IInv'
<1> SUFFICES ASSUME IInv, [Next]_vars PROVE IInv'
  OBVIOUS
<1>1. CASE UNCHANGED vars
  <2>1. UNCHANGED <<scenarioThread, counter, sensorThreads, generation, destroyed, slips>>
    BY <1>1 DEF vars, algorithms
  <2>2. Types'
    BY <1>1
    DEF vars, scenarioThread, counter, sensorThreads, algorithms, IInv, Types, ScenarioTypes,
        CounterTypes, FlagTypes, KeyTypes, AlgoTypes
  <2> QED BY <2>1, <2>2, OrderlyStays DEF IInv
<1>2. CASE Next
  <2>1. Types /\ Orderly
    BY <1>2 DEF Next, IInv
  <2>2. Types'
    BY <1>2, <2>1, TypesStep
  <2> SUFFICES ASSUME slips' = {} PROVE Orderly'
    BY <2>2 DEF IInv
  <2>3. ASSUME NEW t \in SensorThreads, SensorStep(t) PROVE Orderly'
    <3>1. CASE Traverse(t)
      BY <2>1, <3>1, OrderlyStays DEF Traverse
    <3> QED BY <2>1, <2>3, <3>1, OrderlyMoves, OrderlyStore DEF SensorStep
  <2>4. ASSUME NEW a \in Algos, AlgoStep(a) PROVE Orderly'
    BY <2>1, <2>4, OrderlyStays DEF AlgoStep, DecisionBegins, DecisionEnds
  <2>5. CASE ScenarioStep
    BY <2>1, <2>5, OrderlyPolls, OrderlyBegins, OrderlyCounting, OrderlySignal, OrderlyUnflag,
       OrderlyNextPhase, OrderlyDone, OrderlyDestroy
    DEF ScenarioStep
  <2> QED BY <1>2, <2>3, <2>4, <2>5 DEF Next
<1> QED BY <1>1, <1>2

\* The invariant holds in every behaviour.
THEOREM Invariance == Spec => []IInv
BY InitIInv, NextIInv, PTL DEF Spec

\* The variables keep their types, and until a race is lost sensorThreadsWaitCnt is never
\* negative and never above the number of sensor threads.
THEOREM TypeCorrect == Spec => []TypeOK
<1>1. ASSUME Types, Orderly PROVE cnt \in 0..Cardinality(SensorThreads)
  <2>1. Cardinality(Owing) \in Nat /\ Cardinality(Owing) <= Cardinality(SensorThreads)
        /\ Cardinality(SensorThreads) \in Nat
    BY ThreadSets DEF Owing
  <2>2. CASE spc # "signal"
    BY <1>1, <2>1, <2>2, SMT DEF Orderly, Counted
  <2>3. CASE spc = "signal"
    <3>1. PICK t \in todo : t \in SensorThreads
      BY <1>1, <2>3 DEF Orderly, Control, Types, ScenarioTypes
    <3>2. t \notin Owing
      BY <3>1 DEF Owing, Owes
    <3>3. Owing \cup {t} \in SUBSET SensorThreads
      BY <3>1 DEF Owing
    <3>4. Cardinality(Owing \cup {t}) = Cardinality(Owing) + 1
      BY <3>2, FS_AddElement, ThreadSets DEF Owing
    <3>5. Cardinality(Owing) + 1 <= Cardinality(SensorThreads)
      BY <3>3, <3>4, ThreadSets
    <3>6. cnt = Cardinality(Owing) + 1
      BY <1>1, <2>3 DEF Orderly, Counted
    <3> QED BY <2>1, <3>5, <3>6, SMT
  <2> QED BY <2>2, <2>3
<1>2. IInv => TypeOK
  <2> SUFFICES ASSUME IInv PROVE TypeOK
    OBVIOUS
  <2>1. slips = {} => cnt \in 0..Cardinality(SensorThreads)
    BY <1>1 DEF IInv
  <2>2. newScen \in Scenarios
    BY DEF IInv, Types, ScenarioTypes
  <2> QED BY <2>1, <2>2, Zenon
      DEF IInv, Types, ScenarioTypes, CounterTypes, FlagTypes, KeyTypes, AlgoTypes, TypeOK
<1> QED BY <1>2, Invariance, PTL

\* Until a race is lost no sensor thread runs ahead of another: when one has adopted the new
\* scenario none works on the old one any more; a finished change has reached them all; and no
\* thread meets an algorithm that was destroyed.
THEOREM SwitchesTogether == Spec => []SwitchTogether
<1>1. ASSUME Types, Orderly, NEW t \in SensorThreads, NEW u \in SensorThreads,
             pc[t] \in {"loop", "load0", "store0"}, pc[u] \in AdoptedPlaces
      PROVE  scen[t] = scen[u]
  <2>1. AtTold(u) \/ AtHeld(u) \/ AtFreed(u)
    BY <1>1, PlaceCases DEF AtRest, AtStopping, AtStopped, Resting, Stopping, Stopped, AdoptedPlaces
  <2>2. CASE phase = 2
    <3>1. InPlace(t)
      BY <1>1 DEF Orderly, Barrier
    <3> QED BY <1>1, <2>2, <3>1 DEF InPlace, Stopped, Told
  <2>3. CASE phase = 3
    BY <1>1, <2>3 DEF Orderly, Announced, Adopted
  <2> QED BY <2>1, <2>2, <2>3 DEF AtTold, AtHeld, AtFreed
<1>2. ASSUME Types, Orderly, spc \in {"scenario", "conf"}, NEW t \in SensorThreads
      PROVE  pc[t] = "loop" /\ scen[t] = Key(curScen, FALSE)
  <2>1. ~Changing /\ (spc = "parse") = FALSE
    BY <1>2 DEF Changing
  <2>2. pc[t] = "loop"
    BY <1>2, <2>1 DEF Orderly, Barrier, InPlace, Resting
  <2>3. scen[t] = Key(curScen, spc = "parse")
    BY <1>2, <2>1 DEF Orderly, Adopted
  <2>4. scen[t] = Key(curScen, FALSE)
    BY <2>1, <2>3, Zenon
  <2> QED BY <2>2, <2>4
<1>3. ASSUME Types, Orderly, NEW k PROVE Items(k) \cap destroyed = {}
  <2>1. Nothing \notin Generations
    BY NothingAssumption DEF Generations
  <2>2. Items(k) \subseteq (IF generation.old = Nothing THEN {} ELSE Followed \X {generation.old})
                           \cup (IF generation.plain = Nothing THEN {} ELSE Followed \X {generation.plain})
    BY DEF Items, Algos
  <2>3. job \in {"scenario", "old", "new"}
    BY <1>3 DEF Types, ScenarioTypes
  <2> QED BY <1>3, <2>1, <2>2, <2>3 DEF Orderly, Lineage, Alive
<1>4. IInv => SwitchTogether
  BY <1>1, <1>2, <1>3 DEF IInv, SwitchTogether
<1> QED BY <1>4, Invariance, PTL

=============================================================================
