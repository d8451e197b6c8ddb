-------------------------- MODULE MCThermalControl --------------------------
(***************************************************************************)
(* A configuration like the one shipped in exynos-thermal.conf, with two   *)
(* readings to the degree: two SS algorithms on one device in one thread,  *)
(* and a monitor in another thread whose statuses use different devices.   *)
(***************************************************************************)
EXTENDS ThermalControl

MCSS == [
  freq1 |-> [device |-> "cpu", triggerPoint |-> 8, clearPoint |-> 6,
             devicePerfFloor |-> 1, startLevel |-> 0, timeTickTrigger |-> 2],
  freq2 |-> [device |-> "cpu", triggerPoint |-> 9, clearPoint |-> 7,
             devicePerfFloor |-> 2, startLevel |-> 2, timeTickTrigger |-> 0]]

MCMonitors == [
  hotplug |-> [thresholds |-> <<7, 11>>, clrThresholds |-> <<6, 8>>,
               actions |-> <<[gpu |-> 1], [cpu |-> 2]>>]]

MCDevices == [cpu |-> 3, gpu |-> 2]

MCThreads == [ss |-> <<"freq1", "freq2">>, monitor |-> <<"hotplug">>]

MCAlgoItems == <<"freq1", "freq2", "hotplug">>

MCTemps == {5, 7, 11}

\* At the hottest of these an SS algorithm is in status 1.
MCTempsNearTrigger == {5, 7, 9}

=============================================================================
