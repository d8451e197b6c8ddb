-------------------------- MODULE MCThermalScenario --------------------------
(***************************************************************************)
(* ThermalScenario for TLC: two sensor threads, so that one may run ahead  *)
(* of the other, and two scenarios, one of which a new configuration may   *)
(* lack.                                                                   *)
(***************************************************************************)
EXTENDS ThermalScenario
=============================================================================
