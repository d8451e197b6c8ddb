SPECIFICATION Spec
CONSTANTS
  SS <- MCSS
  Monitors <- MCMonitors
  Devices <- MCDevices
  Threads <- MCThreads
  AlgoItems <- MCAlgoItems
  Temps <- MCTempsNearTrigger
  Unit = 2
  NoAlgo = NoAlgo
  MaxStatus = 2
INVARIANT StatusZeroMildest
