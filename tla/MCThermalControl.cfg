SPECIFICATION FairSpec
CONSTANTS
  SS <- MCSS
  Monitors <- MCMonitors
  Devices <- MCDevices
  Threads <- MCThreads
  AlgoItems <- MCAlgoItems
  Temps <- MCTemps
  Unit = 2
  NoAlgo = NoAlgo
  MaxStatus = 2
INVARIANTS
  TypeOK
  DeviceFollowsRequests
  LimitIsKept
  InactiveReleases
  MonitorBand
  SSNeverBehind
  CountsActive
PROPERTY Recovers
CHECK_DEADLOCK TRUE
