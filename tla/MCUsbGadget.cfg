CONSTANTS
  Functions = {"mtp", "rndis", "adb"}
  MaxEvents = 1
  CallsReset = TRUE
SPECIFICATION FairSpec
INVARIANTS TypeOK NoneIsOff SuccessMeansBound MonitorAwake
PROPERTIES RequestEnds
