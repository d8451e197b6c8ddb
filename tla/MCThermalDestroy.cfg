CONSTANTS
  SensorThreads = {t1}
  Owner = t1
  Scenarios = {"Default"}
  Followed = {"Default"}
  Nothing = Nothing
SPECIFICATION Spec
INVARIANT DestroyUnused
CHECK_DEADLOCK FALSE
