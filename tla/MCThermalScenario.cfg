CONSTANTS
  SensorThreads = {t1, t2}
  Owner = t1
  Scenarios = {"Default", "Game"}
  Followed = {"Default"}
  Nothing = Nothing
SPECIFICATION FairSpec
INVARIANTS TypeOK SwitchTogether
PROPERTIES ChangeEnds
CHECK_DEADLOCK FALSE
