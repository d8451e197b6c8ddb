CONSTANTS
  Framework = {f1}
  Audio = {a1}
  Worlds <- MCSoundOnly
  Capture = {"hotword"}
  MaxEvents = 1
  NoOne = NoOne
SPECIFICATION Spec
INVARIANT NoCircularWait
CHECK_DEADLOCK FALSE
