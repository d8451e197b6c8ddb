CONSTANTS
  Framework = {f1}
  Audio = {a1}
  Worlds <- MCWorlds
  Capture = {"hotword"}
  MaxEvents = 1
  NoOne = NoOne
SPECIFICATION Spec
INVARIANTS TypeOK RightMic SilentInCall PcmKept
PROPERTY QuietAfterStop
CHECK_DEADLOCK FALSE
