CONSTANTS
  MergeStatus = {"NONE", "MERGING"}
  MergeNone = "NONE"
  MaxTries = 7
  MaxFds = 1
  Asked = {1}
SPECIFICATION Spec
INVARIANTS TypeOK SlotsBootable MemoryAgrees AnswersTrue
PROPERTIES OnlyFailuresLeak ImplementsStore
