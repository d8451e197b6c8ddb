CONSTANTS
  c1 = c1
  c2 = c2
  Clients = {c1, c2}
  Nobody = Nobody
  Worker = Worker
  MaxUevents = 1
  MaxSpurious = 1
SPECIFICATION FairSpec
INVARIANTS TypeOK NoLostSignal FailedSwitchRestores ReportsCurrent
PROPERTIES NobodyInterferes SwitchEnds
