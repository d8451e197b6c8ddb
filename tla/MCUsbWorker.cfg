CONSTANTS
  Callbacks = {cb1, cb2}
  NULL = NULL
  Threads = {w1, w2, w3}
SPECIFICATION BusyPortSpec
INVARIANTS TypeOK OneWorker NotBornDead
PROPERTIES SetCallbackEnds
