CONSTANTS
  PcmStreams = {fast}
  OwnDma = {}
  AuxStreams = {}
  Offload = offload
  MaxMessages = 1
  Nobody = Nobody
SPECIFICATION Spec
INVARIANTS StatusTrue
