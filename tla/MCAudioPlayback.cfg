CONSTANTS
  PcmStreams = {fast}
  OwnDma = {}
  AuxStreams = {fast}
  Offload = offload
  MaxMessages = 1
  Nobody = Nobody
SPECIFICATION FairSpec
INVARIANTS TypeOK RoutedWhileOpen
PROPERTIES Answers
