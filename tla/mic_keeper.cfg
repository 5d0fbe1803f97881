SPECIFICATION FairSpec
CONSTANTS
  Captures = {c1, c2}
  Devices = {d1, d2}
  Headsets = {d2}
  None = none
  RingSize = 1
  MaxChunks = 3
  MaxOpens = 2
  MaxErrors = 1
  MaxConfigs = 1
CHECK_DEADLOCK FALSE
INVARIANTS
  TapServesCapture
  RecordingIsContiguous
PROPERTIES
  MicIsReleased
