CONSTANTS
  Streams <- OneStream
  DefaultWindow = 4
  MaxWindow = 12
  LocalWindows = {1, 6}
  DataSizes = {1, 2}
  MaxData = 4
  MaxSettings = 2
SPECIFICATION Spec
CHECK_DEADLOCK FALSE
INVARIANT PeerNotStalled
