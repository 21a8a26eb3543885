CONSTANTS
  p1 = p1
  p2 = p2
  Streams <- TwoStreams
  Producers <- TwoProducers
  StreamOf <- OnTwoStreams
  Want = 2
  InitialWindow = 1
  MaxWindow = 3
  Increments = {1, 2}
  WindowSettings = {0, 2}
  MaxUpdates = 2
  MaxSettings = 1
SPECIFICATION Spec
CHECK_DEADLOCK FALSE
INVARIANT WindowWithinMax
