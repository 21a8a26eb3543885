CONSTANTS
  p1 = p1
  p2 = p2
  Streams <- TwoStreams
  Producers <- TwoProducers
  StreamOf <- OnTwoStreams
  Want = 2
  InitialWindow = 2
  MaxWindow = 6
  Increments = {1}
  WindowSettings = {0, 2}
  MaxUpdates = 2
  MaxSettings = 1
SPECIFICATION Spec
CHECK_DEADLOCK FALSE
PROPERTY WaitingProducerServed
