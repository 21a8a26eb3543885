CONSTANTS
  p1 = p1
  p2 = p2
  Streams <- TwoStreams
  Producers <- TwoProducers
  StreamOf <- OnTwoStreams
  Want = 2
  InitialWindow = 1
  MaxWindow = 6
  Increments = {2}
  WindowSettings = {0, 2}
  MaxUpdates = 1
  MaxSettings = 1
SPECIFICATION Spec
CHECK_DEADLOCK FALSE
INVARIANT TypeOK
INVARIANT CreditConserved
PROPERTY CancelReleasesProducers
