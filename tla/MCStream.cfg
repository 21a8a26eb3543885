CONSTANTS
  r = r
  w1 = w1
  w2 = w2
  Streams <- BothSides
  Server = TRUE
  Reader = r
  Writers <- OneWriter

SPECIFICATION Spec
INVARIANT TypeOK
INVARIANT NumStreamsAccurate
INVARIANT AtMostOneReset
PROPERTY Linearizable
