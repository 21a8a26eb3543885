CONSTANTS
  r = r
  w1 = w1
  w2 = w2
  Streams <- OneStream
  Server = TRUE
  Reader = r
  Writers <- OneWriter

SPECIFICATION Spec
PROPERTY TransitionCompletes
