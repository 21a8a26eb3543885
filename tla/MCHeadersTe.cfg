CONSTANTS
  Words <- SomeWords
  ColonWords <- PseudoHeader
  Requests <- TeRequests
  PeerLists = {}

SPECIFICATION Spec
CHECK_DEADLOCK FALSE
INVARIANT RequestConforms
