CONSTANTS
  Words <- SomeWords
  ColonWords <- PseudoHeader
  Requests <- SomeRequests
  PeerLists <- SomePeerLists

SPECIFICATION Spec
\* A conversion ends: requestToHeader returns and the decoder stops.
CHECK_DEADLOCK FALSE
INVARIANT TypeOK
INVARIANT PseudoHeadersExact
INVARIANT DecoderReadsBack
INVARIANT ContainsValueOK
INVARIANT DecoderAcceptsConforming
INVARIANT ServerReadsRequest
