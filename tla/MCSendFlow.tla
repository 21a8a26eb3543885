------------------------------ MODULE MCSendFlow ------------------------------
EXTENDS SendFlow, TLC

CONSTANTS p1, p2

\* Two producers contending for the connection credit, on two streams.
TwoStreams == {1, 3}
TwoProducers == {p1, p2}
OnTwoStreams == (p1 :> 1) @@ (p2 :> 3)

\* Two producers on one stream: they contend for its channel too.
OneStream == {1}
OnOneStream == (p1 :> 1) @@ (p2 :> 1)
=============================================================================
