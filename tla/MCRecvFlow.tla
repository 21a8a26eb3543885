------------------------------ MODULE MCRecvFlow ------------------------------
EXTENDS RecvFlow

\* One stream, or two sharing the connection window.
OneStream == {1}
TwoStreams == {1, 3}
=============================================================================
