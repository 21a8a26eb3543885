------------------------------- MODULE MCStream -------------------------------
EXTENDS Stream, TLC

CONSTANTS r, w1, w2

\* One peer-initiated stream (odd) and one of this server's own (even).
BothSides == {1, 2}
\* A single peer-initiated stream.
OneStream == {1}

OneWriter == {w1}
TwoWriters == {w1, w2}

\* The writers are interchangeable goroutines.
WriterSymmetry == Permutations(TwoWriters)

=============================================================================
