------------------------------ MODULE MCSettings ------------------------------
EXTENDS Settings

CONSTANTS Unknown

\* The three ids whose values SetValue checks, and an id it does not check
\* (HEADER_TABLE_SIZE, MAX_CONCURRENT_STREAMS and MAX_HEADER_LIST_SIZE go
\* down the same path as an id the code does not know).
SomeIDs == {EnablePush, InitialWindowSize, MaxFrameSize, Unknown}

\* Each bound's edge value and a value past it, scaled in order:
\* 3 = 16384, 5 = 16777215, 7 = 2^31 - 1, 8 = 2^31 (4 = 65535, the
\* default window, is never set, so a read of it is a read of the default).
SomeValues == {0, 1, 3, 5, 7, 8}

=============================================================================
