----------------------------- MODULE SettingsMap -----------------------------
(***************************************************************************)
(* What spec.md section 4.1 promises of a Settings value: a map from the   *)
(* setting ids to values, where setting an id overwrites its value and a   *)
(* value outside the id's valid range is refused and leaves the map as it  *)
(* was.  The valid ranges are the table of section 4.1.                    *)
(***************************************************************************)
EXTENDS Integers

CONSTANTS
  IDs,       \* the setting ids
  Values,    \* the 32-bit values a caller may pass
  Missing,   \* the map has no entry for an id
  \* Section 4.1's bounds: 2^31 - 1, 16384 and 16777215.  Setting values are
  \* uint32, past TLC's integers, so a model gives them smaller values in
  \* the same order.
  MaxWindowSize, FrameSizeMin, FrameSizeMax,
  DefaultWindowSize   \* the table's default INITIAL_WINDOW_SIZE, 65535

ASSUME 1 < FrameSizeMin /\ FrameSizeMin < FrameSizeMax /\ FrameSizeMax < MaxWindowSize
       /\ FrameSizeMin <= DefaultWindowSize /\ DefaultWindowSize <= FrameSizeMax

\* Section 4.1's table of valid ranges; ids it does not list take any value.
InRange(id, v) ==
  CASE id = "ENABLE_PUSH"         -> v \in {0, 1}
    [] id = "INITIAL_WINDOW_SIZE" -> v <= MaxWindowSize
    [] id = "MAX_FRAME_SIZE"      -> v \in FrameSizeMin..FrameSizeMax
    [] OTHER                      -> TRUE

\* Section 4.1's defaults, read for an id with no value; the ids whose
\* default the table gives as "unlimited", and ids it does not list, read 0.
\* (HEADER_TABLE_SIZE's 4096 is not among the ids a model gives.)
Default(id) ==
  CASE id = "ENABLE_PUSH"         -> 1
    [] id = "INITIAL_WINDOW_SIZE" -> DefaultWindowSize
    [] id = "MAX_FRAME_SIZE"      -> FrameSizeMin
    [] OTHER                      -> 0

VARIABLES
  m,     \* the map
  ret    \* the last call: a set <<id, value, result>>, result "nil" or
         \* "invalid", or a read <<id, value read, "get">>

Init == m = [id \in IDs |-> Missing] /\ ret = <<>>

Set(id, v) ==
  /\ ret' = <<id, v, IF InRange(id, v) THEN "nil" ELSE "invalid">>
  /\ m' = IF InRange(id, v) THEN [m EXCEPT ![id] = v] ELSE m

\* A read returns the id's value, or its default when it has none.
Get(id) ==
  /\ ret' = <<id, IF m[id] = Missing THEN Default(id) ELSE m[id], "get">>
  /\ m' = m

Next == \E id \in IDs : Get(id) \/ \E v \in Values : Set(id, v)

Spec == Init /\ [][Next]_<<m, ret>>

=============================================================================
