------------------------------- MODULE Settings -------------------------------
(***************************************************************************)
(* The Settings store of util.go: a slice of setting{ID, Value} entries.   *)
(* SetValue validates the value for its id, then overwrites the entry with *)
(* that id in place or appends a new one; value returns the first entry    *)
(* with the id.  The typed setters (SetHeaderTableSize, SetPushEnabled,    *)
(* ...) all go through SetValue.  The module is shown to implement         *)
(* SettingsMap, the map section 4.1 of spec.md describes.                  *)
(***************************************************************************)
EXTENDS Integers, FiniteSets, SequencesExt

CONSTANTS
  IDs,            \* setting ids: standard ones and an id the code does not know
  Values,         \* uint32 values a caller passes
  Missing,        \* no entry
  MaxWindowSize,  \* maxInitialWindowSize
  FrameSizeMin,   \* maxFrameSizeLowerBound
  FrameSizeMax,   \* maxFrameSizeUpperBound
  DefaultWindowSize \* defaultInitialWindowSize

EnablePush        == "ENABLE_PUSH"
InitialWindowSize == "INITIAL_WINDOW_SIZE"
MaxFrameSize      == "MAX_FRAME_SIZE"

VARIABLES
  s,     \* the Settings slice
  ret    \* the last SetValue call and the error it returned:
         \* <<id, value, "nil" or "invalid">>, or the last read
         \* <<id, value, "get">>

vars == <<s, ret>>

Setting == [ID : IDs, Value : Values]

TypeOK ==
  /\ s \in Seq(Setting)
  /\ Len(s) <= Cardinality(IDs)
  /\ ret \in {<<>>} \cup (IDs \X Nat \X {"nil", "invalid", "get"})

Init == s = <<>> /\ ret = <<>>

\* Settings.value: the value of the first entry with the id, and whether
\* there is one.
value(id) ==
  LET i == SelectInSeq(s, LAMBDA x : x.ID = id)
  IN  IF i = 0 THEN <<0, FALSE>> ELSE <<s[i].Value, TRUE>>

\* Settings.Value: the stored value, else the id's default
\* (defaultMaxFrameSize is maxFrameSizeLowerBound; MAX_HEADER_LIST_SIZE,
\* and ids the switch does not name, read 0).
Value(id) ==
  IF value(id)[2] THEN value(id)[1]
  ELSE CASE id = EnablePush        -> 1
         [] id = InitialWindowSize -> DefaultWindowSize
         [] id = MaxFrameSize      -> FrameSizeMin
         [] OTHER                  -> 0

\* The typed getters HeaderTableSize ... MaxHeaderListSize return Value of
\* their id; PushEnabled returns Value(SETTINGS_ENABLE_PUSH) != 0.
Get(id) ==
  /\ ret' = <<id, IF id = EnablePush THEN IF Value(id) # 0 THEN 1 ELSE 0
                                  ELSE Value(id), "get">>
  /\ UNCHANGED s

\* Mutant: the window-size bound is checked with < instead of <=.
ValidStrict(id, v) ==
  CASE id = EnablePush        -> v < 2
    [] id = InitialWindowSize -> v < MaxWindowSize
    [] id = MaxFrameSize      -> FrameSizeMin <= v /\ v <= FrameSizeMax
    [] OTHER                  -> TRUE

\* The switch at the top of SetValue; ids it does not name stay ok.
Valid(id, v) ==
  CASE id = EnablePush        -> v < 2
    [] id = InitialWindowSize -> v <= MaxWindowSize
    [] id = MaxFrameSize      -> FrameSizeMin <= v /\ v <= FrameSizeMax
    [] OTHER                  -> TRUE

\* Mutant: the search for an entry with the id is dropped; every set appends.
SetValueAppend(id, v) ==
  IF ~Valid(id, v)
    THEN ret' = <<id, v, "invalid">> /\ UNCHANGED s
    ELSE s' = Append(s, [ID |-> id, Value |-> v]) /\ ret' = <<id, v, "nil">>

\* Settings.SetValue: refuse an invalid value; else overwrite the entry
\* with the id, or append one.  (A nil slice is first made with capacity
\* for the six standard settings; its contents are the same empty slice.)
SetValue(id, v) ==
  IF ~Valid(id, v)
    THEN ret' = <<id, v, "invalid">> /\ UNCHANGED s
    ELSE LET i == SelectInSeq(s, LAMBDA x : x.ID = id)
         IN  /\ s' = IF i # 0 THEN [s EXCEPT ![i].Value = v]
                              ELSE Append(s, [ID |-> id, Value |-> v])
             /\ ret' = <<id, v, "nil">>

\* SetPushEnabled stores 1 or 0.
SetPushEnabled(enabled) == SetValue(EnablePush, IF enabled THEN 1 ELSE 0)

\* The typed setters SetHeaderTableSize ... SetMaxHeaderListSize each call
\* SetValue with their id.
Next ==
  \/ \E id \in IDs : Get(id)
  \/ \E id \in IDs, v \in Values : SetValue(id, v)
  \/ \E enabled \in BOOLEAN : SetPushEnabled(enabled)

Spec == Init /\ [][Next]_vars

-----------------------------------------------------------------------------
(* The map the slice represents: what value returns for each id.           *)

Map == INSTANCE SettingsMap
         WITH m <- [id \in IDs |-> IF value(id)[2] THEN value(id)[1] ELSE Missing]

\* Every sequence of SetValue calls, the typed setters included, behaves as
\* section 4.1's map: a valid value overwrites the id's value, so value reads
\* the last one set, and a value outside the table's range is refused with
\* an error and changes nothing.  This checks SetValue's range switch against
\* the table and its update-in-place loop against value's first-match read.
SettingsRefinesMap == Map!Spec

=============================================================================
