----------------------------- MODULE StreamAtomic -----------------------------
(***************************************************************************)
(* What the stream state machine promises (spec 4.3, 5 "state transitions  *)
(* are linearizable"): every frame sent or received, and every close,      *)
(* changes a stream's state in one atomic step by the transition table,    *)
(* and a RST_STREAM that closes a stream records, in the same step, which  *)
(* side reset it.  Module Stream is checked to implement this.             *)
(***************************************************************************)
EXTENDS StreamTable

CONSTANTS Streams

VARIABLES state, resetSent, resetReceived

vars == <<state, resetSent, resetReceived>>

Init ==
  /\ state = [s \in Streams |-> Idle]
  /\ resetSent = [s \in Streams |-> FALSE]
  /\ resetReceived = [s \in Streams |-> FALSE]

\* A frame in direction dir takes stream sid by the table.
Apply(dir, sid, f) ==
  LET t == Transition(dir, state[sid], f.ft, f.es)
      rst == t.to = Closed /\ f.ft = "RST_STREAM"
  IN /\ t.ok
     /\ state' = [state EXCEPT ![sid] = t.to]
     /\ resetReceived' = [resetReceived EXCEPT ![sid] = @ \/ (rst /\ dir = recv)]
     /\ resetSent' = [resetSent EXCEPT ![sid] = @ \/ (rst /\ dir = send)]

CloseStream(sid) ==
  /\ state' = [state EXCEPT ![sid] = Closed]
  /\ UNCHANGED <<resetSent, resetReceived>>

Next ==
  \/ \E d \in {recv, send}, sid \in Streams, f \in Frames : Apply(d, sid, f)
  \/ \E sid \in Streams : CloseStream(sid)

Spec == Init /\ [][Next]_vars

=============================================================================
