-------------------------------- MODULE Stream --------------------------------
(***************************************************************************)
(* The stream state machine of part_000 as it runs: one reader goroutine   *)
(* applying received frames and several writer goroutines applying sent    *)
(* frames and s.close(), all on the same streams.  Each goroutine runs the *)
(* compare-and-swap loop of stream.transition step by step:                *)
(*   load    atomic.LoadInt32(&s.state)                                    *)
(*   decide  dir.transition, then either the error branch (which reads     *)
(*           s.resetReceived, s.resetSent and s.closed) or the CAS         *)
(*   effects the rest of compareAndSwapState after a successful CAS:       *)
(*           stream counters, s.closed = time.Now(), cancel and remove     *)
(*   flag    s.resetReceived / s.resetSent = true back in transition       *)
(* The plain fields s.closed, s.resetSent and s.resetReceived are written  *)
(* after the CAS without synchronisation, so another goroutine can see the *)
(* new state with the old field values.                                    *)
(***************************************************************************)
EXTENDS Integers, FiniteSetsExt, StreamTable

CONSTANTS
  Streams,   \* stream ids (positive integers) the model uses
  Server,    \* TRUE: this endpoint is the server and owns even ids
  Reader,    \* the connection's reader goroutine
  Writers    \* goroutines that send frames or call s.close()

ASSUME /\ Streams \subseteq Nat \ {0}
       /\ Server \in BOOLEAN
       /\ Reader \notin Writers

VARIABLES
  state,          \* s.state
  resetSent,      \* s.resetSent
  resetReceived,  \* s.resetReceived
  closed,         \* s.closed: "zero" (never set), "recent" (<= 5s), "expired"
  numStreams,     \* conn.numStreams ("local") and conn.remote.numStreams ("remote");
                  \* uint32 in the code: a value -k here is 2^32 - k there
  task,           \* each goroutine's place in the CAS loop and its locals
  since           \* time since a frame's CAS closed the stream (history)

vars == <<state, resetSent, resetReceived, closed, numStreams, task, since>>

Procs == {Reader} \cup Writers

Dir(p) == IF p = Reader THEN recv ELSE send

Side(id) == IF LocalStreamID(Server, id) THEN "local" ELSE "remote"

Sides == {"local", "remote"}

Ages == {"zero", "recent", "expired"}

\* A goroutine's locals: pc, the frame (or "close") it applies to stream
\* sid, the state it loaded (from) and the state its CAS wrote (to).
Tasks == [pc : {"idle", "load", "decide", "effects", "flag", "stopped"},
          sid : Streams, ft : FrameTypes \cup {"close"}, es : BOOLEAN,
          from : States, to : States]

NoTask == [pc |-> "idle", sid |-> Min(Streams), ft |-> "close", es |-> FALSE,
           from |-> Idle, to |-> Idle]

\* Mutation: decrement on every CAS into Closed, Closed -> Closed included.
CountDeltaAnyClose(f, t) ==
  IF t \in ActiveStates /\ f \in {Idle, ReservedLocal, ReservedRemote} THEN 1
  ELSE IF t = Closed THEN -1
  ELSE 0

\* Mutation: HalfClosedLocal forgotten in the decrement case list.
CountDeltaNoHCL(f, t) ==
  IF t \in ActiveStates /\ f \in {Idle, ReservedLocal, ReservedRemote} THEN 1
  ELSE IF t = Closed /\ f \in {Open, HalfClosedRemote} THEN -1
  ELSE 0

\* The counter change compareAndSwapState makes for a CAS from -> to.
CountDelta(f, t) ==
  IF t \in ActiveStates /\ f \in {Idle, ReservedLocal, ReservedRemote} THEN 1
  ELSE IF t = Closed /\ f \in ActiveStates THEN -1
  ELSE 0

\* Only the peer opens or promises a peer-initiated stream, and only this
\* endpoint opens or promises one of its own (the connection's dispatch).
Creates(p, sid, f) ==
  state[sid] = Idle /\ f.ft \in {"HEADERS", "PUSH_PROMISE"} =>
    (LocalStreamID(Server, sid) <=> Dir(p) = send)

TypeOK ==
  /\ state \in [Streams -> States]
  /\ resetSent \in [Streams -> BOOLEAN]
  /\ resetReceived \in [Streams -> BOOLEAN]
  /\ closed \in [Streams -> Ages]
  /\ since \in [Streams -> {"open", "recent", "expired"}]
  /\ numStreams \in [Sides -> -Cardinality(Procs)..Cardinality(Streams)]
  /\ task \in [Procs -> Tasks]

Init ==
  /\ state = [s \in Streams |-> Idle]
  /\ resetSent = [s \in Streams |-> FALSE]
  /\ resetReceived = [s \in Streams |-> FALSE]
  /\ closed = [s \in Streams |-> "zero"]
  /\ since = [s \in Streams |-> "open"]
  /\ numStreams = [d \in Sides |-> 0]
  /\ task = [p \in Procs |-> NoTask]

-----------------------------------------------------------------------------
(* stream.transition, first iteration: take a frame and load the state.    *)
Begin(p, sid, f) ==
  /\ task[p].pc = "idle"
  /\ Creates(p, sid, f)
  /\ task' = [task EXCEPT ![p] = [@ EXCEPT !.pc = "decide", !.sid = sid,
                                    !.ft = f.ft, !.es = f.es, !.from = state[sid]]]
  /\ UNCHANGED <<state, resetSent, resetReceived, closed, numStreams, since>>

(* s.close(), called by a writer: a CAS loop into Closed with no table.    *)
BeginClose(p, sid) ==
  /\ task[p].pc = "idle"
  /\ task' = [task EXCEPT ![p] = [@ EXCEPT !.pc = "decide", !.sid = sid,
                                    !.ft = "close", !.from = state[sid]]]
  /\ UNCHANGED <<state, resetSent, resetReceived, closed, numStreams, since>>

\* Mutation: the loop retries with the state it loaded first.
LoadStale(p) ==
  /\ task[p].pc = "load"
  /\ task' = [task EXCEPT ![p] = [@ EXCEPT !.pc = "decide"]]
  /\ UNCHANGED <<state, resetSent, resetReceived, closed, numStreams, since>>

(* Top of the loop again after a failed CAS.                               *)
Load(p) ==
  /\ task[p].pc = "load"
  /\ task' = [task EXCEPT ![p] = [@ EXCEPT !.pc = "decide", !.from = state[task[p].sid]]]
  /\ UNCHANGED <<state, resetSent, resetReceived, closed, numStreams, since>>

\* The state a goroutine's CAS would write, and whether the table allows it.
Target(p) ==
  IF task[p].ft = "close" THEN [ok |-> TRUE, to |-> Closed]
  ELSE Transition(Dir(p), task[p].from, task[p].ft, task[p].es)

\* The outcome of the error branch, from the fields as they are now.
Verdict(p) ==
  LET t == task[p]
  IN  IF Dir(p) = recv
        THEN RecvError(t.from, t.ft, resetReceived[t.sid], resetSent[t.sid],
                       closed[t.sid] = "recent")
        ELSE SendError(t.from, t.ft)

(* The table refuses the frame: the error branch of stream.transition.     *)
(* A connection error ends the reader (the connection is torn down).       *)
Refuse(p) ==
  /\ task[p].pc = "decide"
  /\ ~Target(p).ok
  /\ task' = [task EXCEPT ![p] =
                IF Verdict(p) \in {ConnErrClosed, ConnErrProtocol}
                  THEN [NoTask EXCEPT !.pc = "stopped"] ELSE NoTask]
  /\ UNCHANGED <<state, resetSent, resetReceived, closed, numStreams, since>>

\* Mutation: a plain store of the computed state instead of a CAS.
StoreState(p) ==
  LET sid == task[p].sid
      t == Target(p).to
  IN /\ task[p].pc = "decide"
     /\ Target(p).ok
     /\ state' = [state EXCEPT ![sid] = t]
     /\ task' = [task EXCEPT ![p] = [@ EXCEPT !.pc = "effects", !.to = t]]
     /\ since' = IF t = Closed /\ task[p].from # Closed /\ task[p].ft # "close"
                   THEN [since EXCEPT ![sid] = "recent"] ELSE since
     /\ UNCHANGED <<resetSent, resetReceived, closed, numStreams>>

(* compareAndSwapState: the atomic CAS itself.                             *)
CompareAndSwapState(p) ==
  LET sid == task[p].sid
      t == Target(p).to
  IN /\ task[p].pc = "decide"
     /\ Target(p).ok
     /\ state[sid] = task[p].from
     /\ state' = [state EXCEPT ![sid] = t]
     /\ task' = [task EXCEPT ![p] = [@ EXCEPT !.pc = "effects", !.to = t]]
     /\ since' = IF t = Closed /\ task[p].from # Closed /\ task[p].ft # "close"
                   THEN [since EXCEPT ![sid] = "recent"] ELSE since
     /\ UNCHANGED <<resetSent, resetReceived, closed, numStreams>>

(* The CAS failed because another goroutine moved the state: loop.         *)
CASFail(p) ==
  /\ task[p].pc = "decide"
  /\ Target(p).ok
  /\ state[task[p].sid] # task[p].from
  /\ task' = [task EXCEPT ![p].pc = "load"]
  /\ UNCHANGED <<state, resetSent, resetReceived, closed, numStreams, since>>

(* The rest of compareAndSwapState: counters, s.closed, cancelStream and   *)
(* removeStream (the last two act on the connection, outside this model).  *)
Effects(p) ==
  LET t == task[p]
  IN /\ t.pc = "effects"
     /\ numStreams' = [numStreams EXCEPT ![Side(t.sid)] = @ + CountDelta(t.from, t.to)]
     /\ closed' = IF t.to = Closed /\ t.from # Closed
                    THEN [closed EXCEPT ![t.sid] = "recent"] ELSE closed
     /\ task' = [task EXCEPT ![p] =
                   IF t.to = Closed /\ t.ft = "RST_STREAM"
                     THEN [t EXCEPT !.pc = "flag"] ELSE NoTask]
     /\ UNCHANGED <<state, resetSent, resetReceived, since>>

(* Back in stream.transition: record who reset the stream.                 *)
SetResetFlag(p) ==
  LET sid == task[p].sid
  IN /\ task[p].pc = "flag"
     /\ IF Dir(p) = recv
          THEN /\ resetReceived' = [resetReceived EXCEPT ![sid] = TRUE]
               /\ UNCHANGED resetSent
          ELSE /\ resetSent' = [resetSent EXCEPT ![sid] = TRUE]
               /\ UNCHANGED resetReceived
     /\ task' = [task EXCEPT ![p] = NoTask]
     /\ UNCHANGED <<state, closed, numStreams, since>>

(* Five seconds pass for a closed stream (time.Since(s.closed) > 5s).      *)
Tick(sid) ==
  /\ "recent" \in {closed[sid], since[sid]}
  /\ closed' = [closed EXCEPT ![sid] = IF @ = "recent" THEN "expired" ELSE @]
  /\ since' = [since EXCEPT ![sid] = IF @ = "recent" THEN "expired" ELSE @]
  /\ UNCHANGED <<state, resetSent, resetReceived, numStreams, task>>

Step(p) ==
  \/ Load(p)
  \/ Refuse(p)
  \/ CompareAndSwapState(p)
  \/ CASFail(p)
  \/ Effects(p)
  \/ SetResetFlag(p)

Next ==
  \/ \E p \in Procs, sid \in Streams, f \in Frames : Begin(p, sid, f)
  \/ \E p \in Writers, sid \in Streams : BeginClose(p, sid)
  \/ \E p \in Procs : Step(p)
  \/ \E sid \in Streams : Tick(sid)

\* Go schedules every runnable goroutine eventually; nothing obliges the
\* peer or the application to issue another frame.
Fairness == \A p \in Procs : WF_vars(Step(p))

Spec == Init /\ [][Next]_vars /\ Fairness

-----------------------------------------------------------------------------
(* Properties.                                                             *)

\* The counter change a goroutine has made to state but not yet to
\* numStreams (it sits between the CAS and the atomic.AddUint32).
PendingCount(d) ==
  MapThenSumSet(LAMBDA p : IF task[p].pc = "effects" /\ Side(task[p].sid) = d
                             THEN CountDelta(task[p].from, task[p].to) ELSE 0,
                Procs)

\* A RST_STREAM whose CAS closed sid but whose flag is not yet written.
PendingReset(sid, dir) ==
  \E p \in Procs : /\ task[p].pc \in {"effects", "flag"}
                  /\ task[p].sid = sid /\ task[p].ft = "RST_STREAM"
                  /\ Dir(p) = dir /\ task[p].to = Closed

\* conn.numStreams and conn.remote.numStreams, which compareAndSwapState
\* moves on every CAS between idle/reserved, active and closed states under
\* concurrent readers, writers and close(), always equal the number of
\* active streams of that side, once the goroutines that have passed the
\* CAS but not yet the counter update are accounted for.
NumStreamsAccurate ==
  \A d \in Sides :
    numStreams[d] + PendingCount(d)
      = Cardinality({id \in Streams : Side(id) = d /\ state[id] \in ActiveStates})

\* s.resetSent and s.resetReceived are never both set: the RST_STREAM that
\* closed the stream wins the CAS, and a RST_STREAM on a closed stream,
\* sent or received, never passes the table.
AtMostOneReset ==
  \A sid \in Streams : ~(resetSent[sid] /\ resetReceived[sid])


\* Every goroutine that enters the CAS loop of stream.transition or
\* s.close() leaves it: a failed CAS reloads, and states only advance.
TransitionCompletes ==
  \A p \in Procs : task[p].pc \notin {"idle", "stopped"} ~> task[p].pc \in {"idle", "stopped"}

ResetSentMapped(sid) == resetSent[sid] \/ PendingReset(sid, send)

ResetReceivedMapped(sid) == resetReceived[sid] \/ PendingReset(sid, recv)

\* Refinement: the CAS is the linearization point; a reset flag not yet
\* written by the goroutine whose CAS closed the stream maps to TRUE.
Atomic == INSTANCE StreamAtomic WITH
  resetSent <- [sid \in Streams |-> ResetSentMapped(sid)],
  resetReceived <- [sid \in Streams |-> ResetReceivedMapped(sid)]

\* The concurrent CAS loops of stream.transition and s.close() implement
\* atomic transitions of the table, each taking effect at its CAS.
Linearizable == Atomic!Spec

\* The reader's step that refuses, with a connection error, a frame on a
\* stream it found Closed.
ReaderConnError ==
  /\ task[Reader].pc = "decide" /\ task'[Reader].pc = "stopped"
  /\ task[Reader].from = Closed

\* Spec 4.3, spec 7 ("Ignorable") and the RFC text quoted in
\* stream.transition: within five seconds of a stream's close, a
\* WINDOW_UPDATE or RST_STREAM received on it, and any frame received
\* after this endpoint sent RST_STREAM on it, is ignored, never a
\* connection error.
RecentCloseTolerated ==
  [][ReaderConnError
       => ~(/\ since[task[Reader].sid] = "recent"
            /\ \/ task[Reader].ft \in {"RST_STREAM", "WINDOW_UPDATE"}
               \/ ResetSentMapped(task[Reader].sid))]_vars

=============================================================================
