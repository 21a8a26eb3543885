----------------------------- MODULE StreamTable -----------------------------
(***************************************************************************)
(* The per-stream state table of the HTTP/2 core (part_000, dir.transition *)
(* and the error branch of stream.transition).  Pure operators, no state:  *)
(* the concurrent model of the stream is in module Stream.                 *)
(***************************************************************************)
EXTENDS Naturals, FiniteSets, TLC

\* StreamState (part_000 lines 12-22).
Idle == "Idle"
ReservedLocal == "ReservedLocal"
ReservedRemote == "ReservedRemote"
Open == "Open"
HalfClosedLocal == "HalfClosedLocal"
HalfClosedRemote == "HalfClosedRemote"
Closed == "Closed"

States == {Idle, ReservedLocal, ReservedRemote, Open,
           HalfClosedLocal, HalfClosedRemote, Closed}

\* The frame types that carry a stream id and reach stream.transition.
\* SETTINGS, PING and GOAWAY are connection-level and never do.
FrameTypes == {"DATA", "HEADERS", "PRIORITY", "RST_STREAM",
               "PUSH_PROMISE", "WINDOW_UPDATE"}

\* Only DATA and HEADERS can carry END_STREAM (util.go EndOfStream methods).
Frames == UNION {{[ft |-> f, es |-> e] :
                     e \in IF f \in {"DATA", "HEADERS"} THEN BOOLEAN ELSE {FALSE}} :
                   f \in FrameTypes}

recv == "recv"
send == "send"

\* active(): the states counted against the concurrency limit.
ActiveStates == {Open, HalfClosedLocal, HalfClosedRemote}

\* localStreamID: the endpoint owns even ids as server, odd ids as client.
LocalStreamID(server, id) == server = (id % 2 = 0)

\* The frames allowed in each state and the state they lead to, before the
\* END_STREAM post-processing; a frame outside the domain is "not ok".
RecvEdges(from) ==
  CASE from = Idle ->
         ("HEADERS" :> Open) @@ ("PRIORITY" :> Idle)
           @@ ("PUSH_PROMISE" :> ReservedRemote)
    [] from \in {ReservedLocal, HalfClosedRemote} ->
         ("RST_STREAM" :> Closed) @@ [f \in {"PRIORITY", "WINDOW_UPDATE"} |-> from]
    [] from = ReservedRemote ->
         ("HEADERS" :> HalfClosedLocal) @@ ("RST_STREAM" :> Closed)
           @@ ("PRIORITY" :> from)
    [] from \in {Open, HalfClosedLocal} ->
         ("RST_STREAM" :> Closed) @@ [f \in FrameTypes |-> from]
    [] from = Closed -> ("PRIORITY" :> Closed)

\* Mutation: a RST_STREAM sent on a closed stream passes the table.
SendEdgesRstOnClosed(from) ==
  CASE from = Idle ->
         ("HEADERS" :> Open) @@ ("PRIORITY" :> Idle)
           @@ ("PUSH_PROMISE" :> ReservedLocal)
    [] from = ReservedLocal ->
         ("HEADERS" :> HalfClosedRemote) @@ ("RST_STREAM" :> Closed)
           @@ ("PRIORITY" :> from)
    [] from \in {ReservedRemote, HalfClosedLocal} ->
         ("RST_STREAM" :> Closed) @@ [f \in {"PRIORITY", "WINDOW_UPDATE"} |-> from]
    [] from = Open ->
         ("RST_STREAM" :> Closed) @@ [f \in FrameTypes |-> from]
    [] from = HalfClosedRemote ->
         ("RST_STREAM" :> Closed) @@ [f \in {"DATA", "HEADERS", "PRIORITY"} |-> from]
    [] from = Closed -> ("PRIORITY" :> Closed) @@ ("RST_STREAM" :> Closed)

SendEdges(from) ==
  CASE from = Idle ->
         ("HEADERS" :> Open) @@ ("PRIORITY" :> Idle)
           @@ ("PUSH_PROMISE" :> ReservedLocal)
    [] from = ReservedLocal ->
         ("HEADERS" :> HalfClosedRemote) @@ ("RST_STREAM" :> Closed)
           @@ ("PRIORITY" :> from)
    [] from \in {ReservedRemote, HalfClosedLocal} ->
         ("RST_STREAM" :> Closed) @@ [f \in {"PRIORITY", "WINDOW_UPDATE"} |-> from]
    [] from = Open ->
         ("RST_STREAM" :> Closed) @@ [f \in FrameTypes |-> from]
    [] from = HalfClosedRemote ->
         ("RST_STREAM" :> Closed) @@ [f \in {"DATA", "HEADERS", "PRIORITY"} |-> from]
    [] from = Closed -> ("PRIORITY" :> Closed)

Edges(dir, from) == IF dir = recv THEN RecvEdges(from) ELSE SendEdges(from)

\* END_STREAM post-processing: Open half-closes in the frame's direction,
\* a half-closed stream closes.
EndStream(dir, to) ==
  CASE to = Open -> IF dir = recv THEN HalfClosedRemote ELSE HalfClosedLocal
    [] to \in {HalfClosedLocal, HalfClosedRemote} -> Closed
    [] OTHER -> to

\* dir.transition(from, frameType, endStream) as a record [to, ok].
Transition(dir, from, frameType, endStream) ==
  LET e == Edges(dir, from)
      ok == frameType \in DOMAIN e
      to == IF ok THEN e[frameType] ELSE from
  IN  [ok |-> ok, to |-> IF ok /\ endStream THEN EndStream(dir, to) ELSE to]

\* Outcomes of stream.transition when the table says "not ok".
Ignore == "ignore"                   \* ignoreFrame
StreamErrClosed == "stream_closed"   \* StreamError STREAM_CLOSED
ConnErrClosed == "conn_closed"       \* ConnError STREAM_CLOSED
ConnErrProtocol == "conn_protocol"   \* ConnError PROTOCOL_ERROR
LocalErr == "local_error"            \* plain error returned to a sender

\* The receive branch.  recent is "time.Since(s.closed) <= 5s": false when
\* s.closed still holds the zero time.
RecvError(from, frameType, resetReceived, resetSent, recent) ==
  CASE resetReceived -> StreamErrClosed
    [] resetSent -> IF recent THEN Ignore ELSE StreamErrClosed
    [] from = HalfClosedRemote -> ConnErrClosed
    [] from = Closed /\ frameType \in {"RST_STREAM", "WINDOW_UPDATE"} ->
         IF recent THEN Ignore ELSE ConnErrProtocol
    [] OTHER -> ConnErrProtocol

\* The send branch: re-sending RST_STREAM on a closed stream is ignored.
SendError(from, frameType) ==
  IF from = Closed /\ frameType = "RST_STREAM" THEN Ignore ELSE LocalErr

=============================================================================
