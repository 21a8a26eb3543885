------------------------------- MODULE SendFlow -------------------------------
(***************************************************************************)
(* Send-side flow control of part_001: one remoteFlowController per stream *)
(* and one for the connection (id 0), and producer goroutines that obtain  *)
(* credit with allocateBytes before they enqueue DATA.  A controller keeps *)
(* its credit in win, or hands it out through winCh, a channel of capacity *)
(* one.  Go's channel semantics are kept: a send to a channel a receiver   *)
(* is parked on goes straight to that receiver; otherwise it fills the     *)
(* buffer if empty, or (the select's default) does nothing.  The peer      *)
(* grants credit with WINDOW_UPDATE and changes SETTINGS_INITIAL_WINDOW_SIZE; *)
(* streams and the connection can be closed at any time.                   *)
(***************************************************************************)
EXTENDS Integers, FiniteSets, FiniteSetsExt

CONSTANTS
  Streams,        \* stream ids with a send controller
  Producers,      \* goroutines writing DATA
  StreamOf,       \* the stream each producer writes on
  Want,           \* bytes each producer writes (Stream.write payload)
  InitialWindow,  \* initial send window of a stream and of the connection
  MaxWindow,      \* maxInitialWindowSize (2^31 - 1 in the code)
  Increments,     \* WINDOW_UPDATE increments the peer may send
  WindowSettings, \* SETTINGS_INITIAL_WINDOW_SIZE values the peer may send
  MaxUpdates,     \* bound: WINDOW_UPDATE frames the peer sends
  MaxSettings     \* bound: SETTINGS frames the peer sends

ASSUME /\ 0 \notin Streams
       /\ StreamOf \in [Producers -> Streams]
       /\ {Want, InitialWindow, MaxWindow, MaxUpdates, MaxSettings} \subseteq Nat
       /\ Increments \subseteq Nat \ {0}
       /\ WindowSettings \subseteq 0..MaxWindow

Ctl == {0} \cup Streams     \* controllers: the connection and each stream

VARIABLES
  win,        \* remoteFlowController.win
  winCh,      \* its channel: 0 empty, else the credit buffered in it
  pr,         \* each producer's place in allocateBytes and its locals
  closed,     \* closeCh fired: of each stream, and of the connection (0)
  initial,    \* the peer's current SETTINGS_INITIAL_WINDOW_SIZE
  granted,    \* history: credit the peer has granted on each controller
  sent,       \* history: DATA bytes enqueued on each controller
  updates,    \* WINDOW_UPDATE frames received so far
  settings,   \* SETTINGS frames received so far
  todo,       \* streams setInitialSendWindow has still to visit
  sdelta      \* the delta it applies

vars == <<win, winCh, pr, closed, initial, granted, sent, updates, settings,
          todo, sdelta>>

PCs == {"incS", "selS", "parkS", "incC", "selC", "parkC", "cancelC",
        "retS", "retC", "send", "done"}

TypeOK ==
  /\ win \in [Ctl -> Int]
  /\ winCh \in [Ctl -> Nat]
  /\ pr \in [Producers -> [pc : PCs, rem : 0..Want, sw : Nat, cw : Nat, n : Nat]]
  /\ closed \in [Ctl -> BOOLEAN]
  /\ initial \in WindowSettings \cup {InitialWindow}
  /\ updates \in 0..MaxUpdates /\ settings \in 0..MaxSettings
  /\ todo \subseteq Streams /\ sdelta \in Int

Init ==
  /\ win = [c \in Ctl |-> InitialWindow]
  /\ winCh = [c \in Ctl |-> 0]
  /\ pr = [p \in Producers |-> [pc |-> "incS", rem |-> Want, sw |-> 0, cw |-> 0, n |-> 0]]
  /\ closed = [c \in Ctl |-> FALSE]
  /\ initial = InitialWindow
  /\ granted = [c \in Ctl |-> InitialWindow]
  /\ sent = [c \in Ctl |-> 0]
  /\ updates = 0 /\ settings = 0
  /\ todo = {} /\ sdelta = 0

-----------------------------------------------------------------------------
(* Channel plumbing.                                                       *)

\* The controller a producer's pc waits on, if any.
ParkedOn(p) ==
  CASE pr[p].pc = "parkS" -> StreamOf[p]
    [] pr[p].pc = "parkC" -> 0
    [] OTHER -> -1

\* Mutant: the c.win <= 0 early return is dropped, so a window that a
\* SETTINGS shrink made negative is still sent on winCh.
OfferNoPositiveGuard(c, w, b, base) ==
  LET parked == {p \in Producers : ParkedOn(p) = c}
  IN  IF parked = {} /\ b > 0
        THEN /\ win' = [win EXCEPT ![c] = w]
             /\ winCh' = [winCh EXCEPT ![c] = b]
             /\ pr' = base
      ELSE IF parked # {}
        THEN \E p \in parked :
               /\ win' = [win EXCEPT ![c] = 0]
               /\ pr' = [base EXCEPT ![p] =
                           IF c = 0 THEN [@ EXCEPT !.pc = "retS", !.cw = w]
                                    ELSE [@ EXCEPT !.pc = "incC", !.sw = w]]
               /\ winCh' = [winCh EXCEPT ![c] = b]
      ELSE /\ win' = [win EXCEPT ![c] = 0]
           /\ winCh' = [winCh EXCEPT ![c] = w]
           /\ pr' = base

\* The tail of updateWindow, from `c.win += delta` on, given the window w
\* after the addition and the buffer b left by the reset drain: a positive
\* window is sent on winCh.  A receiver parked on the channel takes it
\* directly; otherwise it fills an empty buffer; otherwise (the default)
\* it stays in win.  base is pr as the calling goroutine leaves it.
Offer(c, w, b, base) ==
  LET parked == {p \in Producers : ParkedOn(p) = c}
  IN  IF w <= 0 \/ (parked = {} /\ b > 0)
        THEN /\ win' = [win EXCEPT ![c] = w]
             /\ winCh' = [winCh EXCEPT ![c] = b]
             /\ pr' = base
      ELSE IF parked # {}
        THEN \E p \in parked :
               /\ win' = [win EXCEPT ![c] = 0]
               /\ pr' = [base EXCEPT ![p] =
                           IF c = 0 THEN [@ EXCEPT !.pc = "retS", !.cw = w]
                                    ELSE [@ EXCEPT !.pc = "incC", !.sw = w]]
               /\ winCh' = [winCh EXCEPT ![c] = b]
      ELSE /\ win' = [win EXCEPT ![c] = 0]
           /\ winCh' = [winCh EXCEPT ![c] = w]
           /\ pr' = base

\* updateWindow(delta, reset) past its overflow check: with reset, first
\* drain the channel back into win, then add delta and offer the result.
UpdateWindow(c, delta, reset, base) ==
  IF reset THEN Offer(c, win[c] + winCh[c] + delta, 0, base)
           ELSE Offer(c, win[c] + delta, winCh[c], base)

\* The overflow check of updateWindow.
Overflows(c, delta) == delta > 0 /\ MaxWindow - delta < win[c]

-----------------------------------------------------------------------------
(* A producer in allocateBytes.                                            *)

SetPc(p, l) == pr' = [pr EXCEPT ![p].pc = l]

\* s.incrementWindow(0): push any stream credit sitting in win.
IncStream(p) ==
  /\ pr[p].pc = "incS"
  /\ pr[p].rem > 0
  /\ UpdateWindow(StreamOf[p], 0, FALSE, [pr EXCEPT ![p].pc = "selS"])
  /\ UNCHANGED <<closed, initial, granted, sent, updates, settings, todo, sdelta>>

\* The first select: stream closed, connection closed, or stream credit.
SelectStream(p) ==
  LET s == StreamOf[p]
  IN /\ pr[p].pc = "selS"
     /\ \/ /\ closed[s] \/ closed[0]
           /\ SetPc(p, "done")
           /\ UNCHANGED winCh
        \/ /\ winCh[s] > 0
           /\ pr' = [pr EXCEPT ![p] = [@ EXCEPT !.pc = "incC", !.sw = winCh[s]]]
           /\ winCh' = [winCh EXCEPT ![s] = 0]
        \/ /\ ~closed[s] /\ ~closed[0] /\ winCh[s] = 0
           /\ SetPc(p, "parkS")
           /\ UNCHANGED winCh
     /\ UNCHANGED <<win, closed, initial, granted, sent, updates, settings, todo, sdelta>>

\* c.incrementWindow(0): push any connection credit sitting in win.
IncConn(p) ==
  /\ pr[p].pc = "incC"
  /\ UpdateWindow(0, 0, FALSE, [pr EXCEPT ![p].pc = "selC"])
  /\ UNCHANGED <<closed, initial, granted, sent, updates, settings, todo, sdelta>>

\* The second select: stream closed (then c.cancel()), connection closed,
\* or connection credit.
SelectConn(p) ==
  LET s == StreamOf[p]
  IN /\ pr[p].pc = "selC"
     /\ \/ /\ closed[s]
           /\ SetPc(p, "cancelC")
           /\ UNCHANGED winCh
        \/ /\ closed[0]
           /\ SetPc(p, "done")
           /\ UNCHANGED winCh
        \/ /\ winCh[0] > 0
           /\ pr' = [pr EXCEPT ![p] = [@ EXCEPT !.pc = "retS", !.cw = winCh[0]]]
           /\ winCh' = [winCh EXCEPT ![0] = 0]
        \/ /\ ~closed[s] /\ ~closed[0] /\ winCh[0] = 0
           /\ SetPc(p, "parkC")
           /\ UNCHANGED winCh
     /\ UNCHANGED <<win, closed, initial, granted, sent, updates, settings, todo, sdelta>>

\* Mutant: the second select does not wait on the stream's closeCh.
WakeConnOnly(p) ==
  /\ \/ pr[p].pc = "parkS" /\ (closed[StreamOf[p]] \/ closed[0])
        /\ SetPc(p, "done")
     \/ pr[p].pc = "parkC" /\ closed[0] /\ SetPc(p, "done")
  /\ UNCHANGED <<win, winCh, closed, initial, granted, sent, updates, settings, todo, sdelta>>

\* A parked select wakes on a close signal.
Wake(p) ==
  /\ \/ pr[p].pc = "parkS" /\ (closed[StreamOf[p]] \/ closed[0])
        /\ SetPc(p, "done")
     \/ pr[p].pc = "parkC" /\ closed[StreamOf[p]] /\ SetPc(p, "cancelC")
     \/ pr[p].pc = "parkC" /\ closed[0] /\ SetPc(p, "done")
  /\ UNCHANGED <<win, winCh, closed, initial, granted, sent, updates, settings, todo, sdelta>>

\* c.cancel(): take back connection credit left in the channel; return
\* errStreamClosed.
Cancel(p) ==
  /\ pr[p].pc = "cancelC"
  /\ win' = [win EXCEPT ![0] = @ + winCh[0]]
  /\ winCh' = [winCh EXCEPT ![0] = 0]
  /\ pr' = [pr EXCEPT ![p] = [@ EXCEPT !.pc = "done", !.sw = 0]]
  /\ UNCHANGED <<closed, initial, granted, sent, updates, settings, todo, sdelta>>

\* Mutant: the unused stream credit sw - n is not given back.
RetStreamNoReturn(p) ==
  LET n == Min({pr[p].rem, pr[p].sw, pr[p].cw})
  IN /\ pr[p].pc = "retS"
     /\ pr' = [pr EXCEPT ![p] = [@ EXCEPT !.pc = "retC", !.n = n, !.sw = n]]
     /\ UNCHANGED <<win, winCh, closed, initial, granted, sent, updates, settings, todo, sdelta>>

\* Back from the selects: grant n = min(n, sw, cw) and, if n < sw, return
\* the rest with s.incrementWindow(sw - n) (its error is dropped).
RetStream(p) ==
  LET n == Min({pr[p].rem, pr[p].sw, pr[p].cw})
      s == StreamOf[p]
  IN /\ pr[p].pc = "retS"
     /\ LET base == [pr EXCEPT ![p] = [@ EXCEPT !.pc = "retC", !.n = n, !.sw = n]]
        IN IF n < pr[p].sw /\ ~Overflows(s, pr[p].sw - n)
             THEN UpdateWindow(s, pr[p].sw - n, FALSE, base)
             ELSE pr' = base /\ UNCHANGED <<win, winCh>>
     /\ UNCHANGED <<closed, initial, granted, sent, updates, settings, todo, sdelta>>

\* If n < cw, c.incrementWindow(cw - n); allocateBytes returns n.
RetConn(p) ==
  LET n == pr[p].n
  IN /\ pr[p].pc = "retC"
     /\ LET base == [pr EXCEPT ![p] = [@ EXCEPT !.pc = "send", !.cw = n]]
        IN IF n < pr[p].cw /\ ~Overflows(0, pr[p].cw - n)
             THEN UpdateWindow(0, pr[p].cw - n, FALSE, base)
             ELSE pr' = base /\ UNCHANGED <<win, winCh>>
     /\ UNCHANGED <<closed, initial, granted, sent, updates, settings, todo, sdelta>>

\* Stream.write enqueues the n granted bytes as DATA and, while bytes are
\* left, allocates again.
Send(p) ==
  LET n == pr[p].n
      s == StreamOf[p]
  IN /\ pr[p].pc = "send"
     /\ pr' = [pr EXCEPT ![p] = [pc |-> IF @.rem = n THEN "done" ELSE "incS",
                                  rem |-> @.rem - n, sw |-> 0, cw |-> 0, n |-> 0]]
     /\ sent' = [sent EXCEPT ![s] = @ + n, ![0] = @ + n]
     /\ UNCHANGED <<win, winCh, closed, initial, granted, updates, settings, todo, sdelta>>

-----------------------------------------------------------------------------
(* The peer and the connection.                                            *)

\* A WINDOW_UPDATE of d on controller c: incrementWindow(d).  Overflow is
\* a stream error (the stream is reset) or, on the connection, a
\* connection error (the connection closes).
WindowUpdate(c, d) ==
  /\ ~closed[c] /\ ~closed[0] /\ todo = {}
  /\ updates < MaxUpdates
  /\ updates' = updates + 1
  /\ IF Overflows(c, d)
       THEN /\ closed' = [closed EXCEPT ![c] = TRUE]
            /\ UNCHANGED <<win, winCh, pr, granted>>
       ELSE /\ UpdateWindow(c, d, FALSE, pr)
            /\ granted' = [granted EXCEPT ![c] = @ + d]
            /\ UNCHANGED closed
  /\ UNCHANGED <<initial, sent, settings, todo, sdelta>>

\* A SETTINGS frame changing INITIAL_WINDOW_SIZE to v: the reader starts
\* setInitialSendWindow(v - initial), which visits the streams one by one.
Settings(v) ==
  /\ ~closed[0] /\ todo = {}
  /\ settings < MaxSettings /\ v # initial
  /\ settings' = settings + 1
  /\ initial' = v
  /\ sdelta' = v - initial
  /\ todo' = Streams
  /\ UNCHANGED <<win, winCh, pr, closed, granted, sent, updates>>

\* One iteration of setInitialSendWindow: a writable stream gets
\* incrementInitialWindow(delta); an overflow is a stream error.
SetInitialSendWindow(s) ==
  /\ s \in todo
  /\ todo' = todo \ {s}
  /\ IF closed[s] \/ closed[0]
       THEN UNCHANGED <<win, winCh, pr, closed, granted>>
     ELSE IF Overflows(s, sdelta)
       THEN /\ closed' = [closed EXCEPT ![s] = TRUE]
            /\ UNCHANGED <<win, winCh, pr, granted>>
     ELSE /\ UpdateWindow(s, sdelta, TRUE, pr)
          /\ granted' = [granted EXCEPT ![s] = @ + sdelta]
          /\ UNCHANGED closed
  /\ UNCHANGED <<initial, sent, updates, settings, sdelta>>

\* A stream is reset, or the connection closes: its closeCh fires.
Close(c) ==
  /\ ~closed[c]
  /\ closed' = [closed EXCEPT ![c] = TRUE]
  /\ UNCHANGED <<win, winCh, pr, initial, granted, sent, updates, settings,
                 todo, sdelta>>

Step(p) ==
  \/ IncStream(p) \/ SelectStream(p) \/ IncConn(p) \/ SelectConn(p)
  \/ Wake(p) \/ Cancel(p) \/ RetStream(p) \/ RetConn(p) \/ Send(p)

Peer ==
  \/ \E c \in Ctl, d \in Increments : WindowUpdate(c, d)
  \/ \E v \in WindowSettings : Settings(v)
  \/ \E s \in Streams : SetInitialSendWindow(s)
  \/ \E c \in Ctl : Close(c)

Next == (\E p \in Producers : Step(p)) \/ Peer

\* Every producer goroutine is scheduled while it can run, and so is the
\* reader's loop over the streams; the peer and the application are not
\* obliged to send, grant or close anything.
Spec == Init /\ [][Next]_vars
        /\ \A p \in Producers : WF_vars(Step(p))
        /\ WF_vars(\E s \in Streams : SetInitialSendWindow(s))

-----------------------------------------------------------------------------
(* Properties.                                                             *)

\* Credit a producer has taken from controller c and not yet spent.
Held(c) ==
  IF c = 0 THEN MapThenSumSet(LAMBDA p : pr[p].cw, Producers)
           ELSE MapThenSumSet(LAMBDA p : pr[p].sw, {p \in Producers : StreamOf[p] = c})

\* The peer's view of a controller's window: what it granted less the
\* DATA it was sent.
Window(c) == granted[c] - sent[c]

\* Credit is neither lost nor duplicated: on a controller that is not
\* closed, the credit in win, in the channel and held by producers, plus
\* the bytes sent, is what the peer granted.  This is what the channel
\* hand-off of updateWindow, the returns of allocateBytes and
\* cancel() must together preserve (spec 9: "deliver credit to exactly one
\* awaiter ... preserve credit on abandoned awaits").
CreditConserved ==
  \A c \in Ctl : ~closed[c] /\ ~closed[0] =>
      win[c] + winCh[c] + Held(c) + sent[c] = granted[c]

\* A producer blocked in allocateBytes returns once its stream is reset
\* or the connection closes (spec 5 "Cancellation"): the selects of
\* allocateBytes wait on closeCh as well as on the credit channel.
CancelReleasesProducers ==
  \A p \in Producers :
      (closed[StreamOf[p]] \/ closed[0]) ~> pr[p].pc = "done"

\* Overflow past 2^31 - 1 is a FLOW_CONTROL_ERROR (spec 4.2): a window
\* the peer has made larger than MaxWindow is caught by updateWindow's
\* check, which resets the stream or closes the connection.
WindowWithinMax ==
  \A c \in Ctl : ~closed[c] /\ ~closed[0] => Window(c) <= MaxWindow

\* When a producer is parked on a controller's channel and the controller
\* holds positive credit in win, the producer eventually gets it (spec
\* 4.2: "if credit becomes positive and a producer is waiting, deliver
\* the entire current credit").
WaitingProducerServed ==
  \A p \in Producers :
      (pr[p].pc \in {"parkS", "parkC"} /\ win[ParkedOn(p)] > 0)
        ~> pr[p].pc \notin {"parkS", "parkC"}

=============================================================================
