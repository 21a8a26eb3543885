------------------------------- MODULE RecvFlow -------------------------------
(***************************************************************************)
(* Receive-side flow control of part_001: a flowController per stream and *)
(* one for the connection (id 0), driven by the reader (consumeBytes on    *)
(* DATA), the application (returnBytes when it has read bytes) and a local *)
(* change of SETTINGS_INITIAL_WINDOW_SIZE (setInitialRecvWindow).  The     *)
(* peer is modelled as a correct sender: it keeps its own send windows,    *)
(* sends DATA only within them, and applies our WINDOW_UPDATE and SETTINGS *)
(* frames when they arrive.  DATA reaches the reader in order.  The frames *)
(* we send are kept as sums per kind and applied independently: windowUpdate*)
(* adds its WINDOW_UPDATE at the head of the write queue (part_001:199), so *)
(* it can reach the peer before a SETTINGS frame queued earlier.            *)
(***************************************************************************)
EXTENDS Integers, SequencesExt

CONSTANTS
  Streams,        \* stream ids, open in both directions
  DefaultWindow,  \* defaultInitialWindowSize (65535 in the code)
  MaxWindow,      \* maxInitialWindowSize (2^31 - 1 in the code)
  LocalWindows,   \* INITIAL_WINDOW_SIZE values we may announce
  DataSizes,      \* DATA payload sizes the peer sends
  MaxData,        \* bound: DATA frames the peer sends
  MaxSettings     \* bound: SETTINGS changes we make

ASSUME /\ 0 \notin Streams
       /\ DataSizes \subseteq Nat \ {0}
       /\ LocalWindows \subseteq 0..MaxWindow
       /\ DefaultWindow \in 1..MaxWindow

Ctl == {0} \cup Streams

VARIABLES
  win, lower, upper, processed,  \* win, winLowerBound, winUpperBound, processedWin
  local,      \* our current INITIAL_WINDOW_SIZE
  peerWin,    \* the peer's send window of each controller
  wuOut,      \* WINDOW_UPDATE increments sent and not yet applied by the peer
  setOut,     \* SETTINGS deltas sent and not yet applied by the peer
  inbound,    \* DATA frames <<stream, bytes>> on their way to the reader
  err,        \* the first flow-control error raised, or "none"
  nData, nSettings

vars == <<win, lower, upper, processed, local, peerWin, wuOut, setOut,
          inbound, err, nData, nSettings>>

Errors == {"none", "FLOW_CONTROL_ERROR", "INTERNAL_ERROR"}

TypeOK ==
  /\ \A f \in {win, lower, processed, peerWin, wuOut} : f \in [Ctl -> Int]
  /\ upper \in [Ctl -> DefaultWindow..MaxWindow]
  /\ local \in LocalWindows \cup {DefaultWindow}
  /\ setOut \in Int
  /\ inbound \in Seq(Streams \X DataSizes)
  /\ err \in Errors
  /\ nData \in 0..MaxData /\ nSettings \in 0..MaxSettings

\* Every controller starts with the default window on both sides.
Init ==
  /\ win = [c \in Ctl |-> DefaultWindow]
  /\ lower = [c \in Ctl |-> 0]
  /\ upper = [c \in Ctl |-> DefaultWindow]
  /\ processed = [c \in Ctl |-> DefaultWindow]
  /\ local = DefaultWindow
  /\ peerWin = [c \in Ctl |-> DefaultWindow]
  /\ wuOut = [c \in Ctl |-> 0] /\ setOut = 0
  /\ inbound = <<>>
  /\ err = "none"
  /\ nData = 0 /\ nSettings = 0

-----------------------------------------------------------------------------
(* The controller's operations, as functions of one controller's record    *)
(* [win, lower, upper, processed].                                         *)

Ctrl(c) == [win |-> win[c], lower |-> lower[c], upper |-> upper[c],
            processed |-> processed[c]]

\* updateWindow(delta), past its overflow check.
UpdateWin(k, delta) ==
  [k EXCEPT !.win = @ + delta, !.processed = @ + delta,
            !.lower = IF delta < 0 THEN delta ELSE 0]

WinOverflows(k, delta) == delta > 0 /\ MaxWindow - delta < k.win

\* Mutant: the upper bound is not clamped from below.
UpdateInitialWindowNoFloor(k, delta) ==
  LET n == k.upper + delta
  IN [k EXCEPT !.upper = IF n > MaxWindow THEN MaxWindow ELSE n]

\* updateInitialWindow(delta): the new upper bound, clamped to
\* [defaultInitialWindowSize, maxInitialWindowSize].
UpdateInitialWindow(k, delta) ==
  LET n == k.upper + delta
  IN [k EXCEPT !.upper = IF n < DefaultWindow THEN DefaultWindow
                         ELSE IF n > MaxWindow THEN MaxWindow ELSE n]

\* int(float32(winUpperBound) * 0.5), exact for the bounds used here.
Threshold(k) == k.upper \div 2

\* windowUpdate(): the WINDOW_UPDATE increment it sends, 0 for none.
WUDelta(k) ==
  IF k.upper <= 0 \/ k.processed > Threshold(k) THEN 0 ELSE k.upper - k.processed

\* windowUpdate(): [k, wu, ok] after it; an overflow in its updateWindow is
\* a ConnError INTERNAL_ERROR.
WindowUpdate(k) ==
  LET d == WUDelta(k)
  IN IF d = 0 THEN [k |-> k, wu |-> 0, ok |-> TRUE]
     ELSE IF WinOverflows(k, d) THEN [k |-> k, wu |-> 0, ok |-> FALSE]
     ELSE [k |-> UpdateWin(k, d), wu |-> d, ok |-> TRUE]

\* Write back the controller records ks (a function on some controllers)
\* and queue the WINDOW_UPDATE increments wus (on the same controllers).
Store(ks, wus) ==
  LET new(x, fld, old) == IF x \in DOMAIN ks THEN ks[x][fld] ELSE old[x]
  IN /\ win' = [x \in Ctl |-> new(x, "win", win)]
     /\ lower' = [x \in Ctl |-> new(x, "lower", lower)]
     /\ upper' = [x \in Ctl |-> new(x, "upper", upper)]
     /\ processed' = [x \in Ctl |-> new(x, "processed", processed)]
     /\ wuOut' = [x \in Ctl |-> wuOut[x] + (IF x \in DOMAIN wus THEN wus[x] ELSE 0)]

-----------------------------------------------------------------------------
(* Our side.                                                               *)

\* Mutant: the stream's consumeBytes does not charge the connection.
ConsumeBytesStreamOnly ==
  /\ err = "none" /\ inbound # <<>>
  /\ LET s == Head(inbound)[1]
         ks == [Ctrl(s) EXCEPT !.win = @ - Head(inbound)[2]]
     IN /\ inbound' = Tail(inbound)
        /\ Store(s :> ks, <<>>)
        /\ err' = IF ks.win < ks.lower THEN "FLOW_CONTROL_ERROR" ELSE "none"
  /\ UNCHANGED <<local, peerWin, setOut, nData, nSettings>>

\* The reader takes the next DATA frame, of n bytes on stream s:
\* consumeBytes(n) on the stream charges the connection first, then the
\* stream; either check failing is a FLOW_CONTROL_ERROR (and leaves the
\* connection charged if the stream's check fails).
ConsumeBytes ==
  /\ err = "none" /\ inbound # <<>>
  /\ LET s == Head(inbound)[1]
         n == Head(inbound)[2]
         k0 == [Ctrl(0) EXCEPT !.win = @ - n]
         ks == [Ctrl(s) EXCEPT !.win = @ - n]
     IN /\ inbound' = Tail(inbound)
        /\ IF k0.win < k0.lower
             THEN /\ Store(0 :> k0, <<>>)
                  /\ err' = "FLOW_CONTROL_ERROR"
             ELSE /\ Store((0 :> k0) @@ (s :> ks), <<>>)
                  /\ err' = IF ks.win < ks.lower THEN "FLOW_CONTROL_ERROR" ELSE "none"
  /\ UNCHANGED <<local, peerWin, setOut, nData, nSettings>>

\* The application has read d bytes of stream s: returnBytes(d) on the
\* stream returns them to the connection first (with its windowUpdate),
\* then to the stream.  Returning more than was consumed is INTERNAL_ERROR.
ReturnBytes(s, d) ==
  /\ err = "none"
  /\ LET k0 == [Ctrl(0) EXCEPT !.processed = @ - d]
         u0 == WindowUpdate(k0)
         ks == [Ctrl(s) EXCEPT !.processed = @ - d]
         us == WindowUpdate(ks)
     IN IF processed[0] - d < win[0] \/ ~u0.ok
          THEN /\ err' = "INTERNAL_ERROR"
               /\ UNCHANGED <<win, lower, upper, processed, wuOut>>
        ELSE IF processed[s] - d < win[s] \/ ~us.ok
          THEN /\ err' = "INTERNAL_ERROR"
               /\ Store(0 :> u0.k, 0 :> u0.wu)
        ELSE /\ err' = "none"
             /\ Store((0 :> u0.k) @@ (s :> us.k), (0 :> u0.wu) @@ (s :> us.wu))
  /\ UNCHANGED <<local, peerWin, setOut, inbound, nData, nSettings>>

\* We announce INITIAL_WINDOW_SIZE v and apply it to our receive side with
\* setInitialRecvWindow(v - local): every stream's incrementInitialWindow
\* is updateWindow(delta) and, if that did not overflow,
\* updateInitialWindow(delta); an overflow is a stream error.
IncrementInitialWindow(k, delta) ==
  UpdateInitialWindow(UpdateWin(k, delta), delta)

\* errors.add for each stream whose incrementInitialWindow failed, then
\* StreamErrorList.Err: nil for an empty list, else a FLOW_CONTROL_ERROR.
ErrOf(failed) == IF failed = {} THEN "none" ELSE "FLOW_CONTROL_ERROR"

LocalSettings(v) ==
  /\ err = "none" /\ nSettings < MaxSettings /\ v # local
  /\ LET delta  == v - local
         failed == {s \in Streams : WinOverflows(Ctrl(s), delta)}
     IN /\ err' = ErrOf(failed)
        /\ Store([s \in Streams \ failed |-> IncrementInitialWindow(Ctrl(s), delta)], <<>>)
        /\ setOut' = setOut + delta
  /\ local' = v
  /\ nSettings' = nSettings + 1
  /\ UNCHANGED <<peerWin, inbound, nData>>

-----------------------------------------------------------------------------
(* A correct peer.                                                         *)

\* The peer sends n bytes of DATA on stream s, within its stream and
\* connection send windows.
PeerSendsData(s, n) ==
  /\ err = "none" /\ nData < MaxData
  /\ n <= peerWin[s] /\ n <= peerWin[0]
  /\ peerWin' = [peerWin EXCEPT ![s] = @ - n, ![0] = @ - n]
  /\ inbound' = Append(inbound, <<s, n>>)
  /\ nData' = nData + 1
  /\ UNCHANGED <<win, lower, upper, processed, local, wuOut, setOut, err, nSettings>>

\* The peer receives our WINDOW_UPDATE frames for controller c, possibly
\* before our earlier SETTINGS: writeQueue.add(..., true) puts them first.
PeerAppliesWindowUpdate(c) ==
  /\ wuOut[c] # 0
  /\ peerWin' = [peerWin EXCEPT ![c] = @ + wuOut[c]]
  /\ wuOut' = [wuOut EXCEPT ![c] = 0]
  /\ UNCHANGED <<win, lower, upper, processed, local, setOut, inbound, err, nData, nSettings>>

\* The peer receives our SETTINGS: the delta applies to every stream's
\* send window (RFC 7540 6.9.2), not the connection's.
PeerAppliesSettings ==
  /\ setOut # 0
  /\ peerWin' = [c \in Ctl |-> IF c = 0 THEN peerWin[c] ELSE peerWin[c] + setOut]
  /\ setOut' = 0
  /\ UNCHANGED <<win, lower, upper, processed, local, wuOut, inbound, err, nData, nSettings>>

Unread(s) == processed[s] - win[s]

Next ==
  \/ ConsumeBytes
  \/ \E s \in Streams, d \in 1..MaxWindow : d <= Unread(s) /\ ReturnBytes(s, d)
  \/ \E v \in LocalWindows : LocalSettings(v)
  \/ \E s \in Streams, n \in DataSizes : PeerSendsData(s, n)
  \/ \E c \in Ctl : PeerAppliesWindowUpdate(c)
  \/ PeerAppliesSettings

Spec == Init /\ [][Next]_vars

-----------------------------------------------------------------------------
(* Properties.                                                             *)

\* DATA bytes of stream s (of all streams, for 0) still on their way.
InFlight(c) ==
  FoldSeq(LAMBDA f, acc : IF c \in {0, f[1]} THEN acc + f[2] ELSE acc, 0, inbound)

\* The receiver's window is the peer's: on every controller, win equals
\* the peer's send window plus the credit on its way to the peer (our
\* WINDOW_UPDATEs, a stream's SETTINGS delta) plus the DATA on its way to
\* us.  It relates consumeBytes, returnBytes/windowUpdate and
\* setInitialRecvWindow on our side to what the peer does with them.
WindowAgreement ==
  err = "none" =>
    \A c \in Ctl :
      win[c] = peerWin[c] + wuOut[c] + (IF c = 0 THEN 0 ELSE setOut) + InFlight(c)

\* A peer that sends only within its windows, and an application that
\* returns only bytes it read, never meet a FLOW_CONTROL_ERROR or an
\* INTERNAL_ERROR from consumeBytes, returnBytes or setInitialRecvWindow,
\* whatever the order of DATA, WINDOW_UPDATE and SETTINGS on the wire.
NoFalseFlowError == err = "none"

\* Flow control never stalls a stream: once every byte the peer sent on a
\* stream has been read and returned and no frame is on the wire, the
\* peer's window on it is positive again (INITIAL_WINDOW_SIZE is never 0
\* here), since returnBytes/windowUpdate re-open it (spec 8 scenario 2).
PeerNotStalled ==
  \A s \in Streams :
    (err = "none" /\ Unread(s) = 0 /\ InFlight(s) = 0 /\ wuOut[s] = 0 /\ setOut = 0)
      => peerWin[s] > 0

=============================================================================
