# TLA+ models of the HTTP/2 core (KazumiLine/http2)

This directory holds TLA+ models of the concurrent parts of the HTTP/2 engine
in `src/`, and the TLC runs that check them. `PROJECT.json` maps every modelled
definition to the source lines it translates. It also lists the runs, the
mutants that show each checked property can fail, the findings, and the
hazards.

## 1. The system and its parts

| Part | Source | State | Operations | Concurrency |
|---|---|---|---|---|
| Stream state machine | `src/unnamed/part_000` | `s.state` (atomic int32); plain `resetSent`, `resetReceived`, `closed`; the connection's `numStreams` counters (uint32, atomic adds) | `stream.transition(dir, frame, endStream)`: a load / `dir.transition` / CAS loop. `s.close()`. `compareAndSwapState` and its side effects: counters, flow-controller setup, `s.closed = time.Now()`, `cancelStream`, `removeStream` | The reader goroutine applies received frames. Writer goroutines apply sent frames and `close()`. All of them act on the same stream. |
| Send flow control | `part_001` 204-369 | `remoteFlowController{win, winCh (cap 1)}` per stream and for the connection (id 0) | `updateWindow(delta, reset)`, `incrementWindow`, `incrementInitialWindow`, `cancel`, `allocateBytes`, `Conn.setInitialSendWindow` | Producers in `allocateBytes` wait in `select` on a credit channel and on `closeCh`. The reader adds credit from WINDOW_UPDATE and SETTINGS. |
| Receive flow control | `part_001` 1-202 | `flowController{win, winLowerBound, winUpperBound, processedWin}` per stream and for the connection | `consumeBytes`, `returnBytes`, `windowUpdate`, `updateWindow`, `updateInitialWindow`, `incrementInitialWindow`, `Conn.setInitialRecvWindow` | The reader consumes DATA. Application goroutines return bytes they read. Each controller has its own mutex. A stream's operation locks its own controller and then the connection's. |
| Settings store | `util.go` 98-211 | `Settings` slice of (id, value) | `SetValue` and the typed setters; `value`, `Value` and the typed getters | Sequential. |
| Header handling | `util.go` 311-566, 589-721 | a `Header` (map from names to value lists) being built | `requestToHeader`, `addHeader`, `Header.Add`, `Header.add`, `Header.Len`, `CanonicalHTTP2HeaderKey`, `validHeaderKey`, `badHeader`, `splitHeader`, `containsValue` | Sequential, but Go's map iteration order is random. |
| HPACK codec | not in `src/` | the field list on the wire | encode, decode into `Header.add` | Modelled from `spec.md` §5 only to carry a Header to the peer. |
| Error and String formatting | `util.go` 11-96, 213-310, 568-587 | — | `String`, `Error`, `badCipher` | Not modelled: formatting and constant lookup. |
| Connection core | not in `src/` | registry, reader and writer loops, SETTINGS exchange | frame dispatch, `Stream.write`, close signals | Modelled from `spec.md` only where it drives the parts above. |

How the parts interact:

- The stream state machine decides whether a frame is accepted.
- A successful CAS to an active state creates the stream's flow controllers (`setRecvWindow`/`setSendWindow`, part_000 174-177).
- A CAS to Closed fires `cancelStream`. That closes the stream's `closeCh`, which wakes the producers blocked in `allocateBytes`.
- Both flow controllers have two levels: every stream controller is paired with the connection controller.

## 2. Modules

| Module | Models | Key state ↔ code |
|---|---|---|
| `StreamTable` | `dir.transition` (part_000 220-333) as two edge tables and the END_STREAM post-processing; the receive and send error branches of `stream.transition` (61-116) as outcome operators | pure operators |
| `StreamAtomic` | The abstract stream: each frame or close changes the state by the table in one step, and a closing RST_STREAM records who reset | `state`, `resetSent`, `resetReceived` |
| `Stream` | The concurrent implementation: a reader and writers each run the CAS loop of `transition` or `close()`. One action per step: `Begin`/`BeginClose`/`Load` (load), `Refuse` (error branch), `CompareAndSwapState`/`CASFail`, `Effects` (the rest of `compareAndSwapState`), `SetResetFlag` (lines 119-125). `Tick` lets 5 s pass. | `task[p]` = goroutine pc and locals; `closed` ∈ {zero, recent, expired} abstracts `s.closed` and `time.Since`; `numStreams[side]` is the uint32 counter (a negative value −k stands for 2^32−k) |
| `SendFlow` | `remoteFlowController` and `allocateBytes` with Go channel semantics. A send on `winCh` goes straight to a receiver parked on it; otherwise it fills the empty buffer; otherwise the `default` case keeps the credit in `win` (`Offer`). Actions: `IncStream`, `SelectStream`, `IncConn`, `SelectConn`, `Wake`, `Cancel`, `RetStream`, `RetConn` (lines 325-369), `Send` (Stream.write, from the spec), `WindowUpdate`, `Settings` and `SetInitialSendWindow` (one stream per step, as the loop at 238 runs), `Close` | `win`, `winCh`, `pr[p]` (pc, sw, cw, n, bytes left), `closed` (closeCh); `granted` and `sent` are history variables |
| `RecvFlow` | `flowController` composed with a correct peer; `LocalSettings` collects the streams whose update failed and reports them as `StreamErrorList.Err` does (`ErrOf`). Actions: `ConsumeBytes` (115-136, connection first), `ReturnBytes` (138-155 with `windowUpdate`), `LocalSettings` (setInitialRecvWindow, 38-57 with 76-89), `PeerSendsData`, `PeerAppliesWindowUpdate`, `PeerAppliesSettings` (independent of each other: `windowUpdate` queues its frame at the head of the write queue, part_001:199, so our WINDOW_UPDATE can reach the peer before an earlier SETTINGS; the recv_false_flow_error trace uses this) | `win`, `lower`, `upper`, `processed`; the peer's `peerWin`; `wuOut`/`setOut` = credit sent to the peer and not yet applied; `inbound` = DATA on the wire (in order) |
| `SettingsMap` | The abstract store of spec §4.1: a map from ids to values, a set that overwrites or is refused by the table's ranges, a read that returns the value or the table's default | `m`, `ret` (the last call and its result) |
| `Settings` | The slice itself: `SetValue` (range switch, update the first entry with the id or append), `SetPushEnabled`, `value` (first match), `Value` (defaults), `Get` (every typed getter; `PushEnabled` is `Value != 0`) | `s` = the slice, `ret` = the last call `<<id, value, "nil"/"invalid"/"get">>` |
| `Headers` | A request's trip to the peer. `RequestToHeader` (449-490: pseudo-header fields, the `:scheme` inference and its error), `AddHeader(k)` (one iteration of `addHeader`'s loop for the key the map order gives next, with every branch: forbidden name, cookie split, te error and panic, empty-name panic), `Encode` (spec §5: pseudo fields first, the rest in any order), `PeerSends` (a peer's HEADERS block: any field list from a small set, spec-modelled), `Decode` (the peer's `Header.add` per field, with `Refused` its two refusals). `splitHeader`, `containsValue`, and the server's reads `get`, `Get` (canonical key) and the pseudo-header getters (`PseudoGet`) are operators. | `req`, `skip`; `h` and `left` (keys not yet visited); `cst` = requestToHeader's outcome; `wire`; `dh`, `dst` = the decoder's Header and outcome; `sent`, `from` = the field list on the wire and who sent it (history). A name is `[w, up, hi]`: its lowercase spelling and whether it has an ASCII capital or a byte ≥ 127. A value is a sequence of atoms (words, `;`, `,`, space). |
| `MCStream`, `MCSendFlow`, `MCRecvFlow`, `MCSettings`, `MCHeaders` | model values and small sets for TLC | |

Composition and refinement:

- `Stream` instantiates `StreamAtomic` with the reset flags mapped to "set, or about to be set by a goroutine at its flag step". The run checks `Atomic!Spec` as the property `Linearizable`. The CAS is the linearization point.
- `RecvFlow` composes our receive controllers with the peer's send windows.
- `SendFlow` composes the send controllers with producers and the peer.
- `Settings` instantiates `SettingsMap` with `m` mapped to what `value` reads for each id. The run checks `Map!Spec` as `SettingsRefinesMap`.
- `Headers` composes the client (`requestToHeader`), the HPACK transfer and the peer's decoder.

## 3. Runs

| Run | cfg | Checks | Result |
|---|---|---|---|
| stream_safety | MCStream.cfg | `TypeOK`; `NumStreamsAccurate` (counters + pending effects = active streams, per side); `AtMostOneReset`; `Linearizable` | pass |
| stream_cas_terminates | MCStreamLive.cfg | `TransitionCompletes` | pass |
| stream_recent_close | MCStreamRecentClose.cfg | `RecentCloseTolerated` | **violation**: see finding 1 |
| send_credit | MCSendFlow.cfg | `TypeOK`; `CreditConserved`; `CancelReleasesProducers` | pass |
| send_overflow | MCSendFlowOverflow.cfg | `WindowWithinMax` | **violation** |
| send_stranded_credit | MCSendFlowStranded.cfg | `WaitingProducerServed` | **violation** |
| recv_window_agreement | MCRecvFlow.cfg | `TypeOK`; `WindowAgreement` | pass |
| recv_false_flow_error | MCRecvFlowFalseError.cfg | `NoFalseFlowError` | **violation** |
| recv_stall | MCRecvFlowStall.cfg | `PeerNotStalled` | **violation** |
| settings_refines_map | MCSettings.cfg | `TypeOK`; `SettingsRefinesMap` | pass |
| headers_round_trip | MCHeaders.cfg | `TypeOK`; `PseudoHeadersExact` (exactly the required pseudo-headers, one value each); `DecoderReadsBack` (the peer rebuilds the same Header, whatever the map order); `ContainsValueOK` (`containsValue` agrees with a reference on query headers and on every Header built); `DecoderAcceptsConforming` (`Header.add` never refuses a field list that section 6 allows, whoever sent it); `ServerReadsRequest` (after the whole trip, the server's getters return the request's method, path with fragment, scheme, host, and, for every header name that is not stripped, split or merged, the caller's first value under the caller's spelling) | pass |
| headers_te | MCHeadersTe.cfg | `RequestConforms` | **violation** |

What the violations show (details in `PROJECT.json` "findings"):

1. **Flags written after the CAS.** `s.closed` (part_000:195) and `s.resetSent` (123) are plain stores made after the CAS that closed the stream. If the reader runs in that gap, it sees Closed with the zero time or without `resetSent`. A RST_STREAM, WINDOW_UPDATE or DATA frame that must be ignored then becomes a connection PROTOCOL_ERROR.
2. **Send overflow check.** The check (part_001:280) counts only `win`. Credit buffered in `winCh` or held by a producer escapes it, so the window can pass 2^31−1. A later leftover return then overflows, and its error is dropped (363/366).
3. **`cancel()` strands credit.** `cancel()` (314-323) moves channel credit back into `win` without offering it. A producer on another stream that is already parked on the connection channel then waits forever, although credit is available. The peer received no DATA, so it has no reason to send a WINDOW_UPDATE.
4. **Lower bound reset too early.** `updateWindow` resets `winLowerBound` to 0 (line 163) on the first WINDOW_UPDATE after a local shrink. DATA that the peer sent under the old window then triggers FLOW_CONTROL_ERROR.
5. **Stall after a shrink.** `incrementInitialWindow` never calls `windowUpdate`. After a shrink, a stream can sit at window 0 with nothing unread, and no WINDOW_UPDATE is ever sent.
6. **te check.** `addHeader` refuses te only when `len(vv) != 1 && strings.ToLower(vv[0]) != "trailers"` (util.go:438). A single value `gzip` passes, and so does `[trailers, gzip]`, against §6 ("te only with trailers"); an empty te list panics on `vv[0]`. The run gives only the te request. Two other defects are reached by the headers_round_trip model but shown by no run: a name with a byte ≥ 127 is sent still invalid (`CanonicalHTTP2HeaderKey`), and an empty name panics `Header.Add` on `key[0]`. They are listed as hazards at util.go:505 and util.go:352.

Two divergences met while modelling are kept as hazards with notes rather than runs: a WINDOW_UPDATE more than 5 s after our RST_STREAM is a stream error STREAM_CLOSED in the code (part_000:80 checks `resetSent` first) where spec §8 scenario 4 expects a connection error; and credit taken by `allocateBytes` before a SETTINGS shrink is spent after it (part_001:355).

Every property of a passing run has a mutant in `PROJECT.json`: a plausible bug in the mapped code that TLC catches under the same cfg. Examples: a counter case dropped, a plain store instead of the CAS, a retry without reload, a grant not clamped, a leftover not returned, a select without the stream's `closeCh`, a missing clamp, the connection not charged, a range bound off by one, an append that skips the update in place, a pseudo-header not dropped, a value stored instead of appended, a `break` for a `continue`, a bound of `h.Len() >= 4`, a `Get` that does not canonicalize its key.

## 4. Bounds and why they suffice

- **Stream.** One reader and one writer (`w2` exists for symmetry experiments). Streams `{1, 2}` with the endpoint as server: one remote-initiated and one local id. All frame types with both END_STREAM values.
  - Each conflicting pair of goroutines (reader vs. writer) is present.
  - Every state of the table is reachable on both sides.
  - A second writer only adds symmetric interleavings and does not finish in time.
  - The liveness run uses one stream: the loops are per stream.
- **SendFlow.** Two producers on two streams contend for the connection channel and its cancel path, and each writes 2 bytes against windows of 1, so they must loop and return leftovers.
  - In every run the peer sends one SETTINGS change to 0 or 2 (shrink and growth), and any controller may close.
  - The pass run (`MCSendFlow.cfg`): initial windows of 1, WINDOW_UPDATEs of 2 bounded by `MaxUpdates = 1`, MaxWindow 6, so overflow is out of reach.
  - The overflow run: WINDOW_UPDATEs of 1 or 2, `MaxUpdates = 2`, MaxWindow 3.
  - The stranded-credit run: initial windows of 2, so one producer can spend exactly what it took; WINDOW_UPDATEs of 1, `MaxUpdates = 2`, MaxWindow 6.
- **RecvFlow.** Two streams share the connection window. Default window 4, maximum 12, local settings {1, 6} (below and above the default), DATA of 1 or 2 bytes, up to 4 DATA frames and 2 SETTINGS changes. These sizes make the threshold (`upper/2`), the clamp and the lower bound all bite.
- **Settings.** Ids ENABLE_PUSH, INITIAL_WINDOW_SIZE, MAX_FRAME_SIZE (the three `SetValue` checks) and one id it does not check, which stands for the other three. Values {0, 1, 3, 5, 7, 8} stand for 0, 1, 16384, 16777215, 2^31−1 and 2^31: each bound's edge value and a value past it. Values strictly between the edges (2, between 1 and 16384, or 6, between 16777215 and 2^31−1) are not given, so a bound moved by one inside such a gap (ENABLE_PUSH `<= 2`, or a frame-size upper bound one past its edge) would go unseen; adding them took the run past five minutes. `Value` folds the HEADER_TABLE_SIZE and MAX_CONCURRENT_STREAMS defaults (util.go 156, 160) into the unchecked id, which reads 0 when unset; only the three checked ids have their defaults modelled. The default window, 65535, is 4 and is never set, so a read of it is a read of the default. Every sequence of calls is explored up to the depth where the slice holds every id.
- **Headers.** Requests: GET or CONNECT, with or without a scheme, ports "", :80, :443, :8080, with or without a fragment, and eight `req.Header` maps that take every branch of `addHeader`: a cookie to split and one starting with `;`, a forbidden name in capitals with te, a pseudo-header name beside a name with no values, `cookie` and `Cookie` (two keys merging under both map orders), a common name with two values, a non-ASCII name, an empty name. The peer sends one of six field lists: all five pseudo-header fields then a regular one (allowed; the fifth pseudo-header arrives at `Len()` 4 and the code refuses only from `Len()` 6, so its bound is looser than the five fields need, and `h.Len() >= 4` is the tightest bound this list catches), a repeated `:method`, a pseudo-header after a regular field, six regular values then `:path`, a name in capitals, and an empty name. The te run gives one request with te `gzip` and no peer.
- Numbers are scaled down: 65535 becomes 4 and 2^31−1 becomes the MaxWindow constant. The arithmetic depends only on the order relations between these values. `float32` rounding of the threshold is exact at these sizes; at 2^31−1 it gives 2^30, which is still "at least half".

## 5. Fairness

Go's scheduler eventually runs every runnable goroutine. So each modelled goroutine has weak fairness on its own steps: the stream CAS loops, the producers, and the reader's loop over streams in `setInitialSendWindow`. The peer and the application are never assumed fair: nothing obliges them to send a frame, grant credit, read or close.

The runs that allow the system to stop set `CHECK_DEADLOCK FALSE`:
- in Headers, a conversion ends when requestToHeader returns and the decoder stops;
- in SendFlow, producers may be blocked waiting for credit the peer never sends;
- in RecvFlow, the peer may stop sending.

## 6. Not modelled, and the plan

- Not modelled:
  - the connection code outside `src/` (framing, the writer queue, GOAWAY, PING, the registry), and HPACK beyond carrying fields in order;
  - `setPriority`, a no-op;
  - the String and Error methods and `badCipher`'s deny-list: formatting and constant lookup (`StreamErrorList.Err`, as `setInitialRecvWindow` uses it, is RecvFlow's `ErrOf`);
  - `Header.Set` and `Header.Del`: no caller in `src`;
  - `flowController.incrementWindow`, which has no caller in `src`;
  - no run states that `Header.add` refuses what section 6 forbids: the model's peer sends a repeated and a late pseudo-header, and `Header.add` accepts both, and an empty name panics it (hazards at util.go:397-398); the run budget is spent on the findings above.
- Further work, and why it is not here:
  1. **Stream with flow control.** Composing `Stream` with `SendFlow`, so that a CAS to Closed fires `closeCh` through `cancelStream`, multiplies two state spaces that each take one to three minutes alone; `CancelReleasesProducers` already checks the release once `closeCh` is closed.
  2. **Receive against send.** Composing `RecvFlow` with `SendFlow` as the two ends of one connection would replace the abstract peer; it needs a run of its own.
  3. **Divergences kept as hazards.** The late WINDOW_UPDATE (part_000:88), credit spent after a shrink (part_001:355) and `Header.add`'s acceptance of duplicate or late pseudo-headers and its panic on an empty name (util.go:397-398) are reached by the models; each needs a violation run of its own.
- The 12-run ceiling is used; any of the above replaces a violation run whose finding is settled.
