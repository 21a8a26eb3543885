------------------------------- MODULE Headers -------------------------------
(***************************************************************************)
(* Header handling of util.go, end to end: requestToHeader turns an        *)
(* http.Request into an HTTP/2 Header (the pseudo-header fields, then      *)
(* addHeader's loop over req.Header, which canonicalizes names, strips     *)
(* connection-specific ones, splits cookies and checks te); the HPACK      *)
(* encoder sends the Header's fields; the peer's decoder hands each field  *)
(* to Header.add, which checks pseudo-headers and names.                   *)
(*                                                                         *)
(* A header name is abstracted to its lowercase ASCII spelling w and two   *)
(* flags: up, it has an ASCII capital, and hi, it has a byte >= 127.  A    *)
(* header value is a sequence of atoms: words, ";" and " ".                *)
(***************************************************************************)
EXTENDS Integers, FiniteSets, SequencesExt

CONSTANTS
  Words,        \* lowercase spellings of the names in the model, "" included
  ColonWords,   \* those that start with ':'
  Requests,     \* the requests a caller passes to requestToHeader
  PeerLists     \* field lists (<<name, value>> pairs) a peer may send

Name == [w : Words, up : BOOLEAN, hi : BOOLEAN]

\* A name spelled in lowercase ASCII.
N(w) == [w |-> w, up |-> FALSE, hi |-> FALSE]

\* A value made of one word.
V(a) == <<a>>

\* init(): the pseudo-header set.
PseudoHeader == {":method", ":scheme", ":authority", ":path", ":status"}

\* init(): commonHeader maps each listed name, and its lowercase form, to
\* the lowercase form.  The lowercase forms:
CommonHeader ==
  {"accept", "accept-charset", "accept-encoding", "accept-language",
   "accept-ranges", "age", "allow", "alpn", "authentication-info",
   "authorization", "cache-control", "connection", "content-disposition",
   "content-encoding", "content-language", "content-length",
   "content-location", "content-range", "content-type", "cookie", "dasl",
   "dav", "date", "depth", "destination", "etag", "expect", "expires",
   "forwarded", "from", "host", "http2-settings", "if", "if-match",
   "if-modified-since", "if-none-match", "if-range", "if-schedule-tag-match",
   "if-unmodified-since", "last-modified", "location", "lock-token",
   "max-forwards", "mime-version", "ordering-type", "origin", "overwrite",
   "position", "pragma", "prefer", "preference-applied",
   "proxy-authenticate", "proxy-authentication-info", "proxy-authorization",
   "public-key-pins", "public-key-pins-report-only", "range", "referer",
   "retry-after", "schedule-reply", "schedule-tag", "sec-websocket-accept",
   "sec-websocket-extensions", "sec-websocket-key", "sec-websocket-protocol",
   "sec-websocket-version", "server", "set-cookie", "slug",
   "strict-transport-security", "te", "timeout", "trailer",
   "transfer-encoding", "upgrade", "user-agent", "vary", "via",
   "www-authenticate", "warning", "access-control-allow-credentials",
   "access-control-allow-headers", "access-control-allow-methods",
   "access-control-allow-origin", "access-control-max-age",
   "access-control-request-method", "access-control-request-headers",
   "compliance", "content-transfer-encoding", "cost", "ediint-features",
   "message-id", "non-compliance", "optional", "resolution-hint",
   "resolver-location", "subok", "subst", "title", "ua-color", "ua-media",
   "ua-pixels", "ua-resolution", "ua-windowpixels", "version",
   "x-device-accept", "x-device-accept-charset", "x-device-accept-encoding",
   "x-device-accept-language", "x-device-user-agent"}

-----------------------------------------------------------------------------
(* Names and values.                                                       *)

\* strings.ToLower: ASCII capitals become lowercase; bytes >= 127 stay so.
Lower(n) == [n EXCEPT !.up = FALSE]

\* validHeaderKey: non-empty, no byte >= 127 and no ASCII capital.
validHeaderKey(n) == n.w # "" /\ ~n.up /\ ~n.hi

\* CanonicalHTTP2HeaderKey.  The commonHeader lookup hits a listed ASCII
\* name in its listed or lowercase spelling.
CanonicalHTTP2HeaderKey(n) ==
  IF n.w \in CommonHeader /\ ~n.hi THEN Lower(n)
  ELSE IF validHeaderKey(n) THEN n
  ELSE Lower(n)

\* badHeader: the connection-specific names section 6 forbids.
badHeader(n) ==
  n \in {N(w) : w \in {"connection", "keep-alive", "proxy-connection",
                       "transfer-encoding", "host", "upgrade"}}

\* key[0] == ':' (the caller has made sure that key is not empty).
StartsWithColon(n) == n.w \in ColonWords

\* strings.ToLower of a value.
LowerValue(v) ==
  [i \in DOMAIN v |-> CASE v[i] = "TRAILERS" -> "trailers"
                        [] v[i] = "GET"      -> "get"
                        [] OTHER             -> v[i]]

\* strings.IndexByte(v, c) + 1: 0 when v has no c.
IndexByte(v, c) == SelectInSeq(v, LAMBDA a : a = c)

\* strings.Split(v, sep) for a one-byte sep.
RECURSIVE Split(_, _)
Split(v, sep) ==
  LET i == IndexByte(v, sep)
  IN  IF i = 0 THEN <<v>>
      ELSE <<SubSeq(v, 1, i - 1)>> \o Split(SubSeq(v, i + 1, Len(v)), sep)

\* strings.TrimSpace.
TrimSpace(v) ==
  LET keep == {i \in DOMAIN v : v[i] # " "}
  IN  IF keep = {} THEN <<>> ELSE SubSeq(v, Min(keep), Max(keep))

\* strings.EqualFold of two names and of two values.
EqualFoldName(a, b) == Lower(a) = Lower(b)
EqualFold(a, b) == LowerValue(a) = LowerValue(b)

\* The loop body of splitHeader for one key's values: each value split at
\* ',' and each element trimmed.
SplitValues(vv) ==
  FlattenSeq([i \in DOMAIN vv |->
                [j \in DOMAIN Split(vv[i], ",") |-> TrimSpace(Split(vv[i], ",")[j])]])

\* splitHeader: the elements of the first key, in Go's map order, that
\* equals key up to case; the loop breaks there.  The set of results the
\* map orders can give.
splitHeader(header, key) ==
  LET ks == {k \in DOMAIN header : EqualFoldName(key, k)}
  IN  IF ks = {} THEN {<<>>} ELSE {SplitValues(header[k]) : k \in ks}

\* Mutant: break loop in place of continue loop, so the first value found
\* settles the answer.
containsValueFirst(header, key, values) ==
  {ss # <<>> /\ (values # <<>> => \E j \in DOMAIN ss : EqualFold(values[1], ss[j]))
     : ss \in splitHeader(header, key)}

\* containsValue: false when splitHeader found nothing; else every one of
\* values equals, up to case, some element (the labelled continue loop).
containsValue(header, key, values) ==
  {ss # <<>> /\ \A i \in DOMAIN values : \E j \in DOMAIN ss : EqualFold(values[i], ss[j])
     : ss \in splitHeader(header, key)}

-----------------------------------------------------------------------------
(* A Header is a function from names to their values (a Go map).           *)

\* (*h)[key] = append((*h)[key], value)
AppendValue(h, key, value) ==
  IF key \in DOMAIN h THEN [h EXCEPT ![key] = Append(@, value)]
                      ELSE (key :> <<value>>) @@ h

\* Header.Len: the number of values.
HeaderLen(h) == FoldFunction(LAMBDA vv, n : Len(vv) + n, 0, h)

\* Header.get: the first value under key as stored, or "" (<<>>).
get(hh, key) == IF key \in DOMAIN hh /\ hh[key] # <<>> THEN hh[key][1] ELSE <<>>

\* Method, Scheme, Authority, Path and Status: get of their pseudo-header.
PseudoGet(hh, w) == get(hh, N(w))

\* Mutant: Header.Get looks the key up as given.
GetNoCanonical(hh, key) == get(hh, key)

\* Header.Get: the first value under the canonical key, or "".
Get(hh, key) == get(hh, CanonicalHTTP2HeaderKey(key))

\* Mutant: Header.Add without its key[0] != ':' test.
AddNoColonGuard(h, key, value) ==
  AppendValue(h, CanonicalHTTP2HeaderKey(key), value)

\* Header.Add for a non-empty key: a name that starts with ':' is dropped,
\* any other is canonicalized and the value appended.  (key[0] panics on
\* an empty key; the caller decides that case.)
Add(h, key, value) ==
  IF StartsWithColon(key) THEN h
  ELSE AppendValue(h, CanonicalHTTP2HeaderKey(key), value)

\* Mutant: addHeader appends the whole slice in one assignment,
\* h[k] = append(h[k], vv...), which stores a key with no values.
AddValuesBulk(h, key, vv) ==
  LET k == CanonicalHTTP2HeaderKey(key)
  IN  IF StartsWithColon(key) THEN h
      ELSE (k :> ((IF k \in DOMAIN h THEN h[k] ELSE <<>>) \o vv)) @@ h

\* for _, v := range vv { h.Add(k, v) }
AddValues(h, key, vv) == FoldLeft(LAMBDA acc, v : Add(acc, key, v), h, vv)

-----------------------------------------------------------------------------
(* The client: requestToHeader.                                            *)

Atoms == {"x", "gzip", ",", "trailers", "TRAILERS", ";", " ", "GET", "CONNECT",
          "http", "https", "/p", "#f", "host"}

VARIABLES
  req,    \* the request
  skip,   \* skipVerify
  h,      \* the Header being built
  left,   \* the req.Header keys addHeader has not visited yet
  cst,    \* "start", "loop", then "ok", "error" or "panic"
  wire,   \* the fields the encoder sent and the decoder has not read
  dh,     \* the Header the peer's decoder builds with add
  dst,    \* the decoder: "idle", "run", then "done", "malformed" or "panic"
  sent,   \* the field list put on the wire (a history variable)
  from    \* who sent it: "none", "client" or "peer"

vars == <<req, skip, h, left, cst, wire, dh, dst, sent, from>>

\* The scheme: URL.Scheme, else the one the port names.  port is
\* URL.Host[i:] for the last ':' when it follows the last ']', and "" when
\* there is none (an IPv6 literal without a port has its ':' inside the
\* brackets).
Scheme(r) ==
  IF r.scheme # "" THEN r.scheme
  ELSE CASE r.port \in {":http", ":80"}   -> "http"
         [] r.port \in {":https", ":443"} -> "https"
         [] OTHER                         -> ""

\* URL.RequestURI() is never empty (net/url gives "/" for an empty path),
\* so ":path must be specified" cannot be returned; a fragment is appended.
PathValue(r) == IF r.frag THEN <<"/p", "#f">> ELSE V("/p")

\* The pseudo-header fields, each set once with SetMethod, SetScheme,
\* SetPath and SetAuthority.
PseudoFields(r) ==
  IF r.method = "CONNECT" THEN N(":authority") :> <<V("host")>>
  ELSE (N(":method") :> <<V(r.method)>>) @@ (N(":path") :> <<PathValue(r)>>)
         @@ (N(":authority") :> <<V("host")>>)
         @@ (IF Scheme(r) # "" THEN N(":scheme") :> <<V(Scheme(r))>> ELSE <<>>)

Init ==
  /\ req \in Requests /\ skip \in BOOLEAN
  /\ h = <<>> /\ left = {} /\ cst = "start"
  /\ wire = <<>> /\ dh = <<>> /\ dst = "idle"
  /\ sent = <<>> /\ from = "none"

\* requestToHeader up to the call of addHeader.
RequestToHeader ==
  /\ cst = "start"
  /\ IF req.method # "CONNECT" /\ Scheme(req) = "" /\ ~skip
       THEN cst' = "error" /\ UNCHANGED <<h, left>>
       ELSE /\ h' = PseudoFields(req)
            /\ left' = DOMAIN req.header
            /\ cst' = IF DOMAIN req.header = {} THEN "ok" ELSE "loop"
  /\ UNCHANGED <<req, skip, wire, dh, dst, sent, from>>

\* The cookie values: one with a ';' past its first byte is split and each
\* crumb trimmed; any other is kept whole.
CookieValues(vv) ==
  FlattenSeq([i \in DOMAIN vv |->
                IF IndexByte(vv[i], ";") > 1
                  THEN [j \in DOMAIN Split(vv[i], ";") |-> TrimSpace(Split(vv[i], ";")[j])]
                  ELSE <<vv[i]>>])

\* One iteration of addHeader's loop, for the key k that Go's map order
\* gives next.
AddHeader(k) ==
  LET key  == CanonicalHTTP2HeaderKey(k)
      vv   == req.header[k]
      more == IF left \ {k} = {} THEN "ok" ELSE "loop"
  IN /\ cst = "loop" /\ k \in left
     /\ left' = left \ {k}
     /\ CASE badHeader(key)     -> UNCHANGED h /\ cst' = more
          [] key = N("cookie") -> h' = AddValues(h, key, CookieValues(vv)) /\ cst' = more
          \* te: len(vv) != 1 && strings.ToLower(vv[0]) != "trailers"
          [] key = N("te") /\ vv = <<>>
                                -> UNCHANGED h /\ cst' = "panic"
          [] key = N("te") /\ Len(vv) # 1 /\ LowerValue(vv[1]) # V("trailers")
                                -> UNCHANGED h /\ cst' = "error"
          \* h.Add with an empty key: key[0] is out of range
          [] key.w = "" /\ vv # <<>>
                                -> UNCHANGED h /\ cst' = "panic"
          [] OTHER              -> h' = AddValues(h, key, vv) /\ cst' = more
     /\ UNCHANGED <<req, skip, wire, dh, dst, sent, from>>

-----------------------------------------------------------------------------
(* The wire and the peer.                                                  *)

\* The fields of the names ks, each name's values in order.
Fields(hh, ks) ==
  FlattenSeq([i \in DOMAIN ks |-> [j \in DOMAIN hh[ks[i]] |-> <<ks[i], hh[ks[i]][j]>>]])

\* The HPACK encoder (outside src/; section 5 of spec.md): the
\* pseudo-header fields first, then the regular ones in map order.
Encode ==
  /\ cst = "ok" /\ dst = "idle"
  /\ LET ps == {k \in DOMAIN h : StartsWithColon(k)}
     IN  \E rs \in SetToSeqs(DOMAIN h \ ps) :
           /\ wire' = Fields(h, SetToSeq(ps)) \o Fields(h, rs)
           /\ sent' = wire'
  /\ dst' = "run" /\ from' = "client"
  /\ UNCHANGED <<req, skip, h, left, cst, dh>>

\* A peer's HEADERS block: any field list, decoded field by field with
\* Header.add like the client's.
PeerSends ==
  /\ dst = "idle"
  /\ \E fl \in PeerLists : wire' = fl /\ sent' = fl
  /\ dst' = "run" /\ from' = "peer"
  /\ UNCHANGED <<req, skip, h, left, cst, dh>>

\* The two refusals of Header.add, for key and the Header so far.
\* Mutant: the bound on the values already held is h.Len() >= 4.
RefusedLenFour(hh, key) ==
  \/ StartsWithColon(key) /\ (HeaderLen(hh) >= 4 \/ key \notin {N(w) : w \in PseudoHeader})
  \/ ~validHeaderKey(key)

Refused(hh, key) ==
  \/ StartsWithColon(key) /\ (HeaderLen(hh) > 5 \/ key \notin {N(w) : w \in PseudoHeader})
  \/ ~validHeaderKey(key)

\* Mutant: add stores the value instead of appending it.
DecodeOverwrite ==
  /\ dst = "run"
  /\ LET key == Head(wire)[1]
         value == Head(wire)[2]
     IN  CASE key.w = ""         -> dst' = "panic" /\ UNCHANGED dh
           [] Refused(dh, key)  -> dst' = "malformed" /\ UNCHANGED dh
           [] OTHER            -> /\ dh' = (key :> <<value>>) @@ dh
                                  /\ dst' = IF Tail(wire) = <<>> THEN "done" ELSE "run"
  /\ wire' = Tail(wire)
  /\ UNCHANGED <<req, skip, h, left, cst, sent, from>>

\* The peer's decoder hands the next field to Header.add: a pseudo-header
\* is refused when the header already has more than five values or the
\* name is not one of the five; any name must be a valid key.
Decode ==
  /\ dst = "run"
  /\ LET key == Head(wire)[1]
         value == Head(wire)[2]
     IN  CASE key.w = ""         -> dst' = "panic" /\ UNCHANGED dh
           [] Refused(dh, key)  -> dst' = "malformed" /\ UNCHANGED dh
           [] OTHER            -> /\ dh' = AppendValue(dh, key, value)
                                  /\ dst' = IF Tail(wire) = <<>> THEN "done" ELSE "run"
  /\ wire' = Tail(wire)
  /\ UNCHANGED <<req, skip, h, left, cst, sent, from>>

Next ==
  \/ RequestToHeader
  \/ \E k \in left : AddHeader(k)
  \/ Encode
  \/ PeerSends
  \/ Decode

Spec == Init /\ [][Next]_vars

-----------------------------------------------------------------------------
(* Properties.                                                             *)

HeaderOK(hh) ==
  /\ DOMAIN hh \subseteq Name
  /\ \A k \in DOMAIN hh : hh[k] \in Seq(Seq(Atoms)) \ {<<>>}

TypeOK ==
  /\ req \in Requests /\ skip \in BOOLEAN
  /\ HeaderOK(h) /\ HeaderOK(dh)
  /\ left \subseteq DOMAIN req.header
  /\ cst \in {"start", "loop", "ok", "error", "panic"}
  /\ dst \in {"idle", "run", "done", "malformed", "panic"}
  /\ from \in {"none", "client", "peer"}
  /\ sent \in Seq(Name \X Seq(Atoms))

\* The pseudo-header fields of a Header requestToHeader returns are what
\* section 6 of spec.md requires: a request other than CONNECT has exactly
\* one :method, one :path and one :authority, and one :scheme unless
\* skipVerify let it go without; a CONNECT request has only :authority.
\* Pseudo-header names in req.Header add nothing (Header.Add drops them).
PseudoHeadersExact ==
  cst = "ok" =>
    LET ps   == {k \in DOMAIN h : StartsWithColon(k)}
        need == IF req.method = "CONNECT" THEN {N(":authority")}
                ELSE {N(":method"), N(":path"), N(":authority")}
        may  == IF req.method = "CONNECT" THEN {} ELSE {N(":scheme")}
    IN  /\ need \subseteq ps /\ ps \subseteq need \cup may
        /\ req.method # "CONNECT" /\ ~skip => N(":scheme") \in ps
        /\ \A k \in ps : Len(h[k]) = 1

\* Round trip (section 8 of spec.md): when the peer's decoder has read all
\* the fields of a request header with Header.add, it has the same Header:
\* every name with its values in the order requestToHeader added them.
DecoderReadsBack == dst = "done" /\ from = "client" => dh = h

\* What the server reads of a request the client sent (requestToHeader,
\* HPACK, Header.add, then the getters): the method, the path with its
\* fragment, the scheme the caller gave and the host; and for each header
\* name the caller set that is not stripped, rewritten or merged, Get with
\* the caller's spelling returns the caller's first value.
ServerReadsRequest ==
  dst = "done" /\ from = "client" =>
    LET kept(k) == /\ ~StartsWithColon(k) /\ req.header[k] # <<>>
                   /\ Lower(k) \notin {N("cookie"), N("host")}
                   /\ \A k2 \in DOMAIN req.header : Lower(k2) = Lower(k) => k2 = k
    IN  /\ PseudoGet(dh, ":authority") = V("host")
        /\ req.method # "CONNECT" =>
             /\ PseudoGet(dh, ":method") = V(req.method)
             /\ PseudoGet(dh, ":path") = <<"/p">> \o (IF req.frag THEN <<"#f">> ELSE <<>>)
             /\ req.scheme # "" => PseudoGet(dh, ":scheme") = V(req.scheme)
        /\ \A k \in DOMAIN req.header : kept(k) => Get(dh, k) = req.header[k][1]

\* Section 6's rules for a field list: pseudo-header names are among the
\* five, each at most once, and all precede the regular names, which are
\* lowercase ASCII.
Conforming(fl) ==
  LET pseudo(i) == StartsWithColon(fl[i][1])
  IN  /\ \A i \in DOMAIN fl :
           IF pseudo(i) THEN fl[i][1] \in {N(w) : w \in PseudoHeader}
                        ELSE validHeaderKey(fl[i][1])
      /\ \A i, j \in DOMAIN fl : i < j /\ pseudo(i) /\ pseudo(j) => fl[i][1] # fl[j][1]
      /\ \A i, j \in DOMAIN fl : i < j /\ pseudo(j) => pseudo(i)

\* Header.add never refuses a field list section 6 allows, whoever sent
\* it: its bound h.Len() > 5 counts every value already held, so it must
\* leave room for all five pseudo-header fields.
DecoderAcceptsConforming ==
  Conforming(sent) => dst \notin {"malformed", "panic"}

\* containsValue(header, key, values...) answers whether header lists every
\* one of values for key: the header has a name equal to key up to case,
\* and each value is, up to case, one of the comma-separated, trimmed
\* elements of that name's values.  For headers whose names differ other
\* than in case (as net/http's canonical names do), map order cannot
\* change the answer.
ContainsValueAgrees(Hs, Ks, Vs) ==
  \A hdr \in Hs, key \in Ks, values \in Vs :
    LET ks    == {k \in DOMAIN hdr : EqualFoldName(key, k)}
        elems == UNION {UNION {{TrimSpace(e) : e \in Range(Split(hdr[k][i], ","))}
                                 : i \in DOMAIN hdr[k]} : k \in ks}
    IN  (\A a, b \in DOMAIN hdr : EqualFoldName(a, b) => a = b) =>
          containsValue(hdr, key, values)
            = {/\ elems # {}
               /\ \A i \in DOMAIN values : \E e \in elems : EqualFold(values[i], e)}

\* Whatever the request, requestToHeader does not panic, and a Header it
\* returns has only names section 6 allows (lowercase ASCII) and te only
\* with the value trailers.
RequestConforms ==
  /\ cst # "panic"
  /\ cst = "ok" =>
       \A k \in DOMAIN h :
         ~StartsWithColon(k) =>
           /\ validHeaderKey(k)
           /\ k = N("te") => \A i \in DOMAIN h[k] : LowerValue(h[k][i]) = V("trailers")

=============================================================================
