------------------------------ MODULE MCHeaders ------------------------------
EXTENDS Headers

\* A name with an ASCII capital, and one with a byte >= 127.
Up(w) == [w |-> w, up |-> TRUE, hi |-> FALSE]
Hi(w) == [w |-> w, up |-> FALSE, hi |-> TRUE]

SomeWords == PseudoHeader \cup {"", "cookie", "te", "host", "accept", "x-y"}

\* req.Header values that take every path of addHeader: a cookie that is
\* split and one whose ';' comes first, a forbidden name in another case,
\* te, a pseudo-header name, a name with no values, two names that
\* canonicalize to one, a common name with two values, a name with a byte
\* >= 127, an empty name, and no header at all.
ReqHeaders ==
  { <<>>,
    Up("cookie") :> << <<"x", ";", " ", "x">>, <<";", "x">> >>,
    (Up("host") :> <<V("x")>>) @@ (N("te") :> <<V("TRAILERS")>>),
    (N(":method") :> <<V("x")>>) @@ (N("x-y") :> <<>>),
    (N("cookie") :> <<V("x")>>) @@ (Up("cookie") :> <<V("gzip")>>),
    Up("accept") :> <<V("x"), V("gzip")>>,
    Hi("x-y") :> <<V("x")>>,
    N("") :> <<V("x")>> }

SomeRequests ==
  [method : {"GET", "CONNECT"}, scheme : {"", "https"},
   port : {"", ":80", ":443", ":8080"}, frag : BOOLEAN, header : ReqHeaders]

\* Headers for containsValue: a list with ',' and spaces under a capital
\* name, a value with an empty element, a name with no values, and none.
QueryHeaders ==
  { Up("te") :> << <<"trailers", ",", " ", "gzip">>, <<"x", ",">> >>,
    (N("te") :> << <<" ", "GET", " ">> >>) @@ (N("accept") :> << <<",">>, V("gzip") >>),
    N("accept") :> <<>>,
    <<>> }

QueryKeys == {N("te"), Up("accept")}

\* No value, one, and two whose second is missing or differs in case.
QueryValues ==
  { <<>>, << <<"TRAILERS">> >>, << <<"gzip">>, <<"x">> >>,
    << <<"trailers">>, <<"get">> >>, << <<>> >> }

\* containsValue answers as its reference does on the query headers and
\* on the Headers requestToHeader and the decoder build.
ContainsValueOK == ContainsValueAgrees(QueryHeaders \cup {h, dh}, QueryKeys, QueryValues)

\* Field lists from a peer: all five pseudo-header fields then a regular
\* one (allowed), a repeated :method, a pseudo-header after a regular
\* field, six regular values then :path, a name in capitals, and an empty
\* name.
F(w) == <<N(w), V("x")>>

SomePeerLists ==
  { <<F(":method"), F(":scheme"), F(":authority"), F(":path"), F(":status"), F("accept")>>,
    <<F(":method"), F(":method")>>,
    <<F("accept"), F(":path")>>,
    <<F("x-y"), F("x-y"), F("x-y"), F("x-y"), F("x-y"), F("x-y"), F(":path")>>,
    <<<<Up("accept"), V("x")>>>>,
    <<F(":path"), F("")>> }

\* A request whose te header asks for gzip.
TeRequests ==
  [method : {"GET"}, scheme : {"https"}, port : {""}, frag : {FALSE},
   header : {N("te") :> <<V("gzip")>>}]

=============================================================================
