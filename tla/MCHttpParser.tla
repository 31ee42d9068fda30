---------------------------- MODULE MCHttpParser ----------------------------
(* HttpParser for TLC: requests of every form, and every way to be wrong.  *)
EXTENDS HttpParser

V(major, minor) == <<Ch(major), Ch(minor)>>
H(name, value) == [name |-> name, lead |-> <<SP>>, value |-> value, fold |-> <<>>]
Request(method, url, version, eol, headers, body) ==
  [before |-> <<>>, method |-> method, url |-> url, version |-> version, eol |-> eol, headers |-> headers,
   body |-> body]

NoBody == [kind |-> "none"]
Identity(data) == [kind |-> "identity", data |-> data]
Slash == <<Ch("/")>>
A == Ch("a")
Comma == <<Ch(","), SP>>

Upgrade == H(Word("Upgrade"), Word("WebSocket"))
Connection(value) == H(Word("Connection"), value)
Length(digits) == H(Word("content-length"), digits)
Chunked == H(Word("transfer-encoding"), Word("chunked"))

Plain == Request("GET", Slash, V("1", "1"), CRLF, <<>>, NoBody)
With(headers) == [Plain EXCEPT !.headers = headers]
Later == [Plain EXCEPT !.before = CRLF]

ToWebSocket ==
  {<<With(<<Connection(value), Upgrade>>)>> :
     value \in {Word("Upgrade"), Word("keep-alive") \o Comma \o Word("upgrade"),
                <<A, Ch(",")>> \o Word("upgrade") \o <<SP, Ch(","), A>>,
                Word("upgrade") \o <<SP, A>>, Word("keep-alive"), <<A, SP>> \o Word("upgrade")}}
    \cup {<<With(<<[Connection(<<A, Ch(",")>>) EXCEPT !.fold = <<SP>> \o Word("upgrade")], Upgrade>>)>>}

(* Names and values that only begin like the known ones. *)
Lookalikes ==
  {<<With(<<H(Word("Upgrade") \o <<A>>, Word("websocket")), Connection(Word("upgrade") \o <<A>>)>>)>>,
   <<With(<<H(<<Half("transfer-encoding", 1), A>>, Word("chunked")),
            H(Word("transfer-encoding"), Word("chunked") \o <<A>>)>>)>>,
   <<With(<<H(Word("transfer-encoding"), <<A>>),
            Connection(<<Half("close", 1), Half("upgrade", 2)>> \o Comma \o <<A>>)>>)>>}

Urls ==
  {<<Request("CONNECT", <<A, Ch(":"), Ch("1")>>, V("1", "1"), CRLF, <<>>, NoBody), Plain>>,
   <<Request("SOURCE", <<A, Ch(":"), Ch("/"), Ch("/"), A, Ch("@"), A, Ch("?"), A, Ch("?"), Ch("#"),
                         Ch("#"), A, Ch("?")>>,
             V("1", "0"), <<LF>>, <<H(Word("proxy-connection"), Word("keep-alive"))>>, NoBody),
     Request("GET", Slash \o <<Ch("#"), Ch("?")>>, <<>>, CRLF, <<>>, NoBody)>>,
   <<Request("GET", <<A, Ch(":"), Ch("/"), Ch("/"), A, Ch("/"), A, Ch("?"), Ch("#")>>, <<>>, <<LF>>,
             <<Connection(Word("keep-alive"))>>, NoBody), Plain>>}

Lengths ==
  {<<Request("POST", Slash, V("1", "1"), CRLF, <<Length(<<Ch("0"), Ch("2"), SP>>)>>,
             Identity(<<A, CR>>)), With(<<Connection(Word("Close") \o <<SP>>)>>), Later>>,
   <<With(<<Length(<<Ch("0")>>)>>), Later>>,
   <<[With(<<Upgrade, Connection(Word("Upgrade")), Length(<<Ch("1")>>)>>)
        EXCEPT !.eol = <<LF>>, !.body = Identity(<<A>>)], Plain>>}

Chunk(size, extension, data) == [size |-> size, extension |-> extension, data |-> data]
Chunks ==
  {<<[With(<<Chunked>>) EXCEPT !.body = [kind |-> "chunked", chunks |-> chunks, trailers |-> trailers]],
     Plain>> :
   chunks \in {<<Chunk(<<Ch("2")>>, <<Ch(";"), A>>, <<A, A>>), Chunk(<<Ch("1")>>, <<SP>>, <<CR>>)>>,
               <<Chunk(<<Ch("0"), Ch("1")>>, <<>>, <<LF>>)>>},
   trailers \in {<<>>, <<H(<<A>>, <<A>>)>>}}

(* Values that are empty, or go on in the next line. *)
Lines ==
  {<<[With(<<[H(<<A>>, <<A>>) EXCEPT !.fold = <<SP, A>>],
             [H(<<A>>, <<A>>) EXCEPT !.lead = <<SP>> \o eol \o <<HT>>],
             [H(<<A>>, <<>>) EXCEPT !.lead = <<>>]>>) EXCEPT !.eol = eol], Plain>> :
     eol \in {CRLF, <<LF>>}}

Large ==
  {<<Plain, With(<<H(<<A>>, [i \in 1..n |-> A])>>)>> : n \in {12, 13}}
    \cup {<<With(<<H(<<A>>, [i \in 1..8 |-> A]), H([i \in 1..9 |-> A], <<A>>)>>)>>,
          <<[With(<<H(<<A>>, [i \in 1..8 |-> A]), H(<<A>>, [i \in 1..12 |-> A])>>)
               EXCEPT !.eol = <<LF>>]>>}

MCRequests == ToWebSocket \cup Lookalikes \cup Urls \cup Lengths \cup Chunks \cup Lines \cup Large

-----------------------------------------------------------------------------
Wrong(errno, texts) == {[text |-> t, errno |-> errno] : t \in texts}

Get == Word("GET") \o <<SP>>
Line == Word("GET") \o <<SP, Ch("/"), LF>>
Http == Get \o Slash \o <<SP>> \o Word("HTTP")
Header(name, value) == Line \o name \o <<Ch(":")>> \o value
Sized(value) == Header(Word("content-length"), value)
ChunkedHead == Header(Word("transfer-encoding"), Word("chunked")) \o <<LF>>

WrongLines ==
  Wrong("INVALID_METHOD", {<<Ch("1")>>, Word("a"), <<Half("GET", 1), A>>, Word("GET") \o <<A>>})
  \cup Wrong("INVALID_URL",
         {Get \o u : u \in {<<SP, Ch("?")>>, <<A, Ch("?")>>, <<A, SP>>, <<A, Ch(":"), A>>,
                            <<A, Ch(":"), Ch("/"), A>>, Slash \o <<Ch("CTL")>>,
                            <<A, Ch(":"), Ch("/"), Ch("/"), Ch("@"), Ch("@")>>}})
  \cup Wrong("INVALID_CONSTANT", {Get \o Slash \o <<SP, SP, A>>, Get \o Slash \o <<SP>> \o Word("ICE")})
  \cup Wrong("STRICT", {Get \o Slash \o <<SP, Half("HTTP", 1), A>>, Http \o <<A>>,
                        Word("SOURCE") \o <<SP, Ch("/"), SP, Half("ICE", 1), A>>})
  \cup Wrong("INVALID_VERSION",
         {Http \o <<Ch("/")>> \o v :
            v \in {<<A>>, <<Ch("1"), A>>, <<Ch("1"), Ch("."), A>>, <<Ch("1"), Ch("."), Ch("1"), A>>}})
  \cup Wrong("LF_EXPECTED", {Get \o Slash \o <<CR, A>>})

WrongHeaders ==
  Wrong("INVALID_HEADER_TOKEN", {Line \o <<Ch(":")>>, Line \o <<A, SP>>, Header(<<A>>, <<A, Ch("CTL")>>)})
  \cup Wrong("LF_EXPECTED", {Header(<<A>>, <<A, CR, A>>)})
  \cup Wrong("STRICT", {Header(<<A>>, <<CR, A>>), Line \o <<CR, A>>})
  \cup Wrong("INVALID_CONTENT_LENGTH",
         {Sized(v) : v \in {<<LF, A>>, <<A>>, <<Ch("1"), A>>, <<Ch("1"), SP, Ch("1")>>,
                            <<Ch("2"), Ch("9"), Ch("9")>>, <<Ch("1"), LF, SP, Ch("1")>>}})
  \cup Wrong("UNEXPECTED_CONTENT_LENGTH",
         {Sized(<<Ch("1"), LF>>) \o Word("content-length") \o <<Ch(":"), Ch("1")>>,
          Sized(<<Ch("1"), LF>>) \o Word("transfer-encoding") \o <<Ch(":")>> \o Word("chunked")
            \o <<LF, LF>>})
  \cup Wrong("HEADER_OVERFLOW",
         {Line \o [i \in 1..33 |-> A] \o <<u>> : u \in {A, SP, Ch(":")}}
         \cup {Header(<<A>>, [i \in 1..33 |-> A]) \o <<u>> : u \in {CR, LF, A}}
         \cup {Get \o Slash \o [i \in 1..40 |-> A]})

WrongChunks ==
  Wrong("INVALID_CHUNK_SIZE", {ChunkedHead \o <<LF, LF>>, ChunkedHead \o <<LF, Ch("1"), LF>>})
  \cup Wrong("INVALID_CONTENT_LENGTH", {ChunkedHead \o <<LF, Ch("f"), Ch("f")>>})
  \cup Wrong("STRICT",
         {ChunkedHead \o <<LF, Ch("1")>> \o t :
            t \in {<<CR, A>>, CRLF \o <<A, A>>, CRLF \o <<A, CR, A>>}})

MCMalformed == WrongLines \cup WrongHeaders \cup WrongChunks
=============================================================================
