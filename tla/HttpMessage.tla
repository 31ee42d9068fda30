---------------------------- MODULE HttpMessage ----------------------------
(***************************************************************************)
(* What an HTTP request is, independently of any parser: how a client      *)
(* writes it, and which calls it means to the user of a parser.  It is the *)
(* reference that HttpParser is checked against.                           *)
(*                                                                         *)
(* A message has the empty lines before it, a method, a url, a version     *)
(* <<>> or <<major, minor>>, an eol that ends its lines, headers and a     *)
(* body.  A header has a name, a lead (the blanks between ":" and the      *)
(* value), a value and a fold (the continuation line of the value, or      *)
(* <<>>).  A body is "none", "identity" with its data, or "chunked" with   *)
(* its chunks and trailers.                                                *)
(***************************************************************************)
EXTENDS HttpText

CRLF == <<CR, LF>>

WriteHeader(h, eol) ==
  h.name \o <<Ch(":")>> \o h.lead \o h.value
    \o (IF h.fold = <<>> THEN <<>> ELSE eol \o h.fold) \o eol

WriteHeaders(hs, eol) == FlattenSeq([i \in DOMAIN hs |-> WriteHeader(hs[i], eol)]) \o eol

WriteChunk(c) == c.size \o c.extension \o CRLF \o c.data \o CRLF

WriteBody(b) ==
  CASE b.kind = "none"     -> <<>>
    [] b.kind = "identity" -> b.data
    [] b.kind = "chunked"  -> FlattenSeq([i \in DOMAIN b.chunks |-> WriteChunk(b.chunks[i])])
                                \o <<Ch("0")>> \o CRLF \o WriteHeaders(b.trailers, CRLF)

WriteVersion(m) ==
  IF m.version = <<>> THEN <<>>
  ELSE <<SP>> \o Word(IF m.method = "SOURCE" THEN "ICE" ELSE "HTTP")
         \o <<Ch("/"), m.version[1], Ch("."), m.version[2]>>

WriteHead(m) ==
  m.before \o Word(m.method) \o <<SP>> \o m.url \o WriteVersion(m) \o m.eol
    \o WriteHeaders(m.headers, m.eol)

Write(m) == WriteHead(m) \o WriteBody(m.body)

-----------------------------------------------------------------------------
(* The parts of a head do not contain what ends them, so that a reader can *)
(* tell where each of them ends.  Nothing more is asked of them.           *)
Parts == [name : Seq(Unit), lead : Seq(Unit), value : Seq(Unit), fold : Seq(Unit)]

(* Between ":" and the value: blanks, and line ends that a blank follows.  *)
LeadOK(lead) ==
  \A i \in DOMAIN lead :
    /\ IsBlank(lead[i]) \/ lead[i] \in {CR, LF}
    /\ lead[i] = CR => i < Len(lead) /\ lead[i + 1] = LF
    /\ lead[i] = LF => i < Len(lead) /\ IsBlank(lead[i + 1])

HeaderOK(h) ==
  /\ h.name # <<>> /\ \A i \in DOMAIN h.name : h.name[i] \notin {CR, LF, SP, HT, Ch(":")}
  /\ LeadOK(h.lead)
  /\ \A i \in DOMAIN h.value : h.value[i] \notin {CR, LF}
  /\ \A i \in DOMAIN h.fold : h.fold[i] \notin {CR, LF}
  /\ h.value # <<>> => ~IsBlank(h.value[1])
  /\ h.fold # <<>> => h.value # <<>> /\ IsBlank(h.fold[1])

HeadOK(m) ==
  /\ m.before \in Seq({CR, LF}) /\ m.method \in STRING
  /\ m.url \in Seq(Unit) \ {<<>>} /\ \A i \in DOMAIN m.url : m.url[i] \notin {SP, CR, LF}
  /\ m.version \in Seq(Unit) /\ Len(m.version) \in {0, 2}
  /\ m.eol \in {<<LF>>, CRLF}
  /\ m.headers \in Seq(Parts) /\ \A i \in DOMAIN m.headers : HeaderOK(m.headers[i])

-----------------------------------------------------------------------------
(* What the headers say. *)

IsName(name, w) == Len(name) = 2 /\ \A i \in 1..2 : IsHalf(name[i], w, i)

(* w is one of the tokens of a comma-separated value. *)
HasToken(value, w) ==
  \E i \in 1..(Len(value) - 1) :
    /\ IsHalf(value[i], w, 1) /\ IsHalf(value[i + 1], w, 2)
    /\ \A before \in 1..(i - 1) :
         ~IsBlank(value[before]) => \E c \in before..(i - 1) : value[c] = Ch(",")
    /\ \A after \in (i + 2)..Len(value) :
         ~IsBlank(value[after]) => \E c \in (i + 2)..after : value[c] = Ch(",")

ConnectionHas(m, w) ==
  \E i \in DOMAIN m.headers :
    /\ IsName(m.headers[i].name, "connection") \/ IsName(m.headers[i].name, "proxy-connection")
    /\ HasToken(m.headers[i].value \o m.headers[i].fold, w)

HasHeader(m, w) ==
  \E i \in DOMAIN m.headers : IsName(m.headers[i].name, w) /\ m.headers[i].value # <<>>

(* The client asks to leave HTTP behind. *)
WantsUpgrade(m) ==
  m.method = "CONNECT" \/ (HasHeader(m, "upgrade") /\ ConnectionHas(m, "upgrade"))

(* Another request may follow on the same connection. *)
KeepsAlive(m) ==
  IF m.version # <<>> /\ m.version[1] # Ch("0") /\ m.version[2] # Ch("0")
  THEN ~ConnectionHas(m, "close")
  ELSE ConnectionHas(m, "keep-alive")

(* The number a sequence of digits stands for. *)
Number(digits) == FoldLeft(LAMBDA n, u : 10 * n + Digits[u.w], 0, digits)

(* The length a Content-Length header declares, or none. *)
DeclaredLength(m, none) ==
  LET sizes == {i \in DOMAIN m.headers : IsName(m.headers[i].name, "content-length")}
  IN  IF sizes = {} THEN none
      ELSE Number(SelectSeq(m.headers[CHOOSE i \in sizes : TRUE].value, IsNum))

-----------------------------------------------------------------------------
(* The calls a parser makes. *)

Call(on, data) == [on |-> on, data |-> data]
DataCalls == {"url", "header_field", "header_value", "body"}

(* Calls that carry consecutive pieces of the same text are one.           *)
Join(calls, call) ==
  IF calls # <<>> /\ call.on \in DataCalls /\ Last(calls).on = call.on
  THEN Append(Front(calls), Call(call.on, Last(calls).data \o call.data))
  ELSE Append(calls, call)

HeaderCalls(hs) ==
  FlattenSeq([i \in DOMAIN hs |->
    <<Call("header_field", hs[i].name), Call("header_value", hs[i].value \o hs[i].fold)>>])

ChunkCalls(c) ==
  <<Call("chunk_header", <<>>), Call("body", c.data), Call("chunk_complete", <<>>)>>

BodyCalls(b) ==
  CASE b.kind = "none"     -> <<>>
    [] b.kind = "identity" -> <<Call("body", b.data)>>
    [] b.kind = "chunked"  -> FlattenSeq([i \in DOMAIN b.chunks |-> ChunkCalls(b.chunks[i])])
                                \o <<Call("chunk_header", <<>>)>> \o HeaderCalls(b.trailers)
                                \o <<Call("chunk_complete", <<>>)>>

Calls(m) ==
  <<Call("message_begin", <<>>), Call("url", m.url)>> \o HeaderCalls(m.headers)
    \o <<Call("headers_complete", <<>>)>> \o BodyCalls(m.body) \o <<Call("message_complete", <<>>)>>

(* The messages up to the first after which the connection ends, and what  *)
(* they mean together.                                                     *)
Heeded(ms) ==
  SubSeq(ms, 1, Min({i \in DOMAIN ms : ~KeepsAlive(ms[i])} \cup {Len(ms)}))

Meaning(ms) == FlattenSeq([i \in DOMAIN Heeded(ms) |-> Calls(ms[i])])
=============================================================================
