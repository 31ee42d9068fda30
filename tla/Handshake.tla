------------------------------ MODULE Handshake ------------------------------
(***************************************************************************)
(* WebSocketConnection until it speaks WebSocket: parse() hands what has   *)
(* arrived to http_parser_execute(), whose callbacks collect the headers   *)
(* and, when they are complete, answer 101 or 400.                         *)
(*                                                                         *)
(* The TcpConnection below is reduced to what one answer and a close do to *)
(* its state; writes succeed, and the peer does not hang up.  A value is   *)
(* a nonce of 24 characters when it is the word "nonce".                   *)
(***************************************************************************)
EXTENDS HttpParser

VARIABLES
  status,          \* status_: INITIAL, CONNECT
  headers,         \* headers_
  lastHeaderField, \* lastHeaderField_
  tcp,             \* conn_->state_
  answers,         \* history: what was sent
  aborted,         \* "no", or the assert that failed, or the call that crashed
  torn             \* history: a read has ended inside the name or the value of a header

connVars == <<status, headers, lastHeaderField, tcp, answers, aborted, torn>>
vars == <<parserVars, connVars>>

HandshakeInit ==
  /\ Init
  /\ status = "INITIAL"
  /\ headers = <<>>
  /\ lastHeaderField = <<>>
  /\ tcp = "kConnected"
  /\ answers = <<>>
  /\ aborted = "no"
  /\ torn = FALSE

-----------------------------------------------------------------------------
(* The headers the server asks for.                                        *)
First(hs, name) == IF name \in DOMAIN hs THEN hs[name] ELSE <<>>
LowerText(text) == [i \in DOMAIN text |-> [text[i] EXCEPT !.w = Lower(@)]]

(* Mutant: the key is looked for, but not at its length. *)
Acceptable_AnyKey(hs) ==
  /\ First(hs, Word("Host")) # <<>>
  /\ LowerText(First(hs, Word("Upgrade"))) = Word("websocket")
  /\ First(hs, Word("Connection")) = Word("Upgrade")
  /\ First(hs, Word("Sec-WebSocket-Version")) = Word("13")
  /\ Word("Sec-WebSocket-Key") \in DOMAIN hs

Acceptable(hs) ==
  /\ First(hs, Word("Host")) # <<>>
  /\ LowerText(First(hs, Word("Upgrade"))) = Word("websocket")
  /\ First(hs, Word("Connection")) = Word("Upgrade")
  /\ First(hs, Word("Sec-WebSocket-Version")) = Word("13")
  /\ First(hs, Word("Sec-WebSocket-Key")) = Word("nonce")

(* At least HTTP/1.1, as the code tests it. *)
NewEnough(major, minor) == ~(major <= 1 /\ minor < 1)

(* conn_->send(), which may only be called on an open connection.          *)
CanSend == tcp \in {"kConnected", "kWritting"}
Crash(why) == aborted' = why /\ UNCHANGED <<status, headers, lastHeaderField, tcp, answers>>

OnHeaderField(field) ==
  /\ lastHeaderField' = field
  /\ UNCHANGED <<status, headers, tcp, answers, aborted>>

(* Mutant: the last value of a name counts. *)
OnHeaderValue_LastCounts(value) ==
  \/ /\ lastHeaderField = <<>>
     /\ Crash("setHeaderValue")
  \/ /\ lastHeaderField # <<>>
     /\ headers' = (lastHeaderField :> value) @@ headers
     /\ lastHeaderField' = <<>>
     /\ UNCHANGED <<status, tcp, answers, aborted>>

(* setHeaderValue(): insert() keeps the value a name already has.          *)
Inserted(hs, name, value) ==
  [n \in DOMAIN hs \cup {name} |-> IF n \in DOMAIN hs THEN hs[n] ELSE value]

OnHeaderValue(value) ==
  \/ /\ lastHeaderField = <<>>
     /\ Crash("setHeaderValue")
  \/ /\ lastHeaderField # <<>>
     /\ headers' = Inserted(headers, lastHeaderField, value)
     /\ lastHeaderField' = <<>>
     /\ UNCHANGED <<status, tcp, answers, aborted>>

(* Mutant: a refused request falls through to the next check. *)
OnHeadersComplete_FallsThrough ==
  LET good == /\ parser.method = "GET"
              /\ NewEnough(parser.http_major, parser.http_minor)
              /\ Acceptable(headers)
  IN  \/ ~CanSend /\ Crash("send")
      \/ /\ CanSend /\ good
         /\ answers' = Append(answers, "101") /\ tcp' = "kWritting"
         /\ status' = "CONNECT"
         /\ UNCHANGED <<headers, lastHeaderField, aborted>>
      \/ CanSend /\ ~good /\ Crash("send")

(* Mutant: only a GET is answered. *)
OnHeadersComplete_Silent ==
  LET good == NewEnough(parser.http_major, parser.http_minor) /\ Acceptable(headers)
      nothing == UNCHANGED <<status, headers, lastHeaderField, tcp, answers, aborted>>
  IN  \/ ~CanSend /\ Crash("send")
      \/ CanSend /\ parser.method # "GET" /\ nothing
      \/ /\ CanSend /\ parser.method = "GET" /\ good
         /\ answers' = Append(answers, "101") /\ tcp' = "kWritting"
         /\ status' = "CONNECT"
         /\ UNCHANGED <<headers, lastHeaderField, aborted>>
      \/ /\ CanSend /\ parser.method = "GET" /\ ~good
         /\ answers' = Append(answers, "400") /\ tcp' = "kDisconnecting"
         /\ UNCHANGED <<status, headers, lastHeaderField, aborted>>

(* onHeaderComplete(): 101, or 400 and close(), which the write defers.    *)
OnHeadersComplete ==
  LET good == /\ parser.method = "GET"
              /\ NewEnough(parser.http_major, parser.http_minor)
              /\ Acceptable(headers)
  IN  \/ ~CanSend /\ Crash("send")
      \/ /\ CanSend /\ good
         /\ answers' = Append(answers, "101") /\ tcp' = "kWritting"
         /\ status' = "CONNECT"
         /\ UNCHANGED <<headers, lastHeaderField, aborted>>
      \/ /\ CanSend /\ ~good
         /\ answers' = Append(answers, "400") /\ tcp' = "kDisconnecting"
         /\ UNCHANGED <<status, headers, lastHeaderField, aborted>>

(* initHttpParser() leaves on_chunk_header and on_chunk_complete alone:     *)
(* they may be null, or point anywhere.                                    *)
OnChunk ==
  \/ Crash("on_chunk")
  \/ UNCHANGED <<status, headers, lastHeaderField, tcp, answers, aborted>>

(* The callback of the step that the parser takes; the others do nothing.  *)
Callback ==
  LET on == IF called' = <<>> THEN "none" ELSE Head(called').on
      data == Head(called').data
  IN  \/ /\ on \in {"none", "message_begin", "url", "body", "message_complete"}
         /\ UNCHANGED <<status, headers, lastHeaderField, tcp, answers, aborted>>
      \/ on = "header_field" /\ OnHeaderField(data)
      \/ on = "header_value" /\ OnHeaderValue(data)
      \/ on = "headers_complete" /\ OnHeadersComplete
      \/ on \in {"chunk_header", "chunk_complete"} /\ OnChunk

-----------------------------------------------------------------------------
(* parse(), called by a read of n more units. *)
Parse(n) ==
  /\ aborted = "no"
  /\ status = "INITIAL"
  /\ tcp # "kDisconnected"
  /\ Execute(n)
  /\ UNCHANGED connVars

(* A step of the parser, with its callback. *)
Torn(state) == state \in {"s_header_field", "s_header_value"}
ParserStep ==
  /\ aborted = "no"
  /\ Pass
  /\ Callback
  /\ torn' = (torn \/ (at' = "idle" /\ Torn(parser'.state)))

(* The loop finishes the write of the answer, and the close behind it.     *)
WriteDone ==
  /\ aborted = "no" /\ at = "idle"
  /\ \/ tcp = "kWritting" /\ tcp' = "kConnected"
     \/ tcp = "kDisconnecting" /\ tcp' = "kDisconnected"
  /\ UNCHANGED <<parserVars, status, headers, lastHeaderField, answers, aborted, torn>>

HandshakeNext ==
  \/ \E n \in 1..(Len(input) - arrived) : Parse(n)
  \/ ParserStep
  \/ WriteDone

(* parse() and the callback of a write run to their end; the client sends  *)
(* the rest of its request.                                                *)
HandshakeSpec ==
  /\ HandshakeInit /\ [][HandshakeNext]_vars
  /\ WF_vars(\E n \in 1..(Len(input) - arrived) : Parse(n))
  /\ WF_vars(ParserStep)
  /\ WF_vars(WriteDone)

-----------------------------------------------------------------------------
(* Properties. *)

(* The opening handshake of RFC 6455, but for the version of HTTP.         *)
Opening(m) ==
  /\ m.method = "GET"
  /\ HasHeader(m, "Host")
  /\ \E i \in DOMAIN m.headers :
       IsName(m.headers[i].name, "upgrade") /\ HasToken(m.headers[i].value, "websocket")
  /\ ConnectionHas(m, "upgrade")
  /\ \E i \in DOMAIN m.headers : m.headers[i].name = Word("Sec-WebSocket-Version")
                                   /\ m.headers[i].value = Word("13")
  /\ \E i \in DOMAIN m.headers : m.headers[i].name = Word("Sec-WebSocket-Key")
                                   /\ m.headers[i].value = Word("nonce")

(* Only an opening handshake is answered 101, as long as no read ends      *)
(* inside the name or the value of a header.                               *)
OnlyOpenings ==
  status = "CONNECT" /\ ~torn => requests # <<>> /\ Opening(requests[1])

(* The way browsers spell it, an opening handshake is answered 101 for     *)
(* every other way to cut it.                                              *)
Canonical(m) ==
  /\ m.method = "GET" /\ m.version = <<Ch("1"), Ch("1")>>
  /\ \A name \in {"Host", "Upgrade", "Connection", "Sec-WebSocket-Version", "Sec-WebSocket-Key"} :
       \E i \in DOMAIN m.headers :
         /\ m.headers[i].name = Word(name)
         /\ \A j \in 1..(i - 1) : m.headers[j].name # Word(name)
         /\ CASE name = "Host"       -> m.headers[i].value # <<>>
              [] name = "Upgrade"    -> IsName(m.headers[i].value, "websocket")
              [] name = "Connection" -> m.headers[i].value = Word("Upgrade")
              [] name = "Sec-WebSocket-Version" -> m.headers[i].value = Word("13")
              [] name = "Sec-WebSocket-Key"     -> m.headers[i].value = Word("nonce")
CanonicalAccepted ==
  requests # <<>> /\ answers # <<>> /\ ~torn /\ Canonical(requests[1]) => answers[1] = "101"

(* The process only dies of what its asserts forbid: a torn or folded      *)
(* header, a request behind a refused one, or a chunked body.              *)
DiesOnlyOf ==
  /\ aborted = "setHeaderValue" =>
       torn \/ (requests # <<>> /\ \E i \in DOMAIN requests[Begun].headers :
                                      requests[Begun].headers[i].fold # <<>>)
  /\ aborted = "send" => requests # <<>> /\ Begun > 1 /\ answers # <<>> /\ Last(answers) = "400"
  /\ aborted = "on_chunk" => requests # <<>> /\ requests[Begun].body.kind = "chunked"

(* A connection is answered once, whatever follows its first request, and  *)
(* speaks WebSocket exactly when the answer is 101.                        *)
AnsweredOnce == Len(answers) <= 1 /\ (status = "CONNECT" <=> answers = <<"101">>)

(* So it is unless a read tears the name of a header, whose rest may be a  *)
(* name the server asks for, in a request that does not leave HTTP; and    *)
(* when it speaks WebSocket the first unit left unread is the first behind *)
(* the request: there decode() begins (WebSocketConnection.cpp:53-88,      *)
(* 409-420).                                                               *)
FramesFollow ==
  ~torn \/ (requests # <<>> /\ WantsUpgrade(requests[1])) =>
    /\ AnsweredOnce
    /\ status = "CONNECT" /\ at = "idle" /\ requests[1].body.kind = "none" =>
         pos - 1 = Len(Write(requests[1]))

(* In the end a request is answered, and the connection closed if it is    *)
(* refused, unless the process dies of it.                                 *)
Answered ==
  requests # <<>> ~>
    aborted # "no" \/ (answers # <<>> /\ (Last(answers) = "400" => tcp = "kDisconnected"))
=============================================================================
