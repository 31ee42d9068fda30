----------------------------- MODULE HttpParser -----------------------------
(***************************************************************************)
(* http_parser_execute() as WebSocketConnection uses it: HTTP_REQUEST,     *)
(* HTTP_PARSER_STRICT, not lenient, callbacks that all return 0.  Its      *)
(* input comes in chunks of any size.  One action is one pass through the  *)
(* switch; REEXECUTE is another pass on the same unit.                     *)
(*                                                                         *)
(* The states s_req_http_H .. HTT, I and IC are the two halves of "HTTP"   *)
(* and "ICE"; the states h_C .. h_matching_* of a header name, and those   *)
(* of a value, are a phase with the word that is being matched.            *)
(***************************************************************************)
EXTENDS HttpMessage

CONSTANTS
  Requests,        \* sequences of messages a client may send
  Malformed,       \* other inputs, [text, errno], and how they are refused
  max_header_size, \* max_header_size
  ULLONG_MAX       \* the largest content_length, which stands for "none"

ASSUME SizesOK == max_header_size \in Nat /\ ULLONG_MAX \in Nat /\ ULLONG_MAX >= 16

(* What the client sends for ms. *)
Wire(ms) == FlattenSeq([i \in DOMAIN ms |-> Write(ms[i])])

ASSUME InputsOK ==
  /\ \A ms \in Requests : Wire(ms) \in Seq(Unit)
  /\ \A m \in Malformed : m.text \in Seq(Unit)

ASSUME RequestsOK ==
  \A ms \in Requests :
    /\ Len(ms) \in Nat \ {0} /\ DOMAIN ms = 1..Len(ms)
    /\ \A i \in DOMAIN ms : HeadOK(ms[i]) /\ WriteBody(ms[i].body) \in Seq(Unit)

VARIABLES
  requests, \* the messages behind input, or <<>> when it is malformed
  input,    \* what the client sends
  arrived,  \* how much of it has arrived: data + len
  pos,      \* p, or between reads the first unit that was not retrieved
  at,       \* "idle", "loop": at the head of the for, "switch": in its body
  parser,   \* struct http_parser, and p_state and nread
  start,    \* where the inner loop over a name or a value began
  marks,    \* url_mark, header_field_mark, header_value_mark, body_mark; 0 is NULL
  called,   \* the callback made by the last step, if any
  heard     \* history: all callbacks, pieces of the same text joined

parserVars == <<requests, input, arrived, pos, at, parser, start, marks, called, heard>>

Flags == {"F_CHUNKED", "F_CONNECTION_KEEP_ALIVE", "F_CONNECTION_CLOSE", "F_CONNECTION_UPGRADE",
          "F_TRAILING", "F_UPGRADE", "F_CONTENTLENGTH"}

UrlStates ==
  {"s_req_schema", "s_req_schema_slash", "s_req_schema_slash_slash", "s_req_path"}
    \cup ServerStates \cup QueryStates \cup FragmentStates
BodyStates ==
  {"s_body_identity", "s_message_done", "s_chunk_data", "s_chunk_data_almost_done",
   "s_chunk_data_done"}

(* The states that the switch has a case for, and the errors it sets. *)
States ==
  UrlStates \cup BodyStates \cup
  {"s_dead", "s_start_req", "s_req_method", "s_req_spaces_before_url", "s_req_http_start",
   "s_req_http_H", "s_req_http_I", "s_req_http_HTTP", "s_req_http_major", "s_req_http_dot",
   "s_req_http_minor", "s_req_http_end", "s_req_line_almost_done",
   "s_header_field_start", "s_header_field", "s_header_value_discard_ws",
   "s_header_value_discard_ws_almost_done", "s_header_value_discard_lws",
   "s_header_value_start", "s_header_value", "s_header_almost_done", "s_header_value_lws",
   "s_headers_almost_done", "s_headers_done",
   "s_chunk_size_start", "s_chunk_size", "s_chunk_parameters", "s_chunk_size_almost_done"}
Errnos ==
  {"OK", "HEADER_OVERFLOW", "CLOSED_CONNECTION", "INVALID_METHOD", "INVALID_URL",
   "INVALID_CONSTANT", "INVALID_VERSION", "LF_EXPECTED", "STRICT", "INVALID_HEADER_TOKEN",
   "INVALID_CONTENT_LENGTH", "UNEXPECTED_CONTENT_LENGTH", "INVALID_CHUNK_SIZE"}

(* Everything up to s_headers_done counts as header. *)
ParsingHeader(state) == state \notin BodyStates

(* A header_state: its phase and the word it is about. *)
HS(phase, word) == [phase |-> phase, word |-> word]
General == HS("h_general", "")
TokenStart == HS("h_matching_connection_token_start", "")
Token == HS("h_matching_connection_token", "")
LengthNum == HS("h_content_length_num", "")
LengthWs == HS("h_content_length_ws", "")

NoMarks == [kind \in DataCalls |-> 0]

(* http_parser_init() *)
Init ==
  /\ \/ requests \in Requests /\ input = Wire(requests)
     \/ requests = <<>> /\ \E m \in Malformed : input = m.text
  /\ arrived = 0
  /\ pos = 1
  /\ at = "idle"
  /\ parser = [state |-> "s_start_req", flags |-> {}, header_state |-> General, index |-> 0,
               content_length |-> 0, nread |-> 0, method |-> "", http_major |-> 0,
               http_minor |-> 0, upgrade |-> FALSE, http_errno |-> "OK"]
  /\ start = 1
  /\ marks = NoMarks
  /\ called = <<>>
  /\ heard = <<>>

-----------------------------------------------------------------------------
(* How a pass ends: with the next unit, with another pass on this one, or  *)
(* with a return that does or does not consume it.                         *)
Move(p, next, where) == parser' = p /\ pos' = next /\ at' = where
Consume(p) == Move(p, pos + 1, "loop")
Again(p) == Move(p, pos, "switch")
Return(p) == Move(p, pos + 1, "idle")
Error(errno) == Move([parser EXCEPT !.http_errno = errno], pos, "idle")

(* What it tells: nothing, CALLBACK_NOTIFY, or CALLBACK_DATA with the text *)
(* from its mark up to but not including next.                             *)
Tell(calls) ==
  /\ called' = calls
  /\ heard' = IF calls = <<>> THEN heard ELSE Join(heard, Head(calls))
Quiet == Tell(<<>>) /\ UNCHANGED marks
Notify(on) == Tell(<<Call(on, <<>>)>>) /\ UNCHANGED marks
Data(on, next) ==
  /\ Tell(IF marks[on] = 0 THEN <<>> ELSE <<Call(on, SubSeq(input, marks[on], next - 1))>>)
  /\ marks' = [marks EXCEPT ![on] = 0]
Mark(on) ==
  /\ marks' = [marks EXCEPT ![on] = IF @ = 0 THEN pos ELSE @]
  /\ Tell(<<>>)

Turn(state) == at = "switch" /\ parser.state = state
U == input[pos]
To(state) == [parser EXCEPT !.state = state]

(* A unit that must be u, or the message is refused. *)
Expect(state, u, next, errno) ==
  /\ Turn(state)
  /\ Quiet
  /\ \/ U = u /\ Consume(To(next))
     \/ U # u /\ Error(errno)

(* http_should_keep_alive() and NEW_MESSAGE(). *)
ShouldKeepAlive(p) ==
  IF p.http_major > 0 /\ p.http_minor > 0
  THEN "F_CONNECTION_CLOSE" \notin p.flags
  ELSE "F_CONNECTION_KEEP_ALIVE" \in p.flags
NewMessage(p) == [p EXCEPT !.state = IF ShouldKeepAlive(p) THEN "s_start_req" ELSE "s_dead"]

(* Mutant: a value that goes on in the next read is not marked again.      *)
Execute_NoRemark(n) ==
  /\ at = "idle"
  /\ n \in 1..(Len(input) - arrived)
  /\ arrived' = arrived + n
  /\ at' = IF parser.http_errno = "OK" THEN "loop" ELSE "idle"
  /\ marks' = [on \in DataCalls |->
       IF \/ on = "url" /\ parser.state \in UrlStates
          \/ on = "header_field" /\ parser.state = "s_header_field"
       THEN pos ELSE 0]
  /\ called' = <<>>
  /\ UNCHANGED <<requests, input, pos, parser, start, heard>>

-----------------------------------------------------------------------------
(* n more units arrive and the parser is called; in an error state it does *)
(* nothing.  A text that goes on from the last chunk is marked again.      *)
Execute(n) ==
  /\ at = "idle"
  /\ n \in 1..(Len(input) - arrived)
  /\ arrived' = arrived + n
  /\ at' = IF parser.http_errno = "OK" THEN "loop" ELSE "idle"
  /\ marks' = [on \in DataCalls |->
       IF \/ on = "url" /\ parser.state \in UrlStates
          \/ on = "header_field" /\ parser.state = "s_header_field"
          \/ on = "header_value" /\ parser.state = "s_header_value"
       THEN pos ELSE 0]
  /\ called' = <<>>
  /\ UNCHANGED <<requests, input, pos, parser, start, heard>>

(* The head of the loop: COUNT_HEADER_SIZE(1). *)
NextUnit ==
  /\ at = "loop"
  /\ pos <= arrived
  /\ Quiet
  /\ LET counted == IF ParsingHeader(parser.state) THEN parser.nread + 1 ELSE parser.nread
     IN  \/ /\ ParsingHeader(parser.state) /\ counted > max_header_size
            /\ Error("HEADER_OVERFLOW")
         \/ /\ ~(ParsingHeader(parser.state) /\ counted > max_header_size)
            /\ Again([parser EXCEPT !.nread = counted])

(* The end of the chunk: the text that is marked is handed over.           *)
EndOfChunk ==
  /\ at = "loop"
  /\ pos > arrived
  /\ at' = "idle"
  /\ \/ marks = NoMarks /\ Quiet
     \/ \E on \in DataCalls : marks[on] # 0 /\ Data(on, pos)
  /\ UNCHANGED <<pos, parser>>

-----------------------------------------------------------------------------
(* The request line. *)

PassDead ==
  /\ Turn("s_dead")
  /\ Quiet
  /\ \/ U \in {CR, LF} /\ Consume(parser)
     \/ U \notin {CR, LF} /\ Error("CLOSED_CONNECTION")

PassStartReq ==
  /\ Turn("s_start_req")
  /\ \/ /\ U \in {CR, LF}
        /\ Quiet /\ Consume(parser)
     \/ /\ U \notin {CR, LF}
        /\ ~(U.h = 1 /\ U.w \in HTTP_METHODS)
        /\ Quiet /\ Error("INVALID_METHOD")
     \/ /\ U.h = 1 /\ U.w \in HTTP_METHODS
        /\ Notify("message_begin")
        /\ Consume([To("s_req_method") EXCEPT !.flags = {}, !.content_length = ULLONG_MAX,
                                              !.method = U.w, !.index = 1])

PassMethod ==
  /\ Turn("s_req_method")
  /\ Quiet
  /\ \/ U = SP /\ parser.index = 2 /\ Consume(To("s_req_spaces_before_url"))
     \/ U = Half(parser.method, 2) /\ parser.index = 1 /\ Consume([parser EXCEPT !.index = 2])
     \/ /\ ~(U = SP /\ parser.index = 2) /\ ~(U = Half(parser.method, 2) /\ parser.index = 1)
        /\ Error("INVALID_METHOD")

PassSpacesBeforeUrl ==
  /\ Turn("s_req_spaces_before_url")
  /\ \/ U = SP /\ Quiet /\ Consume(parser)
     \/ /\ U # SP
        /\ Mark("url")
        /\ LET from == IF parser.method = "CONNECT" THEN "s_req_server_start"
                       ELSE "s_req_spaces_before_url"
               next == ParseUrlChar(from, U)
           IN  \/ next = "s_dead" /\ Error("INVALID_URL")
               \/ next # "s_dead" /\ Consume(To(next))

(* The url ends with a space or, in HTTP/0.9, with the line, but not       *)
(* before its path or host.                                                *)
UrlMayEnd == parser.state \notin {"s_req_schema", "s_req_schema_slash",
                                  "s_req_schema_slash_slash", "s_req_server_start"}

PassUrl ==
  /\ at = "switch"
  /\ parser.state \in UrlStates
  /\ \/ /\ U = SP /\ UrlMayEnd
        /\ Data("url", pos)
        /\ Consume(To("s_req_http_start"))
     \/ /\ U \in {CR, LF} /\ UrlMayEnd
        /\ Data("url", pos)
        /\ Consume([To(IF U = CR THEN "s_req_line_almost_done" ELSE "s_header_field_start")
                      EXCEPT !.http_major = 0, !.http_minor = 9])
     \/ /\ U \in {SP, CR, LF} /\ ~UrlMayEnd
        /\ Quiet /\ Error("INVALID_URL")
     \/ /\ U \notin {SP, CR, LF}
        /\ Quiet
        /\ LET next == ParseUrlChar(parser.state, U)
           IN  \/ next = "s_dead" /\ Error("INVALID_URL")
               \/ next # "s_dead" /\ Consume(To(next))

PassHttpStart ==
  /\ Turn("s_req_http_start")
  /\ Quiet
  /\ \/ U = SP /\ Consume(parser)
     \/ U = Half("HTTP", 1) /\ Consume(To("s_req_http_H"))
     \/ U = Half("ICE", 1) /\ parser.method = "SOURCE" /\ Consume(To("s_req_http_I"))
     \/ /\ ~(U \in {SP, Half("HTTP", 1)} \/ (U = Half("ICE", 1) /\ parser.method = "SOURCE"))
        /\ Error("INVALID_CONSTANT")

PassVersionNumber(state, field, next) ==
  /\ Turn(state)
  /\ Quiet
  /\ \/ IsNum(U) /\ Consume([To(next) EXCEPT ![field] = Digits[U.w]])
     \/ ~IsNum(U) /\ Error("INVALID_VERSION")

PassVersion ==
  \/ Expect("s_req_http_H", Half("HTTP", 2), "s_req_http_HTTP", "STRICT")
  \/ Expect("s_req_http_I", Half("ICE", 2), "s_req_http_HTTP", "STRICT")
  \/ Expect("s_req_http_HTTP", Ch("/"), "s_req_http_major", "STRICT")
  \/ PassVersionNumber("s_req_http_major", "http_major", "s_req_http_dot")
  \/ Expect("s_req_http_dot", Ch("."), "s_req_http_minor", "INVALID_VERSION")
  \/ PassVersionNumber("s_req_http_minor", "http_minor", "s_req_http_end")

PassHttpEnd ==
  /\ Turn("s_req_http_end")
  /\ Quiet
  /\ \/ U = CR /\ Consume(To("s_req_line_almost_done"))
     \/ U = LF /\ Consume(To("s_header_field_start"))
     \/ U \notin {CR, LF} /\ Error("INVALID_VERSION")

PassLineAlmostDone ==
  Expect("s_req_line_almost_done", LF, "s_header_field_start", "LF_EXPECTED")

RequestLine ==
  \/ PassDead \/ PassStartReq \/ PassMethod \/ PassSpacesBeforeUrl \/ PassUrl
  \/ PassHttpStart \/ PassVersion \/ PassHttpEnd \/ PassLineAlmostDone

-----------------------------------------------------------------------------
(* Header names. *)

SpecialNames == {"connection", "proxy-connection", "content-length", "transfer-encoding", "upgrade"}

(* Mutant: a bare line feed is examined again in the same state. *)
PassHeaderFieldStart_Stuck ==
  /\ Turn("s_header_field_start")
  /\ \/ U = CR /\ Quiet /\ Consume(To("s_headers_almost_done"))
     \/ U = LF /\ Quiet /\ Again(parser)
     \/ U \notin {CR, LF} /\ ~IsToken(U) /\ Quiet /\ Error("INVALID_HEADER_TOKEN")
     \/ /\ IsToken(U)
        /\ Mark("header_field")
        /\ Consume([To("s_header_field") EXCEPT !.header_state =
             IF U.h = 1 /\ Lower(U.w) \in SpecialNames THEN HS("h_matching", Lower(U.w))
             ELSE General])

PassHeaderFieldStart ==
  /\ Turn("s_header_field_start")
  /\ \/ U = CR /\ Quiet /\ Consume(To("s_headers_almost_done"))
     \/ U = LF /\ Quiet /\ Again(To("s_headers_almost_done"))
     \/ U \notin {CR, LF} /\ ~IsToken(U) /\ Quiet /\ Error("INVALID_HEADER_TOKEN")
     \/ /\ IsToken(U)
        /\ Mark("header_field")
        /\ Consume([To("s_header_field") EXCEPT !.header_state =
             IF U.h = 1 /\ Lower(U.w) \in SpecialNames THEN HS("h_matching", Lower(U.w))
             ELSE General])

(* The inner loops over a name and a value: a character per step, and at   *)
(* their end COUNT_HEADER_SIZE(end - start).                               *)
Scan(p) == Move(p, pos + 1, "switch")
Counted(end) == parser.nread + (end - start)

CountThen(p, end, next, where) ==
  \/ /\ Counted(end) > max_header_size
     /\ Move([p EXCEPT !.http_errno = "HEADER_OVERFLOW"], end, "idle")
  \/ /\ Counted(end) <= max_header_size
     /\ Move([p EXCEPT !.nread = Counted(end)], next, where)

(* What a character of the name makes of header_state. *)
Name(hs, u) ==
  IF hs.phase = "h_matching" /\ IsHalf(u, hs.word, 2)
  THEN HS("h_name", IF hs.word = "proxy-connection" THEN "connection" ELSE hs.word)
  ELSE General

PassHeaderField ==
  /\ Turn("s_header_field")
  /\ \/ /\ pos <= arrived /\ IsToken(U)
        /\ Quiet
        /\ Scan([parser EXCEPT !.header_state = Name(@, U)])
     \/ /\ pos <= arrived /\ U = Ch(":")
        /\ IF Counted(pos) > max_header_size THEN Quiet ELSE Data("header_field", pos)
        /\ CountThen(To("s_header_value_discard_ws"), pos, pos + 1, "loop")
     \/ /\ pos <= arrived /\ ~IsToken(U) /\ U # Ch(":")
        /\ Quiet
        /\ Error(IF Counted(pos) > max_header_size THEN "HEADER_OVERFLOW" ELSE "INVALID_HEADER_TOKEN")
     \/ /\ pos > arrived
        /\ Quiet
        /\ CountThen(parser, pos - 1, pos, "loop")

-----------------------------------------------------------------------------
(* Header values. *)

ConnectionTokens == {"keep-alive", "close", "upgrade"}
FlagOf == [token \in ConnectionTokens \cup {"chunked"} |->
  CASE token = "keep-alive" -> "F_CONNECTION_KEEP_ALIVE"
    [] token = "close"      -> "F_CONNECTION_CLOSE"
    [] token = "upgrade"    -> "F_CONNECTION_UPGRADE"
    [] token = "chunked"    -> "F_CHUNKED"]

(* s_header_value_start, on the first unit of the value. *)
StartValue ==
  LET hs == parser.header_state
      value == To("s_header_value")
  IN  /\ Mark("header_value")
      /\ \/ /\ hs = HS("h_name", "upgrade")
            /\ Consume([value EXCEPT !.flags = @ \cup {"F_UPGRADE"}, !.header_state = General])
         \/ /\ hs = HS("h_name", "transfer-encoding")
            /\ Consume([value EXCEPT !.header_state =
                 IF IsHalf(U, "chunked", 1) THEN HS("h_matching_value", "chunked") ELSE General])
         \/ /\ hs = HS("h_name", "content-length")
            /\ \/ ~IsNum(U) /\ Error("INVALID_CONTENT_LENGTH")
               \/ /\ IsNum(U) /\ "F_CONTENTLENGTH" \in parser.flags
                  /\ Error("UNEXPECTED_CONTENT_LENGTH")
               \/ /\ IsNum(U) /\ "F_CONTENTLENGTH" \notin parser.flags
                  /\ Consume([value EXCEPT !.flags = @ \cup {"F_CONTENTLENGTH"},
                                !.content_length = Digits[U.w], !.header_state = LengthNum])
         \/ /\ hs = HS("h_name", "connection")
            /\ Consume([value EXCEPT !.header_state =
                 IF U.h = 1 /\ Lower(U.w) \in ConnectionTokens
                 THEN HS("h_matching_value", Lower(U.w)) ELSE Token])
         \/ /\ hs \in {LengthWs, TokenStart}
            /\ Consume(value)
         \/ /\ hs.phase # "h_name" \/ hs.word \notin SpecialNames
            /\ hs \notin {LengthWs, TokenStart}
            /\ Consume([value EXCEPT !.header_state = General])

PassDiscardWs ==
  /\ Turn("s_header_value_discard_ws")
  /\ \/ IsBlank(U) /\ Quiet /\ Consume(parser)
     \/ U = CR /\ Quiet /\ Consume(To("s_header_value_discard_ws_almost_done"))
     \/ U = LF /\ Quiet /\ Consume(To("s_header_value_discard_lws"))
     \/ ~IsBlank(U) /\ U \notin {CR, LF} /\ StartValue

PassValueStart == Turn("s_header_value_start") /\ StartValue

(* One more digit of content_length, in 64 bits, behind a check that is    *)
(* on the safe side.                                                       *)
AddDigit(length, base, digit) == (length * base + digit) % (ULLONG_MAX + 1)
TooLong(length, base, slack) == (ULLONG_MAX - slack) \div base < length

(* A character that a number cannot go on with. *)
BadDigit(u) ==
  \/ /\ parser.header_state = LengthNum /\ u # SP
     /\ ~IsNum(u) \/ TooLong(parser.content_length, 10, 10)
  \/ parser.header_state = LengthWs /\ u # SP

(* The beginning of a token of a Connection value. *)
TokenUnit(u) ==
  CASE u.h = 1 /\ Lower(u.w) \in ConnectionTokens                 -> HS("h_matching_value", Lower(u.w))
    [] IsToken(u) /\ ~(u.h = 1 /\ Lower(u.w) \in ConnectionTokens) -> Token
    [] u = SP                                                     -> TokenStart
    [] OTHER                                                      -> General

(* What a character of the value makes of header_state, hs.                *)
ValueUnit(hs, u) ==
  CASE hs.phase = "h_matching_value" ->
         (IF IsHalf(u, hs.word, 2) THEN HS("h_value", hs.word)
          ELSE IF hs.word = "chunked" THEN General ELSE Token)
    [] hs.phase = "h_value" /\ u = SP                      -> hs
    [] hs.phase = "h_value" /\ u # SP /\ hs.word = "chunked" -> General
    [] hs.phase = "h_value" /\ u # SP /\ hs.word # "chunked" ->
         (IF u = Ch(",") THEN TokenStart ELSE Token)
    [] hs = TokenStart                                     -> TokenUnit(u)
    [] hs = Token                                          -> IF u = Ch(",") THEN TokenStart ELSE Token
    [] hs = LengthNum                                      -> IF u = SP THEN LengthWs ELSE LengthNum
    [] hs = LengthWs                                       -> LengthWs
    [] OTHER                                               -> General

(* A comma behind a token that is known earns its flag. *)
ValueFlags(hs, u) ==
  IF hs.phase = "h_value" /\ hs.word # "chunked" /\ u = Ch(",") THEN {FlagOf[hs.word]} ELSE {}

ScanValue ==
  Scan([parser EXCEPT !.header_state = ValueUnit(@, U),
                      !.flags = @ \cup ValueFlags(parser.header_state, U),
                      !.content_length = IF parser.header_state = LengthNum /\ U # SP
                                         THEN AddDigit(@, 10, Digits[U.w]) ELSE @])

(* The rest of a value that this chunk holds.                              *)
PassHeaderValue ==
  /\ Turn("s_header_value")
  /\ \/ /\ pos <= arrived /\ U = CR
        /\ Data("header_value", pos)
        /\ CountThen(To("s_header_almost_done"), pos, pos + 1, "loop")
     \/ /\ pos <= arrived /\ U = LF
        /\ IF Counted(pos) > max_header_size THEN Quiet ELSE Data("header_value", pos)
        /\ CountThen(To("s_header_almost_done"), pos, pos, "switch")
     \/ /\ pos <= arrived /\ ~IsHeaderChar(U)
        /\ Quiet /\ Error("INVALID_HEADER_TOKEN")
     \/ /\ pos <= arrived /\ U \notin {CR, LF} /\ IsHeaderChar(U)
        /\ Quiet
        /\ \/ BadDigit(U) /\ Error("INVALID_CONTENT_LENGTH")
           \/ ~BadDigit(U) /\ ScanValue
     \/ /\ pos > arrived
        /\ Quiet
        /\ CountThen(parser, pos - 1, pos, "loop")

PassHeaderAlmostDone ==
  Expect("s_header_almost_done", LF, "s_header_value_lws", "LF_EXPECTED")

(* Mutant: only a token that a comma follows is heeded. *)
EarnFlag_None(p) == p

(* The flag that a value has earned when it ends.                          *)
EarnFlag(p) ==
  IF p.header_state.phase = "h_value"
  THEN [p EXCEPT !.flags = @ \cup {FlagOf[p.header_state.word]}] ELSE p

(* The first unit of the next line: is the value continued there?          *)
PassValueLws ==
  /\ Turn("s_header_value_lws")
  /\ Quiet
  /\ \/ /\ IsBlank(U)
        /\ Again([To("s_header_value_start") EXCEPT !.header_state =
                    IF @ = LengthNum THEN LengthWs ELSE @])
     \/ /\ ~IsBlank(U)
        /\ Again(EarnFlag(To("s_header_field_start")))

PassDiscardWsAlmostDone ==
  Expect("s_header_value_discard_ws_almost_done", LF, "s_header_value_discard_lws", "STRICT")

(* The value is continued on the next line, or it is empty. *)
PassDiscardLws ==
  /\ Turn("s_header_value_discard_lws")
  /\ \/ IsBlank(U) /\ Quiet /\ Consume(To("s_header_value_discard_ws"))
     \/ /\ ~IsBlank(U) /\ parser.header_state = HS("h_name", "content-length")
        /\ Quiet /\ Error("INVALID_CONTENT_LENGTH")
     \/ /\ ~IsBlank(U) /\ parser.header_state # HS("h_name", "content-length")
        /\ Tell(<<Call("header_value", <<>>)>>)
        /\ UNCHANGED marks
        /\ Again(EarnFlag(To("s_header_field_start")))

Headers ==
  \/ PassHeaderFieldStart \/ PassHeaderField \/ PassDiscardWs \/ PassValueStart
  \/ PassHeaderValue \/ PassHeaderAlmostDone \/ PassValueLws
  \/ PassDiscardWsAlmostDone \/ PassDiscardLws

-----------------------------------------------------------------------------
(* The end of the headers. *)

(* Mutant: a message may have both lengths. *)
PassHeadersAlmostDone_Both ==
  /\ Turn("s_headers_almost_done")
  /\ \/ U # LF /\ Quiet /\ Error("STRICT")
     \/ /\ U = LF /\ "F_TRAILING" \in parser.flags
        /\ Notify("chunk_complete")
        /\ Again(To("s_message_done"))
     \/ /\ U = LF /\ "F_TRAILING" \notin parser.flags
        /\ Notify("headers_complete")
        /\ Again([To("s_headers_done") EXCEPT !.upgrade =
                    IF {"F_UPGRADE", "F_CONNECTION_UPGRADE"} \subseteq parser.flags THEN TRUE
                    ELSE parser.method = "CONNECT"])

PassHeadersAlmostDone ==
  /\ Turn("s_headers_almost_done")
  /\ \/ U # LF /\ Quiet /\ Error("STRICT")
     \/ /\ U = LF /\ "F_TRAILING" \in parser.flags
        /\ Notify("chunk_complete")
        /\ Again(To("s_message_done"))
     \/ /\ U = LF /\ "F_TRAILING" \notin parser.flags
        /\ {"F_CHUNKED", "F_CONTENTLENGTH"} \subseteq parser.flags
        /\ Quiet /\ Error("UNEXPECTED_CONTENT_LENGTH")
     \/ /\ U = LF /\ "F_TRAILING" \notin parser.flags
        /\ ~({"F_CHUNKED", "F_CONTENTLENGTH"} \subseteq parser.flags)
        /\ Notify("headers_complete")
        /\ Again([To("s_headers_done") EXCEPT !.upgrade =
                    IF {"F_UPGRADE", "F_CONNECTION_UPGRADE"} \subseteq parser.flags THEN TRUE
                    ELSE parser.method = "CONNECT"])

(* Mutant: the size of the head is not forgotten. *)
PassHeadersDone_KeepsCount ==
  LET chunked == "F_CHUNKED" \in parser.flags
      sized == parser.content_length \notin {0, ULLONG_MAX}
      leaves == parser.upgrade /\ (parser.method = "CONNECT" \/ ~(chunked \/ sized))
  IN  /\ Turn("s_headers_done")
      /\ \/ leaves /\ Notify("message_complete") /\ Return(NewMessage(parser))
         \/ ~leaves /\ chunked /\ Quiet /\ Consume(To("s_chunk_size_start"))
         \/ ~leaves /\ ~chunked /\ sized /\ Quiet /\ Consume(To("s_body_identity"))
         \/ /\ ~leaves /\ ~chunked /\ ~sized
            /\ Notify("message_complete") /\ Consume(NewMessage(parser))

(* Mutant: an upgrade ends the message although it has a body. *)
PassHeadersDone_UpgradeFirst ==
  LET p == [parser EXCEPT !.nread = 0]
      chunked == "F_CHUNKED" \in parser.flags
      sized == parser.content_length \notin {0, ULLONG_MAX}
  IN  /\ Turn("s_headers_done")
      /\ \/ parser.upgrade /\ Notify("message_complete") /\ Return(NewMessage(p))
         \/ ~parser.upgrade /\ chunked /\ Quiet /\ Consume([p EXCEPT !.state = "s_chunk_size_start"])
         \/ /\ ~parser.upgrade /\ ~chunked /\ sized
            /\ Quiet /\ Consume([p EXCEPT !.state = "s_body_identity"])
         \/ /\ ~parser.upgrade /\ ~chunked /\ ~sized
            /\ Notify("message_complete") /\ Consume(NewMessage(p))

(* Mutant: the parser goes on behind an upgrade. *)
PassHeadersDone_GoesOn ==
  LET p == [parser EXCEPT !.nread = 0]
      chunked == "F_CHUNKED" \in parser.flags
      sized == parser.content_length \notin {0, ULLONG_MAX}
  IN  /\ Turn("s_headers_done")
      /\ \/ chunked /\ Quiet /\ Consume([p EXCEPT !.state = "s_chunk_size_start"])
         \/ ~chunked /\ sized /\ Quiet /\ Consume([p EXCEPT !.state = "s_body_identity"])
         \/ ~chunked /\ ~sized /\ Notify("message_complete") /\ Consume(NewMessage(p))

(* With the last line feed: is there a body, and does it speak HTTP?       *)
PassHeadersDone ==
  LET p == [parser EXCEPT !.nread = 0]
      chunked == "F_CHUNKED" \in parser.flags
      sized == parser.content_length \notin {0, ULLONG_MAX}
      leaves == parser.upgrade /\ (parser.method = "CONNECT" \/ ~(chunked \/ sized))
  IN  /\ Turn("s_headers_done")
      /\ \/ /\ leaves
            /\ Notify("message_complete") /\ Return(NewMessage(p))
         \/ /\ ~leaves /\ chunked
            /\ Quiet /\ Consume([p EXCEPT !.state = "s_chunk_size_start"])
         \/ /\ ~leaves /\ ~chunked /\ sized
            /\ Quiet /\ Consume([p EXCEPT !.state = "s_body_identity"])
         \/ /\ ~leaves /\ ~chunked /\ ~sized
            /\ Notify("message_complete") /\ Consume(NewMessage(p))

-----------------------------------------------------------------------------
(* Bodies. *)

ToRead == Min({parser.content_length, arrived - pos + 1})

PassBodyIdentity ==
  /\ Turn("s_body_identity")
  /\ LET last == pos + ToRead - 1
         from == IF marks["body"] = 0 THEN pos ELSE marks["body"]
         p == [parser EXCEPT !.content_length = @ - ToRead]
     IN  \/ /\ ToRead < parser.content_length
            /\ Mark("body")
            /\ Move(p, last + 1, "loop")
         \/ /\ ToRead = parser.content_length
            /\ Tell(<<Call("body", SubSeq(input, from, last))>>)
            /\ marks' = [marks EXCEPT !["body"] = 0]
            /\ Move([p EXCEPT !.state = "s_message_done"], last, "switch")

PassMessageDone ==
  /\ Turn("s_message_done")
  /\ Notify("message_complete")
  /\ \/ parser.upgrade /\ Return(NewMessage(parser))
     \/ ~parser.upgrade /\ Consume(NewMessage(parser))

PassChunkSizeStart ==
  /\ Turn("s_chunk_size_start")
  /\ Quiet
  /\ \/ IsHex(U) /\ Consume([To("s_chunk_size") EXCEPT !.content_length = HexDigits[U.w]])
     \/ ~IsHex(U) /\ Error("INVALID_CHUNK_SIZE")

PassChunkSize ==
  /\ Turn("s_chunk_size")
  /\ Quiet
  /\ \/ U = CR /\ Consume(To("s_chunk_size_almost_done"))
     \/ U \in {Ch(";"), SP} /\ Consume(To("s_chunk_parameters"))
     \/ U \notin {CR, Ch(";"), SP} /\ ~IsHex(U) /\ Error("INVALID_CHUNK_SIZE")
     \/ IsHex(U) /\ TooLong(parser.content_length, 16, 16) /\ Error("INVALID_CONTENT_LENGTH")
     \/ /\ IsHex(U) /\ ~TooLong(parser.content_length, 16, 16)
        /\ Consume([parser EXCEPT !.content_length = AddDigit(@, 16, HexDigits[U.w])])

PassChunkParameters ==
  /\ Turn("s_chunk_parameters")
  /\ Quiet
  /\ Consume(IF U = CR THEN To("s_chunk_size_almost_done") ELSE parser)

PassChunkSizeAlmostDone ==
  /\ Turn("s_chunk_size_almost_done")
  /\ \/ U # LF /\ Quiet /\ Error("STRICT")
     \/ /\ U = LF /\ parser.content_length = 0
        /\ Notify("chunk_header")
        /\ Consume([To("s_header_field_start") EXCEPT !.nread = 0, !.flags = @ \cup {"F_TRAILING"}])
     \/ /\ U = LF /\ parser.content_length # 0
        /\ Notify("chunk_header")
        /\ Consume([To("s_chunk_data") EXCEPT !.nread = 0])

PassChunkData ==
  /\ Turn("s_chunk_data")
  /\ Mark("body")
  /\ LET p == [parser EXCEPT !.content_length = @ - ToRead]
     IN  Move(IF p.content_length = 0 THEN [p EXCEPT !.state = "s_chunk_data_almost_done"] ELSE p,
              pos + ToRead, "loop")

PassChunkDataAlmostDone ==
  /\ Turn("s_chunk_data_almost_done")
  /\ \/ U # CR /\ Quiet /\ Error("STRICT")
     \/ U = CR /\ Data("body", pos) /\ Consume(To("s_chunk_data_done"))

PassChunkDataDone ==
  /\ Turn("s_chunk_data_done")
  /\ \/ U # LF /\ Quiet /\ Error("STRICT")
     \/ U = LF /\ Notify("chunk_complete")
        /\ Consume([To("s_chunk_size_start") EXCEPT !.nread = 0])

Bodies ==
  \/ PassHeadersAlmostDone \/ PassHeadersDone \/ PassBodyIdentity \/ PassMessageDone
  \/ PassChunkSizeStart \/ PassChunkSize \/ PassChunkParameters \/ PassChunkSizeAlmostDone
  \/ PassChunkData \/ PassChunkDataAlmostDone \/ PassChunkDataDone

Pass ==
  /\ \/ NextUnit /\ start' = pos
     \/ (EndOfChunk \/ RequestLine \/ Headers \/ Bodies) /\ UNCHANGED start
  /\ UNCHANGED <<requests, input, arrived>>

Next == Pass \/ \E n \in 1..(Len(input) - arrived) : Execute(n)

Spec == Init /\ [][Next]_parserVars

(* Once called, the parser runs: it is a function on the loop thread.      *)
FairSpec == Spec /\ WF_parserVars(Pass)

-----------------------------------------------------------------------------
(* Properties. *)

HeaderStates ==
  {General, TokenStart, Token, LengthNum, LengthWs}
    \cup {HS(phase, word) : phase \in {"h_matching", "h_name"}, word \in SpecialNames}
    \cup {HS(phase, word) : phase \in {"h_matching_value", "h_value"}, word \in DOMAIN FlagOf}

Heard(on) == Len(SelectSeq(heard, LAMBDA call : call.on = on))
Begun == Heard("message_begin")
Now(on) == called # <<>> /\ Head(called).on = on

(* calls is the beginning of whole; its last text may be a part. *)
Begins(calls, whole) ==
  calls # <<>> =>
    /\ Len(calls) <= Len(whole)
    /\ Front(calls) = SubSeq(whole, 1, Len(calls) - 1)
    /\ Last(calls).on = whole[Len(calls)].on
    /\ IsPrefix(Last(calls).data, whole[Len(calls)].data)

(* However the requests are cut into reads, the callbacks carry their      *)
(* meaning, in its order, and all of it once the input is used up; behind  *)
(* a request that does not keep the connection alive there is no more.     *)
CallsMeanMessage ==
  requests # <<>> =>
    /\ Begins(heard, Meaning(requests))
    /\ at = "idle" /\ (pos > Len(input) \/ parser.http_errno = "CLOSED_CONNECTION")
         => heard = Meaning(requests)

(* message_complete comes when exactly the messages that are complete have *)
(* been consumed: what follows is the next request, or another protocol.   *)
EndsWhereMessageEnds ==
  requests # <<>> /\ Now("message_complete") =>
    pos - 1 = Len(Wire(SubSeq(requests, 1, Begun)))

(* headers_complete finds the fields the application decides by: method,   *)
(* version, upgrade, length, and whether the connection is kept alive.     *)
HeadUnderstood ==
  requests # <<>> /\ Now("headers_complete") =>
    LET m == requests[Begun]
    IN  /\ parser.method = m.method
        /\ IF m.version = <<>> THEN parser.http_major = 0 /\ parser.http_minor = 9
           ELSE /\ parser.http_major = Digits[m.version[1].w]
                /\ parser.http_minor = Digits[m.version[2].w]
        /\ parser.upgrade = WantsUpgrade(m)
        /\ parser.content_length = DeclaredLength(m, ULLONG_MAX)
        /\ ShouldKeepAlive(parser) = KeepsAlive(m)

(* A request is refused only when its head is too large, or when the one   *)
(* before it has ended the connection.                                     *)
NoFalseRefusal ==
  requests # <<>> /\ parser.http_errno # "OK" =>
    \/ /\ parser.http_errno = "HEADER_OVERFLOW"
       /\ Len(WriteHead(requests[Begun])) > max_header_size
    \/ /\ parser.http_errno = "CLOSED_CONNECTION"
       /\ Begun < Len(requests) /\ ~KeepsAlive(requests[Begun])

(* A malformed input is refused, for the same reason however it is cut;    *)
(* and max_header_size holds for the whole head of each request, whatever  *)
(* the reads it comes in: no larger head is completed.                     *)
MalformedRefused ==
  /\ requests = <<>> /\ at = "idle" /\ arrived = Len(input) =>
       \E m \in Malformed : m.text = input /\ m.errno = parser.http_errno
  /\ requests # <<>> /\ Now("headers_complete") =>
       Len(WriteHead(requests[Begun])) <= max_header_size

(* A length that was declared is never the one that stands for "none".     *)
LengthDeclared ==
  /\ "F_CONTENTLENGTH" \in parser.flags => parser.content_length < ULLONG_MAX
  /\ parser.state \in {"s_chunk_size", "s_chunk_parameters", "s_chunk_size_almost_done",
                       "s_chunk_data", "s_chunk_data_almost_done"}
       => parser.content_length < ULLONG_MAX

(* The asserts of http_parser_execute(). *)
ParserAsserts ==
  /\ at = "loop" /\ pos > arrived => Cardinality({on \in DataCalls : marks[on] # 0}) <= 1
  /\ at = "switch" =>
       /\ parser.state = "s_header_field" =>
            parser.header_state.phase \in {"h_general", "h_matching", "h_name"}
       /\ parser.state = "s_header_value" =>
            parser.header_state \notin {HS("h_name", "connection"), HS("h_name", "transfer-encoding")}
       /\ parser.state = "s_chunk_size_start" => parser.nread = 1
       /\ parser.state \in {"s_chunk_size_start", "s_chunk_size", "s_chunk_parameters",
                            "s_chunk_size_almost_done", "s_chunk_data",
                            "s_chunk_data_almost_done", "s_chunk_data_done"}
            => "F_CHUNKED" \in parser.flags
       /\ parser.state \in {"s_body_identity", "s_chunk_data"} =>
            parser.content_length \notin {0, ULLONG_MAX}
       /\ parser.state = "s_chunk_data_almost_done" => parser.content_length = 0

(* The parser reads only what has arrived, and claims no more than that:   *)
(* the caller retrieves what it says it has parsed.                        *)
InBounds ==
  /\ arrived \in 0..Len(input) /\ pos \in 1..(arrived + 1)
  /\ at = "switch" /\ parser.state \notin {"s_header_field", "s_header_value"} => pos <= arrived
  /\ marks \in [DataCalls -> 0..pos]

(* The variables are of their types, which are as narrow as the parser's   *)
(* own asserts and its caller need them: there is a case for the state,    *)
(* the marks and the position lie in the read, a length is a length, and a *)
(* parser without error has counted no more than max_header_size.          *)
TypeOK ==
  /\ at \in {"idle", "loop", "switch"}
  /\ parser.state \in States /\ parser.http_errno \in Errnos
  /\ parser.flags \subseteq Flags /\ parser.header_state \in HeaderStates
  /\ parser.content_length \in 0..ULLONG_MAX
  /\ parser.nread \in Nat /\ (parser.http_errno = "OK" => parser.nread <= max_header_size)
  /\ InBounds /\ ParserAsserts /\ LengthDeclared

(* http_parser_execute() returns. *)
ExecuteReturns == at # "idle" ~> at = "idle"
=============================================================================
