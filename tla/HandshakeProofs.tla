--------------------------- MODULE HandshakeProofs ---------------------------
(***************************************************************************)
(* Theorems about Handshake, for every input and every way to cut it: how  *)
(* often a connection is answered, what goes with the answer, and where    *)
(* the frames behind it begin.                                             *)
(*                                                                         *)
(* That a request is answered 101 is decided by headers_, which            *)
(* onHeaderComplete() reads; that nothing behind it is answered again, by  *)
(* two flags of the parser, which make it leave HTTP.  AnswerInv says that *)
(* the two agree, unit by unit.                                            *)
(***************************************************************************)
EXTENDS Handshake, HttpRequestProofs

-----------------------------------------------------------------------------
(* The inductive invariant. *)

RequestStates ==
  UrlStates \cup
  {"s_dead", "s_start_req", "s_req_method", "s_req_spaces_before_url", "s_req_http_start",
   "s_req_http_H", "s_req_http_I", "s_req_http_HTTP", "s_req_http_major", "s_req_http_dot",
   "s_req_http_minor", "s_req_http_end", "s_req_line_almost_done"}
NamedStates ==
  {"s_header_value_discard_ws", "s_header_value_discard_ws_almost_done",
   "s_header_value_discard_lws"}
TakenStates == {"s_header_almost_done", "s_header_value_lws", "s_header_value_start"}
FieldStates ==
  {"s_header_field_start", "s_header_field", "s_header_value", "s_headers_almost_done"}
    \cup NamedStates \cup TakenStates
RestStates == ChunkStates \cup {"s_headers_done", "s_body_identity", "s_message_done"}

(* The two names that decide whether the parser leaves HTTP. *)
Asked == {"Upgrade", "Connection"}
Known(w) == HS("h_name", Lower(w))

(* From m to the next unit there is the beginning of w, or w. *)
HalfRead(m, w) == pos = m + 1 /\ input[m] = Half(w, 1)
WordRead(m, w) == pos = m + 2 /\ input[m] = Half(w, 1) /\ input[m + 1] = Half(w, 2)

(* Inside a name, header_state knows what it is; so it does behind it.     *)
NameSeen ==
  parser.state = "s_header_field" =>
    /\ at # "idle" /\ marks["header_field"] # 0 /\ marks["header_field"] < pos
    /\ \A w \in Asked :
         /\ HalfRead(marks["header_field"], w) => parser.header_state = HS("h_matching", Lower(w))
         /\ WordRead(marks["header_field"], w) => parser.header_state = Known(w)
NameKnown ==
  parser.state \in NamedStates =>
    \A w \in Asked : lastHeaderField = Word(w) => parser.header_state = Known(w)

(* Inside the value of one of the two, the flag is set, or on its way.     *)
ValueSeen ==
  parser.state = "s_header_value" =>
    /\ at # "idle" /\ marks["header_value"] # 0 /\ marks["header_value"] < pos
    /\ lastHeaderField = Word("Upgrade") => "F_UPGRADE" \in parser.flags
    /\ lastHeaderField = Word("Connection") =>
         /\ HalfRead(marks["header_value"], "Upgrade") =>
              parser.header_state = HS("h_matching_value", "upgrade")
         /\ WordRead(marks["header_value"], "Upgrade") =>
              parser.header_state = HS("h_value", "upgrade")
ValueTaken == parser.state \in TakenStates => lastHeaderField = <<>>

(* A value in headers_ has set its flag, or will with the end of its line; *)
(* if the value is continued there, setHeaderValue() will fail.            *)
UpgradeSeen ==
  Word("Upgrade") \in DOMAIN headers /\ headers[Word("Upgrade")] # <<>>
    => "F_UPGRADE" \in parser.flags
ConnectionSeen ==
  Word("Connection") \in DOMAIN headers /\ headers[Word("Connection")] = Word("Upgrade") =>
    \/ "F_CONNECTION_UPGRADE" \in parser.flags
    \/ /\ parser.state \in {"s_header_almost_done", "s_header_value_lws"}
       /\ parser.header_state = HS("h_value", "upgrade")
    \/ parser.state \in {"s_header_value_start", "s_header_value"} /\ lastHeaderField = <<>>

InHead ==
  /\ parser.state \in RequestStates \cup FieldStates
  /\ "F_TRAILING" \notin parser.flags
  /\ parser.state \in RequestStates => headers = <<>>

(* The first head, before it is answered. *)
HeadInv ==
  /\ InHead /\ NameSeen /\ NameKnown /\ ValueSeen /\ ValueTaken /\ UpgradeSeen /\ ConnectionSeen

(* Behind the answer 101 the parser is about to leave HTTP. *)
Leaving ==
  /\ parser.upgrade
  /\ \/ parser.state \in RestStates
     \/ parser.state \in FieldStates /\ "F_TRAILING" \in parser.flags

Answers ==
  \/ answers = <<>> /\ status = "INITIAL" /\ tcp = "kConnected"
  \/ answers = <<"400">> /\ status = "INITIAL" /\ tcp \in {"kDisconnecting", "kDisconnected"}
  \/ answers = <<"101">> /\ status = "CONNECT" /\ tcp \in {"kWritting", "kConnected"}

AnswerInv ==
  ~torn =>
    /\ Answers
    /\ aborted = "no" /\ parser.http_errno = "OK" =>
         /\ answers = <<>> => HeadInv
         /\ status = "CONNECT" => at = "idle" \/ Leaving

-----------------------------------------------------------------------------
(* Words and maps. *)

LEMMA LowerNames ==
  /\ Lower("Upgrade") = "upgrade" /\ Lower("Connection") = "connection"
  /\ {"upgrade", "connection"} \subseteq SpecialNames
BY DEF Lower, LowerCase, SpecialNames

LEMMA WordNotEmpty == ASSUME NEW w PROVE Word(w) # <<>>
BY DEF Word

LEMMA WordsDiffer == Word("Upgrade") # Word("Connection")
BY DEF Word, Half

LEMMA TwoUnits ==
  ASSUME NEW w, NEW s \in Seq(Unit), NEW m \in Nat, NEW n \in Nat, 1 <= m, m < n, n - 1 <= Len(s),
         SubSeq(s, m, n - 1) = Word(w)
  PROVE  n = m + 2 /\ s[m] = Half(w, 1) /\ s[m + 1] = Half(w, 2)
<1> DEFINE sub == SubSeq(s, m, n - 1)
<1>1. \A i \in m .. n - 1 : s[i] \in Unit
  OBVIOUS
<1>2. Len(sub) = n - m /\ \A i \in 1 .. n - m : sub[i] = s[m + i - 1]
  BY <1>1, SubSeqProperties
<1>0. sub = Word(w)
  OBVIOUS
<1> HIDE DEF sub
<1>3. Len(sub) = 2 /\ sub[1] = Half(w, 1) /\ sub[2] = Half(w, 2)
  BY <1>0 DEF Word
<1>4. n - m = 2
  BY <1>2, <1>3
<1>5. sub[1] = s[m + 1 - 1] /\ sub[2] = s[m + 2 - 1]
  BY <1>2, <1>4
<1> QED
  BY <1>3, <1>4, <1>5

LEMMA NoHeaders == ASSUME NEW x PROVE x \notin DOMAIN <<>>
OBVIOUS

LEMMA InsertedValue ==
  ASSUME NEW hs, NEW name, NEW value, NEW n
  PROVE  /\ n \in DOMAIN hs => n \in DOMAIN Inserted(hs, name, value) /\ Inserted(hs, name, value)[n] = hs[n]
         /\ n \in DOMAIN Inserted(hs, name, value) /\ n \notin DOMAIN hs =>
               n = name /\ Inserted(hs, name, value)[n] = value
BY DEF Inserted

-----------------------------------------------------------------------------
(* What a pass tells. *)

Silent ==
  called' = <<>> \/ Head(called').on \in {"message_begin", "url", "body", "message_complete"}

LEMMA TellsOne ==
  ASSUME NEW on, NEW data, Tell(<<Call(on, data)>>)
  PROVE  called' # <<>> /\ Head(called').on = on /\ Head(called').data = data
BY DEF Tell, Call

LEMMA TellsNothing == Quiet => called' = <<>> /\ marks' = marks
BY DEF Quiet, Tell

LEMMA TellsData ==
  ASSUME NEW on \in DataCalls, NEW next, Data(on, next), marks[on] # 0
  PROVE  /\ called' # <<>> /\ Head(called').on = on
         /\ Head(called').data = SubSeq(input, marks[on], next - 1)
<1>1. Tell(<<Call(on, SubSeq(input, marks[on], next - 1))>>)
  BY DEF Data
<1> QED
  BY <1>1, TellsOne

LEMMA TellsSomeData ==
  ASSUME NEW on \in DataCalls, NEW next, Data(on, next)
  PROVE  called' = <<>> \/ Head(called').on = on
<1>1. CASE marks[on] = 0
  BY <1>1 DEF Data, Tell
<1>2. CASE marks[on] # 0
  BY <1>2, TellsData
<1> QED
  BY <1>1, <1>2

LEMMA SilentCallback ==
  Silent /\ Callback => UNCHANGED <<status, headers, lastHeaderField, tcp, answers, aborted>>
BY DEF Silent, Callback

(* Only the end of the head is answered. *)
LEMMA OtherCallback ==
  ASSUME called' = <<>> \/ Head(called').on # "headers_complete", Callback
  PROVE  UNCHANGED <<status, tcp, answers>>
BY DEF Callback, OnHeaderField, OnHeaderValue, OnChunk, Crash

LEMMA FieldCallback ==
  ASSUME called' # <<>>, Head(called').on = "header_field", Callback
  PROVE  OnHeaderField(Head(called').data)
BY DEF Callback

LEMMA ValueCallback ==
  ASSUME called' # <<>>, Head(called').on = "header_value", Callback
  PROVE  OnHeaderValue(Head(called').data)
BY DEF Callback

LEMMA CompleteCallback ==
  ASSUME called' # <<>>, Head(called').on = "headers_complete", Callback
  PROVE  OnHeadersComplete
BY DEF Callback

-----------------------------------------------------------------------------
(* What a pass does to the members that the invariant is about. *)

LEMMA ToFields ==
  ASSUME ParserInv, NEW state
  PROVE  LET p == To(state)
         IN  /\ p.state = state /\ p.flags = parser.flags /\ p.upgrade = parser.upgrade
             /\ p.header_state = parser.header_state /\ p.http_errno = parser.http_errno
             /\ p.nread = parser.nread
BY DEF To, ParserInv, ParserOK, ParserRecords

LEMMA ErrorFields ==
  ASSUME ParserInv, NEW errno, Error(errno)
  PROVE  parser'.http_errno = errno /\ at' = "idle"
BY DEF Error, Move, ParserInv, ParserOK, ParserRecords

(* The request line. *)
RequestEffect ==
  /\ Silent
  /\ \/ parser'.http_errno # "OK"
     \/ /\ parser'.state \in RequestStates \cup {"s_header_field_start"}
        /\ parser'.flags \subseteq parser.flags

LEMMA RequestGoes ==
  ASSUME ParserInv, Silent, NEW state, state \in RequestStates \cup {"s_header_field_start"},
         Consume(To(state))
  PROVE  RequestEffect
BY ToFields DEF RequestEffect, Consume, Move

LEMMA RequestStays ==
  ASSUME ParserInv, Silent, parser.state \in RequestStates, Consume(parser)
  PROVE  RequestEffect
BY DEF RequestEffect, Consume, Move

LEMMA RequestFails ==
  ASSUME ParserInv, Silent, NEW errno, errno # "OK", Error(errno)
  PROVE  RequestEffect
BY ErrorFields DEF RequestEffect

LEMMA RequestExpects ==
  ASSUME ParserInv, NEW state, NEW u, NEW next, next \in RequestStates \cup {"s_header_field_start"},
         NEW errno, errno # "OK", Expect(state, u, next, errno)
  PROVE  RequestEffect
<1>1. Silent
  BY TellsNothing DEF Expect, Silent
<1> QED
  BY <1>1, RequestGoes, RequestFails DEF Expect

LEMMA RequestRecord ==
  ASSUME ParserInv, Silent, NEW p, Consume(p), p.state \in RequestStates \cup {"s_header_field_start"},
         p.flags \subseteq parser.flags
  PROVE  RequestEffect
BY DEF RequestEffect, Consume, Move

LEMMA DeadEffect == ParserInv /\ PassDead => RequestEffect
<1> SUFFICES ASSUME ParserInv, PassDead PROVE RequestEffect
  OBVIOUS
<1>1. Silent /\ parser.state = "s_dead"
  BY TellsNothing DEF PassDead, Silent, Turn
<1> QED
  BY <1>1, RequestStays, RequestFails DEF PassDead, RequestStates

LEMMA StartReqEffect == ParserInv /\ PassStartReq => RequestEffect
<1> SUFFICES ASSUME ParserInv, PassStartReq PROVE RequestEffect
  OBVIOUS
<1>1. parser.state \in RequestStates
  BY DEF PassStartReq, Turn, RequestStates
<1>2. CASE Quiet /\ (Consume(parser) \/ Error("INVALID_METHOD"))
  <2>1. Silent
    BY <1>2, TellsNothing DEF Silent
  <2> QED
    BY <1>1, <1>2, <2>1, RequestStays, RequestFails
<1>3. CASE /\ Notify("message_begin")
           /\ Consume([To("s_req_method") EXCEPT !.flags = {}, !.content_length = ULLONG_MAX,
                                                 !.method = U.w, !.index = 1])
  <2> DEFINE p == [To("s_req_method") EXCEPT !.flags = {}, !.content_length = ULLONG_MAX,
                                             !.method = U.w, !.index = 1]
  <2>1. Silent
    BY <1>3, TellsOne DEF Notify, Silent
  <2>2. p.state = "s_req_method" /\ p.flags = {}
    BY DEF To, ParserInv, ParserOK, ParserRecords
  <2>3. Consume(p)
    BY <1>3
  <2> HIDE DEF p
  <2> QED
    BY <2>1, <2>2, <2>3, RequestRecord DEF RequestStates
<1> QED
  BY <1>2, <1>3 DEF PassStartReq

LEMMA MethodEffect == ParserInv /\ PassMethod => RequestEffect
<1> SUFFICES ASSUME ParserInv, PassMethod PROVE RequestEffect
  OBVIOUS
<1>1. Silent /\ parser.state = "s_req_method"
  BY TellsNothing DEF PassMethod, Silent, Turn
<1>2. CASE Consume([parser EXCEPT !.index = 2])
  <2> DEFINE p == [parser EXCEPT !.index = 2]
  <2>1. p.state = "s_req_method" /\ p.flags = parser.flags /\ Consume(p)
    BY <1>1, <1>2 DEF ParserInv, ParserOK, ParserRecords
  <2> HIDE DEF p
  <2> QED
    BY <1>1, <2>1, RequestRecord DEF RequestStates
<1>3. CASE Consume(To("s_req_spaces_before_url"))
  BY <1>1, <1>3, RequestGoes DEF RequestStates
<1>4. CASE Error("INVALID_METHOD")
  BY <1>1, <1>4, RequestFails
<1> QED
  BY <1>2, <1>3, <1>4 DEF PassMethod

LEMMA SpacesBeforeUrlEffect == ParserInv /\ PassSpacesBeforeUrl => RequestEffect
<1> SUFFICES ASSUME ParserInv, PassSpacesBeforeUrl PROVE RequestEffect
  OBVIOUS
<1>1. Silent /\ parser.state = "s_req_spaces_before_url"
  BY TellsNothing DEF PassSpacesBeforeUrl, Silent, Turn, Mark, Tell
<1>2. CASE Consume(parser)
  BY <1>1, <1>2, RequestStays DEF RequestStates
<1>3. CASE U # SP
  <2> DEFINE from == IF parser.method = "CONNECT" THEN "s_req_server_start"
                     ELSE "s_req_spaces_before_url"
             next == ParseUrlChar(from, U)
  <2>1. next \in UrlStates \cup {"s_dead"}
    BY UrlStep DEF UrlStates, ServerStates
  <2>2. (next = "s_dead" /\ Error("INVALID_URL")) \/ (next # "s_dead" /\ Consume(To(next)))
    BY <1>3 DEF PassSpacesBeforeUrl
  <2> HIDE DEF next
  <2> QED
    BY <1>1, <2>1, <2>2, RequestGoes, RequestFails DEF RequestStates
<1> QED
  BY <1>2, <1>3 DEF PassSpacesBeforeUrl

LEMMA UrlEffect == ParserInv /\ PassUrl => RequestEffect
<1> SUFFICES ASSUME ParserInv, PassUrl PROVE RequestEffect
  OBVIOUS
<1>1. Silent
  BY TellsNothing, TellsSomeData DEF PassUrl, Silent, DataCalls
<1>2. CASE Consume(To("s_req_http_start"))
  BY <1>1, <1>2, RequestGoes DEF RequestStates
<1>3. CASE Consume([To(IF U = CR THEN "s_req_line_almost_done" ELSE "s_header_field_start")
                      EXCEPT !.http_major = 0, !.http_minor = 9])
  <2> DEFINE next == IF U = CR THEN "s_req_line_almost_done" ELSE "s_header_field_start"
             p == [To(next) EXCEPT !.http_major = 0, !.http_minor = 9]
  <2>1. next \in RequestStates \cup {"s_header_field_start"}
    BY DEF RequestStates
  <2>2. Consume(p)
    BY <1>3
  <2> HIDE DEF next
  <2>3. p.state = next /\ p.flags = parser.flags
    BY DEF To, ParserInv, ParserOK, ParserRecords
  <2> HIDE DEF p
  <2> QED
    BY <1>1, <2>1, <2>2, <2>3, RequestRecord
<1>4. CASE Error("INVALID_URL")
  BY <1>1, <1>4, RequestFails
<1>5. ASSUME ParseUrlChar(parser.state, U) # "s_dead", Consume(To(ParseUrlChar(parser.state, U)))
      PROVE  RequestEffect
  <2>1. ParseUrlChar(parser.state, U) \in UrlStates \cup {"s_dead"}
    BY UrlStep DEF PassUrl
  <2> QED
    BY <1>1, <1>5, <2>1, RequestGoes DEF RequestStates
<1> QED
  BY <1>2, <1>3, <1>4, <1>5 DEF PassUrl

LEMMA HttpStartEffect == ParserInv /\ PassHttpStart => RequestEffect
<1> SUFFICES ASSUME ParserInv, PassHttpStart PROVE RequestEffect
  OBVIOUS
<1>1. Silent /\ parser.state = "s_req_http_start"
  BY TellsNothing DEF PassHttpStart, Silent, Turn
<1>2. {"s_req_http_start", "s_req_http_H", "s_req_http_I"} \subseteq RequestStates
  BY DEF RequestStates
<1> QED
  BY <1>1, <1>2, RequestStays, RequestGoes, RequestFails DEF PassHttpStart

LEMMA VersionNumberEffect ==
  ASSUME ParserInv, NEW state, NEW field \in {"http_major", "http_minor"},
         NEW next \in RequestStates, PassVersionNumber(state, field, next)
  PROVE  RequestEffect
<1>1. Silent
  BY TellsNothing DEF PassVersionNumber, Silent
<1>2. CASE Consume([To(next) EXCEPT ![field] = Digits[U.w]])
  <2> DEFINE digit == Digits[U.w]
             p == [To(next) EXCEPT ![field] = digit]
  <2>1. Consume(p)
    BY <1>2
  <2> HIDE DEF digit
  <2>2. p.state = next /\ p.flags = parser.flags
    BY DEF To, ParserInv, ParserOK, ParserRecords
  <2> HIDE DEF p
  <2> QED
    BY <1>1, <2>1, <2>2, RequestRecord
<1>3. CASE Error("INVALID_VERSION")
  BY <1>1, <1>3, RequestFails
<1> QED
  BY <1>2, <1>3 DEF PassVersionNumber

LEMMA VersionEffect == ParserInv /\ PassVersion => RequestEffect
<1>1. {"s_req_http_HTTP", "s_req_http_major", "s_req_http_minor", "s_req_http_dot",
       "s_req_http_end"} \subseteq RequestStates
  BY DEF RequestStates
<1> QED
  BY <1>1, RequestExpects, VersionNumberEffect DEF PassVersion

LEMMA HttpEndEffect == ParserInv /\ PassHttpEnd => RequestEffect
<1> SUFFICES ASSUME ParserInv, PassHttpEnd PROVE RequestEffect
  OBVIOUS
<1>1. Silent
  BY TellsNothing DEF PassHttpEnd, Silent
<1>2. "s_req_line_almost_done" \in RequestStates
  BY DEF RequestStates
<1> QED
  BY <1>1, <1>2, RequestGoes, RequestFails DEF PassHttpEnd

LEMMA RequestLineEffect == ParserInv /\ RequestLine => RequestEffect
<1>1. ParserInv /\ PassLineAlmostDone => RequestEffect
  BY RequestExpects DEF PassLineAlmostDone
<1> QED
  BY <1>1, DeadEffect, StartReqEffect, MethodEffect, SpacesBeforeUrlEffect, UrlEffect,
     HttpStartEffect, VersionEffect, HttpEndEffect
  DEF RequestLine

(* The headers, or trailers. *)
HeaderSays == called' = <<>> \/ Head(called').on \in {"header_field", "header_value"}
HeaderEffect ==
  /\ HeaderSays
  /\ \/ parser'.http_errno # "OK"
     \/ /\ parser'.state \in FieldStates
        /\ parser.flags \subseteq parser'.flags /\ parser'.upgrade = parser.upgrade

LEMMA HeaderRecord ==
  ASSUME HeaderSays, NEW p, parser' = p, p.state \in FieldStates, parser.flags \subseteq p.flags,
         p.upgrade = parser.upgrade
  PROVE  HeaderEffect
BY DEF HeaderEffect

LEMMA HeaderGoes ==
  ASSUME ParserInv, HeaderSays, NEW state \in FieldStates, parser' = To(state)
  PROVE  HeaderEffect
BY ToFields DEF HeaderEffect

LEMMA HeaderFails ==
  ASSUME ParserInv, HeaderSays, NEW errno, errno # "OK", Error(errno)
  PROVE  HeaderEffect
BY ErrorFields DEF HeaderEffect

LEMMA HeaderExpects ==
  ASSUME ParserInv, NEW state, NEW u, NEW next \in FieldStates, NEW errno, errno # "OK",
         Expect(state, u, next, errno)
  PROVE  HeaderEffect
<1>1. HeaderSays
  BY TellsNothing DEF Expect, HeaderSays
<1> QED
  BY <1>1, HeaderGoes, HeaderFails DEF Expect, Consume, Move

(* The count at the end of a name or a value. *)
LEMMA CountFields ==
  ASSUME NEW p \in ParserRecords, NEW end, NEW next, NEW where, CountThen(p, end, next, where)
  PROVE  \/ parser'.http_errno = "HEADER_OVERFLOW"
         \/ /\ parser'.state = p.state /\ parser'.flags = p.flags /\ parser'.upgrade = p.upgrade
            /\ parser'.header_state = p.header_state /\ pos' = next /\ at' = where
            /\ Counted(end) <= max_header_size
<1> DEFINE count == Counted(end)
           q == [p EXCEPT !.nread = count]
<1>1. CASE count > max_header_size
  BY <1>1 DEF CountThen, Move, ParserRecords
<1>2. CASE ~(count > max_header_size)
  <2>1. parser' = q /\ pos' = next /\ at' = where /\ count <= max_header_size
    BY <1>2 DEF CountThen, Move
  <2> HIDE DEF count
  <2>2. q.state = p.state /\ q.flags = p.flags /\ q.upgrade = p.upgrade
        /\ q.header_state = p.header_state
    BY DEF ParserRecords
  <2> HIDE DEF q
  <2> QED
    BY <2>1, <2>2 DEF count
<1> QED
  BY <1>1, <1>2

LEMMA ToRecord == ASSUME ParserInv, NEW state \in States PROVE To(state) \in ParserRecords
BY DEF To, ParserInv, ParserOK, ParserRecords

LEMMA HeaderCounts ==
  ASSUME ParserInv, HeaderSays, NEW state \in FieldStates \cap States, NEW end, NEW next, NEW where,
         CountThen(To(state), end, next, where)
  PROVE  HeaderEffect
<1>1. To(state) \in ParserRecords
  BY ToRecord
<1>2. To(state).state = state /\ To(state).flags = parser.flags /\ To(state).upgrade = parser.upgrade
  BY ToFields
<1> QED
  BY <1>1, <1>2, CountFields DEF HeaderEffect

LEMMA HeaderCountsOn ==
  ASSUME ParserInv, HeaderSays, parser.state \in FieldStates, NEW end, NEW next, NEW where,
         CountThen(parser, end, next, where)
  PROVE  HeaderEffect
BY CountFields DEF HeaderEffect, ParserInv, ParserOK

LEMMA FieldStartEffect == ParserInv /\ PassHeaderFieldStart => HeaderEffect
<1> SUFFICES ASSUME ParserInv, PassHeaderFieldStart PROVE HeaderEffect
  OBVIOUS
<1>1. HeaderSays
  BY TellsNothing DEF PassHeaderFieldStart, HeaderSays, Mark, Tell
<1>2. CASE Consume(To("s_headers_almost_done")) \/ Again(To("s_headers_almost_done"))
  BY <1>1, <1>2, HeaderGoes DEF FieldStates, Consume, Again, Move
<1>3. CASE Error("INVALID_HEADER_TOKEN")
  BY <1>1, <1>3, HeaderFails
<1>4. ASSUME NEW hs, Consume([To("s_header_field") EXCEPT !.header_state = hs]) PROVE HeaderEffect
  <2> DEFINE p == [To("s_header_field") EXCEPT !.header_state = hs]
  <2>1. parser' = p
    BY <1>4 DEF Consume, Move
  <2>2. p.state = "s_header_field" /\ p.flags = parser.flags /\ p.upgrade = parser.upgrade
    BY DEF To, ParserInv, ParserOK, ParserRecords
  <2> HIDE DEF p
  <2> QED
    BY <1>1, <2>1, <2>2, HeaderRecord DEF FieldStates
<1> QED
  BY <1>2, <1>3, <1>4 DEF PassHeaderFieldStart

LEMMA FieldEffect == ParserInv /\ PassHeaderField => HeaderEffect
<1> SUFFICES ASSUME ParserInv, PassHeaderField PROVE HeaderEffect
  OBVIOUS
<1>1. HeaderSays /\ parser.state = "s_header_field"
  BY TellsNothing, TellsSomeData DEF PassHeaderField, HeaderSays, DataCalls, Turn
<1>2. {"s_header_field", "s_header_value_discard_ws"} \subseteq FieldStates \cap States
  BY DEF FieldStates, NamedStates, States
<1>3. CASE Scan([parser EXCEPT !.header_state = Name(@, U)])
  <2> DEFINE name == Name(parser.header_state, U)
             p == [parser EXCEPT !.header_state = name]
  <2>1. parser' = p
    BY <1>3 DEF Scan, Move, ParserInv, ParserOK, ParserRecords
  <2> HIDE DEF name
  <2>2. p.state = "s_header_field" /\ p.flags = parser.flags /\ p.upgrade = parser.upgrade
    BY <1>1 DEF ParserInv, ParserOK, ParserRecords
  <2> HIDE DEF p
  <2> QED
    BY <1>1, <1>2, <2>1, <2>2, HeaderRecord
<1>4. CASE CountThen(To("s_header_value_discard_ws"), pos, pos + 1, "loop")
  BY <1>1, <1>2, <1>4, HeaderCounts
<1>5. CASE Error(IF Counted(pos) > max_header_size THEN "HEADER_OVERFLOW" ELSE "INVALID_HEADER_TOKEN")
  BY <1>1, <1>5, HeaderFails
<1>6. CASE CountThen(parser, pos - 1, pos, "loop")
  BY <1>1, <1>2, <1>6, HeaderCountsOn
<1> QED
  BY <1>3, <1>4, <1>5, <1>6 DEF PassHeaderField

(* What the first unit of a value makes of header_state. *)
ValueRecord(p) ==
  /\ p.state = "s_header_value" /\ parser.flags \subseteq p.flags /\ p.upgrade = parser.upgrade
  /\ parser.header_state = HS("h_name", "upgrade") => "F_UPGRADE" \in p.flags
  /\ parser.header_state = HS("h_name", "connection") /\ U = Half("Upgrade", 1) =>
       p.header_state = HS("h_matching_value", "upgrade")
  /\ "F_TRAILING" \in p.flags => "F_TRAILING" \in parser.flags

LEMMA StartValueEffect ==
  ASSUME ParserInv, StartValue
  PROVE  /\ called' = <<>>
         /\ \/ parser'.http_errno # "OK"
            \/ ValueRecord(parser') /\ pos' = pos + 1 /\ at' = "loop"
<1> DEFINE value == To("s_header_value")
           hs == parser.header_state
<1>1. called' = <<>>
  BY DEF StartValue, Mark, Tell
<1>2. /\ value.state = "s_header_value" /\ value.flags = parser.flags
      /\ value.upgrade = parser.upgrade /\ value.header_state = hs
  BY ToFields
<1>3. value \in ParserRecords
  BY ToRecord DEF States
<1> HIDE DEF value
<1>4. /\ HS("h_name", "upgrade") # HS("h_name", "connection")
      /\ \A w \in {"transfer-encoding", "content-length"} :
           HS("h_name", w) # HS("h_name", "upgrade") /\ HS("h_name", w) # HS("h_name", "connection")
      /\ \A w \in {"upgrade", "connection"} : HS("h_name", w) \notin {LengthWs, TokenStart}
      /\ \A w : HS("h_name", w).phase = "h_name" /\ HS("h_name", w).word = w
  BY HeaderStateFields
<1>5. CASE \E errno \in {"INVALID_CONTENT_LENGTH", "UNEXPECTED_CONTENT_LENGTH"} : Error(errno)
  BY <1>1, <1>5, ErrorFields
<1>6. CASE /\ hs = HS("h_name", "upgrade")
           /\ Consume([value EXCEPT !.flags = @ \cup {"F_UPGRADE"}, !.header_state = General])
  <2> DEFINE p == [value EXCEPT !.flags = @ \cup {"F_UPGRADE"}, !.header_state = General]
  <2>1. p.state = "s_header_value" /\ p.flags = parser.flags \cup {"F_UPGRADE"}
        /\ p.upgrade = parser.upgrade
    BY <1>2, <1>3 DEF ParserRecords
  <2>2. parser' = p /\ pos' = pos + 1 /\ at' = "loop"
    BY <1>6 DEF Consume, Move
  <2> HIDE DEF p
  <2> QED
    BY <1>1, <1>4, <1>6, <2>1, <2>2 DEF ValueRecord
<1>7. CASE /\ hs = HS("h_name", "connection")
           /\ Consume([value EXCEPT !.header_state =
                IF U.h = 1 /\ Lower(U.w) \in ConnectionTokens
                THEN HS("h_matching_value", Lower(U.w)) ELSE Token])
  <2> DEFINE next == IF U.h = 1 /\ Lower(U.w) \in ConnectionTokens
                     THEN HS("h_matching_value", Lower(U.w)) ELSE Token
             p == [value EXCEPT !.header_state = next]
  <2>1. U = Half("Upgrade", 1) => next = HS("h_matching_value", "upgrade")
    BY LowerNames DEF Half, ConnectionTokens
  <2>2. parser' = p /\ pos' = pos + 1 /\ at' = "loop"
    BY <1>7 DEF Consume, Move
  <2> HIDE DEF next
  <2>3. p.state = "s_header_value" /\ p.flags = parser.flags
        /\ p.upgrade = parser.upgrade /\ p.header_state = next
    BY <1>2, <1>3 DEF ParserRecords
  <2> HIDE DEF p
  <2> QED
    BY <1>1, <1>4, <1>7, <2>1, <2>2, <2>3 DEF ValueRecord
<1>8. ASSUME hs # HS("h_name", "upgrade"), hs # HS("h_name", "connection"),
             NEW next, Consume([value EXCEPT !.header_state = next])
      PROVE  /\ called' = <<>>
             /\ ValueRecord(parser') /\ pos' = pos + 1 /\ at' = "loop"
  <2> DEFINE p == [value EXCEPT !.header_state = next]
  <2>1. p.state = "s_header_value" /\ p.flags = parser.flags /\ p.upgrade = parser.upgrade
    BY <1>2, <1>3 DEF ParserRecords
  <2>2. parser' = p /\ pos' = pos + 1 /\ at' = "loop"
    BY <1>8 DEF Consume, Move
  <2> HIDE DEF p
  <2> QED
    BY <1>1, <1>8, <2>1, <2>2 DEF ValueRecord
<1>9. CASE /\ hs = HS("h_name", "content-length")
           /\ Consume([value EXCEPT !.flags = @ \cup {"F_CONTENTLENGTH"},
                         !.content_length = Digits[U.w], !.header_state = LengthNum])
  <2> DEFINE n == Digits[U.w]
             p == [value EXCEPT !.flags = @ \cup {"F_CONTENTLENGTH"},
                                !.content_length = n, !.header_state = LengthNum]
  <2>1. parser' = p /\ pos' = pos + 1 /\ at' = "loop"
    BY <1>9 DEF Consume, Move
  <2> HIDE DEF n
  <2>2. p.state = "s_header_value" /\ p.flags = parser.flags \cup {"F_CONTENTLENGTH"}
        /\ p.upgrade = parser.upgrade
    BY <1>2, <1>3 DEF ParserRecords
  <2> HIDE DEF p
  <2> QED
    BY <1>1, <1>4, <1>9, <2>1, <2>2 DEF ValueRecord
<1>10. CASE hs = HS("h_name", "transfer-encoding")
             /\ Consume([value EXCEPT !.header_state =
                  IF IsHalf(U, "chunked", 1) THEN HS("h_matching_value", "chunked") ELSE General])
  BY <1>4, <1>8, <1>10
<1>11. CASE hs \in {LengthWs, TokenStart} /\ Consume(value)
  <2>1. [value EXCEPT !.header_state = hs] = value
    BY <1>2, <1>3 DEF ParserRecords
  <2>2. hs # HS("h_name", "upgrade") /\ hs # HS("h_name", "connection")
    BY <1>4, <1>11
  <2> QED
    BY <1>8, <1>11, <2>1, <2>2
<1>12. CASE /\ hs.phase # "h_name" \/ hs.word \notin SpecialNames
            /\ Consume([value EXCEPT !.header_state = General])
  <2>1. hs # HS("h_name", "upgrade") /\ hs # HS("h_name", "connection")
    BY <1>4, <1>12, LowerNames
  <2> QED
    BY <1>8, <1>12, <2>1
<1> QED
  BY <1>5, <1>6, <1>7, <1>9, <1>10, <1>11, <1>12 DEF StartValue, value

LEMMA StartValueHeader == ParserInv /\ StartValue => HeaderEffect
BY StartValueEffect DEF HeaderEffect, HeaderSays, ValueRecord, FieldStates

LEMMA DiscardWsEffect == ParserInv /\ PassDiscardWs => HeaderEffect
<1> SUFFICES ASSUME ParserInv, PassDiscardWs PROVE HeaderEffect
  OBVIOUS
<1>1. NamedStates \subseteq FieldStates /\ parser.state \in NamedStates
  BY DEF FieldStates, NamedStates, PassDiscardWs, Turn
<1>2. CASE StartValue
  BY <1>2, StartValueHeader
<1>3. CASE Quiet /\ Consume(parser)
  BY <1>1, <1>3, TellsNothing, HeaderRecord DEF HeaderSays, Consume, Move
<1>4. ASSUME NEW state \in NamedStates, Quiet, Consume(To(state)) PROVE HeaderEffect
  BY <1>1, <1>4, TellsNothing, HeaderGoes DEF HeaderSays, Consume, Move
<1> QED
  BY <1>2, <1>3, <1>4 DEF PassDiscardWs, NamedStates

LEMMA EarnFields ==
  ASSUME ParserInv, NEW state \in States
  PROVE  LET p == EarnFlag(To(state))
         IN  /\ p.state = state /\ parser.flags \subseteq p.flags /\ p.upgrade = parser.upgrade
             /\ p.header_state = parser.header_state
             /\ "F_TRAILING" \in p.flags => "F_TRAILING" \in parser.flags
             /\ parser.header_state = HS("h_value", "upgrade") => "F_CONNECTION_UPGRADE" \in p.flags
<1> DEFINE q == To(state)
           hs == parser.header_state
<1>1. /\ q.state = state /\ q.flags = parser.flags /\ q.upgrade = parser.upgrade
      /\ q.header_state = hs
  BY ToFields
<1>2. q \in ParserRecords /\ hs \in HeaderStates
  BY ToRecord DEF ParserInv, ParserOK, ParserRecords
<1> HIDE DEF q
<1>3. CASE hs.phase = "h_value"
  <2> DEFINE more == {FlagOf[hs.word]}
             p == [q EXCEPT !.flags = @ \cup more]
  <2>1. EarnFlag(q) = p
    BY <1>1, <1>3 DEF EarnFlag
  <2>2. "F_TRAILING" \notin more
    BY <1>2, <1>3, HeaderStateWords, TokenFlags
  <2>3. hs = HS("h_value", "upgrade") => "F_CONNECTION_UPGRADE" \in more
    BY TokenFlags, HeaderStateFields
  <2> HIDE DEF more
  <2>4. /\ p.state = state /\ p.flags = parser.flags \cup more /\ p.upgrade = parser.upgrade
        /\ p.header_state = hs
    BY <1>1, <1>2 DEF ParserRecords
  <2> HIDE DEF p
  <2> QED
    BY <2>1, <2>2, <2>3, <2>4 DEF q
<1>4. CASE hs.phase # "h_value"
  <2>1. EarnFlag(q) = q
    BY <1>1, <1>4 DEF EarnFlag
  <2>2. hs # HS("h_value", "upgrade")
    BY <1>4, HeaderStateFields
  <2> QED
    BY <1>1, <2>1, <2>2 DEF q
<1> QED
  BY <1>3, <1>4

LEMMA ScanValueFields ==
  ASSUME ParserInv, parser.state = "s_header_value", ScanValue
  PROVE  /\ parser'.state = "s_header_value" /\ pos' = pos + 1 /\ at' = "switch"
         /\ parser'.flags = parser.flags \cup ValueFlags(parser.header_state, U)
         /\ parser'.upgrade = parser.upgrade
         /\ parser'.header_state = ValueUnit(parser.header_state, U)
<1> DEFINE hs == parser.header_state
           more == ValueFlags(hs, U)
           next == ValueUnit(hs, U)
           length == IF hs = LengthNum /\ U # SP THEN AddDigit(parser.content_length, 10, Digits[U.w])
                     ELSE parser.content_length
           p == [parser EXCEPT !.header_state = next, !.flags = @ \cup more, !.content_length = length]
<1>1. Scan(p)
  BY Zenon DEF ScanValue
<1> HIDE DEF more, next, length
<1>2. /\ p.state = "s_header_value" /\ p.flags = parser.flags \cup more
      /\ p.upgrade = parser.upgrade /\ p.header_state = next
  BY DEF ParserInv, ParserOK, ParserRecords
<1>3. parser' = p /\ pos' = pos + 1 /\ at' = "switch"
  BY <1>1 DEF Scan, Move
<1> HIDE DEF p
<1> QED
  BY <1>2, <1>3 DEF more, next

LEMMA ValueEffect == ParserInv /\ PassHeaderValue => HeaderEffect
<1> SUFFICES ASSUME ParserInv, PassHeaderValue PROVE HeaderEffect
  OBVIOUS
<1>1. HeaderSays /\ parser.state = "s_header_value"
  BY TellsNothing, TellsSomeData DEF PassHeaderValue, HeaderSays, DataCalls, Turn
<1>2. {"s_header_value", "s_header_almost_done"} \subseteq FieldStates \cap States
  BY DEF FieldStates, TakenStates, States
<1>3. ASSUME NEW next, NEW where, CountThen(To("s_header_almost_done"), pos, next, where)
      PROVE  HeaderEffect
  BY <1>1, <1>2, <1>3, HeaderCounts
<1>4. CASE Error("INVALID_HEADER_TOKEN") \/ Error("INVALID_CONTENT_LENGTH")
  BY <1>1, <1>4, HeaderFails
<1>5. CASE ScanValue
  BY <1>1, <1>2, <1>5, ScanValueFields DEF HeaderEffect
<1>6. CASE CountThen(parser, pos - 1, pos, "loop")
  BY <1>1, <1>2, <1>6, HeaderCountsOn
<1> QED
  BY <1>3, <1>4, <1>5, <1>6 DEF PassHeaderValue

LEMMA ValueLwsFields ==
  ASSUME ParserInv, PassValueLws
  PROVE  /\ called' = <<>> /\ pos' = pos /\ at' = "switch" /\ marks' = marks
         /\ \/ parser'.state = "s_header_value_start" /\ parser'.flags = parser.flags
               /\ parser'.upgrade = parser.upgrade
            \/ parser' = EarnFlag(To("s_header_field_start"))
<1>1. called' = <<>> /\ marks' = marks
  BY TellsNothing DEF PassValueLws
<1>2. CASE Again(EarnFlag(To("s_header_field_start")))
  BY <1>1, <1>2 DEF Again, Move
<1>3. CASE Again([To("s_header_value_start") EXCEPT !.header_state =
                    IF @ = LengthNum THEN LengthWs ELSE @])
  <2> DEFINE q == To("s_header_value_start")
             hs == IF q.header_state = LengthNum THEN LengthWs ELSE q.header_state
             p == [q EXCEPT !.header_state = hs]
  <2>1. q \in ParserRecords
    BY ToRecord DEF States
  <2>2. q.state = "s_header_value_start" /\ q.flags = parser.flags /\ q.upgrade = parser.upgrade
    BY ToFields
  <2>3. Again(p)
    BY <1>3
  <2> HIDE DEF q, hs
  <2>4. p.state = "s_header_value_start" /\ p.flags = parser.flags /\ p.upgrade = parser.upgrade
    BY <2>1, <2>2 DEF ParserRecords
  <2> HIDE DEF p
  <2> QED
    BY <1>1, <2>3, <2>4 DEF Again, Move
<1> QED
  BY <1>2, <1>3 DEF PassValueLws

LEMMA ValueLwsEffect == ParserInv /\ PassValueLws => HeaderEffect
<1> SUFFICES ASSUME ParserInv, PassValueLws PROVE HeaderEffect
  OBVIOUS
<1>1. {"s_header_value_start", "s_header_field_start"} \subseteq FieldStates \cap States
  BY DEF FieldStates, TakenStates, States
<1>2. HeaderSays
  BY ValueLwsFields DEF HeaderSays
<1> QED
  BY <1>1, <1>2, ValueLwsFields, EarnFields DEF HeaderEffect

LEMMA DiscardLwsEffect == ParserInv /\ PassDiscardLws => HeaderEffect
<1> SUFFICES ASSUME ParserInv, PassDiscardLws PROVE HeaderEffect
  OBVIOUS
<1>1. {"s_header_value_discard_ws", "s_header_field_start"} \subseteq FieldStates \cap States
  BY DEF FieldStates, NamedStates, States
<1>2. HeaderSays
  BY TellsNothing, TellsOne DEF PassDiscardLws, HeaderSays
<1>3. CASE Consume(To("s_header_value_discard_ws"))
  BY <1>1, <1>2, <1>3, HeaderGoes DEF Consume, Move
<1>4. CASE Error("INVALID_CONTENT_LENGTH")
  BY <1>2, <1>4, HeaderFails
<1>5. CASE Again(EarnFlag(To("s_header_field_start")))
  BY <1>1, <1>2, <1>5, EarnFields DEF HeaderEffect, Again, Move
<1> QED
  BY <1>3, <1>4, <1>5 DEF PassDiscardLws

LEMMA HeadersEffect == ParserInv /\ Headers => HeaderEffect
<1>1. {"s_header_value_lws", "s_header_value_discard_lws"} \subseteq FieldStates
  BY DEF FieldStates, NamedStates, TakenStates
<1>2. ParserInv /\ PassHeaderAlmostDone => HeaderEffect
  BY <1>1, HeaderExpects DEF PassHeaderAlmostDone
<1>3. ParserInv /\ PassDiscardWsAlmostDone => HeaderEffect
  BY <1>1, HeaderExpects DEF PassDiscardWsAlmostDone
<1>4. ParserInv /\ PassValueStart => HeaderEffect
  BY StartValueHeader DEF PassValueStart
<1> QED
  BY <1>2, <1>3, <1>4, FieldStartEffect, FieldEffect, DiscardWsEffect, ValueEffect,
     ValueLwsEffect, DiscardLwsEffect
  DEF Headers

-----------------------------------------------------------------------------
(* Behind the answer 101: the parser returns behind the message, and no    *)
(* other head is completed on the way.                                     *)

Unanswered == called' = <<>> \/ Head(called').on # "headers_complete"
LeavingEffect ==
  /\ Unanswered
  /\ parser'.http_errno # "OK" \/ at' = "idle" \/ Leaving'

LEMMA StateSets ==
  /\ RequestStates \cap FieldStates = {} /\ RequestStates \cap RestStates = {}
  /\ FieldStates \cap RestStates = {}
BY DEF RequestStates, FieldStates, RestStates, NamedStates, TakenStates, ChunkStates,
       UrlStates, ServerStates, QueryStates, FragmentStates

LEMMA RequestLineStates == RequestLine => parser.state \in RequestStates
BY DEF RequestLine, PassDead, PassStartReq, PassMethod, PassSpacesBeforeUrl, PassUrl,
       PassHttpStart, PassVersion, PassHttpEnd, PassLineAlmostDone, PassVersionNumber, Expect,
       Turn, RequestStates

LEMMA HeadersStates == Headers => parser.state \in FieldStates \ {"s_headers_almost_done"}
BY DEF Headers, PassHeaderFieldStart, PassHeaderField, PassDiscardWs, PassValueStart,
       PassHeaderValue, PassHeaderAlmostDone, PassValueLws, PassDiscardWsAlmostDone,
       PassDiscardLws, Expect, Turn, FieldStates, NamedStates, TakenStates

LEMMA LeavingHeaders == ParserInv /\ Leaving /\ Headers => LeavingEffect
<1> SUFFICES ASSUME ParserInv, Leaving, Headers PROVE LeavingEffect
  OBVIOUS
<1>1. HeaderEffect
  BY HeadersEffect
<1>2. Unanswered
  BY <1>1 DEF HeaderEffect, HeaderSays, Unanswered
<1>3. parser.upgrade /\ "F_TRAILING" \in parser.flags
  BY HeadersStates, StateSets DEF Leaving
<1> QED
  BY <1>1, <1>2, <1>3 DEF HeaderEffect, LeavingEffect, Leaving

LEMMA LeavingRecord ==
  ASSUME Unanswered, NEW p, parser' = p, p.state \in RestStates, p.upgrade
  PROVE  LeavingEffect
BY DEF LeavingEffect, Leaving

LEMMA LeavingGoes ==
  ASSUME ParserInv, Leaving, Unanswered, NEW state \in RestStates, parser' = To(state)
  PROVE  LeavingEffect
BY ToFields DEF LeavingEffect, Leaving

LEMMA LeavingFails ==
  ASSUME ParserInv, Unanswered, NEW errno, Error(errno)
  PROVE  LeavingEffect
BY ErrorFields DEF LeavingEffect

LEMMA LeavingHeadersAlmostDone == ParserInv /\ Leaving /\ PassHeadersAlmostDone => LeavingEffect
<1> SUFFICES ASSUME ParserInv, Leaving, PassHeadersAlmostDone PROVE LeavingEffect
  OBVIOUS
<1>1. "F_TRAILING" \in parser.flags
  BY DEF PassHeadersAlmostDone, Turn, Leaving, RestStates, ChunkStates
<1>2. CASE Quiet /\ Error("STRICT")
  BY <1>2, TellsNothing, LeavingFails DEF Unanswered
<1>3. CASE Notify("chunk_complete") /\ Again(To("s_message_done"))
  <2>1. Unanswered
    BY <1>3, TellsOne DEF Notify, Unanswered
  <2> QED
    BY <1>3, <2>1, LeavingGoes DEF Again, Move, RestStates
<1> QED
  BY <1>1, <1>2, <1>3 DEF PassHeadersAlmostDone

LEMMA LeavingHeadersDone == ParserInv /\ Leaving /\ PassHeadersDone => LeavingEffect
<1> SUFFICES ASSUME ParserInv, Leaving, PassHeadersDone PROVE LeavingEffect
  OBVIOUS
<1> DEFINE p == [parser EXCEPT !.nread = 0]
<1>1. Unanswered
  BY TellsNothing, TellsOne DEF PassHeadersDone, Notify, Unanswered
<1>2. p \in ParserRecords /\ p.upgrade
  BY DEF ParserInv, ParserOK, ParserRecords, Leaving
<1>3. ASSUME NEW state \in RestStates, Consume([p EXCEPT !.state = state]) PROVE LeavingEffect
  <2> HIDE DEF p
  <2>1. [p EXCEPT !.state = state].state = state /\ [p EXCEPT !.state = state].upgrade
    BY <1>2 DEF ParserRecords
  <2> QED
    BY <1>1, <1>3, <2>1, LeavingRecord DEF Consume, Move
<1>4. CASE Return(NewMessage(p))
  BY <1>1, <1>4 DEF Return, Move, LeavingEffect
<1>5. parser.upgrade
  BY DEF Leaving
<1> HIDE DEF p
<1> QED
  BY <1>3, <1>4, <1>5 DEF PassHeadersDone, RestStates, ChunkStates, p

LEMMA LeavingBodyIdentity == ParserInv /\ Leaving /\ PassBodyIdentity => LeavingEffect
<1> SUFFICES ASSUME ParserInv, Leaving, PassBodyIdentity PROVE LeavingEffect
  OBVIOUS
<1> DEFINE left == parser.content_length - ToRead
           p == [parser EXCEPT !.content_length = left]
           q == [p EXCEPT !.state = "s_message_done"]
<1>1. Unanswered
  BY TellsOne DEF PassBodyIdentity, Mark, Tell, Unanswered, Call
<1>2. parser' = p \/ parser' = q
  BY DEF PassBodyIdentity, Move
<1>3. parser.state = "s_body_identity" /\ parser \in ParserRecords /\ parser.upgrade
  BY DEF PassBodyIdentity, Turn, ParserInv, ParserOK, Leaving
<1> HIDE DEF left
<1>4. p.state = "s_body_identity" /\ p.upgrade /\ q.state = "s_message_done" /\ q.upgrade
  BY <1>3 DEF ParserRecords
<1> HIDE DEF p, q
<1> QED
  BY <1>1, <1>2, <1>4, LeavingRecord DEF RestStates

LEMMA LeavingMessageDone == ParserInv /\ Leaving /\ PassMessageDone => LeavingEffect
<1> SUFFICES ASSUME ParserInv, Leaving, PassMessageDone PROVE LeavingEffect
  OBVIOUS
<1>1. Unanswered
  BY TellsOne DEF PassMessageDone, Notify, Unanswered
<1>2. Return(NewMessage(parser))
  BY DEF PassMessageDone, Leaving
<1> QED
  BY <1>1, <1>2 DEF Return, Move, LeavingEffect

LEMMA LeavingChunkSizes ==
  ParserInv /\ Leaving /\ (PassChunkSizeStart \/ PassChunkSize \/ PassChunkParameters) => LeavingEffect
<1> SUFFICES ASSUME ParserInv, Leaving, PassChunkSizeStart \/ PassChunkSize \/ PassChunkParameters
             PROVE  LeavingEffect
  OBVIOUS
<1>1. Unanswered
  BY TellsNothing DEF PassChunkSizeStart, PassChunkSize, PassChunkParameters, Unanswered
<1>2. /\ parser \in ParserRecords /\ parser.upgrade
      /\ parser.state \in {"s_chunk_size_start", "s_chunk_size", "s_chunk_parameters"}
  BY DEF PassChunkSizeStart, PassChunkSize, PassChunkParameters, Turn, ParserInv, ParserOK, Leaving
<1>3. {"s_chunk_size_start", "s_chunk_size", "s_chunk_parameters", "s_chunk_size_almost_done"}
        \subseteq RestStates
  BY DEF RestStates, ChunkStates
<1>4. CASE \E errno : Error(errno)
  BY <1>1, <1>4, LeavingFails
<1>5. CASE \E state \in {"s_chunk_size_almost_done", "s_chunk_parameters"} : Consume(To(state))
  BY <1>1, <1>3, <1>5, LeavingGoes DEF Consume, Move
<1>6. CASE Consume(parser)
  BY <1>1, <1>2, <1>3, <1>6, LeavingRecord DEF Consume, Move
<1>7. ASSUME NEW state \in {"s_chunk_size_start", "s_chunk_size"}, NEW length,
             parser' = [[parser EXCEPT !.state = state] EXCEPT !.content_length = length]
      PROVE  LeavingEffect
  <2> DEFINE p == [[parser EXCEPT !.state = state] EXCEPT !.content_length = length]
  <2>1. p.state = state /\ p.upgrade
    BY <1>2 DEF ParserRecords
  <2>2. parser' = p
    BY <1>7
  <2> HIDE DEF p
  <2> QED
    BY <1>1, <1>3, <2>1, <2>2, LeavingRecord
<1>8. CASE PassChunkSizeStart
  <2>1. CASE Consume([To("s_chunk_size") EXCEPT !.content_length = HexDigits[U.w]])
    BY <2>1, <1>7, Zenon DEF Consume, Move, To
  <2> QED
    BY <1>4, <1>8, <2>1 DEF PassChunkSizeStart
<1>9. CASE PassChunkSize
  <2>1. ASSUME NEW length, Consume([parser EXCEPT !.content_length = length]) PROVE LeavingEffect
    <3> DEFINE p == [parser EXCEPT !.content_length = length]
    <3>1. p.state = parser.state /\ p.upgrade
      BY <1>2 DEF ParserRecords
    <3>2. parser' = p
      BY <2>1 DEF Consume, Move
    <3> HIDE DEF p
    <3> QED
      BY <1>1, <1>2, <1>3, <3>1, <3>2, LeavingRecord
  <2>2. CASE Consume([parser EXCEPT !.content_length = AddDigit(@, 16, HexDigits[U.w])])
    BY <2>1, <2>2
  <2> QED
    BY <1>4, <1>5, <1>9, <2>2 DEF PassChunkSize
<1>10. CASE PassChunkParameters
  <2>1. CASE U = CR
    BY <1>5, <1>10, <2>1 DEF PassChunkParameters
  <2>2. CASE U # CR
    BY <1>6, <1>10, <2>2 DEF PassChunkParameters
  <2> QED
    BY <2>1, <2>2
<1> QED
  BY <1>8, <1>9, <1>10

LEMMA LeavingChunkSizeAlmostDone == ParserInv /\ Leaving /\ PassChunkSizeAlmostDone => LeavingEffect
<1> SUFFICES ASSUME ParserInv, Leaving, PassChunkSizeAlmostDone PROVE LeavingEffect
  OBVIOUS
<1>1. Unanswered
  BY TellsNothing, TellsOne DEF PassChunkSizeAlmostDone, Notify, Unanswered
<1>2. parser \in ParserRecords /\ parser.upgrade
  BY DEF ParserInv, ParserOK, Leaving
<1>3. CASE Error("STRICT")
  BY <1>1, <1>3, LeavingFails
<1>4. CASE Consume([To("s_header_field_start") EXCEPT !.nread = 0, !.flags = @ \cup {"F_TRAILING"}])
  <2> DEFINE p == [To("s_header_field_start") EXCEPT !.nread = 0, !.flags = @ \cup {"F_TRAILING"}]
  <2>1. p.state = "s_header_field_start" /\ "F_TRAILING" \in p.flags /\ p.upgrade
    BY <1>2 DEF ParserRecords, To
  <2>2. parser' = p
    BY <1>4 DEF Consume, Move
  <2> HIDE DEF p
  <2> QED
    BY <1>1, <2>1, <2>2 DEF LeavingEffect, Leaving, FieldStates
<1>5. CASE Consume([To("s_chunk_data") EXCEPT !.nread = 0])
  <2> DEFINE p == [To("s_chunk_data") EXCEPT !.nread = 0]
  <2>1. p.state = "s_chunk_data" /\ p.upgrade
    BY <1>2 DEF ParserRecords, To
  <2>2. parser' = p
    BY <1>5 DEF Consume, Move
  <2> HIDE DEF p
  <2> QED
    BY <1>1, <2>1, <2>2, LeavingRecord DEF RestStates, ChunkStates
<1> QED
  BY <1>3, <1>4, <1>5 DEF PassChunkSizeAlmostDone

LEMMA LeavingChunkData == ParserInv /\ Leaving /\ PassChunkData => LeavingEffect
<1> SUFFICES ASSUME ParserInv, Leaving, PassChunkData PROVE LeavingEffect
  OBVIOUS
<1> DEFINE left == parser.content_length - ToRead
           p == [parser EXCEPT !.content_length = left]
           q == [p EXCEPT !.state = "s_chunk_data_almost_done"]
<1>1. Unanswered
  BY DEF PassChunkData, Mark, Tell, Unanswered
<1>2. parser' = p \/ parser' = q
  BY DEF PassChunkData, Move
<1>3. parser.state = "s_chunk_data" /\ parser \in ParserRecords /\ parser.upgrade
  BY DEF PassChunkData, Turn, ParserInv, ParserOK, Leaving
<1> HIDE DEF left
<1>4. p.state = "s_chunk_data" /\ p.upgrade /\ q.state = "s_chunk_data_almost_done" /\ q.upgrade
  BY <1>3 DEF ParserRecords
<1> HIDE DEF p, q
<1> QED
  BY <1>1, <1>2, <1>4, LeavingRecord DEF RestStates, ChunkStates

LEMMA LeavingChunkDataEnd ==
  ParserInv /\ Leaving /\ (PassChunkDataAlmostDone \/ PassChunkDataDone) => LeavingEffect
<1> SUFFICES ASSUME ParserInv, Leaving, PassChunkDataAlmostDone \/ PassChunkDataDone
             PROVE  LeavingEffect
  OBVIOUS
<1>1. Unanswered
  BY TellsNothing, TellsOne, TellsSomeData
  DEF PassChunkDataAlmostDone, PassChunkDataDone, Notify, DataCalls, Unanswered
<1>2. parser \in ParserRecords /\ parser.upgrade
  BY DEF ParserInv, ParserOK, Leaving
<1>3. CASE Error("STRICT")
  BY <1>1, <1>3, LeavingFails
<1>4. CASE Consume(To("s_chunk_data_done"))
  BY <1>1, <1>4, LeavingGoes DEF RestStates, ChunkStates, Consume, Move
<1>5. CASE Consume([To("s_chunk_size_start") EXCEPT !.nread = 0])
  <2> DEFINE p == [To("s_chunk_size_start") EXCEPT !.nread = 0]
  <2>1. p.state = "s_chunk_size_start" /\ p.upgrade
    BY <1>2 DEF ParserRecords, To
  <2>2. parser' = p
    BY <1>5 DEF Consume, Move
  <2> HIDE DEF p
  <2> QED
    BY <1>1, <2>1, <2>2, LeavingRecord DEF RestStates, ChunkStates
<1> QED
  BY <1>3, <1>4, <1>5 DEF PassChunkDataAlmostDone, PassChunkDataDone

LEMMA LeavingBodies == ParserInv /\ Leaving /\ Bodies => LeavingEffect
BY LeavingHeadersAlmostDone, LeavingHeadersDone, LeavingBodyIdentity, LeavingMessageDone,
   LeavingChunkSizes, LeavingChunkSizeAlmostDone, LeavingChunkData, LeavingChunkDataEnd
DEF Bodies

(* The head of the loop. *)
LEMMA NextUnitFields ==
  ASSUME ParserInv, NextUnit
  PROVE  /\ called' = <<>> /\ marks' = marks /\ pos' = pos
         /\ \/ parser'.http_errno # "OK"
            \/ /\ at' = "switch"
               /\ parser'.state = parser.state /\ parser'.flags = parser.flags
               /\ parser'.upgrade = parser.upgrade /\ parser'.header_state = parser.header_state
<1> DEFINE counted == IF ParsingHeader(parser.state) THEN parser.nread + 1 ELSE parser.nread
           p == [parser EXCEPT !.nread = counted]
<1>1. called' = <<>> /\ marks' = marks
  BY TellsNothing DEF NextUnit
<1>2. CASE Error("HEADER_OVERFLOW")
  BY <1>1, <1>2, ErrorFields DEF Error, Move
<1>3. CASE Again(p)
  <2>1. parser' = p /\ pos' = pos /\ at' = "switch"
    BY <1>3 DEF Again, Move
  <2> HIDE DEF counted
  <2>2. /\ p.state = parser.state /\ p.flags = parser.flags /\ p.upgrade = parser.upgrade
        /\ p.header_state = parser.header_state
    BY DEF ParserInv, ParserOK, ParserRecords
  <2> HIDE DEF p
  <2> QED
    BY <1>1, <2>1, <2>2
<1> QED
  BY <1>2, <1>3 DEF NextUnit

LEMMA LeavingPass == ParserInv /\ Leaving /\ Pass => LeavingEffect
<1> SUFFICES ASSUME ParserInv, Leaving, Pass PROVE LeavingEffect
  OBVIOUS
<1>1. CASE NextUnit
  BY <1>1, NextUnitFields DEF LeavingEffect, Unanswered, Leaving
<1>2. CASE EndOfChunk
  BY <1>2, TellsNothing, TellsSomeData DEF EndOfChunk, LeavingEffect, Unanswered, DataCalls
<1>3. CASE RequestLine
  BY <1>3, RequestLineStates, StateSets DEF Leaving
<1> QED
  BY <1>1, <1>2, <1>3, LeavingHeaders, LeavingBodies DEF Pass

-----------------------------------------------------------------------------
(* Before the answer: the head. *)

Settled ==
  Word("Connection") \in DOMAIN headers /\ headers[Word("Connection")] = Word("Upgrade")
    => "F_CONNECTION_UPGRADE" \in parser.flags
Pending ==
  \/ parser.state \in {"s_header_almost_done", "s_header_value_lws"}
  \/ parser.state \in {"s_header_value_start", "s_header_value"} /\ lastHeaderField = <<>>

LEMMA SettledOutside == ConnectionSeen /\ ~Pending => Settled
BY DEF ConnectionSeen, Settled, Pending

Untouched == headers' = headers /\ lastHeaderField' = lastHeaderField
Grows == parser.flags \subseteq parser'.flags /\ "F_TRAILING" \notin parser'.flags

LEMMA Carried ==
  ASSUME UpgradeSeen, Settled, headers' = headers, Grows
  PROVE  UpgradeSeen' /\ ConnectionSeen'
BY DEF UpgradeSeen, Settled, ConnectionSeen, Grows

LEMMA HeadBetween ==
  ASSUME UpgradeSeen', ConnectionSeen', "F_TRAILING" \notin parser'.flags,
         parser'.state \in RequestStates \cup {"s_header_field_start", "s_headers_almost_done"},
         parser'.state \in RequestStates => headers' = <<>>
  PROVE  HeadInv'
<1>1. /\ parser'.state \notin NamedStates /\ parser'.state \notin TakenStates
      /\ parser'.state \notin {"s_header_field", "s_header_value"}
  BY StateSets DEF FieldStates, NamedStates, TakenStates
<1>2. InHead'
  BY DEF InHead, FieldStates
<1> QED
  BY <1>1, <1>2 DEF HeadInv, NameSeen, NameKnown, ValueSeen, ValueTaken

LEMMA FieldStateInHead ==
  ASSUME parser'.state \in FieldStates, "F_TRAILING" \notin parser'.flags
  PROVE  InHead'
BY StateSets DEF InHead

LEMMA HeadNamed ==
  ASSUME UpgradeSeen', ConnectionSeen', "F_TRAILING" \notin parser'.flags,
         parser'.state \in NamedStates, NameKnown'
  PROVE  HeadInv'
<1>1. parser'.state \notin TakenStates \cup {"s_header_field", "s_header_value"}
  BY DEF NamedStates, TakenStates
<1> QED
  BY <1>1, FieldStateInHead DEF HeadInv, NameSeen, ValueSeen, ValueTaken, FieldStates

LEMMA HeadTaken ==
  ASSUME UpgradeSeen', ConnectionSeen', "F_TRAILING" \notin parser'.flags,
         parser'.state \in TakenStates, lastHeaderField' = <<>>
  PROVE  HeadInv'
<1>1. parser'.state \notin NamedStates \cup {"s_header_field", "s_header_value"}
  BY DEF NamedStates, TakenStates
<1> QED
  BY <1>1, FieldStateInHead DEF HeadInv, NameSeen, NameKnown, ValueSeen, ValueTaken, FieldStates

LEMMA HeadName ==
  ASSUME UpgradeSeen', ConnectionSeen', "F_TRAILING" \notin parser'.flags,
         parser'.state = "s_header_field", NameSeen'
  PROVE  HeadInv'
<1>1. parser'.state \notin NamedStates \cup TakenStates \cup {"s_header_value"}
  BY DEF NamedStates, TakenStates
<1> QED
  BY <1>1, FieldStateInHead DEF HeadInv, NameKnown, ValueSeen, ValueTaken, FieldStates

LEMMA HeadValue ==
  ASSUME UpgradeSeen', ConnectionSeen', "F_TRAILING" \notin parser'.flags,
         parser'.state = "s_header_value", ValueSeen'
  PROVE  HeadInv'
<1>1. parser'.state \notin NamedStates \cup TakenStates \cup {"s_header_field"}
  BY DEF NamedStates, TakenStates
<1> QED
  BY <1>1, FieldStateInHead DEF HeadInv, NameSeen, NameKnown, ValueTaken, FieldStates

(* What may be used in a pass that goes on. *)
Going == ParserInv /\ HeadInv /\ Callback /\ parser'.http_errno = "OK" /\ input' = input

LEMMA QuietUntouched ==
  ASSUME called' = <<>>, Callback
  PROVE  Untouched
BY SilentCallback DEF Silent, Untouched

LEMMA HeadRequestLine == Going /\ RequestLine => HeadInv'
<1> SUFFICES ASSUME Going, RequestLine PROVE HeadInv'
  OBVIOUS
<1>1. RequestEffect
  BY RequestLineEffect DEF Going
<1>2. headers' = headers
  BY <1>1, SilentCallback DEF RequestEffect, Going
<1>3. headers' = <<>>
  BY <1>2, RequestLineStates DEF Going, HeadInv, InHead
<1>4. UpgradeSeen' /\ ConnectionSeen'
  BY <1>3, NoHeaders DEF UpgradeSeen, ConnectionSeen
<1>5. /\ parser'.state \in RequestStates \cup {"s_header_field_start"}
      /\ "F_TRAILING" \notin parser'.flags
  BY <1>1 DEF RequestEffect, Going, HeadInv, InHead
<1> QED
  BY <1>3, <1>4, <1>5, HeadBetween

LEMMA MarkPlace ==
  ASSUME Places, NEW on \in DataCalls, marks[on] = 0, Mark(on)
  PROVE  called' = <<>> /\ marks'[on] = pos /\ pos \in Nat \ {0}
BY DEF Mark, Tell, Places

LEMMA HeadFieldStart == Going /\ PassHeaderFieldStart => HeadInv'
<1> SUFFICES ASSUME Going, PassHeaderFieldStart PROVE HeadInv'
  OBVIOUS
<1>1. parser.state = "s_header_field_start" /\ at = "switch"
  BY DEF PassHeaderFieldStart, Turn
<1>2. called' = <<>>
  BY TellsNothing DEF PassHeaderFieldStart, Mark, Tell
<1>3. Untouched
  BY <1>2, QuietUntouched DEF Going
<1>4. UpgradeSeen /\ Settled /\ "F_TRAILING" \notin parser.flags
  BY <1>1, SettledOutside DEF Going, HeadInv, InHead, Pending
<1>5. CASE Consume(To("s_headers_almost_done")) \/ Again(To("s_headers_almost_done"))
  <2>1. parser'.state = "s_headers_almost_done" /\ parser'.flags = parser.flags
    BY <1>5, ToFields DEF Consume, Again, Move, Going
  <2> QED
    BY <1>3, <1>4, <2>1, Carried, HeadBetween, StateSets DEF Untouched, Grows, FieldStates
<1>6. CASE /\ IsToken(U)
           /\ Mark("header_field")
           /\ Consume([To("s_header_field") EXCEPT !.header_state =
                IF U.h = 1 /\ Lower(U.w) \in SpecialNames THEN HS("h_matching", Lower(U.w))
                ELSE General])
  <2> DEFINE hs == IF U.h = 1 /\ Lower(U.w) \in SpecialNames THEN HS("h_matching", Lower(U.w))
                   ELSE General
             p == [To("s_header_field") EXCEPT !.header_state = hs]
  <2>1. parser' = p /\ pos' = pos + 1 /\ at' = "loop"
    BY <1>6 DEF Consume, Move
  <2>2. \A w \in Asked : U = Half(w, 1) => hs = HS("h_matching", Lower(w))
    BY LowerNames DEF Asked, Half
  <2> HIDE DEF hs
  <2>3. p.state = "s_header_field" /\ p.flags = parser.flags /\ p.header_state = hs
    BY DEF To, Going, ParserInv, ParserOK, ParserRecords
  <2> HIDE DEF p
  <2>4. marks["header_field"] = 0 /\ Places
    BY <1>1 DEF Going, ParserInv, AtSwitch, Fits
  <2>5. marks'["header_field"] = pos /\ pos \in Nat \ {0}
    BY <1>6, <2>4, MarkPlace DEF DataCalls
  <2>6. NameSeen'
    <3>1. ASSUME NEW w \in Asked, input'[pos] = Half(w, 1)
          PROVE  hs = HS("h_matching", Lower(w))
      BY <2>2, <3>1 DEF Going, U
    <3>2. pos' # pos + 2 /\ pos < pos'
      BY <2>1, <2>5
    <3> QED
      BY <2>1, <2>3, <2>5, <3>1, <3>2 DEF NameSeen, HalfRead, WordRead, Going
  <2> QED
    BY <1>3, <1>4, <2>1, <2>3, <2>6, Carried, HeadName DEF Untouched, Grows
<1>7. CASE \E errno \in {"INVALID_HEADER_TOKEN"} : Error(errno)
  BY <1>7, ErrorFields DEF Going
<1> QED
  BY <1>5, <1>6, <1>7 DEF PassHeaderFieldStart

LEMMA HalfName ==
  ASSUME NEW w \in Asked, NEW u, u = Half(w, 2)
  PROVE  Name(HS("h_matching", Lower(w)), u) = Known(w)
<1>1. IsHalf(u, Lower(w), 2)
  BY DEF IsHalf, Half
<1>2. Lower(w) # "proxy-connection"
  BY LowerNames DEF Asked
<1> QED
  BY <1>1, <1>2, HeaderStateFields DEF Name, Known

LEMMA CountedHere == ParserInv /\ Counted(pos) <= max_header_size => ~(Counted(pos) > max_header_size)
<1> SUFFICES ASSUME ParserInv PROVE Counted(pos) \in Int
  BY SizesOK
<1>1. parser.nread \in Nat
  BY LengthType
<1>2. pos \in Int /\ start \in Int
  BY DEF ParserInv, Places
<1> QED
  BY <1>1, <1>2 DEF Counted

LEMMA HeadField == Going /\ PassHeaderField => HeadInv'
<1> SUFFICES ASSUME Going, PassHeaderField PROVE HeadInv'
  OBVIOUS
<1> DEFINE m == marks["header_field"]
           hs == parser.header_state
<1>1. parser.state = "s_header_field" /\ at = "switch"
  BY DEF PassHeaderField, Turn
<1>2. UpgradeSeen /\ Settled /\ "F_TRAILING" \notin parser.flags
  BY <1>1, SettledOutside DEF Going, HeadInv, InHead, Pending
<1>3. /\ NameSeen /\ m \in Nat /\ m # 0 /\ m < pos /\ pos \in Nat
      /\ input \in Seq(Unit) /\ arrived <= Len(input) /\ arrived \in Nat /\ Len(input) \in Nat
  BY <1>1 DEF Going, HeadInv, NameSeen, ParserInv, Places, DataCalls
<1>4. parser \in ParserRecords
  BY DEF Going, ParserInv, ParserOK
<1>5. CASE Quiet /\ Scan([parser EXCEPT !.header_state = Name(@, U)])
  <2> DEFINE next == Name(hs, U)
             p == [parser EXCEPT !.header_state = next]
  <2>1. parser' = p /\ pos' = pos + 1 /\ at' = "switch"
    BY <1>5 DEF Scan, Move
  <2>2. Untouched /\ marks' = marks
    BY <1>5, TellsNothing, QuietUntouched DEF Going
  <2>3. ASSUME NEW w \in Asked, pos' = m + 2, input'[m] = Half(w, 1), input'[m + 1] = Half(w, 2)
        PROVE  next = Known(w)
    <3>1. pos = m + 1
      BY <1>3, <2>1, <2>3
    <3>2. HalfRead(m, w) /\ U = Half(w, 2)
      BY <2>3, <3>1 DEF HalfRead, U, Going
    <3>3. hs = HS("h_matching", Lower(w))
      BY <1>1, <1>3, <3>2 DEF NameSeen
    <3> QED
      BY <3>2, <3>3, HalfName
  <2> HIDE DEF next
  <2>4. p.state = "s_header_field" /\ p.flags = parser.flags /\ p.header_state = next
    BY <1>1, <1>4 DEF ParserRecords
  <2> HIDE DEF p
  <2>5. NameSeen'
    <3>1. pos' # m + 1 /\ m < pos'
      BY <1>3, <2>1
    <3> QED
      BY <1>3, <2>1, <2>2, <2>3, <2>4, <3>1 DEF NameSeen, HalfRead, WordRead
  <2> QED
    BY <1>2, <2>1, <2>2, <2>4, <2>5, Carried, HeadName DEF Untouched, Grows
<1>6. CASE /\ pos <= arrived
           /\ IF Counted(pos) > max_header_size THEN Quiet ELSE Data("header_field", pos)
           /\ CountThen(To("s_header_value_discard_ws"), pos, pos + 1, "loop")
  <2> DEFINE q == To("s_header_value_discard_ws")
  <2>1. q \in ParserRecords
    BY ToRecord DEF Going, States
  <2>2. q.state = "s_header_value_discard_ws" /\ q.flags = parser.flags /\ q.header_state = hs
    BY ToFields DEF Going
  <2>3. /\ parser'.state = "s_header_value_discard_ws" /\ parser'.flags = parser.flags
        /\ parser'.header_state = hs /\ Counted(pos) <= max_header_size
    BY <1>6, <2>1, <2>2, CountFields DEF Going
  <2>4. Data("header_field", pos)
    BY <1>6, <2>3, CountedHere DEF Going
  <2>5. called' # <<>> /\ Head(called').on = "header_field"
        /\ Head(called').data = SubSeq(input, m, pos - 1)
    BY <1>3, <2>4, TellsData DEF DataCalls
  <2>6. headers' = headers /\ lastHeaderField' = SubSeq(input, m, pos - 1)
    BY <2>5, FieldCallback DEF Going, OnHeaderField
  <2>7. NameKnown'
    <3>1. ASSUME NEW w \in Asked, SubSeq(input, m, pos - 1) = Word(w)
          PROVE  hs = Known(w)
      <4>1. pos = m + 2 /\ input[m] = Half(w, 1) /\ input[m + 1] = Half(w, 2)
        <5>1. 1 <= m /\ pos - 1 <= Len(input)
          BY <1>3, <1>6
        <5> HIDE DEF m
        <5> QED
          BY <1>3, <3>1, <5>1, TwoUnits
      <4> QED
        BY <1>1, <1>3, <4>1 DEF NameSeen, WordRead
    <3> QED
      BY <2>3, <2>6, <3>1 DEF NameKnown
  <2> QED
    BY <1>2, <2>3, <2>6, <2>7, Carried, HeadNamed DEF Grows, NamedStates
<1>7. CASE Quiet /\ CountThen(parser, pos - 1, pos, "loop")
  <2>1. Untouched /\ marks' = marks
    BY <1>7, TellsNothing, QuietUntouched DEF Going
  <2>2. /\ parser'.state = "s_header_field" /\ parser'.flags = parser.flags
        /\ parser'.header_state = hs /\ pos' = pos /\ at' = "loop"
    BY <1>1, <1>4, <1>7, CountFields DEF Going
  <2>3. NameSeen'
    BY <1>1, <1>3, <2>1, <2>2 DEF NameSeen, HalfRead, WordRead, Going
  <2> QED
    BY <1>2, <2>1, <2>2, <2>3, Carried, HeadName DEF Untouched, Grows
<1>8. CASE Error(IF Counted(pos) > max_header_size THEN "HEADER_OVERFLOW" ELSE "INVALID_HEADER_TOKEN")
  BY <1>8, ErrorFields DEF Going
<1> QED
  BY <1>5, <1>6, <1>7, <1>8 DEF PassHeaderField

(* The first unit of a value. *)
LEMMA HeadStartValue ==
  ASSUME Going, StartValue, at = "switch", parser.state \notin Inside, Settled \/ lastHeaderField = <<>>,
         \A w \in Asked : lastHeaderField = Word(w) => parser.header_state = Known(w)
  PROVE  HeadInv'
<1> DEFINE hs == parser.header_state
<1>1. called' = <<>> /\ ValueRecord(parser') /\ pos' = pos + 1 /\ at' = "loop"
  BY StartValueEffect DEF Going
<1>2. Untouched
  BY <1>1, QuietUntouched DEF Going
<1>3. UpgradeSeen /\ "F_TRAILING" \notin parser.flags
  BY DEF Going, HeadInv, InHead
<1>4. Grows /\ parser'.state = "s_header_value"
  BY <1>1, <1>3 DEF Grows, ValueRecord
<1>5. UpgradeSeen' /\ ConnectionSeen'
  <2>1. CASE Settled
    BY <1>2, <1>3, <1>4, <2>1, Carried DEF Untouched
  <2>2. CASE lastHeaderField = <<>>
    BY <1>2, <1>3, <1>4, <2>2 DEF Untouched, UpgradeSeen, ConnectionSeen, Grows
  <2> QED
    BY <2>1, <2>2
<1>6. marks["header_value"] = 0 /\ Places
  BY DEF Going, ParserInv, AtSwitch, Fits, Inside, ScanStates
<1>7. marks'["header_value"] = pos /\ pos \in Nat \ {0}
  BY <1>6, MarkPlace DEF StartValue, DataCalls
<1>8. lastHeaderField = Word("Upgrade") => "F_UPGRADE" \in parser'.flags
  BY <1>1, LowerNames DEF Asked, Known, ValueRecord
<1>9. lastHeaderField = Word("Connection") /\ input'[pos] = Half("Upgrade", 1) =>
        parser'.header_state = HS("h_matching_value", "upgrade")
  BY <1>1, LowerNames DEF Asked, Known, ValueRecord, Going, U
<1>10. ValueSeen'
  <2>1. pos' # pos + 2 /\ pos < pos'
    BY <1>1, <1>7
  <2> QED
    BY <1>1, <1>2, <1>7, <1>8, <1>9, <2>1 DEF ValueSeen, HalfRead, WordRead, Untouched
<1> QED
  BY <1>4, <1>5, <1>10, HeadValue DEF Grows

LEMMA HeadDiscardWs == Going /\ PassDiscardWs => HeadInv'
<1> SUFFICES ASSUME Going, PassDiscardWs PROVE HeadInv'
  OBVIOUS
<1>1. parser.state = "s_header_value_discard_ws" /\ at = "switch"
  BY DEF PassDiscardWs, Turn
<1>2. UpgradeSeen /\ Settled /\ "F_TRAILING" \notin parser.flags
  BY <1>1, SettledOutside DEF Going, HeadInv, InHead, Pending
<1>3. \A w \in Asked : lastHeaderField = Word(w) => parser.header_state = Known(w)
  BY <1>1 DEF Going, HeadInv, NameKnown, NamedStates
<1>4. parser.state \notin Inside
  BY <1>1 DEF Inside, UrlStates, ServerStates, QueryStates, FragmentStates, ScanStates
<1>5. CASE StartValue
  BY <1>1, <1>2, <1>3, <1>4, <1>5, HeadStartValue
<1>6. ASSUME Quiet, parser'.state \in NamedStates, parser'.flags = parser.flags,
             parser'.header_state = parser.header_state
      PROVE  HeadInv'
  <2>1. Untouched
    BY <1>6, TellsNothing, QuietUntouched DEF Going
  <2>2. NameKnown'
    BY <1>3, <1>6, <2>1 DEF NameKnown, Untouched
  <2> QED
    BY <1>2, <1>6, <2>1, <2>2, Carried, HeadNamed DEF Untouched, Grows
<1>7. CASE Quiet /\ Consume(parser)
  BY <1>1, <1>6, <1>7 DEF Consume, Move, NamedStates
<1>8. ASSUME NEW state \in NamedStates, Quiet, Consume(To(state)) PROVE HeadInv'
  <2>1. parser' = To(state)
    BY <1>8 DEF Consume, Move
  <2> QED
    BY <1>6, <1>8, <2>1, ToFields DEF Going
<1> QED
  BY <1>5, <1>7, <1>8 DEF PassDiscardWs, NamedStates

LEMMA HeadValueStart == Going /\ PassValueStart => HeadInv'
<1> SUFFICES ASSUME Going, PassValueStart PROVE HeadInv'
  OBVIOUS
<1>1. parser.state = "s_header_value_start" /\ at = "switch" /\ StartValue
  BY DEF PassValueStart, Turn
<1>2. lastHeaderField = <<>>
  BY <1>1 DEF Going, HeadInv, ValueTaken, TakenStates
<1>3. parser.state \notin Inside
  BY <1>1 DEF Inside, UrlStates, ServerStates, QueryStates, FragmentStates, ScanStates
<1> QED
  BY <1>1, <1>2, <1>3, WordNotEmpty, HeadStartValue

LEMMA HalfValue ==
  ASSUME NEW u, u = Half("Upgrade", 2)
  PROVE  ValueUnit(HS("h_matching_value", "upgrade"), u) = HS("h_value", "upgrade")
<1> DEFINE hs == HS("h_matching_value", "upgrade")
<1>1. hs.phase = "h_matching_value" /\ hs.word = "upgrade" /\ hs.phase # "h_value"
      /\ hs \notin {TokenStart, Token, LengthNum, LengthWs}
  BY HeaderStateFields
<1>2. IsHalf(u, hs.word, 2)
  BY <1>1, LowerNames DEF IsHalf, Half
<1> HIDE DEF hs
<1>3. ValueUnit(hs, u) = IF IsHalf(u, hs.word, 2) THEN HS("h_value", hs.word)
                         ELSE IF hs.word = "chunked" THEN General ELSE Token
  BY <1>1, Zenon DEF ValueUnit
<1> QED
  BY <1>1, <1>2, <1>3 DEF hs

(* The end of a value: setHeaderValue(). *)
LEMMA HeadValueEnds ==
  ASSUME Going, aborted' = "no", parser.state = "s_header_value", at = "switch", pos <= arrived,
         Data("header_value", pos), parser'.state = "s_header_almost_done",
         parser'.flags = parser.flags, parser'.header_state = parser.header_state
  PROVE  HeadInv'
<1> DEFINE m == marks["header_value"]
           value == SubSeq(input, m, pos - 1)
           hs == parser.header_state
<1>1. /\ ValueSeen /\ m \in Nat /\ m # 0 /\ m < pos /\ pos \in Nat
      /\ input \in Seq(Unit) /\ arrived <= Len(input) /\ arrived \in Nat /\ Len(input) \in Nat
  BY DEF Going, HeadInv, ValueSeen, ParserInv, Places, DataCalls
<1>2. UpgradeSeen /\ ConnectionSeen /\ "F_TRAILING" \notin parser.flags
  BY DEF Going, HeadInv, InHead
<1>3. called' # <<>> /\ Head(called').on = "header_value" /\ Head(called').data = value
  BY <1>1, TellsData DEF DataCalls
<1>4. OnHeaderValue(value)
  BY <1>3, ValueCallback DEF Going
<1>5. /\ lastHeaderField # <<>> /\ lastHeaderField' = <<>>
      /\ headers' = Inserted(headers, lastHeaderField, value)
  BY <1>4 DEF OnHeaderValue, Crash
<1>6. Settled
  BY <1>2, <1>5, SettledOutside DEF Pending
<1>7. value = Word("Upgrade") /\ lastHeaderField = Word("Connection") => hs = HS("h_value", "upgrade")
  <2>1. SUFFICES ASSUME value = Word("Upgrade"), lastHeaderField = Word("Connection")
                 PROVE  hs = HS("h_value", "upgrade")
    OBVIOUS
  <2>2. pos = m + 2 /\ input[m] = Half("Upgrade", 1) /\ input[m + 1] = Half("Upgrade", 2)
    <3>1. 1 <= m /\ pos - 1 <= Len(input)
      BY <1>1
    <3> HIDE DEF m
    <3> QED
      BY <1>1, <2>1, <3>1, TwoUnits
  <2> QED
    BY <1>1, <2>1, <2>2 DEF ValueSeen, WordRead
<1>8. lastHeaderField = Word("Upgrade") => "F_UPGRADE" \in parser.flags
  BY <1>1 DEF ValueSeen
<1> HIDE DEF value, m
<1>9. \A n : /\ n \in DOMAIN headers' /\ n \in DOMAIN headers => headers'[n] = headers[n]
             /\ n \in DOMAIN headers' /\ n \notin DOMAIN headers =>
                  n = lastHeaderField /\ headers'[n] = value
  BY <1>5, InsertedValue
<1>10. UpgradeSeen'
  BY <1>2, <1>8, <1>9 DEF UpgradeSeen
<1>11. ConnectionSeen'
  BY <1>6, <1>7, <1>9 DEF Settled, ConnectionSeen
<1> QED
  BY <1>2, <1>5, <1>10, <1>11, HeadTaken DEF TakenStates

LEMMA HeadHeaderValue == Going /\ aborted' = "no" /\ PassHeaderValue => HeadInv'
<1> SUFFICES ASSUME Going, aborted' = "no", PassHeaderValue PROVE HeadInv'
  OBVIOUS
<1> DEFINE m == marks["header_value"]
           hs == parser.header_state
<1>1. parser.state = "s_header_value" /\ at = "switch"
  BY DEF PassHeaderValue, Turn
<1>2. UpgradeSeen /\ ConnectionSeen /\ "F_TRAILING" \notin parser.flags
  BY DEF Going, HeadInv, InHead
<1>3. ValueSeen /\ m \in Nat /\ m # 0 /\ m < pos /\ pos \in Nat
  BY <1>1 DEF Going, HeadInv, ValueSeen, ParserInv, Places, DataCalls
<1>4. parser \in ParserRecords /\ hs \in HeaderStates
  BY DEF Going, ParserInv, ParserOK, ParserRecords
(* Either way the value of Connection is not judged before it ends. *)
<1>5. ASSUME Untouched, Grows, parser'.state = "s_header_value" PROVE UpgradeSeen' /\ ConnectionSeen'
  <2>1. CASE lastHeaderField = <<>>
    BY <1>2, <1>5, <2>1 DEF Untouched, Grows, UpgradeSeen, ConnectionSeen
  <2>2. CASE lastHeaderField # <<>>
    <3>1. Settled
      BY <1>1, <1>2, <2>2, SettledOutside DEF Pending
    <3> QED
      BY <1>2, <1>5, <3>1, Carried DEF Untouched
  <2> QED
    BY <2>1, <2>2
<1>6. ASSUME NEW next, NEW where, pos <= arrived,
             Data("header_value", pos) \/ (Counted(pos) > max_header_size /\ Quiet),
             CountThen(To("s_header_almost_done"), pos, next, where)
      PROVE  HeadInv'
  <2> DEFINE q == To("s_header_almost_done")
  <2>1. q \in ParserRecords
    BY ToRecord DEF Going, States
  <2>2. q.state = "s_header_almost_done" /\ q.flags = parser.flags /\ q.header_state = hs
    BY ToFields DEF Going
  <2>3. /\ parser'.state = "s_header_almost_done" /\ parser'.flags = parser.flags
        /\ parser'.header_state = hs /\ Counted(pos) <= max_header_size
    BY <1>6, <2>1, <2>2, CountFields DEF Going
  <2>4. Data("header_value", pos)
    BY <1>6, <2>3, CountedHere DEF Going
  <2> QED
    BY <1>1, <1>6, <2>3, <2>4, HeadValueEnds
<1>7. CASE Error("INVALID_HEADER_TOKEN") \/ Error("INVALID_CONTENT_LENGTH")
  BY <1>7, ErrorFields DEF Going
<1>8. CASE Quiet /\ ScanValue
  <2>1. Untouched /\ marks' = marks
    BY <1>8, TellsNothing, QuietUntouched DEF Going
  <2>2. /\ parser'.state = "s_header_value" /\ pos' = pos + 1 /\ at' = "switch"
        /\ parser'.flags = parser.flags \cup ValueFlags(hs, U)
        /\ parser'.header_state = ValueUnit(hs, U)
    BY <1>1, <1>8, ScanValueFields DEF Going
  <2>3. Grows
    BY <1>2, <1>4, <2>2, ValueFlagsTold DEF Grows
  <2>4. ASSUME lastHeaderField = Word("Connection"), pos' = m + 2,
               input'[m] = Half("Upgrade", 1), input'[m + 1] = Half("Upgrade", 2)
        PROVE  parser'.header_state = HS("h_value", "upgrade")
    <3>1. pos = m + 1
      BY <1>3, <2>2, <2>4
    <3>2. HalfRead(m, "Upgrade") /\ U = Half("Upgrade", 2)
      BY <2>4, <3>1 DEF HalfRead, U, Going
    <3>3. hs = HS("h_matching_value", "upgrade")
      BY <1>1, <1>3, <2>4, <3>2 DEF ValueSeen
    <3> QED
      BY <2>2, <3>2, <3>3, HalfValue
  <2>5. ValueSeen'
    <3>1. pos' # m + 1 /\ m < pos'
      BY <1>3, <2>2
    <3>2. lastHeaderField = Word("Upgrade") => "F_UPGRADE" \in parser'.flags
      BY <1>1, <1>3, <2>3 DEF ValueSeen, Grows
    <3> QED
      BY <1>3, <2>1, <2>2, <2>4, <3>1, <3>2 DEF ValueSeen, HalfRead, WordRead, Untouched
  <2> QED
    BY <1>5, <2>1, <2>2, <2>3, <2>5, HeadValue DEF Grows
<1>9. CASE Quiet /\ CountThen(parser, pos - 1, pos, "loop")
  <2>1. Untouched /\ marks' = marks
    BY <1>9, TellsNothing, QuietUntouched DEF Going
  <2>2. /\ parser'.state = "s_header_value" /\ parser'.flags = parser.flags
        /\ parser'.header_state = hs /\ pos' = pos /\ at' = "loop"
    BY <1>1, <1>4, <1>9, CountFields DEF Going
  <2>3. Grows
    BY <1>2, <2>2 DEF Grows
  <2>4. ValueSeen'
    BY <1>1, <1>3, <2>1, <2>2 DEF ValueSeen, HalfRead, WordRead, Going, Untouched
  <2> QED
    BY <1>5, <2>1, <2>2, <2>3, <2>4, HeadValue DEF Grows
<1> QED
  BY <1>6, <1>7, <1>8, <1>9 DEF PassHeaderValue

LEMMA HeadHeaderAlmostDone == Going /\ PassHeaderAlmostDone => HeadInv'
<1> SUFFICES ASSUME Going, PassHeaderAlmostDone PROVE HeadInv'
  OBVIOUS
<1>1. parser.state = "s_header_almost_done" /\ Quiet
  BY DEF PassHeaderAlmostDone, Expect, Turn
<1>2. Untouched
  BY <1>1, TellsNothing, QuietUntouched DEF Going
<1>3. /\ UpgradeSeen /\ ConnectionSeen /\ "F_TRAILING" \notin parser.flags
      /\ lastHeaderField = <<>>
  BY <1>1 DEF Going, HeadInv, InHead, ValueTaken, TakenStates
<1>4. CASE Consume(To("s_header_value_lws"))
  <2>1. /\ parser'.state = "s_header_value_lws" /\ parser'.flags = parser.flags
        /\ parser'.header_state = parser.header_state
    BY <1>4, ToFields DEF Consume, Move, Going
  <2>2. UpgradeSeen' /\ ConnectionSeen'
    BY <1>1, <1>2, <1>3, <2>1 DEF UpgradeSeen, ConnectionSeen, Untouched
  <2> QED
    BY <1>2, <1>3, <2>1, <2>2, HeadTaken DEF TakenStates, Untouched
<1>5. CASE Error("LF_EXPECTED")
  BY <1>5, ErrorFields DEF Going
<1> QED
  BY <1>4, <1>5 DEF PassHeaderAlmostDone, Expect

LEMMA HeadValueLws == Going /\ PassValueLws => HeadInv'
<1> SUFFICES ASSUME Going, PassValueLws PROVE HeadInv'
  OBVIOUS
<1>1. parser.state = "s_header_value_lws"
  BY DEF PassValueLws, Turn
<1>2. Untouched
  BY ValueLwsFields, QuietUntouched DEF Going
<1>3. /\ UpgradeSeen /\ ConnectionSeen /\ "F_TRAILING" \notin parser.flags
      /\ lastHeaderField = <<>>
  BY <1>1 DEF Going, HeadInv, InHead, ValueTaken, TakenStates
<1>4. CASE parser'.state = "s_header_value_start" /\ parser'.flags = parser.flags
  <2>1. UpgradeSeen' /\ ConnectionSeen'
    BY <1>2, <1>3, <1>4 DEF UpgradeSeen, ConnectionSeen, Untouched
  <2> QED
    BY <1>2, <1>3, <1>4, <2>1, HeadTaken DEF TakenStates, Untouched
<1>5. CASE parser' = EarnFlag(To("s_header_field_start"))
  <2>1. /\ parser'.state = "s_header_field_start" /\ parser.flags \subseteq parser'.flags
        /\ "F_TRAILING" \notin parser'.flags
        /\ parser.header_state = HS("h_value", "upgrade") => "F_CONNECTION_UPGRADE" \in parser'.flags
    BY <1>3, <1>5, EarnFields DEF Going, States
  <2>2. UpgradeSeen' /\ ConnectionSeen'
    BY <1>1, <1>2, <1>3, <2>1 DEF UpgradeSeen, ConnectionSeen, Untouched
  <2> QED
    BY <2>1, <2>2, HeadBetween, StateSets DEF FieldStates
<1> QED
  BY <1>4, <1>5, ValueLwsFields DEF Going

LEMMA HeadDiscardWsAlmostDone == Going /\ PassDiscardWsAlmostDone => HeadInv'
<1> SUFFICES ASSUME Going, PassDiscardWsAlmostDone PROVE HeadInv'
  OBVIOUS
<1>1. parser.state = "s_header_value_discard_ws_almost_done" /\ Quiet
  BY DEF PassDiscardWsAlmostDone, Expect, Turn
<1>2. Untouched
  BY <1>1, TellsNothing, QuietUntouched DEF Going
<1>3. UpgradeSeen /\ Settled /\ NameKnown /\ "F_TRAILING" \notin parser.flags
  BY <1>1, SettledOutside DEF Going, HeadInv, InHead, Pending
<1>4. CASE Consume(To("s_header_value_discard_lws"))
  <2>1. /\ parser'.state = "s_header_value_discard_lws" /\ parser'.flags = parser.flags
        /\ parser'.header_state = parser.header_state
    BY <1>4, ToFields DEF Consume, Move, Going
  <2>2. NameKnown'
    BY <1>1, <1>2, <1>3, <2>1 DEF NameKnown, NamedStates, Untouched
  <2> QED
    BY <1>2, <1>3, <2>1, <2>2, Carried, HeadNamed DEF NamedStates, Untouched, Grows
<1>5. CASE Error("STRICT")
  BY <1>5, ErrorFields DEF Going
<1> QED
  BY <1>4, <1>5 DEF PassDiscardWsAlmostDone, Expect

LEMMA HeadDiscardLws == Going /\ aborted' = "no" /\ PassDiscardLws => HeadInv'
<1> SUFFICES ASSUME Going, aborted' = "no", PassDiscardLws PROVE HeadInv'
  OBVIOUS
<1>1. parser.state = "s_header_value_discard_lws"
  BY DEF PassDiscardLws, Turn
<1>2. UpgradeSeen /\ Settled /\ NameKnown /\ "F_TRAILING" \notin parser.flags
  BY <1>1, SettledOutside DEF Going, HeadInv, InHead, Pending
<1>3. CASE Quiet /\ Consume(To("s_header_value_discard_ws"))
  <2>1. Untouched
    BY <1>3, TellsNothing, QuietUntouched DEF Going
  <2>2. /\ parser'.state = "s_header_value_discard_ws" /\ parser'.flags = parser.flags
        /\ parser'.header_state = parser.header_state
    BY <1>3, ToFields DEF Consume, Move, Going
  <2>3. NameKnown'
    BY <1>1, <1>2, <2>1, <2>2 DEF NameKnown, NamedStates, Untouched
  <2> QED
    BY <1>2, <2>1, <2>2, <2>3, Carried, HeadNamed DEF NamedStates, Untouched, Grows
<1>4. CASE Error("INVALID_CONTENT_LENGTH")
  BY <1>4, ErrorFields DEF Going
<1>5. CASE Tell(<<Call("header_value", <<>>)>>) /\ Again(EarnFlag(To("s_header_field_start")))
  <2>1. OnHeaderValue(<<>>)
    BY <1>5, TellsOne, ValueCallback DEF Going
  <2>2. headers' = Inserted(headers, lastHeaderField, <<>>)
    BY <2>1 DEF OnHeaderValue, Crash
  <2>3. \A n : /\ n \in DOMAIN headers' /\ n \in DOMAIN headers => headers'[n] = headers[n]
               /\ n \in DOMAIN headers' /\ n \notin DOMAIN headers => headers'[n] = <<>>
    BY <2>2, InsertedValue
  <2>4. parser' = EarnFlag(To("s_header_field_start"))
    BY <1>5 DEF Again, Move
  <2>5. /\ parser'.state = "s_header_field_start" /\ parser.flags \subseteq parser'.flags
        /\ "F_TRAILING" \notin parser'.flags
    BY <1>2, <2>4, EarnFields DEF Going, States
  <2>6. UpgradeSeen'
    BY <1>2, <2>3, <2>5 DEF UpgradeSeen
  <2>7. ConnectionSeen'
    BY <1>2, <2>3, <2>5, WordNotEmpty DEF Settled, ConnectionSeen
  <2> QED
    BY <2>5, <2>6, <2>7, HeadBetween, StateSets DEF FieldStates
<1> QED
  BY <1>3, <1>4, <1>5 DEF PassDiscardLws

LEMMA HeadHeaders == Going /\ aborted' = "no" /\ Headers => HeadInv'
BY HeadFieldStart, HeadField, HeadDiscardWs, HeadValueStart, HeadHeaderValue,
   HeadHeaderAlmostDone, HeadValueLws, HeadDiscardWsAlmostDone, HeadDiscardLws
DEF Headers

LEMMA HeadNextUnit == Going /\ NextUnit => HeadInv'
<1> SUFFICES ASSUME Going, NextUnit PROVE HeadInv'
  OBVIOUS
<1>1. /\ at' = "switch" /\ pos' = pos /\ marks' = marks
      /\ parser'.state = parser.state /\ parser'.flags = parser.flags
      /\ parser'.header_state = parser.header_state
  BY NextUnitFields DEF Going
<1>2. Untouched
  BY NextUnitFields, QuietUntouched DEF Going
<1> QED
  BY <1>1, <1>2
  DEF Going, HeadInv, InHead, NameSeen, NameKnown, ValueSeen, ValueTaken, UpgradeSeen,
      ConnectionSeen, HalfRead, WordRead, Untouched

(* Outside a name and a value nothing depends on where the read ends.      *)
LEMMA HeadCut ==
  ASSUME HeadInv, parser' = parser, Untouched, ~Torn(parser.state)
  PROVE  HeadInv'
BY DEF HeadInv, InHead, NameSeen, NameKnown, ValueSeen, ValueTaken, UpgradeSeen, ConnectionSeen,
       Untouched, Torn

LEMMA HeadEndOfChunk == Going /\ EndOfChunk /\ ~Torn(parser'.state) => HeadInv'
<1> SUFFICES ASSUME Going, EndOfChunk, ~Torn(parser'.state) PROVE HeadInv'
  OBVIOUS
<1>1. parser' = parser /\ at = "loop"
  BY DEF EndOfChunk
<1>2. Fits(marks, parser.state)
  BY <1>1 DEF Going, ParserInv, AtLoop
<1>3. marks["header_field"] = 0 /\ marks["header_value"] = 0
  BY <1>1, <1>2 DEF Fits, Torn
<1>4. Silent
  <2>1. CASE Quiet
    BY <2>1, TellsNothing DEF Silent
  <2>2. CASE \E on \in DataCalls : marks[on] # 0 /\ Data(on, pos)
    BY <1>3, <2>2, TellsSomeData DEF DataCalls, Silent
  <2> QED
    BY <2>1, <2>2 DEF EndOfChunk
<1>5. Untouched
  BY <1>4, SilentCallback DEF Going, Untouched
<1> QED
  BY <1>1, <1>5, HeadCut DEF Going

-----------------------------------------------------------------------------
(* The answer. *)

LEMMA AcceptableUpgrades ==
  ASSUME UpgradeSeen, Settled, Acceptable(headers)
  PROVE  {"F_UPGRADE", "F_CONNECTION_UPGRADE"} \subseteq parser.flags
<1>1. Word("Connection") \in DOMAIN headers /\ headers[Word("Connection")] = Word("Upgrade")
  BY WordNotEmpty DEF Acceptable, First
<1>2. LowerText(<<>>) # Word("websocket")
  <2>1. DOMAIN LowerText(<<>>) = {}
    BY NoHeaders DEF LowerText
  <2>2. 1 \in DOMAIN Word("websocket")
    BY DEF Word
  <2> QED
    BY <2>1, <2>2
<1>3. Word("Upgrade") \in DOMAIN headers /\ headers[Word("Upgrade")] # <<>>
  BY <1>2 DEF Acceptable, First
<1> QED
  BY <1>1, <1>3 DEF UpgradeSeen, Settled

NotYet == answers = <<>> /\ status = "INITIAL" /\ tcp = "kConnected"

LEMMA HeadAnswered ==
  Going /\ NotYet /\ PassHeadersAlmostDone => Answers' /\ (status' = "CONNECT" => Leaving')
                                                     /\ answers' # <<>>
<1> SUFFICES ASSUME Going, NotYet, PassHeadersAlmostDone
             PROVE  Answers' /\ (status' = "CONNECT" => Leaving') /\ answers' # <<>>
  OBVIOUS
<1>1. parser.state = "s_headers_almost_done"
  BY DEF PassHeadersAlmostDone, Turn
<1>2. UpgradeSeen /\ Settled /\ "F_TRAILING" \notin parser.flags
  BY <1>1, SettledOutside DEF Going, HeadInv, InHead, Pending
<1> DEFINE upgrade == IF {"F_UPGRADE", "F_CONNECTION_UPGRADE"} \subseteq parser.flags THEN TRUE
                      ELSE parser.method = "CONNECT"
           p == [To("s_headers_done") EXCEPT !.upgrade = upgrade]
<1>3. Notify("headers_complete") /\ Again(p)
  BY <1>2, ErrorFields DEF PassHeadersAlmostDone, Going
<1>4. OnHeadersComplete
  BY <1>3, TellsOne, CompleteCallback DEF Notify, Going
<1>5. Acceptable(headers) => upgrade
  BY <1>2, AcceptableUpgrades
<1>6. parser' = p
  BY <1>3 DEF Again, Move
<1> HIDE DEF upgrade
<1>7. To("s_headers_done") \in ParserRecords /\ To("s_headers_done").state = "s_headers_done"
  BY ToRecord, ToFields DEF Going, States
<1>8. p.state = "s_headers_done" /\ (upgrade => p.upgrade)
  BY <1>7 DEF ParserRecords
<1> HIDE DEF p
<1>9. Acceptable(headers) => Leaving'
  BY <1>5, <1>6, <1>8 DEF Leaving, RestStates
<1>10. CanSend
  BY DEF CanSend, NotYet
<1>11. \/ answers' = <<"101">> /\ tcp' = "kWritting" /\ status' = "CONNECT" /\ Acceptable(headers)
       \/ answers' = <<"400">> /\ tcp' = "kDisconnecting" /\ status' = "INITIAL"
  BY <1>4, <1>10 DEF OnHeadersComplete, NotYet
<1> QED
  BY <1>9, <1>11 DEF Answers

LEMMA HeadStates == HeadInv => parser.state \notin RestStates /\ "F_TRAILING" \notin parser.flags
BY StateSets DEF HeadInv, InHead

(* A head that is not completed is not answered. *)
LEMMA HeadKeptOpen ==
  ASSUME ParserInv, parser.state \notin RestStates, Pass, ~PassHeadersAlmostDone
  PROVE  Unanswered
<1>1. CASE NextUnit
  BY <1>1, NextUnitFields DEF Unanswered
<1>2. CASE EndOfChunk
  BY <1>2, TellsNothing, TellsSomeData DEF EndOfChunk, DataCalls, Unanswered
<1>3. CASE RequestLine
  BY <1>3, RequestLineEffect DEF RequestEffect, Silent, Unanswered
<1>4. CASE Headers
  BY <1>4, HeadersEffect DEF HeaderEffect, HeaderSays, Unanswered
<1>5. CASE Bodies
  <2>1. parser.state \in RestStates
    BY <1>5 DEF Bodies, PassHeadersDone, PassBodyIdentity, PassMessageDone, PassChunkSizeStart,
                PassChunkSize, PassChunkParameters, PassChunkSizeAlmostDone, PassChunkData,
                PassChunkDataAlmostDone, PassChunkDataDone, Turn, RestStates, ChunkStates
  <2> QED
    BY <2>1
<1> QED
  BY <1>1, <1>2, <1>3, <1>4, <1>5 DEF Pass

LEMMA HeadRefusedOpen ==
  ASSUME ParserInv, "F_TRAILING" \notin parser.flags, PassHeadersAlmostDone,
         parser'.http_errno # "OK", parser.http_errno = "OK"
  PROVE  Unanswered
<1>1. "F_TRAILING" \notin parser.flags
  OBVIOUS
<1>2. CASE Quiet
  BY <1>2, TellsNothing DEF Unanswered
<1>3. CASE Again([To("s_headers_done") EXCEPT !.upgrade =
                    IF {"F_UPGRADE", "F_CONNECTION_UPGRADE"} \subseteq parser.flags THEN TRUE
                    ELSE parser.method = "CONNECT"])
  <2> DEFINE upgrade == IF {"F_UPGRADE", "F_CONNECTION_UPGRADE"} \subseteq parser.flags THEN TRUE
                        ELSE parser.method = "CONNECT"
             p == [To("s_headers_done") EXCEPT !.upgrade = upgrade]
  <2>1. parser' = p
    BY <1>3 DEF Again, Move
  <2> HIDE DEF upgrade
  <2>2. p.http_errno = parser.http_errno
    BY DEF To, ParserInv, ParserOK, ParserRecords
  <2> HIDE DEF p
  <2> QED
    BY <2>1, <2>2
<1> QED
  BY <1>1, <1>2, <1>3 DEF PassHeadersAlmostDone

LEMMA HeadPass ==
  ASSUME Going, aborted' = "no", Pass, ~PassHeadersAlmostDone, at' = "idle" => ~Torn(parser'.state)
  PROVE  HeadInv'
<1>1. CASE EndOfChunk
  BY <1>1, HeadEndOfChunk DEF EndOfChunk
<1>2. CASE Bodies
  <2>1. parser.state \in RestStates
    BY <1>2 DEF Bodies, PassHeadersDone, PassBodyIdentity, PassMessageDone, PassChunkSizeStart,
                PassChunkSize, PassChunkParameters, PassChunkSizeAlmostDone, PassChunkData,
                PassChunkDataAlmostDone, PassChunkDataDone, Turn, RestStates, ChunkStates
  <2> QED
    BY <2>1, StateSets DEF Going, HeadInv, InHead
<1> QED
  BY <1>1, <1>2, HeadNextUnit, HeadRequestLine, HeadHeaders DEF Pass

LEMMA PassRuns == ParserInv /\ Pass => at # "idle" /\ parser.http_errno = "OK"
<1> SUFFICES ASSUME ParserInv, Pass PROVE at # "idle"
  BY DEF ParserInv, Places, AtLoop, AtSwitch
<1>1. CASE NextUnit \/ EndOfChunk
  BY <1>1 DEF NextUnit, EndOfChunk
<1>2. CASE RequestLine
  BY <1>2 DEF RequestLine, PassDead, PassStartReq, PassMethod, PassSpacesBeforeUrl, PassUrl,
              PassHttpStart, PassVersion, PassHttpEnd, PassLineAlmostDone, PassVersionNumber,
              Expect, Turn
<1>3. CASE Headers
  BY <1>3 DEF Headers, PassHeaderFieldStart, PassHeaderField, PassDiscardWs, PassValueStart,
              PassHeaderValue, PassHeaderAlmostDone, PassValueLws, PassDiscardWsAlmostDone,
              PassDiscardLws, Expect, Turn
<1>4. CASE Bodies
  BY <1>4 DEF Bodies, PassHeadersAlmostDone, PassHeadersDone, PassBodyIdentity, PassMessageDone,
              PassChunkSizeStart, PassChunkSize, PassChunkParameters, PassChunkSizeAlmostDone,
              PassChunkData, PassChunkDataAlmostDone, PassChunkDataDone, Turn
<1> QED
  BY <1>1, <1>2, <1>3, <1>4 DEF Pass

LEMMA RefusedCallback ==
  ASSUME Callback, ~CanSend
  PROVE  UNCHANGED <<status, tcp, answers>>
BY DEF Callback, OnHeaderField, OnHeaderValue, OnHeadersComplete, OnChunk, Crash

-----------------------------------------------------------------------------
(* The invariant holds. *)

LEMMA AnswerInit == HandshakeInit => AnswerInv
<1> SUFFICES ASSUME HandshakeInit PROVE AnswerInv
  OBVIOUS
<1>1. /\ answers = <<>> /\ status = "INITIAL" /\ tcp = "kConnected" /\ headers = <<>>
      /\ parser.state = "s_start_req" /\ parser.flags = {}
  BY DEF HandshakeInit, Init
<1>2. /\ parser.state \in RequestStates
      /\ parser.state \notin NamedStates \cup TakenStates \cup {"s_header_field", "s_header_value"}
  BY <1>1 DEF RequestStates, NamedStates, TakenStates
<1>3. UpgradeSeen /\ ConnectionSeen
  BY <1>1, NoHeaders DEF UpgradeSeen, ConnectionSeen
<1>4. HeadInv
  BY <1>1, <1>2, <1>3 DEF HeadInv, InHead, NameSeen, NameKnown, ValueSeen, ValueTaken
<1> QED
  BY <1>1, <1>4 DEF AnswerInv, Answers

Kept ==
  /\ Answers
  /\ aborted = "no" /\ parser.http_errno = "OK" =>
       /\ answers = <<>> => HeadInv
       /\ status = "CONNECT" => at = "idle" \/ Leaving

LEMMA AnswerParse == ASSUME NEW n, Kept, Parse(n) PROVE Kept'
<1>1. /\ at = "idle" /\ aborted = "no" /\ status = "INITIAL" /\ parser' = parser
      /\ Untouched /\ UNCHANGED <<status, tcp, answers, aborted>>
  BY DEF Parse, Execute, connVars, Untouched
<1>2. Answers'
  BY <1>1 DEF Kept, Answers
<1>3. ASSUME parser.http_errno = "OK", answers = <<>> PROVE HeadInv'
  <2>1. HeadInv
    BY <1>1, <1>3 DEF Kept
  <2>2. ~Torn(parser.state)
    BY <1>1, <2>1 DEF HeadInv, NameSeen, ValueSeen, Torn
  <2> QED
    BY <1>1, <2>1, <2>2, HeadCut
<1> QED
  BY <1>1, <1>2, <1>3 DEF Kept

LEMMA AnswerPass ==
  ASSUME ParserInv, Kept, ParserStep, ~torn'
  PROVE  Kept'
<1>1. /\ aborted = "no" /\ Pass /\ Callback /\ input' = input
      /\ at' = "idle" => ~Torn(parser'.state)
  BY DEF ParserStep, Pass
<1>2. at # "idle" /\ parser.http_errno = "OK"
  BY <1>1, PassRuns
<1>3. CASE NotYet
  <2>1. HeadInv
    BY <1>1, <1>2, <1>3 DEF Kept, NotYet
  <2>2. CASE PassHeadersAlmostDone /\ parser'.http_errno = "OK"
    <3>1. Going
      BY <1>1, <2>1, <2>2 DEF Going
    <3> QED
      BY <1>3, <2>2, <3>1, HeadAnswered DEF Kept
  <2>3. CASE ~(PassHeadersAlmostDone /\ parser'.http_errno = "OK")
    <3>1. Unanswered
      BY <1>1, <1>2, <2>1, <2>3, HeadStates, HeadKeptOpen, HeadRefusedOpen
    <3>2. UNCHANGED <<status, tcp, answers>>
      BY <1>1, <3>1, OtherCallback DEF Unanswered
    <3>3. Answers' /\ status' # "CONNECT"
      BY <1>3, <3>2 DEF NotYet, Answers
    <3>4. ASSUME aborted' = "no", parser'.http_errno = "OK" PROVE HeadInv'
      <4>1. Going
        BY <1>1, <2>1, <3>4 DEF Going
      <4> QED
        BY <1>1, <2>3, <3>4, <4>1, HeadPass
    <3> QED
      BY <3>3, <3>4 DEF Kept
  <2> QED
    BY <2>2, <2>3
<1>4. CASE answers = <<"400">> /\ status = "INITIAL" /\ tcp \in {"kDisconnecting", "kDisconnected"}
  <2>1. UNCHANGED <<status, tcp, answers>>
    BY <1>1, <1>4, RefusedCallback DEF CanSend
  <2> QED
    BY <1>4, <2>1 DEF Kept, Answers
<1>5. CASE answers = <<"101">> /\ status = "CONNECT" /\ tcp \in {"kWritting", "kConnected"}
  <2>1. Leaving
    BY <1>1, <1>2, <1>5 DEF Kept
  <2>2. LeavingEffect
    BY <1>1, <2>1, LeavingPass
  <2>3. UNCHANGED <<status, tcp, answers>>
    BY <1>1, <2>2, OtherCallback DEF LeavingEffect, Unanswered
  <2> QED
    BY <1>5, <2>2, <2>3 DEF Kept, Answers, LeavingEffect
<1> QED
  BY <1>3, <1>4, <1>5 DEF Kept, Answers, NotYet

LEMMA AnswerWriteDone == Kept /\ WriteDone => Kept'
<1> SUFFICES ASSUME Kept, WriteDone PROVE Kept'
  OBVIOUS
<1>1. /\ at' = "idle" /\ UNCHANGED <<status, answers>>
      /\ \/ tcp = "kWritting" /\ tcp' = "kConnected"
         \/ tcp = "kDisconnecting" /\ tcp' = "kDisconnected"
  BY DEF WriteDone, parserVars
<1> QED
  BY <1>1 DEF Kept, Answers

LEMMA AnswerStep == ParserInv /\ AnswerInv /\ [HandshakeNext]_vars => AnswerInv'
<1> SUFFICES ASSUME ParserInv, AnswerInv, [HandshakeNext]_vars, ~torn' PROVE Kept'
  BY DEF AnswerInv, Kept
<1>1. ~torn
  BY DEF HandshakeNext, Parse, ParserStep, WriteDone, vars, connVars
<1>2. Kept
  BY <1>1 DEF AnswerInv, Kept
<1>3. CASE \E n \in 1..(Len(input) - arrived) : Parse(n)
  BY <1>2, <1>3, AnswerParse
<1>4. CASE ParserStep
  BY <1>2, <1>4, AnswerPass
<1>5. CASE WriteDone
  BY <1>2, <1>5, AnswerWriteDone
<1>6. CASE UNCHANGED vars
  BY <1>2, <1>6
  DEF vars, connVars, parserVars, Kept, Answers, HeadInv, InHead, NameSeen, NameKnown, ValueSeen,
      ValueTaken, UpgradeSeen, ConnectionSeen, HalfRead, WordRead, Leaving
<1> QED
  BY <1>3, <1>4, <1>5, <1>6 DEF HandshakeNext

(* The parser below the handshake is the parser. *)
LEMMA ParserBelow == [HandshakeNext]_vars => [Next]_parserVars
BY DEF HandshakeNext, Parse, ParserStep, WriteDone, vars, parserVars, Next

LEMMA OneAnswer == Answers => AnsweredOnce
<1> SUFFICES ASSUME Answers PROVE AnsweredOnce
  OBVIOUS
<1>1. Len(<<>>) = 0 /\ Len(<<"101">>) = 1 /\ Len(<<"400">>) = 1
  OBVIOUS
<1>2. <<"101">>[1] = "101" /\ <<"400">>[1] = "400"
  OBVIOUS
<1>3. <<"400">> # <<"101">> /\ <<>> # <<"101">>
  BY <1>1, <1>2
<1>4. CASE answers = <<>> /\ status = "INITIAL"
  BY <1>1, <1>3, <1>4 DEF AnsweredOnce
<1>5. CASE answers = <<"400">> /\ status = "INITIAL"
  BY <1>1, <1>3, <1>5 DEF AnsweredOnce
<1>6. CASE answers = <<"101">> /\ status = "CONNECT"
  BY <1>1, <1>6 DEF AnsweredOnce
<1> QED
  BY <1>4, <1>5, <1>6 DEF Answers

(* Whatever the client sends, in whatever reads, unless one of them ends   *)
(* inside the name or the value of a header: it is answered at most once,  *)
(* and the connection speaks WebSocket exactly when the answer is 101.     *)
THEOREM AnsweredOnceCorrect == HandshakeSpec => [](~torn => AnsweredOnce)
<1>1. HandshakeInit => ParserInv /\ AnswerInv
  BY ParserInit, AnswerInit DEF HandshakeInit
<1>2. ParserInv /\ AnswerInv /\ [HandshakeNext]_vars => (ParserInv /\ AnswerInv)'
  BY ParserInvStep, ParserBelow, AnswerStep
<1>3. ParserInv /\ AnswerInv => (~torn => AnsweredOnce)
  BY OneAnswer DEF AnswerInv
<1> QED
  BY <1>1, <1>2, <1>3, PTL DEF HandshakeSpec

(* Below the handshake the parser reads only what has arrived, too.        *)
THEOREM HandshakeTypeCorrect == HandshakeSpec => []TypeOK
<1>1. HandshakeInit => ParserInv
  BY ParserInit DEF HandshakeInit
<1>2. ParserInv /\ [HandshakeNext]_vars => ParserInv'
  BY ParserInvStep, ParserBelow
<1> QED
  BY <1>1, <1>2, InvTypeOK, PTL DEF HandshakeSpec

-----------------------------------------------------------------------------
(* Behind a refusal, torn headers or not.                                  *)

Closing == tcp \in {"kDisconnecting", "kDisconnected"}
RefusedLast ==
  /\ \A i \in 1..Len(answers) : answers[i] = "400" => i = Len(answers) /\ Closing
  /\ aborted = "send" => Closing /\ answers # <<>> /\ answers[Len(answers)] = "400"
RefusedInv ==
  /\ answers \in Seq({"101", "400"})
  /\ tcp \in {"kConnected", "kWritting", "kDisconnecting", "kDisconnected"}
  /\ Closing => answers # <<>> /\ answers[Len(answers)] = "400"
  /\ RefusedLast

LEMMA AppendAnswer ==
  ASSUME NEW seq \in Seq({"101", "400"}), NEW a \in {"101", "400"}
  PROVE  /\ Append(seq, a) \in Seq({"101", "400"}) /\ Append(seq, a) # <<>>
         /\ Len(Append(seq, a)) = Len(seq) + 1 /\ Append(seq, a)[Len(seq) + 1] = a
         /\ \A i \in 1..Len(seq) : Append(seq, a)[i] = seq[i]
OBVIOUS

LEMMA RefusedAnswer == ASSUME RefusedInv, aborted = "no", OnHeadersComplete PROVE RefusedInv'
<1>1. CASE ~CanSend /\ Crash("send")
  BY <1>1 DEF RefusedInv, RefusedLast, Closing, CanSend, Crash
<1>2. ASSUME NEW a \in {"101", "400"}, CanSend, answers' = Append(answers, a), aborted' = aborted,
             tcp' = IF a = "101" THEN "kWritting" ELSE "kDisconnecting"
      PROVE  RefusedInv'
  <2>1. /\ answers \in Seq({"101", "400"}) /\ Len(answers) \in Nat
        /\ \A i \in 1..Len(answers) : answers[i] # "400"
    BY <1>2 DEF RefusedInv, RefusedLast, Closing, CanSend
  <2>2. /\ answers' \in Seq({"101", "400"}) /\ answers' # <<>> /\ Len(answers') = Len(answers) + 1
        /\ answers'[Len(answers')] = a
        /\ \A i \in 1..Len(answers) : answers'[i] = answers[i]
    BY <1>2, <2>1, AppendAnswer
  <2>3. ASSUME NEW i \in 1..Len(answers'), answers'[i] = "400" PROVE i = Len(answers') /\ a = "400"
    <3>1. i \in 1..Len(answers) \/ i = Len(answers')
      BY <2>1, <2>2
    <3> QED
      BY <2>1, <2>2, <2>3, <3>1
  <2> QED
    BY <1>2, <2>2, <2>3 DEF RefusedInv, RefusedLast, Closing
<1>3. CASE CanSend /\ answers' = Append(answers, "101") /\ tcp' = "kWritting" /\ aborted' = aborted
  BY <1>2, <1>3
<1>4. CASE CanSend /\ answers' = Append(answers, "400") /\ tcp' = "kDisconnecting" /\ aborted' = aborted
  BY <1>2, <1>4
<1> QED
  BY <1>1, <1>3, <1>4 DEF OnHeadersComplete

LEMMA RefusedStep == RefusedInv /\ [HandshakeNext]_vars => RefusedInv'
<1> SUFFICES ASSUME RefusedInv, [HandshakeNext]_vars PROVE RefusedInv'
  OBVIOUS
<1> USE DEF RefusedInv, RefusedLast, Closing
<1>1. CASE \E n \in 1..(Len(input) - arrived) : Parse(n)
  BY <1>1 DEF Parse, connVars
<1>2. CASE ParserStep
  <2>1. aborted = "no" /\ Callback
    BY <1>2 DEF ParserStep
  <2>2. CASE OnHeadersComplete
    BY <2>1, <2>2, RefusedAnswer
  <2>3. CASE UNCHANGED <<tcp, answers>> /\ (aborted' = aborted \/ aborted' \in {"setHeaderValue", "on_chunk"})
    BY <2>3
  <2> QED
    BY <2>1, <2>2, <2>3 DEF Callback, OnHeaderField, OnHeaderValue, OnChunk, Crash
<1>3. CASE WriteDone
  BY <1>3 DEF WriteDone
<1>4. CASE UNCHANGED vars
  BY <1>4 DEF vars, connVars
<1> QED
  BY <1>1, <1>2, <1>3, <1>4 DEF HandshakeNext

(* Whatever the client sends, torn headers or not: a connection that has   *)
(* refused a request closes and answers no other, and the assert of send() *)
(* fails only there.                                                       *)
THEOREM RefusedLastCorrect == HandshakeSpec => []RefusedLast
<1>1. HandshakeInit => RefusedInv
  BY DEF HandshakeInit, RefusedInv, RefusedLast, Closing
<1>2. RefusedInv /\ [HandshakeNext]_vars => RefusedInv'
  BY RefusedStep
<1>3. RefusedInv => RefusedLast
  BY DEF RefusedInv
<1> QED
  BY <1>1, <1>2, <1>3, PTL DEF HandshakeSpec

-----------------------------------------------------------------------------
(* What is answered.  Until it is, headers_ holds what the headers read so *)
(* far say: of each name the first value, unless a read has torn one.      *)

Holds(hs, m, k) ==
  /\ \A j \in 1..k : NameOf(m, j) \in DOMAIN hs
  /\ \A name \in DOMAIN hs :
       \E j \in 1..k : /\ NameOf(m, j) = name /\ hs[name] = ValueOf(m, j)
                       /\ \A l \in 1..(j - 1) : NameOf(m, l) # name
(* The continuation line of a value would have been a value without name.  *)
Unfolded(m, k) == \A j \in 1..k : ~Folded(m, j)
Got(m, k, last) == Holds(headers, m, k) /\ Unfolded(m, k) /\ lastHeaderField = last

CollectedHeader(m, i) ==
  LET s == parser.state
      d == pos - 1
  IN  \/ /\ InName(m, i, s, d) /\ Got(m, i - 1, <<>>)
         /\ at # "idle" /\ marks["header_field"] = HeaderAt(m, i) + 1
      \/ InLead(m, i, s, d) /\ Got(m, i - 1, NameOf(m, i))
      \/ /\ InText(m, i, s, d) /\ Got(m, i - 1, NameOf(m, i))
         /\ at # "idle" /\ marks["header_value"] = LeadEnd(m, i) + 1
      \/ /\ \/ BehindText(m, i, s, d)
            \/ InFold(m, i, s, d) /\ at # "idle" /\ marks["header_value"] # 0
         /\ Holds(headers, m, i) /\ Unfolded(m, i - 1) /\ lastHeaderField = <<>>

CollectedAt(m, i) ==
  \/ AtHeader(m, i, parser.state, pos - 1) /\ Got(m, i - 1, <<>>)
  \/ i \in 1..Count(m) /\ CollectedHeader(m, i)
  \/ i = Count(m) + 1 /\ parser.state = "s_headers_almost_done" /\ Got(m, Count(m), <<>>)

LineRead(m) == Versions(m, parser) /\ parser.method = m.method
Collected(m) ==
  \/ InLine(m, parser, pos - 1) /\ headers = <<>> /\ lastHeaderField = <<>>
  \/ LineRead(m) /\ \E i \in 1 .. Count(m) + 1 : CollectedAt(m, i)

(* A pass on the head of m. *)
Reading(m) == ParserInv /\ Reads(input, m) /\ Callback /\ parser'.http_errno = "OK" /\ aborted' = "no"

LEMMA LineKept == ASSUME NEW m, LineRead(m), SameLine(parser', parser) PROVE LineRead(m)'
BY DEF LineRead, SameLine, Versions

LEMMA CollectedStates ==
  ASSUME NEW m, NEW i, CollectedAt(m, i)
  PROVE  LET s == parser.state
             d == pos - 1
         IN  /\ s \in FieldStates
             /\ s = "s_header_field_start" => AtHeader(m, i, s, d) /\ Got(m, i - 1, <<>>)
             /\ s = "s_header_field" =>
                  /\ i \in 1..Count(m) /\ InName(m, i, s, d) /\ Got(m, i - 1, <<>>)
                  /\ at # "idle" /\ marks["header_field"] = HeaderAt(m, i) + 1
             /\ s \in NamedStates =>
                  i \in 1..Count(m) /\ InLead(m, i, s, d) /\ Got(m, i - 1, NameOf(m, i))
             /\ s = "s_header_value" =>
                  /\ i \in 1..Count(m)
                  /\ \/ /\ InText(m, i, s, d) /\ Got(m, i - 1, NameOf(m, i))
                        /\ at # "idle" /\ marks["header_value"] = LeadEnd(m, i) + 1
                     \/ /\ InFold(m, i, s, d) /\ at # "idle" /\ marks["header_value"] # 0
                        /\ Holds(headers, m, i) /\ Unfolded(m, i - 1) /\ lastHeaderField = <<>>
             /\ s \in TakenStates =>
                  /\ i \in 1..Count(m) /\ BehindText(m, i, s, d)
                  /\ Holds(headers, m, i) /\ Unfolded(m, i - 1) /\ lastHeaderField = <<>>
             /\ s = "s_headers_almost_done" => Got(m, Count(m), <<>>)
BY DEF CollectedAt, CollectedHeader, AtHeader, InName, InLead, InText, BehindText, InFold,
       FieldStates, NamedStates, TakenStates

LEMMA GotKept ==
  ASSUME NEW m, NEW k, NEW last, Got(m, k, last), Untouched
  PROVE  Got(m, k, last)'
BY DEF Got, Untouched

LEMMA Carries ==
  ASSUME NEW m, LineRead(m), SameLine(parser', parser), NEW i \in 1 .. Count(m) + 1, CollectedAt(m, i)'
  PROVE  Collected(m)'
BY LineKept DEF Collected

(* The request line. *)
LEMMA NothingHeld == ASSUME NEW m, headers = <<>>, lastHeaderField = <<>> PROVE Got(m, 0, <<>>)
BY NoHeaders DEF Got, Holds, Unfolded

LEMMA CollectsLine ==
  ASSUME NEW m, Reading(m), InLine(m, parser, pos - 1), headers = <<>>, lastHeaderField = <<>>, RequestLine
  PROVE  Collected(m)'
<1>1. /\ Reticent
      /\ \/ InLine(m, parser', pos' - 1)
         \/ AtHeader(m, 1, parser'.state, pos' - 1) /\ parser'.method = m.method /\ Versions(m, parser')
  BY ReadsLine DEF Reading, LineGoesOn
<1>2. headers' = <<>> /\ lastHeaderField' = <<>>
  BY <1>1, SilentCallback DEF Reticent, Silent, Reading
<1>3. CASE InLine(m, parser', pos' - 1)
  BY <1>2, <1>3 DEF Collected
<1>4. CASE AtHeader(m, 1, parser'.state, pos' - 1) /\ parser'.method = m.method /\ Versions(m, parser')
  <2>1. Got(m, 0, <<>>)'
    BY <1>2, NoHeaders DEF Got, Holds, Unfolded
  <2>2. 1 \in 1 .. Count(m) + 1 /\ 1 - 1 = 0
    BY HeadersType DEF Reading, Reads
  <2>3. CollectedAt(m, 1)'
    BY <1>4, <2>1, <2>2 DEF CollectedAt
  <2> QED
    BY <1>4, <2>2, <2>3 DEF Collected, LineRead
<1> QED
  BY <1>1, <1>3, <1>4

(* The name of a header.                                                   *)
LEMMA CollectsHere ==
  ASSUME NEW m, LineRead(m), SameLine(parser', parser), NEW i \in 1..Count(m), Count(m) \in Nat,
         CollectedHeader(m, i)'
  PROVE  Collected(m)'
<1>1. i \in 1 .. Count(m) + 1
  OBVIOUS
<1>2. CollectedAt(m, i)'
  BY DEF CollectedAt
<1> QED
  BY <1>1, <1>2, Carries

LEMMA ReadingType == ASSUME NEW m, Reading(m) PROVE Count(m) \in Nat /\ HeadOK(m)
BY HeadersType DEF Reading, Reads

LEMMA CollectsStart ==
  ASSUME NEW m, Reading(m), LineRead(m), NEW i \in 1 .. Count(m) + 1, CollectedAt(m, i), PassHeaderFieldStart
  PROVE  Collected(m)'
<1>1. AtHeader(m, i, parser.state, pos - 1) /\ Got(m, i - 1, <<>>)
  BY CollectedStates DEF PassHeaderFieldStart, Turn
<1>2. /\ called' = <<>> /\ SameLine(parser', parser)
      /\ \/ /\ i \in 1..Count(m) /\ InName(m, i, parser'.state, pos' - 1) /\ at' = "loop"
            /\ marks'["header_field"] = HeaderAt(m, i) + 1
         \/ i = Count(m) + 1 /\ parser'.state = "s_headers_almost_done"
  BY <1>1, BeginsName DEF Reading
<1>3. Untouched
  BY <1>2, QuietUntouched DEF Reading
<1>4. Got(m, i - 1, <<>>)'
  BY <1>1, <1>3, GotKept
<1>5. CASE /\ i \in 1..Count(m) /\ InName(m, i, parser'.state, pos' - 1) /\ at' = "loop"
           /\ marks'["header_field"] = HeaderAt(m, i) + 1
  <2>1. CollectedHeader(m, i)'
    BY <1>4, <1>5 DEF CollectedHeader
  <2> QED
    BY <1>2, <1>5, <2>1, ReadingType, CollectsHere
<1>6. CASE i = Count(m) + 1 /\ parser'.state = "s_headers_almost_done"
  <2>1. i - 1 = Count(m)
    BY <1>6, ReadingType
  <2>2. CollectedAt(m, i)'
    BY <1>4, <1>6, <2>1 DEF CollectedAt
  <2> QED
    BY <1>2, <2>2, Carries
<1> QED
  BY <1>2, <1>5, <1>6

(* The text from its mark is the whole name.                               *)
LEMMA NameTold ==
  ASSUME NEW m, Reading(m), NEW i \in 1..Count(m), marks["header_field"] = HeaderAt(m, i) + 1,
         pos - 1 = NameEnd(m, i), Data("header_field", pos)
  PROVE  lastHeaderField' = NameOf(m, i) /\ headers' = headers /\ NameOf(m, i) # <<>>
<1>1. /\ HeaderAt(m, i) \in Nat /\ NameOf(m, i) # <<>>
      /\ NameEnd(m, i) = HeaderAt(m, i) + Len(NameOf(m, i))
  BY ReadingType, HeaderPlaces, NameHere DEF NameEnd
<1>2. Segment(input, HeaderAt(m, i), NameOf(m, i)) /\ input \in Seq(Unit)
  BY HeaderSegments DEF Reading, ParserInv, Places
<1>3. SubSeq(input, HeaderAt(m, i) + 1, HeaderAt(m, i) + Len(NameOf(m, i))) = NameOf(m, i)
  BY <1>1, <1>2, SegmentText
<1>4. called' # <<>> /\ Head(called').on = "header_field"
      /\ Head(called').data = SubSeq(input, HeaderAt(m, i) + 1, pos - 1)
  <2>1. marks["header_field"] # 0 /\ "header_field" \in DataCalls
    BY <1>1 DEF DataCalls
  <2> QED
    BY <2>1, TellsData
<1>5. OnHeaderField(Head(called').data)
  BY <1>4, FieldCallback DEF Reading
<1>6. Head(called').data = NameOf(m, i)
  BY <1>1, <1>3, <1>4
<1> QED
  BY <1>1, <1>5, <1>6 DEF OnHeaderField

LEMMA CollectsName ==
  ASSUME NEW m, Reading(m), LineRead(m), NEW i \in 1 .. Count(m) + 1, CollectedAt(m, i), PassHeaderField
  PROVE  Collected(m)'
<1>1. /\ i \in 1..Count(m) /\ InName(m, i, parser.state, pos - 1) /\ Got(m, i - 1, <<>>)
      /\ at # "idle" /\ marks["header_field"] = HeaderAt(m, i) + 1
      /\ parser.state = "s_header_field"
  BY CollectedStates DEF PassHeaderField, Turn
<1>2. /\ SameLine(parser', parser)
      /\ \/ Still /\ Went(parser.state, pos - 1) /\ at' = "loop"
         \/ Still /\ InName(m, i, parser'.state, pos' - 1) /\ pos' - 1 = pos /\ at' = "switch"
         \/ /\ Went("s_header_value_discard_ws", NameEnd(m, i) + 1) /\ at' = "loop"
            /\ Data("header_field", pos) /\ pos - 1 = NameEnd(m, i)
  BY <1>1, ReadsName DEF Reading
<1>3. CASE Still /\ at' # "idle" /\ InName(m, i, parser'.state, pos' - 1)
  <2>1. Untouched
    BY <1>3, QuietUntouched DEF Reading, Still
  <2>2. Got(m, i - 1, <<>>)'
    BY <1>1, <2>1, GotKept
  <2>3. CollectedHeader(m, i)'
    BY <1>1, <1>3, <2>2 DEF CollectedHeader, Still
  <2> QED
    BY <1>1, <1>2, <2>3, ReadingType, CollectsHere
<1>4. CASE /\ Went("s_header_value_discard_ws", NameEnd(m, i) + 1)
           /\ Data("header_field", pos) /\ pos - 1 = NameEnd(m, i)
  <2>1. lastHeaderField' = NameOf(m, i) /\ headers' = headers
    BY <1>1, <1>4, NameTold
  <2>2. Got(m, i - 1, NameOf(m, i))'
    BY <1>1, <2>1 DEF Got
  <2>3. InLead(m, i, parser'.state, pos' - 1)
    BY <1>4 DEF Went, InLead
  <2>4. CollectedHeader(m, i)'
    BY <2>2, <2>3 DEF CollectedHeader
  <2> QED
    BY <1>1, <1>2, <2>4, ReadingType, CollectsHere
<1>5. CASE Still /\ Went(parser.state, pos - 1) /\ at' = "loop"
  <2>1. InName(m, i, parser'.state, pos' - 1)
    BY <1>1, <1>5 DEF Went
  <2> QED
    BY <1>3, <1>5, <2>1
<1> QED
  BY <1>2, <1>3, <1>4, <1>5

(* The blanks before a value, and a value that is empty.                   *)
LEMMA CollectsLead ==
  ASSUME NEW m, Reading(m), LineRead(m), NEW i \in 1..Count(m), Got(m, i - 1, NameOf(m, i)),
         Still, Like(parser', parser), InLead(m, i, parser'.state, pos' - 1)
  PROVE  Collected(m)'
<1>1. Untouched
  BY QuietUntouched DEF Reading, Still
<1>2. Got(m, i - 1, NameOf(m, i))'
  BY <1>1, GotKept
<1>3. CollectedHeader(m, i)'
  BY <1>2 DEF CollectedHeader
<1> QED
  BY <1>3, ReadingType, CollectsHere DEF Like

(* A pass on the first unit of a value.                                    *)
LEMMA CollectsBlank ==
  ASSUME NEW m, Reading(m), LineRead(m), NEW i \in 1 .. Count(m) + 1, CollectedAt(m, i), PassDiscardWs
  PROVE  Collected(m)'
<1>1. /\ i \in 1..Count(m) /\ InLead(m, i, parser.state, pos - 1) /\ Got(m, i - 1, NameOf(m, i))
      /\ parser.state = "s_header_value_discard_ws" /\ at = "switch"
  BY CollectedStates DEF PassDiscardWs, Turn, NamedStates
<1>2. \/ Still /\ Like(parser', parser) /\ InLead(m, i, parser'.state, pos' - 1) /\ at' = "loop"
      \/ pos - 1 = LeadEnd(m, i) /\ ~EmptyValue(m, i) /\ StartValue
  BY <1>1, PassesBlank DEF Reading
<1>3. CASE pos - 1 = LeadEnd(m, i) /\ ~EmptyValue(m, i) /\ StartValue
  <2>1. InText(m, i, parser'.state, pos' - 1) /\ pos = LeadEnd(m, i) + 1
    BY <1>1, <1>3, BeginsText DEF Reading
  <2>2. /\ called' = <<>> /\ SameLine(parser', parser) /\ at' = "loop"
        /\ marks'["header_value"] = pos
    BY <1>1, <1>3, BeginsValue DEF Reading, ScanStates
  <2>3. Got(m, i - 1, NameOf(m, i))'
    BY <1>1, <2>2, QuietUntouched, GotKept DEF Reading
  <2>4. CollectedHeader(m, i)'
    BY <2>1, <2>2, <2>3 DEF CollectedHeader
  <2> QED
    BY <1>1, <2>2, <2>4, ReadingType, CollectsHere
<1> QED
  BY <1>1, <1>2, <1>3, CollectsLead

LEMMA CollectsBlankLine ==
  ASSUME NEW m, Reading(m), LineRead(m), NEW i \in 1 .. Count(m) + 1, CollectedAt(m, i),
         PassDiscardWsAlmostDone
  PROVE  Collected(m)'
<1>1. parser.state = "s_header_value_discard_ws_almost_done"
  BY DEF PassDiscardWsAlmostDone, Expect, Turn
<1>2. i \in 1..Count(m) /\ InLead(m, i, parser.state, pos - 1) /\ Got(m, i - 1, NameOf(m, i))
  BY <1>1, CollectedStates DEF NamedStates
<1>3. Still /\ Like(parser', parser) /\ InLead(m, i, parser'.state, pos' - 1)
  BY <1>2, EndsBlankLine DEF Reading
<1> QED
  BY <1>2, <1>3, CollectsLead

(* setHeaderValue() with the value of header i.                            *)
LEMMA InsertedHolds ==
  ASSUME NEW m, NEW i \in Nat \ {0}, NEW hs, Holds(hs, m, i - 1)
  PROVE  Holds(Inserted(hs, NameOf(m, i), ValueOf(m, i)), m, i)
<1> DEFINE is == Inserted(hs, NameOf(m, i), ValueOf(m, i))
<1>1. DOMAIN is = DOMAIN hs \cup {NameOf(m, i)}
  BY DEF Inserted
<1>2. /\ \A n \in DOMAIN hs : is[n] = hs[n]
      /\ NameOf(m, i) \notin DOMAIN hs => is[NameOf(m, i)] = ValueOf(m, i)
  BY DEF Inserted
<1> HIDE DEF is
<1>3. ASSUME NEW j \in 1..i PROVE NameOf(m, j) \in DOMAIN is
  <2>1. j \in 1 .. i - 1 \/ j = i
    OBVIOUS
  <2> QED
    BY <1>1, <2>1 DEF Holds
<1>4. ASSUME NEW name \in DOMAIN is
      PROVE  \E j \in 1..i : /\ NameOf(m, j) = name /\ is[name] = ValueOf(m, j)
                             /\ \A l \in 1..(j - 1) : NameOf(m, l) # name
  <2>1. CASE name \in DOMAIN hs
    <3>1. PICK j \in 1 .. i - 1 : /\ NameOf(m, j) = name /\ hs[name] = ValueOf(m, j)
                                  /\ \A l \in 1..(j - 1) : NameOf(m, l) # name
      BY <2>1 DEF Holds
    <3>2. j \in 1..i
      OBVIOUS
    <3> QED
      BY <1>2, <2>1, <3>1, <3>2
  <2>2. CASE name \notin DOMAIN hs
    <3>1. name = NameOf(m, i) /\ is[name] = ValueOf(m, i) /\ i \in 1..i
      BY <1>1, <1>2, <2>2
    <3>2. \A l \in 1..(i - 1) : NameOf(m, l) # name
      BY <2>2 DEF Holds
    <3> QED
      BY <3>1, <3>2
  <2> QED
    BY <2>1, <2>2
<1> QED
  BY <1>3, <1>4 DEF Holds, is

LEMMA ValueHeld ==
  ASSUME NEW m, Reading(m), NEW i \in 1..Count(m), Got(m, i - 1, NameOf(m, i)),
         called' # <<>>, Head(called').on = "header_value", Head(called').data = ValueOf(m, i)
  PROVE  Holds(headers', m, i) /\ lastHeaderField' = <<>> /\ Unfolded(m, i - 1)
<1>1. OnHeaderValue(ValueOf(m, i)) /\ aborted' = "no"
  BY ValueCallback DEF Reading
<1>2. NameOf(m, i) # <<>> /\ lastHeaderField = NameOf(m, i)
  BY ReadingType, NameHere DEF Got
<1>3. headers' = Inserted(headers, NameOf(m, i), ValueOf(m, i)) /\ lastHeaderField' = <<>>
  BY <1>1, <1>2 DEF OnHeaderValue
<1>4. i \in Nat \ {0}
  BY ReadingType
<1>5. Holds(Inserted(headers, NameOf(m, i), ValueOf(m, i)), m, i)
  BY <1>4, InsertedHolds DEF Got
<1> QED
  BY <1>3, <1>5 DEF Got

(* The header is behind: headers_ holds i of them.                         *)
LEMMA CollectsNext ==
  ASSUME NEW m, Reading(m), LineRead(m), NEW i \in 1..Count(m), Holds(headers, m, i)', Unfolded(m, i - 1),
         ~Folded(m, i), lastHeaderField' = <<>>, EarnedAt("s_header_field_start", HeaderAt(m, i + 1))
  PROVE  Collected(m)'
<1>1. i + 1 \in 1 .. Count(m) + 1 /\ (i + 1) - 1 = i /\ i \in Nat \ {0}
  BY ReadingType
<1>2. Unfolded(m, i)
  <2>1. \A j \in 1..i : j \in 1 .. i - 1 \/ j = i
    BY <1>1
  <2> QED
    BY <2>1 DEF Unfolded
<1>3. AtHeader(m, i + 1, parser'.state, pos' - 1)
  BY DEF AtHeader, EarnedAt
<1>4. CollectedAt(m, i + 1)'
  <2>1. Got(m, i, <<>>)'
    BY <1>2 DEF Got
  <2> QED
    BY <1>1, <1>3, <2>1 DEF CollectedAt
<1> QED
  BY <1>1, <1>4, Carries DEF EarnedAt

LEMMA CollectsEmpty ==
  ASSUME NEW m, Reading(m), LineRead(m), NEW i \in 1 .. Count(m) + 1, CollectedAt(m, i), PassDiscardLws
  PROVE  Collected(m)'
<1>1. /\ i \in 1..Count(m) /\ InLead(m, i, parser.state, pos - 1) /\ Got(m, i - 1, NameOf(m, i))
  BY CollectedStates DEF PassDiscardLws, Turn, NamedStates
<1>2. \/ Still /\ Like(parser', parser) /\ InLead(m, i, parser'.state, pos' - 1)
      \/ /\ EmptyValue(m, i) /\ ~Folded(m, i) /\ called' = <<Call("header_value", <<>>)>>
         /\ EarnedAt("s_header_field_start", HeaderAt(m, i + 1))
  BY <1>1, EndsEmpty DEF Reading
<1>3. CASE /\ EmptyValue(m, i) /\ ~Folded(m, i) /\ called' = <<Call("header_value", <<>>)>>
           /\ EarnedAt("s_header_field_start", HeaderAt(m, i + 1))
  <2>1. called' # <<>> /\ Head(called').on = "header_value" /\ Head(called').data = ValueOf(m, i)
    BY <1>3 DEF Call, EmptyValue
  <2>2. Holds(headers', m, i) /\ lastHeaderField' = <<>> /\ Unfolded(m, i - 1)
    BY <1>1, <2>1, ValueHeld
  <2> QED
    BY <1>1, <1>3, <2>2, CollectsNext
<1> QED
  BY <1>1, <1>2, <1>3, CollectsLead

(* The value.                                                              *)
LEMMA ValueTold ==
  ASSUME NEW m, Reading(m), NEW i \in 1..Count(m), ~EmptyValue(m, i),
         marks["header_value"] = LeadEnd(m, i) + 1, pos - 1 = ValueEnd(m, i), Data("header_value", pos)
  PROVE  called' # <<>> /\ Head(called').on = "header_value" /\ Head(called').data = ValueOf(m, i)
<1>1. LeadEnd(m, i) \in Nat /\ ValueEnd(m, i) = LeadEnd(m, i) + Len(ValueOf(m, i))
  BY ReadingType, HeaderPlaces DEF ValueEnd
<1>2. Segment(input, LeadEnd(m, i), ValueOf(m, i)) /\ input \in Seq(Unit)
  BY HeaderSegments DEF Reading, ParserInv, Places
<1>3. SubSeq(input, LeadEnd(m, i) + 1, LeadEnd(m, i) + Len(ValueOf(m, i))) = ValueOf(m, i)
  BY <1>1, <1>2, SegmentText DEF EmptyValue
<1>4. called' # <<>> /\ Head(called').on = "header_value"
      /\ Head(called').data = SubSeq(input, LeadEnd(m, i) + 1, pos - 1)
  <2>1. marks["header_value"] # 0 /\ "header_value" \in DataCalls
    BY <1>1 DEF DataCalls
  <2> QED
    BY <2>1, TellsData
<1> QED
  BY <1>1, <1>3, <1>4

LEMMA BehindTextAt ==
  ASSUME NEW m, NEW i, ~EmptyValue(m, i), Went("s_header_almost_done", FoldAt(m, i) - 1)
  PROVE  BehindText(m, i, parser'.state, pos' - 1)
BY DEF BehindText, Went

LEMMA CollectsText ==
  ASSUME NEW m, Reading(m), LineRead(m), NEW i \in 1..Count(m), InText(m, i, parser.state, pos - 1),
         Got(m, i - 1, NameOf(m, i)), marks["header_value"] = LeadEnd(m, i) + 1, PassHeaderValue
  PROVE  Collected(m)'
<1>1. /\ SameLine(parser', parser) /\ at' # "idle" /\ ~EmptyValue(m, i)
      /\ \/ Still /\ Went("s_header_value", pos - 1)
         \/ Still /\ InText(m, i, parser'.state, pos' - 1)
         \/ /\ Went("s_header_almost_done", FoldAt(m, i) - 1)
            /\ Data("header_value", pos) /\ pos - 1 = ValueEnd(m, i)
  BY ReadsValue DEF Reading
<1>2. Still /\ Went("s_header_value", pos - 1) => InText(m, i, parser'.state, pos' - 1)
  BY DEF InText, Went
<1>3. CASE Still /\ InText(m, i, parser'.state, pos' - 1)
  <2>1. Got(m, i - 1, NameOf(m, i))'
    BY <1>3, QuietUntouched, GotKept DEF Reading, Still
  <2>2. CollectedHeader(m, i)'
    BY <1>1, <1>3, <2>1 DEF CollectedHeader, Still
  <2> QED
    BY <1>1, <2>2, ReadingType, CollectsHere
<1>4. CASE /\ Went("s_header_almost_done", FoldAt(m, i) - 1)
           /\ Data("header_value", pos) /\ pos - 1 = ValueEnd(m, i)
  <2>1. called' # <<>> /\ Head(called').on = "header_value" /\ Head(called').data = ValueOf(m, i)
    BY <1>1, <1>4, ValueTold
  <2>2. Holds(headers', m, i) /\ lastHeaderField' = <<>> /\ Unfolded(m, i - 1)
    BY <2>1, ValueHeld
  <2>3. BehindText(m, i, parser'.state, pos' - 1)
    BY <1>1, <1>4, BehindTextAt
  <2>4. CollectedHeader(m, i)'
    BY <2>2, <2>3 DEF CollectedHeader
  <2> QED
    BY <1>1, <2>4, ReadingType, CollectsHere
<1> QED
  BY <1>1, <1>2, <1>3, <1>4

(* A continuation line: setHeaderValue() has no name for it.               *)
LEMMA NamelessValue ==
  ASSUME NEW m, Reading(m), lastHeaderField = <<>>, marks["header_value"] # 0
  PROVE  ~Data("header_value", pos)
<1> SUFFICES ASSUME Data("header_value", pos) PROVE FALSE
  OBVIOUS
<1>1. called' # <<>> /\ Head(called').on = "header_value"
  BY TellsData DEF DataCalls
<1>2. OnHeaderValue(Head(called').data) /\ aborted' = "no"
  BY <1>1, ValueCallback DEF Reading
<1> QED
  BY <1>2 DEF OnHeaderValue, Crash

LEMMA TakenKept ==
  ASSUME NEW m, NEW i, Holds(headers, m, i), lastHeaderField = <<>>, Untouched
  PROVE  Holds(headers, m, i)' /\ lastHeaderField' = <<>>
BY DEF Untouched

LEMMA CollectsFold ==
  ASSUME NEW m, Reading(m), LineRead(m), NEW i \in 1..Count(m), InFold(m, i, parser.state, pos - 1),
         marks["header_value"] # 0, Holds(headers, m, i), Unfolded(m, i - 1), lastHeaderField = <<>>,
         PassHeaderValue
  PROVE  Collected(m)'
<1>1. ~Data("header_value", pos)
  BY NamelessValue
<1>2. /\ SameLine(parser', parser) /\ at' # "idle" /\ Still
      /\ Went("s_header_value", pos - 1) \/ InFold(m, i, parser'.state, pos' - 1)
  BY <1>1, ReadsFold DEF Reading
<1>3. InFold(m, i, parser'.state, pos' - 1)
  BY <1>2 DEF InFold, Went
<1>4. Holds(headers, m, i)' /\ lastHeaderField' = <<>>
  BY <1>2, QuietUntouched, TakenKept DEF Reading, Still
<1>5. CollectedHeader(m, i)'
  BY <1>2, <1>3, <1>4 DEF CollectedHeader, Still
<1> QED
  BY <1>2, <1>5, ReadingType, CollectsHere

LEMMA CollectsValue ==
  ASSUME NEW m, Reading(m), LineRead(m), NEW i \in 1 .. Count(m) + 1, CollectedAt(m, i), PassHeaderValue
  PROVE  Collected(m)'
<1>1. parser.state = "s_header_value"
  BY DEF PassHeaderValue, Turn
<1>2. /\ i \in 1..Count(m)
      /\ \/ /\ InText(m, i, parser.state, pos - 1) /\ Got(m, i - 1, NameOf(m, i))
            /\ marks["header_value"] = LeadEnd(m, i) + 1
         \/ /\ InFold(m, i, parser.state, pos - 1) /\ marks["header_value"] # 0
            /\ Holds(headers, m, i) /\ Unfolded(m, i - 1) /\ lastHeaderField = <<>>
  BY <1>1, CollectedStates
<1> QED
  BY <1>2, CollectsText, CollectsFold

(* Behind the value.                                                       *)
LEMMA CollectsTextEnd ==
  ASSUME NEW m, Reading(m), LineRead(m), NEW i \in 1 .. Count(m) + 1, CollectedAt(m, i),
         PassHeaderAlmostDone \/ PassValueLws
  PROVE  Collected(m)'
<1>1. parser.state \in TakenStates
  BY DEF PassHeaderAlmostDone, PassValueLws, Expect, Turn, TakenStates
<1>2. /\ i \in 1..Count(m) /\ BehindText(m, i, parser.state, pos - 1)
      /\ Holds(headers, m, i) /\ Unfolded(m, i - 1) /\ lastHeaderField = <<>>
  BY <1>1, CollectedStates
<1>3. /\ Still /\ SameLine(parser', parser)
      /\ \/ BehindText(m, i, parser'.state, pos' - 1)
         \/ ~Folded(m, i) /\ EarnedAt("s_header_field_start", HeaderAt(m, i + 1))
  <2>1. CASE PassHeaderAlmostDone
    BY <1>2, <2>1, EndsText DEF Reading, Like
  <2>2. CASE PassValueLws
    BY <1>2, <2>2, LooksForFold DEF Reading, EarnedAt
  <2> QED
    BY <2>1, <2>2
<1>4. Holds(headers, m, i)' /\ lastHeaderField' = <<>>
  BY <1>2, <1>3, QuietUntouched, TakenKept DEF Reading, Still
<1>5. CASE BehindText(m, i, parser'.state, pos' - 1)
  <2>1. CollectedHeader(m, i)'
    BY <1>2, <1>4, <1>5 DEF CollectedHeader
  <2> QED
    BY <1>2, <1>3, <2>1, ReadingType, CollectsHere
<1>6. CASE ~Folded(m, i) /\ EarnedAt("s_header_field_start", HeaderAt(m, i + 1))
  BY <1>2, <1>4, <1>6, CollectsNext
<1> QED
  BY <1>3, <1>5, <1>6

LEMMA CollectsFoldStart ==
  ASSUME NEW m, Reading(m), LineRead(m), NEW i \in 1 .. Count(m) + 1, CollectedAt(m, i), PassValueStart
  PROVE  Collected(m)'
<1>1. parser.state \in TakenStates /\ at = "switch"
  BY DEF PassValueStart, Turn, TakenStates
<1>2. /\ i \in 1..Count(m) /\ BehindText(m, i, parser.state, pos - 1)
      /\ Holds(headers, m, i) /\ Unfolded(m, i - 1) /\ lastHeaderField = <<>>
  BY <1>1, CollectedStates
<1>3. InFold(m, i, parser'.state, pos' - 1) /\ StartValue /\ parser.state = "s_header_value_start"
  BY <1>2, BeginsFold DEF Reading
<1>4. /\ called' = <<>> /\ SameLine(parser', parser) /\ at' = "loop"
      /\ marks'["header_value"] = pos
  BY <1>1, <1>3, BeginsValue DEF Reading, ScanStates
<1>5. Holds(headers, m, i)' /\ lastHeaderField' = <<>>
  BY <1>2, <1>4, QuietUntouched, TakenKept DEF Reading
<1>6. marks'["header_value"] # 0
  BY <1>4, Place DEF Reading
<1>7. CollectedHeader(m, i)'
  BY <1>2, <1>3, <1>4, <1>5, <1>6 DEF CollectedHeader
<1> QED
  BY <1>2, <1>4, <1>7, ReadingType, CollectsHere

LEMMA CollectsHeaders ==
  ASSUME NEW m, Reading(m), LineRead(m), NEW i \in 1 .. Count(m) + 1, CollectedAt(m, i), Headers
  PROVE  Collected(m)'
BY CollectsStart, CollectsName, CollectsBlank, CollectsFoldStart, CollectsValue, CollectsTextEnd,
   CollectsBlankLine, CollectsEmpty
DEF Headers

-----------------------------------------------------------------------------
(* What the headers in headers_ say of the request.                        *)

LEMMA WebsocketText ==
  ASSUME NEW v \in Seq(Unit)
  PROVE  LowerText(v) = Word("websocket") <=> IsName(v, "websocket")
<1>1. DOMAIN LowerText(v) = DOMAIN v /\ DOMAIN v = 1..Len(v) /\ Len(v) \in Nat
  BY DEF LowerText
<1>2. DOMAIN Word("websocket") = 1..2
  BY DEF Word
<1>3. ASSUME NEW i \in DOMAIN v PROVE LowerText(v)[i] = [w |-> Lower(v[i].w), h |-> v[i].h]
  <2>1. \A u \in Unit : [u EXCEPT !.w = Lower(@)] = [w |-> Lower(u.w), h |-> u.h]
    BY DEF Unit
  <2>2. v[i] \in Unit
    OBVIOUS
  <2>3. LowerText(v)[i] = [v[i] EXCEPT !.w = Lower(@)]
    BY DEF LowerText
  <2> QED
    BY <2>1, <2>2, <2>3
<1>4. \A i \in 1..2 : Word("websocket")[i] = [w |-> "websocket", h |-> i]
  BY DEF Word, Half
<1>5. ASSUME LowerText(v) = Word("websocket") PROVE IsName(v, "websocket")
  <2>1. 1..Len(v) = 1..2
    BY <1>1, <1>2, <1>5
  <2>2. Len(v) = 2
    BY <1>1, <2>1
  <2>3. ASSUME NEW i \in 1..2 PROVE IsHalf(v[i], "websocket", i)
    <3>1. [w |-> Lower(v[i].w), h |-> v[i].h] = [w |-> "websocket", h |-> i]
      BY <1>1, <1>3, <1>4, <1>5, <2>1
    <3>2. Lower(v[i].w) = "websocket" /\ v[i].h = i
      BY <3>1
    <3> QED
      BY <3>2 DEF IsHalf
  <2> QED
    BY <2>2, <2>3 DEF IsName
<1>6. ASSUME IsName(v, "websocket") PROVE LowerText(v) = Word("websocket")
  <2>1. Len(v) = 2 /\ DOMAIN v = 1..2
    BY <1>1, <1>6 DEF IsName
  <2>2. ASSUME NEW i \in 1..2 PROVE LowerText(v)[i] = Word("websocket")[i]
    <3>1. IsHalf(v[i], "websocket", i) /\ i \in DOMAIN v
      BY <1>6, <2>1 DEF IsName
    <3>2. Lower(v[i].w) = "websocket" /\ v[i].h = i
      BY <3>1 DEF IsHalf
    <3> QED
      BY <1>3, <1>4, <3>1, <3>2
  <2>3. LowerText(v) = [i \in 1..2 |-> LowerText(v)[i]]
    BY <2>1 DEF LowerText
  <2>4. Word("websocket") = [i \in 1..2 |-> Word("websocket")[i]]
    BY DEF Word
  <2> QED
    BY <2>2, <2>3, <2>4
<1> QED
  BY <1>5, <1>6

LEMMA OnlyToken == ASSUME NEW v, NEW w, IsName(v, w) PROVE HasToken(v, w)
<1>1. Len(v) = 2 /\ IsHalf(v[1], w, 1) /\ IsHalf(v[2], w, 2)
  BY DEF IsName
<1>2. 1 \in 1..(Len(v) - 1) /\ 1 .. 1 - 1 = {} /\ 1 + 2 .. Len(v) = {}
  BY <1>1
<1> QED
  BY <1>1, <1>2 DEF HasToken

LEMMA WordName == ASSUME NEW u, NEW w, Lower(u) = w PROVE IsName(Word(u), w)
BY DEF IsName, IsHalf, Word, Half

LEMMA HeaderText ==
  ASSUME NEW m, HeadOK(m), NEW i \in 1..Count(m)
  PROVE  /\ i \in DOMAIN m.headers /\ NameOf(m, i) = m.headers[i].name
         /\ ValueOf(m, i) = m.headers[i].value /\ ValueOf(m, i) \in Seq(Unit)
         /\ FoldOf(m, i) = m.headers[i].fold
BY HeadersType DEF NameOf, ValueOf, FoldOf, Parts

LEMMA FirstHeld ==
  ASSUME NEW m, Holds(headers, m, Count(m)), NEW w, First(headers, Word(w)) # <<>>
  PROVE  \E i \in 1..Count(m) : NameOf(m, i) = Word(w) /\ ValueOf(m, i) = First(headers, Word(w))
BY DEF First, Holds

LEMMA OpensWith ==
  ASSUME NEW m, HeadOK(m), Got(m, Count(m), <<>>), Acceptable(headers), m.method = "GET"
  PROVE  Opening(m)
<1> DEFINE H(w, v) == \E i \in 1..Count(m) : NameOf(m, i) = Word(w) /\ ValueOf(m, i) = v
<1>1. ASSUME NEW w, NEW v, First(headers, Word(w)) = v, v # <<>> PROVE H(w, v)
  BY <1>1, FirstHeld DEF Got
<1>2. First(headers, Word("Host")) # <<>>
  BY DEF Acceptable
<1>3. LowerText(First(headers, Word("Upgrade"))) = Word("websocket")
  BY DEF Acceptable
<1>4. First(headers, Word("Upgrade")) # <<>>
  <2>1. DOMAIN LowerText(<<>>) = {} /\ 1 \in DOMAIN Word("websocket")
    BY NoHeaders DEF LowerText, Word
  <2> QED
    BY <1>3, <2>1
<1>5. Lower("Host") = "Host" /\ Lower("Upgrade") = "upgrade" /\ Lower("Connection") = "connection"
  BY DEF Lower, LowerCase
<1>6. HasHeader(m, "Host")
  <2>1. PICK i \in 1..Count(m) : NameOf(m, i) = Word("Host") /\ ValueOf(m, i) # <<>>
    BY <1>1, <1>2
  <2> QED
    BY <1>5, <2>1, HeaderText, WordName DEF HasHeader
<1>7. \E i \in DOMAIN m.headers :
        IsName(m.headers[i].name, "upgrade") /\ HasToken(m.headers[i].value, "websocket")
  <2>1. PICK i \in 1..Count(m) :
          NameOf(m, i) = Word("Upgrade") /\ LowerText(ValueOf(m, i)) = Word("websocket")
    BY <1>1, <1>3, <1>4
  <2>2. IsName(ValueOf(m, i), "websocket") /\ IsName(NameOf(m, i), "upgrade")
    BY <1>5, <2>1, HeaderText, WebsocketText, WordName
  <2> QED
    BY <2>2, HeaderText, OnlyToken
<1>8. ConnectionHas(m, "upgrade")
  <2>1. PICK i \in 1..Count(m) : NameOf(m, i) = Word("Connection") /\ ValueOf(m, i) = Word("Upgrade")
    BY <1>1, WordNotEmpty DEF Acceptable
  <2>2. IsName(NameOf(m, i), "connection") /\ HasToken(ValueOf(m, i), "upgrade")
    BY <1>5, <2>1, WordName, OnlyToken
  <2>3. ValueOf(m, i) \o FoldOf(m, i) = ValueOf(m, i)
    <3>1. FoldOf(m, i) = <<>> /\ ValueOf(m, i) \in Seq(Unit)
      BY HeaderText DEF Got, Unfolded, Folded
    <3> QED
      BY <3>1
  <2> QED
    BY <2>2, <2>3, HeaderText DEF ConnectionHas
<1>9. \E i \in DOMAIN m.headers : m.headers[i].name = Word("Sec-WebSocket-Version")
                                    /\ m.headers[i].value = Word("13")
  <2>1. PICK i \in 1..Count(m) :
          NameOf(m, i) = Word("Sec-WebSocket-Version") /\ ValueOf(m, i) = Word("13")
    BY <1>1, WordNotEmpty DEF Acceptable
  <2> QED
    BY <2>1, HeaderText
<1>10. \E i \in DOMAIN m.headers : m.headers[i].name = Word("Sec-WebSocket-Key")
                                     /\ m.headers[i].value = Word("nonce")
  <2>1. PICK i \in 1..Count(m) :
          NameOf(m, i) = Word("Sec-WebSocket-Key") /\ ValueOf(m, i) = Word("nonce")
    BY <1>1, WordNotEmpty DEF Acceptable
  <2> QED
    BY <2>1, HeaderText
<1> QED
  BY <1>6, <1>7, <1>8, <1>9, <1>10 DEF Opening

(* The first header of a name is the one whose value counts.               *)
LEMMA FirstCounts ==
  ASSUME NEW m, Holds(headers, m, Count(m)), Count(m) \in Nat, NEW i \in 1..Count(m), NEW w,
         NameOf(m, i) = Word(w), \A j \in 1..(i - 1) : NameOf(m, j) # Word(w)
  PROVE  First(headers, Word(w)) = ValueOf(m, i)
<1>1. Word(w) \in DOMAIN headers
  BY DEF Holds
<1>2. PICK j \in 1..Count(m) : /\ NameOf(m, j) = Word(w) /\ headers[Word(w)] = ValueOf(m, j)
                               /\ \A l \in 1..(j - 1) : NameOf(m, l) # Word(w)
  BY <1>1 DEF Holds
<1>3. j = i
  <2>1. ~(j < i) /\ ~(i < j)
    <3>1. j < i => j \in 1..(i - 1)
      OBVIOUS
    <3>2. i < j => i \in 1..(j - 1)
      OBVIOUS
    <3> QED
      BY <1>2, <3>1, <3>2
  <2> QED
    BY <2>1
<1> QED
  BY <1>1, <1>2, <1>3 DEF First

LEMMA AcceptsIt ==
  ASSUME NEW m, HeadOK(m), Got(m, Count(m), <<>>), LineRead(m), Canonical(m)
  PROVE  parser.method = "GET" /\ NewEnough(parser.http_major, parser.http_minor) /\ Acceptable(headers)
<1> DEFINE Names == {"Host", "Upgrade", "Connection", "Sec-WebSocket-Version", "Sec-WebSocket-Key"}
<1>1. parser.method = "GET"
  BY DEF Canonical, LineRead
<1>2. NewEnough(parser.http_major, parser.http_minor)
  <2>1. Major(m) = Ch("1") /\ Minor(m) = Ch("1") /\ ~NoVersion(m)
    BY DEF Canonical, Major, Minor, NoVersion
  <2>2. Digits["1"] = 1 /\ Ch("1").w = "1"
    BY DEF Digits, Ch
  <2>3. parser.http_major = 1 /\ parser.http_minor = 1
    BY <2>1, <2>2 DEF LineRead, Versions
  <2> QED
    BY <2>3 DEF NewEnough
<1>3. Count(m) \in Nat /\ DOMAIN m.headers = 1..Count(m)
  BY HeadersType
<1>4. ASSUME NEW name \in Names
      PROVE  \E i \in 1..Count(m) :
               /\ First(headers, Word(name)) = ValueOf(m, i)
               /\ CASE name = "Host"       -> m.headers[i].value # <<>>
                    [] name = "Upgrade"    -> IsName(m.headers[i].value, "websocket")
                    [] name = "Connection" -> m.headers[i].value = Word("Upgrade")
                    [] name = "Sec-WebSocket-Version" -> m.headers[i].value = Word("13")
                    [] name = "Sec-WebSocket-Key"     -> m.headers[i].value = Word("nonce")
  <2>1. PICK i \in 1..Count(m) :
          /\ m.headers[i].name = Word(name)
          /\ \A j \in 1..(i - 1) : m.headers[j].name # Word(name)
          /\ CASE name = "Host"       -> m.headers[i].value # <<>>
               [] name = "Upgrade"    -> IsName(m.headers[i].value, "websocket")
               [] name = "Connection" -> m.headers[i].value = Word("Upgrade")
               [] name = "Sec-WebSocket-Version" -> m.headers[i].value = Word("13")
               [] name = "Sec-WebSocket-Key"     -> m.headers[i].value = Word("nonce")
    BY <1>3 DEF Canonical
  <2>2. First(headers, Word(name)) = ValueOf(m, i)
    BY <1>3, <2>1, FirstCounts DEF NameOf, Got
  <2> QED
    BY <2>1, <2>2
<1>5. First(headers, Word("Host")) # <<>>
  BY <1>4 DEF ValueOf
<1>6. LowerText(First(headers, Word("Upgrade"))) = Word("websocket")
  <2>1. PICK i \in 1..Count(m) : First(headers, Word("Upgrade")) = ValueOf(m, i)
                                 /\ IsName(m.headers[i].value, "websocket")
    BY <1>4
  <2> QED
    BY <2>1, HeaderText, WebsocketText
<1>7. First(headers, Word("Connection")) = Word("Upgrade")
  BY <1>4 DEF ValueOf
<1>8. First(headers, Word("Sec-WebSocket-Version")) = Word("13")
  BY <1>4 DEF ValueOf
<1>9. First(headers, Word("Sec-WebSocket-Key")) = Word("nonce")
  BY <1>4 DEF ValueOf
<1> QED
  BY <1>1, <1>2, <1>5, <1>6, <1>7, <1>8, <1>9 DEF Acceptable

-----------------------------------------------------------------------------
(* The invariant over all steps.                                           *)

(* The head of the loop learns nothing but the size of the head.           *)
LEMMA NextUnitGoes ==
  ASSUME ParserInv, NextUnit, parser'.http_errno = "OK"
  PROVE  /\ Still /\ pos' = pos /\ at' = "switch" /\ Like(parser', parser)
         /\ parser'.state = parser.state /\ parser'.index = parser.index
<1> DEFINE n == IF ParsingHeader(parser.state) THEN parser.nread + 1 ELSE parser.nread
           p == [parser EXCEPT !.nread = n]
<1>1. parser.http_errno = "OK"
  BY DEF NextUnit, ParserInv, AtLoop
<1>2. Still /\ ~Error("HEADER_OVERFLOW")
  BY ErrorTells, QuietStill DEF NextUnit
<1>3. Again(p)
  BY <1>2 DEF NextUnit
<1> HIDE DEF n
<1>4. Like(p, parser) /\ p.state = parser.state /\ p.index = parser.index
  BY DEF ParserInv, ParserOK, ParserRecords, Like, SameLine, SameLength
<1> HIDE DEF p
<1> QED
  BY <1>2, <1>3, <1>4 DEF Again, Move

LEMMA InLineAlike ==
  ASSUME NEW m, NEW p, NEW q, NEW d, InLine(m, p, d), SameLine(q, p), q.state = p.state,
         q.index = p.index
  PROVE  InLine(m, q, d)
BY DEF InLine, InUrl, InVersion, Versions, SameLine

(* Nothing moves, and only a text is told.                                 *)
LEMMA CollectedStays ==
  ASSUME NEW m, Collected(m), SameLine(parser', parser), parser'.state = parser.state,
         parser'.index = parser.index, pos' = pos, Untouched,
         Torn(parser.state) => at' # "idle" /\ marks' = marks
  PROVE  Collected(m)'
<1>1. CASE InLine(m, parser, pos - 1) /\ headers = <<>> /\ lastHeaderField = <<>>
  <2>1. InLine(m, parser', pos' - 1)
    BY <1>1, InLineAlike
  <2> QED
    BY <1>1, <2>1 DEF Collected, Untouched
<1>2. ASSUME NEW i \in 1 .. Count(m) + 1, LineRead(m), CollectedAt(m, i) PROVE Collected(m)'
  <2>1. CollectedAt(m, i)'
    BY <1>2 DEF CollectedAt, CollectedHeader, AtHeader, InName, InText, InFold, Got, Untouched, Torn
  <2> QED
    BY <1>2, <2>1, Carries
<1> QED
  BY <1>1, <1>2 DEF Collected

(* The end of a chunk, unless it is inside the name or value of a header.  *)
LEMMA SilentCut ==
  ASSUME ParserInv, EndOfChunk, Callback, ~Torn(parser.state)
  PROVE  Untouched
<1>1. Fits(marks, parser.state)
  BY DEF EndOfChunk, ParserInv, AtLoop
<1>2. marks["header_field"] = 0 /\ marks["header_value"] = 0
  BY <1>1 DEF Fits, Torn
<1>3. Silent
  <2>1. CASE Quiet
    BY <2>1, TellsNothing DEF Silent
  <2>2. CASE \E on \in DataCalls : marks[on] # 0 /\ Data(on, pos)
    BY <1>2, <2>2, TellsSomeData DEF DataCalls, Silent
  <2> QED
    BY <2>1, <2>2 DEF EndOfChunk
<1> QED
  BY <1>3, SilentCallback DEF Untouched

LEMMA CollectedInHead ==
  ASSUME NEW m, Collected(m)
  PROVE  parser.state \in RequestStates \cup FieldStates
BY InLineStates, CollectedStates DEF Collected, RequestStates

LEMMA CollectsPass ==
  ASSUME NEW m, Reading(m), Collected(m), Pass, ~PassHeadersAlmostDone,
         at' = "idle" => ~Torn(parser'.state)
  PROVE  Collected(m)'
<1>1. CASE NextUnit
  <2>1. /\ Still /\ pos' = pos /\ at' = "switch" /\ Like(parser', parser)
        /\ parser'.state = parser.state /\ parser'.index = parser.index
    BY <1>1, NextUnitGoes DEF Reading
  <2>2. Untouched
    BY <2>1, QuietUntouched DEF Reading, Still
  <2> QED
    BY <2>1, <2>2, CollectedStays DEF Like, Still
<1>2. CASE EndOfChunk
  <2>1. parser' = parser /\ pos' = pos /\ at' = "idle"
    BY <1>2 DEF EndOfChunk
  <2>2. ~Torn(parser.state)
    BY <2>1
  <2>3. Untouched
    BY <1>2, <2>2, SilentCut DEF Reading
  <2> QED
    BY <2>1, <2>2, <2>3, CollectedStays DEF SameLine
<1>3. CASE RequestLine
  <2>1. parser.state \notin FieldStates
    BY <1>3, RequestLineStates, StateSets
  <2>2. InLine(m, parser, pos - 1) /\ headers = <<>> /\ lastHeaderField = <<>>
    BY <2>1, CollectedStates DEF Collected
  <2> QED
    BY <1>3, <2>2, CollectsLine
<1>4. CASE Headers
  <2>1. parser.state \notin RequestStates
    BY <1>4, HeadersStates, StateSets
  <2>2. ~InLine(m, parser, pos - 1)
    BY <2>1, InLineStates DEF RequestStates
  <2> QED
    BY <1>4, <2>2, CollectsHeaders DEF Collected
<1>5. CASE Bodies
  <2>1. parser.state \in RestStates
    BY <1>5 DEF Bodies, PassHeadersDone, PassBodyIdentity, PassMessageDone, PassChunkSizeStart,
                PassChunkSize, PassChunkParameters, PassChunkSizeAlmostDone, PassChunkData,
                PassChunkDataAlmostDone, PassChunkDataDone, Turn, RestStates, ChunkStates
  <2> QED
    BY <2>1, StateSets, CollectedInHead
<1> QED
  BY <1>1, <1>2, <1>3, <1>4, <1>5 DEF Pass

FirstAnswer(m) == (answers[1] = "101" => Opening(m)) /\ (Canonical(m) => answers[1] = "101")

(* A request is judged by what has been collected of it.                   *)
JudgedInv ==
  requests # <<>> =>
    /\ requests \in Requests /\ input = Wire(requests)
    /\ ~torn =>
         /\ answers # <<>> => FirstAnswer(requests[1])
         /\ answers = <<>> /\ aborted = "no" /\ parser.http_errno = "OK" => Collected(requests[1])

LEMMA CollectedIdle ==
  ASSUME NEW m, Collected(m), at = "idle"
  PROVE  ~Torn(parser.state)
<1>1. InLine(m, parser, pos - 1) => ~Torn(parser.state)
  BY InLineStates, StateSets DEF Torn, UrlStates, ServerStates, QueryStates, FragmentStates
<1>2. \A i : CollectedAt(m, i) => ~Torn(parser.state)
  BY CollectedStates DEF Torn
<1> QED
  BY <1>1, <1>2 DEF Collected

(* The answer to a request that has been collected.                        *)
LEMMA JudgesIt ==
  ASSUME NEW m, ParserInv, Reads(input, m), Callback, NotYet, Collected(m), PassHeadersAlmostDone,
         "F_TRAILING" \notin parser.flags, parser'.http_errno = "OK"
  PROVE  FirstAnswer(m)' /\ answers' # <<>>
<1>1. parser.state = "s_headers_almost_done"
  BY DEF PassHeadersAlmostDone, Turn
<1>2. LineRead(m) /\ Got(m, Count(m), <<>>)
  BY <1>1, InLineStates, CollectedStates
  DEF Collected, UrlStates, ServerStates, QueryStates, FragmentStates
<1>3. Notify("headers_complete")
  BY ErrorTells DEF PassHeadersAlmostDone
<1>4. OnHeadersComplete
  BY <1>3, TellsOne, CompleteCallback DEF Notify
<1> DEFINE good == /\ parser.method = "GET"
                   /\ NewEnough(parser.http_major, parser.http_minor)
                   /\ Acceptable(headers)
<1>5. HeadOK(m)
  BY DEF Reads
<1>6. good => Opening(m)
  BY <1>2, <1>5, OpensWith DEF LineRead
<1>7. Canonical(m) => good
  BY <1>2, <1>5, AcceptsIt
<1>8. (answers' = <<"101">> /\ good) \/ (answers' = <<"400">> /\ ~good)
  BY <1>4 DEF OnHeadersComplete, NotYet, CanSend
<1> HIDE DEF good
<1>9. answers' # <<>> /\ (answers'[1] = "101" <=> good)
  BY <1>8
<1> QED
  BY <1>6, <1>7, <1>9 DEF FirstAnswer

LEMMA AnswerStays ==
  ASSUME Callback, Answers, answers # <<>>
  PROVE  answers' # <<>> /\ answers'[1] = answers[1]
<1>1. answers' = answers \/ \E a \in {"101", "400"} : answers' = Append(answers, a)
  BY DEF Callback, OnHeaderField, OnHeaderValue, OnHeadersComplete, OnChunk, Crash
<1>2. answers = <<"101">> \/ answers = <<"400">>
  BY DEF Answers
<1> QED
  BY <1>1, <1>2

LEMMA JudgedInit == HandshakeInit => JudgedInv
<1> SUFFICES ASSUME HandshakeInit, requests # <<>> PROVE JudgedInv
  BY DEF JudgedInv
<1>1. requests \in Requests /\ input = Wire(requests) /\ answers = <<>>
  BY DEF HandshakeInit, Init
<1>2. PICK m : m = requests[1]
  OBVIOUS
<1>3. HeadOK(m)
  BY <1>1, <1>2, ReadsFirst DEF Reads
<1>4. pos - 1 \in 0..MethodAt(m) /\ parser.state = "s_start_req"
  <2>1. MethodAt(m) \in Nat
    BY <1>3, LineOffsets
  <2>2. pos = 1 /\ parser.state = "s_start_req"
    BY DEF HandshakeInit, Init
  <2> QED
    BY <2>1, <2>2
<1>5. Collected(m)
  BY <1>4 DEF Collected, InLine, HandshakeInit
<1> QED
  BY <1>1, <1>2, <1>5 DEF JudgedInv

LEMMA JudgedPass ==
  ASSUME ParserInv, AnswerInv, JudgedInv, ParserStep
  PROVE  JudgedInv'
<1>1. aborted = "no" /\ Pass /\ Callback /\ UNCHANGED <<requests, input>>
      /\ (at' = "idle" /\ Torn(parser'.state) => torn') /\ (torn => torn')
  BY DEF ParserStep, Pass
<1> SUFFICES ASSUME requests # <<>>, ~torn'
             PROVE  /\ answers' # <<>> => FirstAnswer(requests[1])'
                    /\ answers' = <<>> /\ aborted' = "no" /\ parser'.http_errno = "OK" =>
                         Collected(requests[1])'
  BY <1>1 DEF JudgedInv
<1>2. at # "idle" /\ parser.http_errno = "OK"
  BY <1>1, PassRuns
<1>3. PICK m : m = requests[1]
  OBVIOUS
<1>4. Answers /\ (answers = <<>> => HeadInv)
  BY <1>1, <1>2 DEF AnswerInv
<1>5. requests \in Requests /\ input = Wire(requests) /\ m = requests[1] /\ m = requests'[1]
  BY <1>1, <1>3 DEF JudgedInv
<1>6. Reads(input, m)
  BY <1>5, ReadsFirst
<1>7. /\ answers # <<>> => FirstAnswer(m)
      /\ answers = <<>> => Collected(m)
  BY <1>1, <1>2, <1>5 DEF JudgedInv
<1>8. /\ answers' # <<>> => FirstAnswer(m)'
      /\ answers' = <<>> /\ aborted' = "no" /\ parser'.http_errno = "OK" => Collected(m)'
  <2>1. CASE answers # <<>>
    BY <1>1, <1>4, <1>7, <2>1, AnswerStays DEF FirstAnswer
  <2>2. CASE answers = <<>> /\ PassHeadersAlmostDone /\ parser'.http_errno = "OK"
    <3>1. NotYet /\ "F_TRAILING" \notin parser.flags
      BY <1>4, <2>2 DEF NotYet, Answers, HeadInv, InHead
    <3> QED
      BY <1>1, <1>6, <1>7, <2>2, <3>1, JudgesIt
  <2>3. CASE answers = <<>> /\ ~(PassHeadersAlmostDone /\ parser'.http_errno = "OK")
    <3>1. Unanswered
      BY <1>1, <1>2, <1>4, <2>3, HeadStates, HeadKeptOpen, HeadRefusedOpen
    <3>2. answers' = <<>>
      BY <1>1, <2>3, <3>1, OtherCallback DEF Unanswered
    <3>3. ASSUME aborted' = "no", parser'.http_errno = "OK" PROVE Collected(m)'
      <4>1. Reading(m)
        BY <1>1, <1>6, <3>3 DEF Reading
      <4> QED
        BY <1>1, <1>7, <2>3, <3>3, <4>1, CollectsPass
    <3> QED
      BY <3>2, <3>3
  <2> QED
    BY <2>1, <2>2, <2>3
<1> QED
  BY <1>5, <1>8

LEMMA JudgedStays ==
  ASSUME JudgedInv, UNCHANGED <<requests, input, parser, pos, headers, lastHeaderField, answers, aborted, torn>>,
         at = "idle" \/ UNCHANGED <<at, marks>>
  PROVE  JudgedInv'
<1>1. PICK m : m = requests[1]
  OBVIOUS
<1>2. ASSUME Collected(m) PROVE Collected(m)'
  <2>1. Untouched /\ SameLine(parser', parser)
    BY DEF Untouched, SameLine
  <2>2. CASE at = "idle"
    BY <1>2, <2>1, <2>2, CollectedIdle, CollectedStays
  <2>3. CASE UNCHANGED <<at, marks>> /\ at # "idle"
    BY <1>2, <2>1, <2>3, CollectedStays
  <2> QED
    BY <2>2, <2>3
<1>3. m = requests'[1]
  BY <1>1
<1>4. FirstAnswer(m)' <=> FirstAnswer(m)
  BY DEF FirstAnswer
<1> QED
  BY <1>1, <1>2, <1>3, <1>4 DEF JudgedInv

LEMMA JudgedStep == ParserInv /\ AnswerInv /\ JudgedInv /\ [HandshakeNext]_vars => JudgedInv'
<1> SUFFICES ASSUME ParserInv, AnswerInv, JudgedInv, [HandshakeNext]_vars PROVE JudgedInv'
  OBVIOUS
<1>1. CASE \E n \in 1..(Len(input) - arrived) : Parse(n)
  BY <1>1, JudgedStays DEF Parse, Execute, connVars
<1>2. CASE ParserStep
  BY <1>2, JudgedPass
<1>3. CASE WriteDone
  BY <1>3, JudgedStays DEF WriteDone, parserVars
<1>4. CASE UNCHANGED vars
  BY <1>4, JudgedStays DEF vars, connVars, parserVars
<1> QED
  BY <1>1, <1>2, <1>3, <1>4 DEF HandshakeNext

LEMMA Judged == ParserInv /\ AnswerInv /\ JudgedInv => (requests # <<>> => OnlyOpenings) /\ CanonicalAccepted
<1> SUFFICES ASSUME AnswerInv, JudgedInv, requests # <<>>, ~torn PROVE OnlyOpenings /\ CanonicalAccepted
  BY DEF OnlyOpenings, CanonicalAccepted
<1>1. answers # <<>> => FirstAnswer(requests[1])
  BY DEF JudgedInv
<1>2. status = "CONNECT" => answers # <<>> /\ answers[1] = "101"
  BY DEF AnswerInv, Answers
<1> QED
  BY <1>1, <1>2 DEF FirstAnswer, OnlyOpenings, CanonicalAccepted

(* Whatever requests a client may send, and however they are cut into      *)
(* reads: unless one ends inside the name or the value of a header, 101 is *)
(* the answer only to an opening handshake.                                *)
THEOREM OnlyOpeningsCorrect == HandshakeSpec => [](requests # <<>> => OnlyOpenings)
<1>1. HandshakeInit => ParserInv /\ AnswerInv /\ JudgedInv
  BY ParserInit, AnswerInit, JudgedInit DEF HandshakeInit
<1>2. ParserInv /\ AnswerInv /\ JudgedInv /\ [HandshakeNext]_vars => (ParserInv /\ AnswerInv /\ JudgedInv)'
  BY ParserInvStep, ParserBelow, AnswerStep, JudgedStep
<1>3. ParserInv /\ AnswerInv /\ JudgedInv => (requests # <<>> => OnlyOpenings)
  BY Judged
<1> QED
  BY <1>1, <1>2, <1>3, PTL DEF HandshakeSpec

(* And every opening handshake that is spelt the way browsers do is        *)
(* answered 101.                                                           *)
THEOREM CanonicalAcceptedCorrect == HandshakeSpec => []CanonicalAccepted
<1>1. HandshakeInit => ParserInv /\ AnswerInv /\ JudgedInv
  BY ParserInit, AnswerInit, JudgedInit DEF HandshakeInit
<1>2. ParserInv /\ AnswerInv /\ JudgedInv /\ [HandshakeNext]_vars => (ParserInv /\ AnswerInv /\ JudgedInv)'
  BY ParserInvStep, ParserBelow, AnswerStep, JudgedStep
<1>3. ParserInv /\ AnswerInv /\ JudgedInv => CanonicalAccepted
  BY Judged
<1> QED
  BY <1>1, <1>2, <1>3, PTL DEF HandshakeSpec

-----------------------------------------------------------------------------
(* Where the frames begin, torn headers or not.                            *)

Expected(m) == WantsUpgrade(m) /\ PlainLists(m)

(* Behind the answer 101: what is left to read of a request without body.  *)
LeavesAtEnd(m) ==
  \/ at = "idle" /\ pos = HeadEnd(m) + 1
  \/ /\ at = "switch" /\ pos = HeadEnd(m) /\ parser.state = "s_headers_done" /\ parser.upgrade
     /\ "F_CHUNKED" \notin parser.flags /\ parser.content_length = ULLONG_MAX

(* The parser understands the head of m, and leaves HTTP as m asks it to.  *)
Followed(m) ==
  /\ answers = <<>> /\ aborted = "no" /\ parser.http_errno = "OK" =>
       Understood(m, parser, pos - 1)
  /\ (torn => Expected(m)) =>
       /\ Answers
       /\ aborted = "no" /\ parser.http_errno = "OK" /\ status = "CONNECT" => at = "idle" \/ Leaving
       /\ status = "CONNECT" /\ Unsized(m) => LeavesAtEnd(m)
FollowInv == requests # <<>> => Followed(requests[1])

LEMMA UnderstoodStates ==
  ASSUME NEW m, NEW d, Understood(m, parser, d)
  PROVE  /\ parser.state \in RequestStates \cup FieldStates /\ parser.state \notin RestStates
         /\ parser.state \in FieldStates =>
              parser.method = m.method /\ \E i \in 1 .. Count(m) + 1 : KnownAt(m, i, parser, d)
         /\ parser.state \in RequestStates =>
              /\ InLine(m, parser, d)
              /\ parser.state # "s_start_req" => parser.flags = {} /\ parser.content_length = ULLONG_MAX
<1>1. InLine(m, parser, d) => parser.state \in RequestStates
  BY InLineStates DEF RequestStates
<1>2. \A i : KnownAt(m, i, parser, d) => parser.state \in FieldStates
  BY KnownStates DEF FieldStates, NamedStates, TakenStates
<1> QED
  BY <1>1, <1>2, StateSets DEF Understood

LEMMA UnderstoodStays ==
  ASSUME NEW m, Understood(m, parser, pos - 1), Like(parser', parser), parser'.state = parser.state,
         parser'.index = parser.index, pos' = pos
  PROVE  Understood(m, parser', pos' - 1)
<1>1. CASE /\ InLine(m, parser, pos - 1)
           /\ parser.state # "s_start_req" => parser.flags = {} /\ parser.content_length = ULLONG_MAX
  <2>1. InLine(m, parser', pos' - 1)
    BY <1>1, InLineAlike DEF Like
  <2> QED
    BY <1>1, <2>1 DEF Understood, Like, SameLength
<1>2. ASSUME parser.method = m.method, NEW i \in 1 .. Count(m) + 1, KnownAt(m, i, parser, pos - 1)
      PROVE  Understood(m, parser', pos' - 1)
  <2>1. Learned(m, i - 1, parser')
    BY <1>2, LearnedSame DEF KnownAt, Like
  <2>2. \A t : Sees(m, i, t, parser) => Sees(m, i, t, parser')
    BY SeesOn DEF Like
  <2>3. parser'.header_state = parser.header_state /\ parser'.method = parser.method
    BY DEF Like, SameLine
  <2>4. KnownHeader(m, i, parser, pos - 1) => KnownHeader(m, i, parser', pos' - 1)
    BY <2>2, <2>3 DEF KnownHeader
  <2>5. KnownAt(m, i, parser', pos' - 1)
    BY <1>2, <2>1, <2>4 DEF KnownAt
  <2> QED
    BY <1>2, <2>3, <2>5 DEF Understood
<1> QED
  BY <1>1, <1>2 DEF Understood

(* Every pass before the end of the head keeps the understanding.          *)
LEMMA UnderstandsPass ==
  ASSUME NEW m, ParserInv, Reads(input, m), parser'.http_errno = "OK",
         Understood(m, parser, pos - 1), Pass, ~PassHeadersAlmostDone
  PROVE  Understood(m, parser', pos' - 1)
<1>1. CASE NextUnit
  BY <1>1, NextUnitGoes, UnderstoodStays
<1>2. CASE EndOfChunk
  <2>1. parser' = parser /\ pos' = pos
    BY <1>2 DEF EndOfChunk
  <2> QED
    BY <2>1
<1>3. CASE RequestLine
  <2>1. /\ InLine(m, parser, pos - 1)
        /\ parser.state # "s_start_req" => parser.flags = {} /\ parser.content_length = ULLONG_MAX
    BY <1>3, RequestLineStates, UnderstoodStates
  <2> QED
    BY <1>3, <2>1, UnderstandsLine
<1>4. CASE Headers
  <2>1. parser.state \in FieldStates
    BY <1>4, HeadersStates
  <2>2. PICK i \in 1 .. Count(m) + 1 : KnownAt(m, i, parser, pos - 1)
    BY <2>1, UnderstoodStates
  <2>3. Scanning(m)
    BY <2>1, UnderstoodStates DEF Scanning
  <2> QED
    BY <1>4, <2>2, <2>3, UnderstandsHeaders
<1>5. CASE Bodies
  <2>1. parser.state \in RestStates
    BY <1>5 DEF Bodies, PassHeadersDone, PassBodyIdentity, PassMessageDone, PassChunkSizeStart,
                PassChunkSize, PassChunkParameters, PassChunkSizeAlmostDone, PassChunkData,
                PassChunkDataAlmostDone, PassChunkDataDone, Turn, RestStates, ChunkStates
  <2> QED
    BY <2>1, UnderstoodStates
<1> QED
  BY <1>1, <1>2, <1>3, <1>4, <1>5 DEF Pass

(* At its end the whole head is understood.                                *)
LEMMA HeadUnderstoodThere ==
  ASSUME NEW m, Understood(m, parser, pos - 1), parser.state = "s_headers_almost_done", HeadOK(m),
         ParserInv
  PROVE  parser.method = m.method /\ Learned(m, Count(m), parser) /\ pos = HeadEnd(m)
<1>1. parser.state \in FieldStates
  BY DEF FieldStates
<1>2. parser.method = m.method
  BY <1>1, UnderstoodStates
<1>3. PICK i \in 1 .. Count(m) + 1 : KnownAt(m, i, parser, pos - 1)
  BY <1>1, UnderstoodStates
<1>4. i = Count(m) + 1 /\ pos - 1 = HeadEnd(m) - 1 /\ Learned(m, i - 1, parser)
  BY <1>3, KnownStates
<1>5. Count(m) \in Nat /\ HeadEnd(m) \in Nat /\ pos \in Nat
  BY HeadersType, HeaderOffsets, Place
<1> QED
  BY <1>2, <1>4, <1>5

LEMMA ExpectedUpgrade ==
  ASSUME NEW m, HeadOK(m), Learned(m, Count(m), parser), Expected(m), m.method # "CONNECT"
  PROVE  {"F_UPGRADE", "F_CONNECTION_UPGRADE"} \subseteq parser.flags
<1>1. DOMAIN m.headers = 1..Count(m)
  BY HeadersType
<1>2. HasHeader(m, "upgrade") /\ ConnectionHas(m, "upgrade") /\ PlainLists(m)
  BY DEF Expected, WantsUpgrade
<1>3. "F_UPGRADE" \in parser.flags
  <2>1. PICK i \in 1..Count(m) : IsName(NameOf(m, i), "upgrade") /\ ~EmptyValue(m, i)
    BY <1>1, <1>2 DEF HasHeader, NameOf, EmptyValue, ValueOf
  <2> QED
    BY <2>1 DEF Learned
<1>4. "F_CONNECTION_UPGRADE" \in parser.flags
  <2>1. PICK i \in 1..Count(m) : IsConnection(m, i) /\ HasToken(Text(m, i), "upgrade")
    BY <1>1, <1>2 DEF ConnectionHas, IsConnection, NameOf, Text, ValueOf, FoldOf
  <2> QED
    BY <1>2, <2>1 DEF Learned
<1> QED
  BY <1>3, <1>4

(* The head has been read, and is answered.                                *)
LEMMA FollowAnswered ==
  ASSUME NEW m, ParserInv, AnswerInv', Reads(input, m), Callback, (torn' <=> torn), aborted = "no",
         answers = <<>>, Understood(m, parser, pos - 1), (torn => Expected(m)) => Answers,
         PassHeadersAlmostDone, parser'.http_errno = "OK"
  PROVE  Followed(m)'
<1>1. parser.state = "s_headers_almost_done" /\ HeadOK(m)
  BY DEF PassHeadersAlmostDone, Turn, Reads
<1>2. parser.method = m.method /\ Learned(m, Count(m), parser) /\ pos = HeadEnd(m)
  BY <1>1, HeadUnderstoodThere
<1> DEFINE upgrade == IF {"F_UPGRADE", "F_CONNECTION_UPGRADE"} \subseteq parser.flags THEN TRUE
                      ELSE parser.method = "CONNECT"
           p == [To("s_headers_done") EXCEPT !.upgrade = upgrade]
<1>3. Notify("headers_complete") /\ Again(p)
  BY <1>2, ErrorTells DEF PassHeadersAlmostDone, Learned
<1>4. OnHeadersComplete
  BY <1>3, TellsOne, CompleteCallback DEF Notify
<1>5. parser' = p /\ pos' = pos /\ at' = "switch"
  BY <1>3 DEF Again, Move
<1>6. Expected(m) => upgrade
  BY <1>1, <1>2, ExpectedUpgrade
<1> HIDE DEF upgrade
<1>7. /\ p.state = "s_headers_done" /\ p.flags = parser.flags
      /\ p.content_length = parser.content_length /\ (upgrade => p.upgrade)
  <2>1. To("s_headers_done") \in ParserRecords /\ To("s_headers_done").state = "s_headers_done"
    BY ToRecord, ToFields DEF States
  <2>2. SameLength(To("s_headers_done"), parser)
    BY ToLike DEF Like
  <2> QED
    BY <2>1, <2>2 DEF ParserRecords, SameLength
<1> HIDE DEF p
<1>8. answers' # <<>> \/ aborted' # "no"
  BY <1>4 DEF OnHeadersComplete, Crash
<1>9. ASSUME torn' => Expected(m)
      PROVE  /\ Answers'
             /\ aborted' = "no" /\ status' = "CONNECT" => Leaving'
             /\ status' = "CONNECT" /\ Unsized(m) => LeavesAtEnd(m)'
  <2>1. NotYet
    BY <1>9 DEF Answers, NotYet
  <2>2. /\ aborted' = aborted
        /\ \/ answers' = <<"101">> /\ tcp' = "kWritting" /\ status' = "CONNECT"
           \/ answers' = <<"400">> /\ tcp' = "kDisconnecting" /\ status' = "INITIAL"
    BY <1>4, <2>1 DEF OnHeadersComplete, NotYet, CanSend
  <2>3. Answers'
    BY <2>2 DEF Answers
  <2>4. status' = "CONNECT" => Leaving'
    <3>1. CASE torn'
      BY <1>5, <1>6, <1>7, <1>9, <3>1 DEF Leaving, RestStates
    <3>2. CASE ~torn'
      BY <1>5, <2>2, <3>2 DEF AnswerInv
    <3> QED
      BY <3>1, <3>2
  <2>5. status' = "CONNECT" /\ Unsized(m) => LeavesAtEnd(m)'
    <3>1. Unsized(m) => "F_CHUNKED" \notin parser'.flags /\ parser'.content_length = ULLONG_MAX
      BY <1>2, <1>5, <1>7 DEF Learned
    <3>2. status' = "CONNECT" => parser'.upgrade
      BY <2>4 DEF Leaving
    <3> QED
      BY <1>2, <1>5, <1>7, <3>1, <3>2 DEF LeavesAtEnd
  <2> QED
    BY <2>3, <2>4, <2>5
<1> QED
  BY <1>8, <1>9 DEF Followed

(* Before that nothing is answered. *)
LEMMA FollowsHead ==
  ASSUME NEW m, ParserInv, Reads(input, m), Callback, torn => torn',
         answers = <<>>, Understood(m, parser, pos - 1), (torn => Expected(m)) => Answers, Pass, parser.http_errno = "OK",
         ~(PassHeadersAlmostDone /\ parser'.http_errno = "OK")
  PROVE  Followed(m)'
<1>1. Unanswered
  <2>1. CASE ~PassHeadersAlmostDone
    BY <2>1, UnderstoodStates, HeadKeptOpen
  <2>2. CASE PassHeadersAlmostDone
    <3>1. parser.state = "s_headers_almost_done" /\ HeadOK(m)
      BY <2>2 DEF PassHeadersAlmostDone, Turn, Reads
    <3>2. "F_TRAILING" \notin parser.flags
      BY <3>1, HeadUnderstoodThere DEF Learned
    <3> QED
      BY <2>2, <3>2, HeadRefusedOpen
  <2> QED
    BY <2>1, <2>2
<1>2. UNCHANGED <<status, tcp, answers>>
  BY <1>1, OtherCallback DEF Unanswered
<1>3. parser'.http_errno = "OK" => Understood(m, parser', pos' - 1)
  BY UnderstandsPass
<1>4. ASSUME torn' => Expected(m) PROVE Answers' /\ status' # "CONNECT"
  BY <1>2, <1>4 DEF Answers
<1> QED
  BY <1>2, <1>3, <1>4 DEF Followed

(* In the state behind the head there is one pass.                         *)
LEMMA OnlyHeadersDone ==
  ASSUME Pass, at = "switch", parser.state = "s_headers_done"
  PROVE  PassHeadersDone
<1>1. ~NextUnit /\ ~EndOfChunk
  BY DEF NextUnit, EndOfChunk
<1>2. ~RequestLine /\ ~Headers
  BY RequestLineStates, HeadersStates, StateSets DEF RestStates
<1>3. Bodies => PassHeadersDone
  BY DEF Bodies, PassHeadersAlmostDone, PassBodyIdentity, PassMessageDone, PassChunkSizeStart,
         PassChunkSize, PassChunkParameters, PassChunkSizeAlmostDone, PassChunkData,
         PassChunkDataAlmostDone, PassChunkDataDone, Turn
<1> QED
  BY <1>1, <1>2, <1>3 DEF Pass

(* Behind the answer the parser leaves, or the connection closes.          *)
LEMMA FollowsRest ==
  ASSUME NEW m, ParserInv, RefusedInv, Callback, Pass, torn => torn', aborted = "no",
         parser.http_errno = "OK", at # "idle", answers # <<>>, Followed(m)
  PROVE  Followed(m)'
<1>1. answers' # <<>>
  <2>1. answers' = answers \/ \E a \in {"101", "400"} : answers' = Append(answers, a)
    BY DEF Callback, OnHeaderField, OnHeaderValue, OnHeadersComplete, OnChunk, Crash
  <2>2. answers \in Seq({"101", "400"})
    BY DEF RefusedInv
  <2> QED
    BY <2>1, <2>2, AppendAnswer
<1>2. ASSUME torn' => Expected(m)
      PROVE  /\ Answers'
             /\ aborted' = "no" /\ parser'.http_errno = "OK" /\ status' = "CONNECT" =>
                  at' = "idle" \/ Leaving'
             /\ status' = "CONNECT" /\ Unsized(m) => LeavesAtEnd(m)'
  <2>1. /\ Answers /\ (status = "CONNECT" => Leaving)
        /\ status = "CONNECT" /\ Unsized(m) => LeavesAtEnd(m)
    BY <1>2 DEF Followed
  <2>2. CASE answers = <<"400">> /\ status = "INITIAL" /\ tcp \in {"kDisconnecting", "kDisconnected"}
    <3>1. UNCHANGED <<status, tcp, answers>>
      BY <2>2, RefusedCallback DEF CanSend
    <3> QED
      BY <2>2, <3>1 DEF Answers
  <2>3. CASE answers = <<"101">> /\ status = "CONNECT" /\ tcp \in {"kWritting", "kConnected"}
    <3>1. LeavingEffect
      BY <2>1, <2>3, LeavingPass
    <3>2. UNCHANGED <<status, tcp, answers>>
      BY <3>1, OtherCallback DEF LeavingEffect, Unanswered
    <3>3. ASSUME Unsized(m) PROVE LeavesAtEnd(m)'
      <4>1. /\ at = "switch" /\ pos = HeadEnd(m) /\ parser.state = "s_headers_done" /\ parser.upgrade
            /\ "F_CHUNKED" \notin parser.flags /\ parser.content_length = ULLONG_MAX
        BY <2>1, <2>3, <3>3 DEF LeavesAtEnd
      <4>2. PassHeadersDone
        BY <4>1, OnlyHeadersDone
      <4>3. Return(NewMessage([parser EXCEPT !.nread = 0]))
        BY <4>1, <4>2 DEF PassHeadersDone
      <4>4. at' = "idle" /\ pos' = pos + 1
        BY <4>3 DEF Return, Move
      <4> QED
        BY <4>1, <4>4 DEF LeavesAtEnd
    <3> QED
      BY <2>3, <3>1, <3>2, <3>3 DEF Answers, LeavingEffect
  <2> QED
    BY <2>1, <2>2, <2>3 DEF Answers
<1> QED
  BY <1>1, <1>2 DEF Followed

LEMMA FollowPass ==
  ASSUME ParserInv, AnswerInv', RefusedInv, JudgedInv, FollowInv, ParserStep
  PROVE  FollowInv'
<1>1. /\ aborted = "no" /\ Pass /\ Callback /\ UNCHANGED <<requests, input>>
      /\ torn => torn'
      /\ at' # "idle" => (torn' <=> torn)
  BY DEF ParserStep, Pass
<1>2. at # "idle" /\ parser.http_errno = "OK"
  BY <1>1, PassRuns
<1> SUFFICES ASSUME requests # <<>> PROVE Followed(requests[1])'
  BY <1>1 DEF FollowInv
<1>3. PICK m : m = requests[1]
  OBVIOUS
<1>4. Followed(m) /\ m = requests'[1]
  BY <1>1, <1>3 DEF FollowInv
<1>5. Reads(input, m)
  BY <1>3, ReadsFirst DEF JudgedInv
<1>6. Followed(m)'
  <2>1. CASE answers # <<>>
    BY <1>1, <1>2, <1>4, <2>1, FollowsRest
  <2>2. CASE answers = <<>> /\ PassHeadersAlmostDone /\ parser'.http_errno = "OK"
    <3>1. Understood(m, parser, pos - 1) /\ ((torn => Expected(m)) => Answers)
      BY <1>1, <1>2, <1>4, <2>2 DEF Followed
    <3>2. at' # "idle"
      BY <2>2, ErrorTells DEF PassHeadersAlmostDone, Again, Move
    <3> QED
      BY <1>1, <1>5, <2>2, <3>1, <3>2, FollowAnswered
  <2>3. CASE answers = <<>> /\ ~(PassHeadersAlmostDone /\ parser'.http_errno = "OK")
    <3>1. Understood(m, parser, pos - 1) /\ ((torn => Expected(m)) => Answers)
      BY <1>1, <1>2, <1>4, <2>3 DEF Followed
    <3> QED
      BY <1>1, <1>2, <1>5, <2>3, <3>1, FollowsHead
  <2> QED
    BY <2>1, <2>2, <2>3
<1> QED
  BY <1>4, <1>6

LEMMA FollowInit == HandshakeInit => FollowInv
<1> SUFFICES ASSUME HandshakeInit, requests # <<>> PROVE Followed(requests[1])
  BY DEF FollowInv
<1>1. /\ requests \in Requests /\ answers = <<>> /\ status = "INITIAL" /\ tcp = "kConnected"
      /\ pos = 1 /\ parser.state = "s_start_req"
  BY DEF HandshakeInit, Init
<1>2. PICK m : m = requests[1]
  OBVIOUS
<1>3. HeadOK(m)
  BY <1>1, <1>2, ReadsFirst DEF Reads
<1>4. pos - 1 \in 0..MethodAt(m)
  <2>1. MethodAt(m) \in Nat
    BY <1>3, LineOffsets
  <2> QED
    BY <1>1, <2>1
<1>5. Understood(m, parser, pos - 1)
  BY <1>1, <1>4 DEF Understood, InLine
<1> QED
  BY <1>1, <1>2, <1>5 DEF Followed, Answers

LEMMA FollowStays ==
  ASSUME FollowInv, UNCHANGED <<requests, parser, pos, status, answers, aborted, torn>>,
         Answers => Answers', at' = at \/ status = "INITIAL"
  PROVE  FollowInv'
<1>1. Leaving' <=> Leaving
  BY DEF Leaving
<1>2. ASSUME NEW m, Followed(m) PROVE Followed(m)'
  <2>1. status = "CONNECT" => (LeavesAtEnd(m)' <=> LeavesAtEnd(m)) /\ at' = at
    BY DEF LeavesAtEnd
  <2> QED
    BY <1>1, <1>2, <2>1 DEF Followed
<1> QED
  BY <1>2 DEF FollowInv

LEMMA FollowStep ==
  ParserInv /\ AnswerInv' /\ RefusedInv /\ JudgedInv /\ FollowInv /\ [HandshakeNext]_vars => FollowInv'
<1> SUFFICES ASSUME ParserInv, AnswerInv', RefusedInv, JudgedInv, FollowInv, [HandshakeNext]_vars
             PROVE  FollowInv'
  OBVIOUS
<1>1. CASE \E n \in 1..(Len(input) - arrived) : Parse(n)
  <2>1. /\ UNCHANGED <<requests, parser, pos, status, tcp, answers, aborted, torn>>
        /\ status = "INITIAL"
    BY <1>1 DEF Parse, Execute, connVars
  <2> QED
    BY <2>1, FollowStays DEF Answers
<1>2. CASE ParserStep
  BY <1>2, FollowPass
<1>3. CASE WriteDone
  <2>1. /\ UNCHANGED <<requests, parser, pos, status, answers, aborted, torn, at>>
        /\ \/ tcp = "kWritting" /\ tcp' = "kConnected"
           \/ tcp = "kDisconnecting" /\ tcp' = "kDisconnected"
    BY <1>3 DEF WriteDone, parserVars
  <2>2. Answers => Answers'
    BY <2>1 DEF Answers
  <2> QED
    BY <2>1, <2>2, FollowStays
<1>4. CASE UNCHANGED vars
  <2>1. UNCHANGED <<requests, parser, pos, status, tcp, answers, aborted, torn, at>>
    BY <1>4 DEF vars, connVars, parserVars
  <2> QED
    BY <2>1, FollowStays DEF Answers
<1> QED
  BY <1>1, <1>2, <1>3, <1>4 DEF HandshakeNext

(* A request without body announces none; and where a read ends inside the *)
(* name or the value of a header, the parser reads the Connection lists    *)
(* like everybody else.                                                    *)
Plainly(m) == (m.body.kind = "none" => Unsized(m)) /\ (torn => PlainLists(m))

LEMMA FollowsThere ==
  ASSUME ParserInv, JudgedInv, FollowInv, requests # <<>>, Plainly(requests[1])
  PROVE  FramesFollow
<1> SUFFICES ASSUME ~torn \/ WantsUpgrade(requests[1])
             PROVE  /\ AnsweredOnce
                    /\ status = "CONNECT" /\ at = "idle" /\ requests[1].body.kind = "none" =>
                         pos - 1 = Len(Write(requests[1]))
  BY DEF FramesFollow
<1>1. PICK m : m = requests[1]
  OBVIOUS
<1>2. torn => Expected(m)
  BY <1>1 DEF Expected, Plainly
<1>3. Answers /\ (status = "CONNECT" /\ Unsized(m) => LeavesAtEnd(m))
  BY <1>1, <1>2 DEF FollowInv, Followed
<1>4. HeadOK(m)
  BY <1>1, ReadsFirst DEF JudgedInv, Reads
<1>5. ASSUME status = "CONNECT", at = "idle", m.body.kind = "none"
      PROVE  pos - 1 = Len(Write(m))
  <2>1. pos = HeadEnd(m) + 1
    BY <1>1, <1>3, <1>5 DEF LeavesAtEnd, Plainly
  <2>2. Len(Write(m)) = HeadEnd(m) /\ HeadEnd(m) \in Nat
    BY <1>4, <1>5, HeadLength, HeaderOffsets
  <2> QED
    BY <2>1, <2>2
<1> QED
  BY <1>1, <1>3, <1>5, OneAnswer

(* Whatever requests a client may send, and however they are cut into      *)
(* reads, inside names and values too: a first request that asks to leave  *)
(* HTTP is answered once, and when the answer is 101 the first unit left   *)
(* unread is the first behind it; unless a read is torn, any request is    *)
(* answered once.                                                          *)
THEOREM FramesFollowCorrect ==
  HandshakeSpec => [](requests # <<>> /\ Plainly(requests[1]) => FramesFollow)
<1> DEFINE Inv == ParserInv /\ AnswerInv /\ RefusedInv /\ JudgedInv /\ FollowInv
<1>1. HandshakeInit => Inv
  <2>1. HandshakeInit => RefusedInv
    BY DEF HandshakeInit, RefusedInv, RefusedLast, Closing
  <2> QED
    BY <2>1, ParserInit, AnswerInit, JudgedInit, FollowInit DEF HandshakeInit
<1>2. Inv /\ [HandshakeNext]_vars => Inv'
  BY ParserInvStep, ParserBelow, AnswerStep, RefusedStep, JudgedStep, FollowStep
<1>3. Inv => (requests # <<>> /\ Plainly(requests[1]) => FramesFollow)
  BY FollowsThere
<1> QED
  BY <1>1, <1>2, <1>3, PTL DEF HandshakeSpec
=============================================================================
