-------------------------- MODULE HttpParserProofs --------------------------
(***************************************************************************)
(* Theorems about HttpParser, for every input and every way to cut it: the *)
(* parser reads and claims only what has arrived, its asserts hold, and    *)
(* its counters do not overflow.                                           *)
(***************************************************************************)
EXTENDS HttpParser, FiniteSetTheorems, TLAPS

-----------------------------------------------------------------------------
(* The inductive invariant. *)

ParserRecords ==
  [state : States, flags : SUBSET Flags, header_state : HeaderStates, index : Nat,
   content_length : 0..ULLONG_MAX, nread : Nat, method : HTTP_METHODS \cup {""},
   http_major : Nat, http_minor : Nat, upgrade : BOOLEAN, http_errno : Errnos]

ScanStates == {"s_header_field", "s_header_value"}
ChunkStates ==
  {"s_chunk_size_start", "s_chunk_size", "s_chunk_parameters", "s_chunk_size_almost_done",
   "s_chunk_data", "s_chunk_data_almost_done", "s_chunk_data_done"}

(* What holds of struct http_parser wherever p stands. *)
ParserOK(p) ==
  /\ p \in ParserRecords
  /\ p.http_errno = "OK" => p.nread <= max_header_size
  /\ "F_CONTENTLENGTH" \in p.flags => p.content_length < ULLONG_MAX
  /\ p.state \in {"s_chunk_size", "s_chunk_parameters", "s_chunk_size_almost_done",
                  "s_chunk_data", "s_chunk_data_almost_done"} => p.content_length < ULLONG_MAX
  /\ p.state = "s_body_identity" => p.content_length \notin {0, ULLONG_MAX}
  /\ p.state = "s_chunk_data" => p.content_length # 0
  /\ p.state = "s_chunk_data_almost_done" => p.content_length = 0
  /\ p.state \in ChunkStates => "F_CHUNKED" \in p.flags
  /\ p.state = "s_header_field" => p.header_state.phase \in {"h_general", "h_matching", "h_name"}
  /\ p.state = "s_header_value" =>
       p.header_state \notin {HS("h_name", "connection"), HS("h_name", "transfer-encoding")}

(* nread starts again with each chunk. *)
Fresh(p) == p.state = "s_chunk_size_start" => p.nread = 0

(* A text is marked only in the states that are inside it. *)
Fits(ms, state) ==
  /\ ms["url"] # 0 => state \in UrlStates
  /\ ms["header_field"] # 0 => state = "s_header_field"
  /\ ms["header_value"] # 0 => state = "s_header_value"
  /\ ms["body"] # 0 => state \in {"s_body_identity", "s_chunk_data", "s_chunk_data_almost_done"}

(* Where p stands.  Inside a pass, p is not behind what has arrived, but   *)
(* at the end of an inner loop; start is where this pass's unit is, behind *)
(* which the inner loops run.                                              *)
AtLoop == at = "loop" => parser.http_errno = "OK" /\ Fresh(parser) /\ Fits(marks, parser.state)
AtIdle == at = "idle" /\ parser.http_errno = "OK" => Fresh(parser)
AtSwitch ==
  at = "switch" =>
    /\ parser.http_errno = "OK" /\ Fits(marks, parser.state)
    /\ parser.state = "s_chunk_size_start" => parser.nread = 1
    /\ parser.state \notin ScanStates => pos <= arrived
    /\ start <= pos /\ start <= arrived
    /\ \A on \in DataCalls : marks[on] <= start

Places ==
  /\ at \in {"idle", "loop", "switch"}
  /\ input \in Seq(Unit)
  /\ arrived \in 0..Len(input) /\ pos \in 1..(arrived + 1) /\ start \in Nat \ {0}
  /\ marks \in [DataCalls -> 0..pos]

ParserInv == Places /\ ParserOK(parser) /\ AtIdle /\ AtLoop /\ AtSwitch

-----------------------------------------------------------------------------
(* The initial state, and what the invariant says of the parser's asserts. *)

LEMMA ParserInit == Init => ParserInv
<1> SUFFICES ASSUME Init PROVE ParserInv
  OBVIOUS
<1>1. input \in Seq(Unit)
  BY InputsOK DEF Init
<1>2. Len(input) \in Nat
  BY <1>1
<1>3. General \in HeaderStates
  BY DEF HeaderStates
<1> DEFINE p == [state |-> "s_start_req", flags |-> {}, header_state |-> General, index |-> 0,
                 content_length |-> 0, nread |-> 0, method |-> "", http_major |-> 0,
                 http_minor |-> 0, upgrade |-> FALSE, http_errno |-> "OK"]
<1>4. parser = p
  BY DEF Init
<1>5. marks = NoMarks /\ at = "idle" /\ arrived = 0 /\ pos = 1 /\ start = 1
  BY DEF Init
<1>6. p \in ParserRecords
  <2>1. 0 \in 0..ULLONG_MAX
    BY SizesOK
  <2>2. ASSUME NEW none \in SUBSET Flags, NEW no \in BOOLEAN
        PROVE  [state |-> "s_start_req", flags |-> none, header_state |-> General, index |-> 0,
                content_length |-> 0, nread |-> 0, method |-> "", http_major |-> 0,
                http_minor |-> 0, upgrade |-> no, http_errno |-> "OK"] \in ParserRecords
    BY <1>3, <2>1 DEF ParserRecords, States, Errnos
  <2>3. {} \in SUBSET Flags /\ FALSE \in BOOLEAN
    OBVIOUS
  <2> QED
    BY <2>2, <2>3, Zenon
<1>7. p.state = "s_start_req" /\ p.flags = {} /\ p.nread = 0
  OBVIOUS
<1> HIDE DEF p
<1>8. ParserOK(p)
  BY <1>6, <1>7, SizesOK DEF ParserOK, ChunkStates
<1>9. marks \in [DataCalls -> 0..pos]
  BY <1>5 DEF NoMarks
<1> QED
  BY <1>1, <1>2, <1>4, <1>5, <1>7, <1>8, <1>9
  DEF ParserInv, Places, AtIdle, AtLoop, AtSwitch, Fresh

(* The texts are marked one at a time. *)
LEMMA OneMark ==
  ASSUME NEW ms, NEW state, Fits(ms, state)
  PROVE  \/ {on \in DataCalls : ms[on] # 0} = {}
         \/ \E on \in DataCalls : {x \in DataCalls : ms[x] # 0} = {on}
<1> DEFINE marked == {on \in DataCalls : ms[on] # 0}
<1>1. ASSUME NEW x \in marked, NEW y \in marked PROVE x = y
  BY DEF Fits, DataCalls, UrlStates, ServerStates, QueryStates, FragmentStates
<1> QED
  BY <1>1

LEMMA LengthType == ParserInv => parser.content_length \in Nat /\ parser.nread \in Nat
<1> SUFFICES ASSUME ParserInv PROVE parser.content_length \in Nat /\ parser.nread \in Nat
  OBVIOUS
<1>1. parser.content_length \in 0..ULLONG_MAX /\ parser.nread \in Nat
  BY DEF ParserInv, ParserOK, ParserRecords
<1> QED
  BY <1>1, SizesOK

LEMMA InvTypeOK == ParserInv => TypeOK
<1> SUFFICES ASSUME ParserInv PROVE TypeOK
  OBVIOUS
<1> USE DEF ParserInv, ParserOK
<1>1. parser \in ParserRecords
  OBVIOUS
<1>2. ASSUME at = "loop"
      PROVE  Cardinality({on \in DataCalls : marks[on] # 0}) <= 1
  <2> DEFINE marked == {on \in DataCalls : marks[on] # 0}
  <2>1. Fits(marks, parser.state)
    BY <1>2 DEF AtLoop
  <2>2. CASE marked = {}
    BY <2>2, FS_EmptySet
  <2>3. CASE \E on \in DataCalls : marked = {on}
    <3>1. PICK on \in DataCalls : marked = {on}
      BY <2>3
    <3>2. Cardinality(marked) = 1
      BY <3>1, FS_Singleton
    <3> QED
      BY <3>2
  <2> QED
    BY <2>1, <2>2, <2>3, OneMark
<1>3. ParserAsserts
  <2>1. ASSUME at = "switch", parser.state \in {"s_body_identity", "s_chunk_data"}
        PROVE  parser.content_length \notin {0, ULLONG_MAX}
    <3>1. parser.content_length \in Nat
      BY LengthType
    <3> QED
      BY <2>1, <3>1, SizesOK
  <2> QED
    BY <1>2, <2>1 DEF ParserAsserts, AtSwitch, ChunkStates
<1>4. InBounds
  BY DEF InBounds, Places, AtSwitch, ScanStates
<1> QED
  BY <1>1, <1>3, <1>4 DEF TypeOK, LengthDeclared, Places, ParserRecords

-----------------------------------------------------------------------------
(* The tables. *)

LEMMA DigitOf ==
  ASSUME NEW u, IsNum(u)
  PROVE  Digits[u.w] \in 0..9
BY DEF IsNum, Digits

LEMMA HexDigitOf ==
  ASSUME NEW u, IsHex(u)
  PROVE  HexDigits[u.w] \in 0..15
BY DEF IsHex, HexDigits, Digits

LEMMA FlagOfToken ==
  /\ DOMAIN FlagOf = {"keep-alive", "close", "upgrade", "chunked"}
  /\ \A word \in DOMAIN FlagOf : FlagOf[word] \in Flags \ {"F_CONTENTLENGTH"}
BY DEF FlagOf, ConnectionTokens, Flags

LEMMA UrlStep ==
  ASSUME NEW s, s = "s_req_spaces_before_url" \/ s \in UrlStates, NEW u
  PROVE  ParseUrlChar(s, u) \in UrlStates \cup {"s_dead"}
BY DEF ParseUrlChar, UrlStates, ServerStates, QueryStates, FragmentStates

LEMMA MinOfTwo ==
  ASSUME NEW a \in Nat, NEW b \in Nat
  PROVE  /\ Min({a, b}) \in {a, b}
         /\ Min({a, b}) <= a /\ Min({a, b}) <= b
<1>1. \E x \in {a, b} : \A y \in {a, b} : x =< y
  OBVIOUS
<1> QED
  BY <1>1 DEF Min

(* The check in front of a digit keeps content_length from overflowing.    *)
LEMMA DigitFits ==
  ASSUME NEW n \in Nat, NEW base \in {10, 16}, NEW digit \in 0..(base - 1),
         ~TooLong(n, base, base)
  PROVE  AddDigit(n, base, digit) \in 0..ULLONG_MAX /\ AddDigit(n, base, digit) < ULLONG_MAX
<1>1. CASE base = 10
  BY <1>1, SizesOK DEF TooLong, AddDigit
<1>2. CASE base = 16
  BY <1>2, SizesOK DEF TooLong, AddDigit
<1> QED
  BY <1>1, <1>2

-----------------------------------------------------------------------------
(* What the ways to end a pass leave behind. *)

Frame == UNCHANGED <<input, arrived, start>>

(* Marks. *)

LEMMA QuietMarks ==
  ASSUME Places, Fits(marks, parser.state), marks' = marks
  PROVE  marks' \in [DataCalls -> 0..pos] /\ Fits(marks', parser.state)
BY DEF Places

Inside == UrlStates \cup ScanStates \cup {"s_body_identity", "s_chunk_data", "s_chunk_data_almost_done"}

LEMMA Unmarked ==
  ASSUME NEW ms, NEW state, Fits(ms, state), state \notin Inside, NEW next
  PROVE  Fits(ms, next)
BY DEF Fits, Inside, ScanStates

LEMMA DataMarks ==
  ASSUME Places, Fits(marks, parser.state), NEW on \in DataCalls, NEW next, Data(on, next)
  PROVE  /\ marks' \in [DataCalls -> 0..pos]
         /\ \A x \in DataCalls : marks'[x] = IF x = on THEN 0 ELSE marks[x]
<1>1. marks \in [DataCalls -> 0..pos] /\ pos \in Nat
  BY DEF Places
<1>2. marks' = [marks EXCEPT ![on] = 0]
  BY DEF Data
<1> QED
  BY <1>1, <1>2

LEMMA MarkMarks ==
  ASSUME Places, NEW on \in DataCalls, Mark(on)
  PROVE  /\ marks' \in [DataCalls -> 0..pos]
         /\ \A x \in DataCalls : x # on => marks'[x] = marks[x]
<1>1. marks \in [DataCalls -> 0..pos] /\ pos \in Nat
  BY DEF Places
<1>2. marks' = [marks EXCEPT ![on] = IF @ = 0 THEN pos ELSE @]
  BY DEF Mark
<1> QED
  BY <1>1, <1>2

(* The next unit. *)
LEMMA EndsLoop ==
  ASSUME ParserInv, Frame, NEW p, ParserOK(p), p.http_errno = "OK", Fresh(p),
         NEW next \in pos .. arrived + 1, Move(p, next, "loop"),
         marks' \in [DataCalls -> 0..next], Fits(marks', p.state)
  PROVE  ParserInv'
<1>1. Places'
  BY DEF ParserInv, Places, Frame, Move
<1>2. ParserOK(parser)'
  BY DEF Move, ParserOK, Fresh
<1> QED
  BY <1>1, <1>2 DEF ParserInv, AtIdle, AtLoop, AtSwitch, Move, Fresh, Fits

(* A return, with or without an error. *)
LEMMA EndsIdle ==
  ASSUME ParserInv, Frame, NEW p, ParserOK(p), p.http_errno = "OK" => Fresh(p),
         NEW next \in 1 .. arrived + 1, Move(p, next, "idle"),
         marks' \in [DataCalls -> 0..next]
  PROVE  ParserInv'
<1>1. Places'
  BY DEF ParserInv, Places, Frame, Move
<1>2. ParserOK(parser)'
  BY DEF Move, ParserOK, Fresh
<1> QED
  BY <1>1, <1>2 DEF ParserInv, AtIdle, AtLoop, AtSwitch, Move, Fresh

(* Another pass. *)
LEMMA EndsSwitch ==
  ASSUME ParserInv, at = "switch", Frame, NEW p, ParserOK(p), p.http_errno = "OK",
         p.state # "s_chunk_size_start",
         NEW next \in pos .. arrived + 1, p.state \notin ScanStates => next <= arrived,
         Move(p, next, "switch"),
         \A on \in DataCalls : marks'[on] \in {0, marks[on]},
         marks' \in [DataCalls -> 0..pos], Fits(marks', p.state)
  PROVE  ParserInv'
<1>0. pos \in Nat /\ arrived \in Nat /\ start \in Nat /\ marks \in [DataCalls -> 0..pos]
  BY DEF ParserInv, Places
<1>1. Places'
  BY <1>0 DEF ParserInv, Places, Frame, Move
<1>2. ParserOK(parser)'
  BY DEF Move, ParserOK, Fresh
<1>3. AtSwitch'
  <2>1. start' <= pos' /\ start' <= arrived'
    BY <1>0 DEF ParserInv, AtSwitch, Frame, Move
  <2>2. ASSUME NEW on \in DataCalls PROVE marks'[on] <= start'
    BY <1>0, <2>2 DEF ParserInv, AtSwitch, Frame
  <2> QED
    BY <1>0, <2>1, <2>2 DEF ParserInv, AtSwitch, Move, Fits, Frame
<1> QED
  BY <1>1, <1>2, <1>3 DEF ParserInv, AtIdle, AtLoop, Move

-----------------------------------------------------------------------------
(* The commonest ways. *)

LEMMA Fails ==
  ASSUME ParserInv, Frame, NEW errno \in Errnos \ {"OK"}, Error(errno),
         marks' \in [DataCalls -> 0..pos]
  PROVE  ParserInv'
<1> DEFINE p == [parser EXCEPT !.http_errno = errno]
<1>1. ParserOK(p) /\ p.http_errno # "OK"
  BY DEF ParserInv, ParserOK, ParserRecords
<1>2. pos \in 1 .. arrived + 1
  BY DEF ParserInv, Places
<1>3. Move(p, pos, "idle")
  BY DEF Error
<1> HIDE DEF p
<1> QED
  BY <1>1, <1>2, <1>3, EndsIdle

LEMMA FailsQuietly ==
  ASSUME ParserInv, Frame, NEW errno \in Errnos \ {"OK"}, Error(errno), Quiet
  PROVE  ParserInv'
BY Fails DEF ParserInv, Places, Quiet

LEMMA Consumes ==
  ASSUME ParserInv, at = "switch", parser.state \notin ScanStates, Frame,
         NEW p, ParserOK(p), p.http_errno = "OK", Fresh(p), Consume(p),
         marks' \in [DataCalls -> 0..pos], Fits(marks', p.state)
  PROVE  ParserInv'
<1>1. pos \in Nat /\ arrived \in Nat /\ pos <= arrived
  BY DEF ParserInv, Places, AtSwitch
<1>2. pos + 1 \in pos .. arrived + 1
  BY <1>1
<1>3. marks' \in [DataCalls -> 0 .. pos + 1]
  BY <1>1
<1>4. Move(p, pos + 1, "loop")
  BY DEF Consume
<1> QED
  BY <1>2, <1>3, <1>4, EndsLoop

(* Outside of all texts. *)
LEMMA ConsumesOutside ==
  ASSUME ParserInv, at = "switch", parser.state \notin Inside, Frame, marks' = marks,
         NEW p, ParserOK(p), p.http_errno = "OK", Fresh(p), Consume(p)
  PROVE  ParserInv'
<1>1. Fits(marks', p.state)
  BY Unmarked DEF ParserInv, AtSwitch
<1>2. parser.state \notin ScanStates
  BY DEF Inside
<1>3. marks' \in [DataCalls -> 0..pos]
  BY DEF ParserInv, Places
<1> QED
  BY <1>1, <1>2, <1>3, Consumes

(* The states about which ParserOK says nothing. *)
PlainStates == States \ (ChunkStates \cup ScanStates \cup {"s_body_identity"})

LEMMA Goes ==
  ASSUME ParserInv, at = "switch", NEW state \in PlainStates
  PROVE  LET p == To(state) IN ParserOK(p) /\ p.http_errno = "OK" /\ Fresh(p)
BY DEF ParserInv, ParserOK, ParserRecords, To, PlainStates, ChunkStates, ScanStates, AtSwitch, Fresh

LEMMA Stays ==
  ASSUME ParserInv, at = "switch", parser.state # "s_chunk_size_start"
  PROVE  ParserOK(parser) /\ parser.http_errno = "OK" /\ Fresh(parser)
BY DEF ParserInv, AtSwitch, Fresh

LEMMA GoesOutside ==
  ASSUME ParserInv, at = "switch", parser.state \notin Inside, Frame, marks' = marks,
         NEW state \in PlainStates, Consume(To(state))
  PROVE  ParserInv'
<1> DEFINE p == To(state)
<1>1. ParserOK(p) /\ p.http_errno = "OK" /\ Fresh(p) /\ Consume(p)
  BY Goes
<1> HIDE DEF p
<1> QED
  BY <1>1, ConsumesOutside

LEMMA StaysOutside ==
  ASSUME ParserInv, at = "switch", parser.state \notin Inside, Frame, marks' = marks,
         parser.state # "s_chunk_size_start", Consume(parser)
  PROVE  ParserInv'
BY Stays, ConsumesOutside

LEMMA ExpectInv ==
  ASSUME ParserInv, Frame, NEW state, state \notin Inside, NEW u, NEW next \in PlainStates,
         NEW errno \in Errnos \ {"OK"}, Expect(state, u, next, errno)
  PROVE  ParserInv'
<1>1. at = "switch" /\ parser.state = state /\ Quiet
  BY DEF Expect, Turn
<1>2. CASE Consume(To(next))
  BY <1>1, <1>2, GoesOutside DEF Quiet
<1>3. CASE Error(errno)
  BY <1>1, <1>3, FailsQuietly
<1> QED
  BY <1>2, <1>3 DEF Expect

-----------------------------------------------------------------------------
(* The request line. *)

LEMMA DeadInv == ParserInv /\ Frame /\ PassDead => ParserInv'
<1> SUFFICES ASSUME ParserInv, Frame, PassDead PROVE ParserInv'
  OBVIOUS
<1>1. at = "switch" /\ parser.state = "s_dead" /\ Quiet
  BY DEF PassDead, Turn
<1>2. CASE Consume(parser)
  BY <1>1, <1>2, StaysOutside DEF Quiet, Inside, UrlStates, ServerStates, QueryStates, FragmentStates, ScanStates
<1>3. CASE Error("CLOSED_CONNECTION")
  BY <1>1, <1>3, FailsQuietly DEF Errnos
<1> QED
  BY <1>2, <1>3 DEF PassDead

LEMMA StartReqInv == ParserInv /\ Frame /\ PassStartReq => ParserInv'
<1> SUFFICES ASSUME ParserInv, Frame, PassStartReq PROVE ParserInv'
  OBVIOUS
<1>1. at = "switch" /\ parser.state = "s_start_req" /\ marks' = marks
  BY DEF PassStartReq, Turn, Quiet, Notify
<1>2. parser.state \notin Inside
  BY <1>1 DEF Inside, UrlStates, ServerStates, QueryStates, FragmentStates, ScanStates
<1>3. CASE Consume(parser)
  BY <1>1, <1>2, <1>3, StaysOutside
<1>4. CASE Quiet /\ Error("INVALID_METHOD")
  BY <1>4, FailsQuietly DEF Errnos
<1>5. CASE /\ U.w \in HTTP_METHODS
           /\ Consume([To("s_req_method") EXCEPT !.flags = {}, !.content_length = ULLONG_MAX,
                                                 !.method = U.w, !.index = 1])
  <2> DEFINE p == [To("s_req_method") EXCEPT !.flags = {}, !.content_length = ULLONG_MAX,
                                             !.method = U.w, !.index = 1]
  <2>1. /\ p \in ParserRecords
        /\ p.state = "s_req_method" /\ p.flags = {} /\ p.http_errno = "OK"
        /\ p.nread = parser.nread /\ parser.nread <= max_header_size
    <3>1. ULLONG_MAX \in 0..ULLONG_MAX /\ {} \in SUBSET Flags
      BY SizesOK
    <3> QED
      BY <1>1, <1>5, <3>1 DEF ParserInv, AtSwitch, ParserOK, ParserRecords, To, States
  <2> HIDE DEF p
  <2>2. ParserOK(p) /\ Fresh(p)
    BY <2>1 DEF ParserOK, ChunkStates, Fresh
  <2> QED
    BY <1>1, <1>2, <1>5, <2>1, <2>2, ConsumesOutside DEF p
<1> QED
  BY <1>3, <1>4, <1>5 DEF PassStartReq

LEMMA MethodInv == ParserInv /\ Frame /\ PassMethod => ParserInv'
<1> SUFFICES ASSUME ParserInv, Frame, PassMethod PROVE ParserInv'
  OBVIOUS
<1>1. at = "switch" /\ parser.state = "s_req_method" /\ Quiet
  BY DEF PassMethod, Turn
<1>2. parser.state \notin Inside
  BY <1>1 DEF Inside, UrlStates, ServerStates, QueryStates, FragmentStates, ScanStates
<1>3. CASE Consume(To("s_req_spaces_before_url"))
  BY <1>1, <1>2, <1>3, GoesOutside DEF Quiet, PlainStates, States, ChunkStates, ScanStates
<1>4. CASE Consume([parser EXCEPT !.index = 2])
  <2> DEFINE p == [parser EXCEPT !.index = 2]
  <2>1. ParserOK(p) /\ p.http_errno = "OK" /\ Fresh(p)
    BY <1>1 DEF ParserInv, AtSwitch, ParserOK, ParserRecords, ChunkStates, Fresh
  <2> HIDE DEF p
  <2> QED
    BY <1>1, <1>2, <1>4, <2>1, ConsumesOutside DEF p, Quiet
<1>5. CASE Error("INVALID_METHOD")
  BY <1>1, <1>5, FailsQuietly DEF Errnos
<1> QED
  BY <1>3, <1>4, <1>5 DEF PassMethod

(* A step inside the url. *)
LEMMA UrlGoes ==
  ASSUME ParserInv, at = "switch", parser.state \notin ScanStates, Frame, NEW next \in UrlStates,
         marks' \in [DataCalls -> 0..pos], \A x \in DataCalls \ {"url"} : marks'[x] = 0,
         Consume(To(next))
  PROVE  ParserInv'
<1> DEFINE p == To(next)
<1>1. next \in PlainStates
  BY DEF PlainStates, States, ChunkStates, ScanStates, UrlStates, ServerStates, QueryStates, FragmentStates
<1>2. ParserOK(p) /\ p.http_errno = "OK" /\ Fresh(p)
  BY <1>1, Goes
<1>3. p.state = next
  BY DEF To, ParserInv, ParserOK, ParserRecords
<1>4. Fits(marks', p.state)
  BY <1>3 DEF Fits, DataCalls
<1> HIDE DEF p
<1> QED
  BY <1>2, <1>4, Consumes DEF p

LEMMA SpacesBeforeUrlInv == ParserInv /\ Frame /\ PassSpacesBeforeUrl => ParserInv'
<1> SUFFICES ASSUME ParserInv, Frame, PassSpacesBeforeUrl PROVE ParserInv'
  OBVIOUS
<1>1. at = "switch" /\ parser.state = "s_req_spaces_before_url"
  BY DEF PassSpacesBeforeUrl, Turn
<1>2. parser.state \notin Inside
  BY <1>1 DEF Inside, UrlStates, ServerStates, QueryStates, FragmentStates, ScanStates
<1>3. CASE U = SP
  BY <1>1, <1>2, <1>3, StaysOutside DEF Quiet, PassSpacesBeforeUrl
<1>4. CASE U # SP
  <2> DEFINE from == IF parser.method = "CONNECT" THEN "s_req_server_start"
                     ELSE "s_req_spaces_before_url"
             next == ParseUrlChar(from, U)
  <2>1. next \in UrlStates \cup {"s_dead"}
    <3>1. from = "s_req_spaces_before_url" \/ from \in UrlStates
      BY DEF UrlStates, ServerStates
    <3> QED
      BY <3>1, UrlStep
  <2>2. /\ marks' \in [DataCalls -> 0..pos]
        /\ \A x \in DataCalls \ {"url"} : marks'[x] = marks[x]
    <3>1. Mark("url")
      BY <1>4 DEF PassSpacesBeforeUrl
    <3> QED
      BY <3>1, MarkMarks DEF ParserInv, DataCalls
  <2>3. \A x \in DataCalls : marks[x] = 0
    BY <1>1 DEF ParserInv, AtSwitch, Fits, UrlStates, ServerStates, QueryStates, FragmentStates, DataCalls
  <2>4. Error("INVALID_URL") \/ (next # "s_dead" /\ Consume(To(next)))
    BY <1>4 DEF PassSpacesBeforeUrl
  <2> HIDE DEF next
  <2>5. CASE Error("INVALID_URL")
    BY <2>2, <2>5, Fails DEF Errnos
  <2>6. CASE next # "s_dead" /\ Consume(To(next))
    BY <1>1, <2>1, <2>2, <2>3, <2>6, UrlGoes DEF ScanStates
  <2> QED
    BY <2>4, <2>5, <2>6
<1> QED
  BY <1>3, <1>4

LEMMA UrlInv == ParserInv /\ Frame /\ PassUrl => ParserInv'
<1> SUFFICES ASSUME ParserInv, Frame, PassUrl PROVE ParserInv'
  OBVIOUS
<1>1. at = "switch" /\ parser.state \in UrlStates
  BY DEF PassUrl
<1>2. parser.state \notin ScanStates /\ Fits(marks, parser.state)
  BY <1>1 DEF ParserInv, AtSwitch, UrlStates, ServerStates, QueryStates, FragmentStates, ScanStates
<1>3. \A x \in DataCalls \ {"url"} : marks[x] = 0
  BY <1>1, <1>2 DEF Fits, UrlStates, ServerStates, QueryStates, FragmentStates, DataCalls
<1>4. CASE U \in {SP, CR, LF} /\ UrlMayEnd
  <2>0. /\ Data("url", pos)
        /\ \/ Consume(To("s_req_http_start"))
           \/ \E state \in {"s_req_line_almost_done", "s_header_field_start"} :
                Consume([To(state) EXCEPT !.http_major = 0, !.http_minor = 9])
    BY <1>4 DEF PassUrl
  <2>1. marks' \in [DataCalls -> 0..pos] /\ \A x \in DataCalls : marks'[x] = 0
    BY <1>2, <1>3, <2>0, DataMarks DEF ParserInv, DataCalls
  <2>2. ASSUME NEW p, ParserOK(p), p.http_errno = "OK", Fresh(p), Consume(p) PROVE ParserInv'
    <3>1. Fits(marks', p.state)
      BY <2>1 DEF Fits, DataCalls
    <3> QED
      BY <1>1, <1>2, <2>1, <2>2, <3>1, Consumes
  <2>3. "s_req_http_start" \in PlainStates
    BY DEF PlainStates, States, ChunkStates, ScanStates
  <2>4. CASE Consume(To("s_req_http_start"))
    BY <1>1, <2>2, <2>3, <2>4, Goes
  <2>5. ASSUME NEW state \in {"s_req_line_almost_done", "s_header_field_start"}
        PROVE  LET p == [To(state) EXCEPT !.http_major = 0, !.http_minor = 9]
               IN  ParserOK(p) /\ p.http_errno = "OK" /\ Fresh(p)
    BY <1>1 DEF ParserInv, AtSwitch, ParserOK, ParserRecords, To, ChunkStates, Fresh, States
  <2> QED
    BY <2>0, <2>2, <2>4, <2>5
<1>5. CASE ~(U \in {SP, CR, LF} /\ UrlMayEnd)
  <2>0. Quiet
    BY <1>5 DEF PassUrl
  <2>1. marks' = marks /\ marks \in [DataCalls -> 0..pos]
    BY <2>0 DEF Quiet, ParserInv, Places
  <2>2. CASE Error("INVALID_URL")
    BY <2>0, <2>2, FailsQuietly DEF Errnos
  <2>3. ASSUME NEW next, next = ParseUrlChar(parser.state, U), next # "s_dead", Consume(To(next))
        PROVE  ParserInv'
    <3>1. next \in UrlStates
      BY <1>1, <2>3, UrlStep
    <3> QED
      BY <1>1, <1>2, <1>3, <2>1, <2>3, <3>1, UrlGoes
  <2> QED
    BY <1>5, <2>2, <2>3 DEF PassUrl
<1> QED
  BY <1>4, <1>5

LEMMA HttpStartInv == ParserInv /\ Frame /\ PassHttpStart => ParserInv'
<1> SUFFICES ASSUME ParserInv, Frame, PassHttpStart PROVE ParserInv'
  OBVIOUS
<1>1. at = "switch" /\ parser.state = "s_req_http_start" /\ Quiet
  BY DEF PassHttpStart, Turn
<1>2. parser.state \notin Inside
  BY <1>1 DEF Inside, UrlStates, ServerStates, QueryStates, FragmentStates, ScanStates
<1>3. CASE Consume(parser)
  BY <1>1, <1>2, <1>3, StaysOutside DEF Quiet
<1>4. ASSUME NEW state \in {"s_req_http_H", "s_req_http_I"}, Consume(To(state)) PROVE ParserInv'
  BY <1>1, <1>2, <1>4, GoesOutside DEF Quiet, PlainStates, States, ChunkStates, ScanStates
<1>5. CASE Error("INVALID_CONSTANT")
  BY <1>1, <1>5, FailsQuietly DEF Errnos
<1> QED
  BY <1>3, <1>4, <1>5 DEF PassHttpStart

LEMMA VersionNumberInv ==
  ASSUME ParserInv, Frame, NEW state, state \notin Inside, NEW field \in {"http_major", "http_minor"},
         NEW next \in PlainStates, PassVersionNumber(state, field, next)
  PROVE  ParserInv'
<1>1. at = "switch" /\ parser.state = state /\ Quiet
  BY DEF PassVersionNumber, Turn
<1>2. CASE IsNum(U) /\ Consume([To(next) EXCEPT ![field] = Digits[U.w]])
  <2> DEFINE p == [To(next) EXCEPT ![field] = Digits[U.w]]
  <2>1. ParserOK(To(next)) /\ To(next).http_errno = "OK" /\ Fresh(To(next))
    BY <1>1, Goes
  <2>2. Digits[U.w] \in Nat
    BY <1>2, DigitOf
  <2>3. ASSUME NEW q, ParserOK(q), Fresh(q), q.http_errno = "OK", NEW n \in Nat
        PROVE  LET r == [q EXCEPT ![field] = n]
               IN  ParserOK(r) /\ Fresh(r) /\ r.http_errno = "OK"
    BY <2>3 DEF ParserOK, ParserRecords, Fresh
  <2>4. ParserOK(p) /\ Fresh(p) /\ p.http_errno = "OK"
    BY <2>1, <2>2, <2>3
  <2> HIDE DEF p
  <2> QED
    BY <1>1, <1>2, <2>4, ConsumesOutside DEF p, Quiet
<1>3. CASE Error("INVALID_VERSION")
  BY <1>1, <1>3, FailsQuietly DEF Errnos
<1> QED
  BY <1>2, <1>3 DEF PassVersionNumber

LEMMA VersionInv == ParserInv /\ Frame /\ PassVersion => ParserInv'
<1> SUFFICES ASSUME ParserInv, Frame, PassVersion PROVE ParserInv'
  OBVIOUS
<1>1. \A state \in {"s_req_http_H", "s_req_http_I", "s_req_http_HTTP", "s_req_http_major",
                     "s_req_http_dot", "s_req_http_minor"} : state \notin Inside
  BY DEF Inside, UrlStates, ServerStates, QueryStates, FragmentStates, ScanStates
<1>2. /\ "s_req_http_HTTP" \in PlainStates /\ "s_req_http_major" \in PlainStates
      /\ "s_req_http_dot" \in PlainStates /\ "s_req_http_minor" \in PlainStates
      /\ "s_req_http_end" \in PlainStates
  BY DEF PlainStates, States, ChunkStates, ScanStates
<1>3. "STRICT" \in Errnos \ {"OK"} /\ "INVALID_VERSION" \in Errnos \ {"OK"}
  BY DEF Errnos
<1> QED
  BY <1>1, <1>2, <1>3, ExpectInv, VersionNumberInv DEF PassVersion

LEMMA HttpEndInv == ParserInv /\ Frame /\ PassHttpEnd => ParserInv'
<1> SUFFICES ASSUME ParserInv, Frame, PassHttpEnd PROVE ParserInv'
  OBVIOUS
<1>1. at = "switch" /\ parser.state = "s_req_http_end" /\ Quiet
  BY DEF PassHttpEnd, Turn
<1>2. parser.state \notin Inside
  BY <1>1 DEF Inside, UrlStates, ServerStates, QueryStates, FragmentStates, ScanStates
<1>3. ASSUME NEW state \in {"s_req_line_almost_done", "s_header_field_start"}, Consume(To(state))
      PROVE  ParserInv'
  BY <1>1, <1>2, <1>3, GoesOutside DEF Quiet, PlainStates, States, ChunkStates, ScanStates
<1>4. CASE Error("INVALID_VERSION")
  BY <1>1, <1>4, FailsQuietly DEF Errnos
<1> QED
  BY <1>3, <1>4 DEF PassHttpEnd

LEMMA LineAlmostDoneInv == ParserInv /\ Frame /\ PassLineAlmostDone => ParserInv'
<1>1. "s_req_line_almost_done" \notin Inside
  BY DEF Inside, UrlStates, ServerStates, QueryStates, FragmentStates, ScanStates
<1>2. "s_header_field_start" \in PlainStates /\ "LF_EXPECTED" \in Errnos \ {"OK"}
  BY DEF PlainStates, States, ChunkStates, ScanStates, Errnos
<1> QED
  BY <1>1, <1>2, ExpectInv DEF PassLineAlmostDone

LEMMA RequestLineInv == ParserInv /\ Frame /\ RequestLine => ParserInv'
BY DeadInv, StartReqInv, MethodInv, SpacesBeforeUrlInv, UrlInv, HttpStartInv, VersionInv,
   HttpEndInv, LineAlmostDoneInv
DEF RequestLine

-----------------------------------------------------------------------------
(* Headers. *)

LEMMA HeaderStateNames ==
  /\ General \in HeaderStates /\ TokenStart \in HeaderStates /\ Token \in HeaderStates
  /\ LengthNum \in HeaderStates /\ LengthWs \in HeaderStates
  /\ \A word \in SpecialNames : HS("h_matching", word) \in HeaderStates /\ HS("h_name", word) \in HeaderStates
  /\ \A word \in DOMAIN FlagOf :
       HS("h_matching_value", word) \in HeaderStates /\ HS("h_value", word) \in HeaderStates
BY DEF HeaderStates

LEMMA HeaderStateFields ==
  /\ \A phase, word : HS(phase, word).phase = phase /\ HS(phase, word).word = word
  /\ General.phase = "h_general" /\ TokenStart.phase = "h_matching_connection_token_start"
  /\ Token.phase = "h_matching_connection_token"
  /\ LengthNum.phase = "h_content_length_num" /\ LengthWs.phase = "h_content_length_ws"
BY DEF HS, General, TokenStart, Token, LengthNum, LengthWs

LEMMA HeaderStateWords ==
  ASSUME NEW hs \in HeaderStates
  PROVE  /\ hs.phase \in {"h_matching", "h_name"} => hs.word \in SpecialNames
         /\ hs.phase \in {"h_matching_value", "h_value"} => hs.word \in DOMAIN FlagOf
<1>1. CASE hs \in {General, TokenStart, Token, LengthNum, LengthWs}
  BY <1>1, HeaderStateFields
<1>2. CASE \E phase \in {"h_matching", "h_name"}, word \in SpecialNames : hs = HS(phase, word)
  BY <1>2, HeaderStateFields
<1>3. CASE \E phase \in {"h_matching_value", "h_value"}, word \in DOMAIN FlagOf : hs = HS(phase, word)
  BY <1>3, HeaderStateFields
<1> QED
  BY <1>1, <1>2, <1>3 DEF HeaderStates

LEMMA AgainOutside ==
  ASSUME ParserInv, at = "switch", parser.state \notin Inside, Frame, marks' = marks,
         NEW p, ParserOK(p), p.http_errno = "OK", p.state \notin ScanStates,
         p.state # "s_chunk_size_start", Again(p)
  PROVE  ParserInv'
<1>1. Fits(marks', p.state)
  BY Unmarked DEF ParserInv, AtSwitch
<1>2. marks' \in [DataCalls -> 0..pos] /\ \A on \in DataCalls : marks'[on] \in {0, marks[on]}
  BY DEF ParserInv, Places
<1>3. pos \in pos .. arrived + 1 /\ pos <= arrived
  BY DEF ParserInv, Places, AtSwitch, Inside
<1>4. Move(p, pos, "switch")
  BY DEF Again
<1> QED
  BY <1>1, <1>2, <1>3, <1>4, EndsSwitch

LEMMA AgainGoes ==
  ASSUME ParserInv, at = "switch", parser.state \notin Inside, Frame, marks' = marks,
         NEW state \in PlainStates, Again(To(state))
  PROVE  ParserInv'
<1> DEFINE p == To(state)
<1>1. ParserOK(p) /\ p.http_errno = "OK"
  BY Goes
<1>2. p.state = state
  BY DEF To, ParserInv, ParserOK, ParserRecords
<1>3. p.state \notin ScanStates /\ p.state # "s_chunk_size_start"
  BY <1>2 DEF PlainStates, ChunkStates
<1>4. Again(p)
  OBVIOUS
<1> HIDE DEF p
<1> QED
  BY <1>1, <1>3, <1>4, AgainOutside

LEMMA HeaderFieldStartInv == ParserInv /\ Frame /\ PassHeaderFieldStart => ParserInv'
<1> SUFFICES ASSUME ParserInv, Frame, PassHeaderFieldStart PROVE ParserInv'
  OBVIOUS
<1>1. at = "switch" /\ parser.state = "s_header_field_start"
  BY DEF PassHeaderFieldStart, Turn
<1>2. parser.state \notin Inside
  BY <1>1 DEF Inside, UrlStates, ServerStates, QueryStates, FragmentStates, ScanStates
<1>3. "s_headers_almost_done" \in PlainStates
  BY DEF PlainStates, States, ChunkStates, ScanStates
<1>4. CASE Quiet /\ Consume(To("s_headers_almost_done"))
  BY <1>1, <1>2, <1>3, <1>4, GoesOutside DEF Quiet
<1>5. CASE Quiet /\ Again(To("s_headers_almost_done"))
  BY <1>1, <1>2, <1>3, <1>5, AgainGoes DEF Quiet
<1>6. CASE Quiet /\ Error("INVALID_HEADER_TOKEN")
  BY <1>6, FailsQuietly DEF Errnos
<1> DEFINE hs == IF U.h = 1 /\ Lower(U.w) \in SpecialNames THEN HS("h_matching", Lower(U.w)) ELSE General
           p == [To("s_header_field") EXCEPT !.header_state = hs]
<1>7. CASE Mark("header_field") /\ Consume(p)
  <2>1. hs \in HeaderStates /\ hs.phase \in {"h_general", "h_matching"}
    BY HeaderStateNames, HeaderStateFields
  <2> HIDE DEF hs
  <2>2. ParserOK(p) /\ p.http_errno = "OK" /\ Fresh(p) /\ p.state = "s_header_field"
    BY <1>1, <2>1
    DEF ParserInv, AtSwitch, ParserOK, ParserRecords, To, ChunkStates, Fresh, States
  <2>3. /\ marks' \in [DataCalls -> 0..pos]
        /\ \A x \in DataCalls \ {"header_field"} : marks'[x] = marks[x]
    BY <1>7, MarkMarks DEF ParserInv, DataCalls
  <2>4. \A x \in DataCalls : marks[x] = 0
    BY <1>1 DEF ParserInv, AtSwitch, Fits, UrlStates, ServerStates, QueryStates, FragmentStates, DataCalls
  <2>5. Fits(marks', p.state)
    BY <2>2, <2>3, <2>4 DEF Fits, DataCalls
  <2>6. parser.state \notin ScanStates
    BY <1>1 DEF ScanStates
  <2> HIDE DEF p
  <2> QED
    BY <1>1, <1>7, <2>2, <2>3, <2>5, <2>6, Consumes
<1> QED
  BY <1>4, <1>5, <1>6, <1>7 DEF PassHeaderFieldStart

(* COUNT_HEADER_SIZE behind an inner loop. *)
LEMMA Counts ==
  ASSUME ParserInv, at = "switch", Frame, NEW p, ParserOK(p), p.http_errno = "OK",
         p.state # "s_chunk_size_start",
         NEW end \in Nat, start <= end, end <= pos, NEW next \in pos .. arrived + 1,
         NEW where, CountThen(p, end, next, where),
         \/ where = "loop"
         \/ /\ where = "switch" /\ p.state \notin ScanStates /\ next <= arrived
            /\ \A on \in DataCalls : marks'[on] \in {0, marks[on]},
         marks' \in [DataCalls -> 0..end],
         Counted(end) <= max_header_size => Fits(marks', p.state)
  PROVE  ParserInv'
<1>1. pos \in Nat /\ arrived \in Nat /\ start \in Nat \ {0} /\ parser.nread \in Nat /\ pos <= arrived + 1
  BY LengthType DEF ParserInv, Places
<1>2. Counted(end) \in Nat
  BY <1>1 DEF Counted
<1>3. CASE Move([p EXCEPT !.http_errno = "HEADER_OVERFLOW"], end, "idle")
  <2> DEFINE q == [p EXCEPT !.http_errno = "HEADER_OVERFLOW"]
  <2>1. ParserOK(q) /\ q.http_errno # "OK"
    BY DEF ParserOK, ParserRecords, Errnos
  <2>2. end \in 1 .. arrived + 1
    BY <1>1
  <2> HIDE DEF q
  <2> QED
    BY <1>3, <2>1, <2>2, EndsIdle DEF q
<1>4. CASE /\ Counted(end) <= max_header_size
           /\ Move([p EXCEPT !.nread = Counted(end)], next, where)
  <2> DEFINE q == [p EXCEPT !.nread = Counted(end)]
  <2>1. ParserOK(q) /\ q.http_errno = "OK" /\ Fresh(q) /\ q.state = p.state
    BY <1>2, <1>4 DEF ParserOK, ParserRecords, Fresh
  <2>2. marks' \in [DataCalls -> 0..next] /\ marks' \in [DataCalls -> 0..pos]
    <3>1. \A n \in 0..end : n \in 0..next /\ n \in 0..pos
      BY <1>1
    <3> QED
      BY <3>1
  <2>3. Fits(marks', q.state)
    BY <1>4, <2>1
  <2> HIDE DEF q
  <2>4. CASE where = "loop"
    BY <1>4, <2>1, <2>2, <2>3, <2>4, EndsLoop DEF q
  <2>5. CASE where = "switch"
    BY <1>4, <2>1, <2>2, <2>3, <2>5, EndsSwitch DEF q
  <2> QED
    BY <2>4, <2>5
<1> QED
  BY <1>3, <1>4 DEF CountThen

(* A step of an inner loop. *)
LEMMA Scans ==
  ASSUME ParserInv, at = "switch", Frame, Quiet, pos <= arrived, NEW p, ParserOK(p),
         p.http_errno = "OK", p.state \in ScanStates, p.state = parser.state, Scan(p)
  PROVE  ParserInv'
<1>1. pos \in Nat /\ arrived \in Nat
  BY DEF ParserInv, Places
<1>2. pos + 1 \in pos .. arrived + 1
  BY <1>1
<1>3. Fits(marks', p.state)
  BY DEF ParserInv, AtSwitch, Quiet
<1>4. marks' \in [DataCalls -> 0..pos] /\ \A on \in DataCalls : marks'[on] \in {0, marks[on]}
  BY DEF ParserInv, Places, Quiet
<1>5. Move(p, pos + 1, "switch") /\ p.state # "s_chunk_size_start"
  BY DEF Scan, ScanStates
<1> QED
  BY <1>2, <1>3, <1>4, <1>5, EndsSwitch

(* The end of the chunk inside a text. *)
LEMMA ScanEnds ==
  ASSUME ParserInv, at = "switch", Frame, Quiet, parser.state \in ScanStates, pos > arrived,
         CountThen(parser, pos - 1, pos, "loop")
  PROVE  ParserInv'
<1>1. pos \in Nat /\ arrived \in Nat /\ start \in Nat \ {0} /\ pos <= arrived + 1 /\ start <= arrived
  BY DEF ParserInv, Places, AtSwitch
<1>2. pos - 1 \in Nat /\ start <= pos - 1 /\ pos - 1 <= pos /\ pos \in pos .. arrived + 1
  BY <1>1
<1>3. marks' \in [DataCalls -> 0 .. pos - 1]
  <2>1. marks \in [DataCalls -> 0..pos] /\ \A on \in DataCalls : marks[on] <= start
    BY DEF ParserInv, Places, AtSwitch
  <2>2. ASSUME NEW on \in DataCalls PROVE marks[on] \in 0 .. pos - 1
    BY <1>1, <1>2, <2>1
  <2> QED
    BY <2>1, <2>2 DEF Quiet
<1>4. Fits(marks', parser.state) /\ parser.http_errno = "OK" /\ ParserOK(parser)
  BY DEF ParserInv, AtSwitch, Quiet
<1>5. parser.state # "s_chunk_size_start"
  BY DEF ScanStates
<1> QED
  BY <1>2, <1>3, <1>4, <1>5, Counts

(* The end of the text. *)
LEMMA ScanDone ==
  ASSUME ParserInv, at = "switch", Frame, pos <= arrived,
         NEW on \in {"header_field", "header_value"}, Data(on, pos) \/ (Quiet /\ Counted(pos) > max_header_size),
         \A x \in DataCalls \ {on} : marks[x] = 0,
         NEW state \in PlainStates, NEW next \in {pos, pos + 1}, NEW where,
         \/ where = "loop" \/ (where = "switch" /\ next = pos),
         CountThen(To(state), pos, next, where)
  PROVE  ParserInv'
<1> DEFINE p == To(state)
<1>1. pos \in Nat /\ arrived \in Nat /\ start \in Nat \ {0} /\ start <= pos
      /\ marks \in [DataCalls -> 0..pos] /\ parser.nread \in Nat
  BY LengthType DEF ParserInv, Places, AtSwitch
<1>2. next \in pos .. arrived + 1 /\ (next = pos => next <= arrived)
  BY <1>1
<1>3. /\ marks' \in [DataCalls -> 0..pos]
      /\ \A x \in DataCalls : marks'[x] \in {0, marks[x]}
      /\ Counted(pos) <= max_header_size => \A x \in DataCalls : marks'[x] = 0
  <2>1. CASE Data(on, pos)
    <3>1. on \in DataCalls /\ Places /\ Fits(marks, parser.state)
      BY DEF DataCalls, ParserInv, AtSwitch
    <3> QED
      BY <2>1, <3>1, DataMarks
  <2>2. CASE Quiet /\ Counted(pos) > max_header_size
    <3>1. Counted(pos) \in Nat
      BY <1>1 DEF Counted
    <3> QED
      BY <1>1, <2>2, <3>1, SizesOK DEF Quiet
  <2> QED
    BY <2>1, <2>2
<1>4. ParserOK(p) /\ p.http_errno = "OK" /\ p.state = state
  BY Goes DEF To, ParserInv, ParserOK, ParserRecords
<1>5. Counted(pos) <= max_header_size => Fits(marks', p.state)
  BY <1>3 DEF Fits, DataCalls
<1>6. p.state \notin ScanStates /\ p.state # "s_chunk_size_start"
  BY <1>4 DEF PlainStates, ChunkStates
<1>7. CountThen(p, pos, next, where)
  OBVIOUS
<1> HIDE DEF p
<1> QED
  BY <1>1, <1>2, <1>3, <1>4, <1>5, <1>6, <1>7, Counts

LEMMA NameState ==
  ASSUME NEW hs \in HeaderStates, NEW u
  PROVE  Name(hs, u) \in HeaderStates /\ Name(hs, u).phase \in {"h_general", "h_name"}
<1>1. "connection" \in SpecialNames
  BY DEF SpecialNames
<1> QED
  BY <1>1, HeaderStateNames, HeaderStateFields, HeaderStateWords DEF Name

LEMMA HeaderFieldInv == ParserInv /\ Frame /\ PassHeaderField => ParserInv'
<1> SUFFICES ASSUME ParserInv, Frame, PassHeaderField PROVE ParserInv'
  OBVIOUS
<1>1. at = "switch" /\ parser.state = "s_header_field"
  BY DEF PassHeaderField, Turn
<1>2. parser.state \in ScanStates
  BY <1>1 DEF ScanStates
<1> DEFINE p == [parser EXCEPT !.header_state = Name(@, U)]
<1>3. CASE pos <= arrived /\ Quiet /\ Scan(p)
  <2> DEFINE hs == Name(parser.header_state, U)
  <2>1. hs \in HeaderStates /\ hs.phase \in {"h_general", "h_name"}
    BY NameState DEF ParserInv, ParserOK, ParserRecords
  <2> HIDE DEF hs
  <2>2. p = [parser EXCEPT !.header_state = hs]
    BY DEF hs
  <2>3. ParserOK(p) /\ p.http_errno = "OK" /\ p.state = parser.state
    BY <1>1, <2>1, <2>2 DEF ParserInv, AtSwitch, ParserOK, ParserRecords, ChunkStates
  <2> HIDE DEF p
  <2> QED
    BY <1>1, <1>2, <1>3, <2>3, Scans
<1>4. CASE /\ pos <= arrived
           /\ IF Counted(pos) > max_header_size THEN Quiet ELSE Data("header_field", pos)
           /\ CountThen(To("s_header_value_discard_ws"), pos, pos + 1, "loop")
  <2>1. \A x \in DataCalls \ {"header_field"} : marks[x] = 0
    BY <1>1 DEF ParserInv, AtSwitch, Fits, UrlStates, ServerStates, QueryStates, FragmentStates, DataCalls
  <2>2. "s_header_value_discard_ws" \in PlainStates
    BY DEF PlainStates, States, ChunkStates, ScanStates
  <2> QED
    BY <1>1, <1>4, <2>1, <2>2, ScanDone
<1>5. CASE Quiet /\ Error(IF Counted(pos) > max_header_size THEN "HEADER_OVERFLOW" ELSE "INVALID_HEADER_TOKEN")
  BY <1>5, FailsQuietly DEF Errnos
<1>6. CASE pos > arrived /\ Quiet /\ CountThen(parser, pos - 1, pos, "loop")
  BY <1>1, <1>2, <1>6, ScanEnds
<1> QED
  BY <1>3, <1>4, <1>5, <1>6 DEF PassHeaderField

(* The header states that the loop over a value may be in. *)
ValueStates == HeaderStates \ {HS("h_name", "connection"), HS("h_name", "transfer-encoding")}

LEMMA ValueOK ==
  ASSUME ParserInv, at = "switch", NEW p \in ParserRecords, p.state = "s_header_value",
         p.header_state \in ValueStates, p.nread = parser.nread,
         "F_CONTENTLENGTH" \in p.flags => p.content_length < ULLONG_MAX
  PROVE  ParserOK(p) /\ Fresh(p)
BY DEF ParserInv, AtSwitch, ParserOK, Fresh, ChunkStates, ValueStates

(* The first unit of a value. *)
LEMMA ValueBegins ==
  ASSUME ParserInv, at = "switch", parser.state \in {"s_header_value_discard_ws", "s_header_value_start"},
         Frame, Mark("header_value"), NEW flags \in SUBSET Flags, NEW length \in 0..ULLONG_MAX,
         NEW hs \in ValueStates, "F_CONTENTLENGTH" \in flags => length < ULLONG_MAX,
         NEW p, p \in ParserRecords, p.state = "s_header_value", p.flags = flags, p.content_length = length,
         p.header_state = hs, p.nread = parser.nread, p.http_errno = parser.http_errno, Consume(p)
  PROVE  ParserInv'
<1>1. ParserOK(p) /\ Fresh(p) /\ p.http_errno = "OK"
  BY ValueOK DEF ParserInv, AtSwitch
<1>2. /\ marks' \in [DataCalls -> 0..pos]
      /\ \A x \in DataCalls \ {"header_value"} : marks'[x] = marks[x]
  BY MarkMarks DEF ParserInv, DataCalls
<1>3. \A x \in DataCalls : marks[x] = 0
  BY DEF ParserInv, AtSwitch, Fits, UrlStates, ServerStates, QueryStates, FragmentStates, DataCalls
<1>4. Fits(marks', p.state) /\ parser.state \notin ScanStates
  BY <1>2, <1>3 DEF Fits, DataCalls, ScanStates
<1> QED
  BY <1>1, <1>2, <1>4, Consumes

LEMMA StartValueInv ==
  ASSUME ParserInv, at = "switch", parser.state \in {"s_header_value_discard_ws", "s_header_value_start"},
         Frame, StartValue
  PROVE  ParserInv'
<1> DEFINE hs == parser.header_state
           value == To("s_header_value")
<1>1. Mark("header_value")
  BY DEF StartValue
<1>2. parser \in ParserRecords /\ value \in ParserRecords
      /\ ("F_CONTENTLENGTH" \in parser.flags => parser.content_length < ULLONG_MAX)
  BY DEF ParserInv, ParserOK, ParserRecords, To, States
<1>3. value = [parser EXCEPT !.state = "s_header_value"]
  BY DEF To
<1> HIDE DEF value
<1>4. General \in ValueStates /\ LengthNum \in ValueStates /\ Token \in ValueStates
      /\ LengthWs \in ValueStates /\ TokenStart \in ValueStates
      /\ \A word \in DOMAIN FlagOf : HS("h_matching_value", word) \in ValueStates
  <2>1. ASSUME NEW h \in HeaderStates, h.phase # "h_name" PROVE h \in ValueStates
    BY <2>1, HeaderStateFields DEF ValueStates
  <2> QED
    BY <2>1, HeaderStateNames, HeaderStateFields
<1>5. ASSUME NEW flags \in SUBSET (Flags \ {"F_CONTENTLENGTH"}), NEW h \in ValueStates,
             Consume([value EXCEPT !.flags = @ \cup flags, !.header_state = h])
      PROVE  ParserInv'
  <2> DEFINE p == [value EXCEPT !.flags = @ \cup flags, !.header_state = h]
  <2>1. h \in HeaderStates /\ parser.flags \cup flags \in SUBSET Flags /\ parser.content_length \in 0..ULLONG_MAX
    BY <1>2 DEF ValueStates, ParserRecords
  <2>2. /\ p \in ParserRecords /\ p.state = "s_header_value" /\ p.flags = parser.flags \cup flags
        /\ p.content_length = parser.content_length /\ p.header_state = h
        /\ p.nread = parser.nread /\ p.http_errno = parser.http_errno
    BY <1>2, <1>3, <2>1 DEF ParserRecords
  <2>3. "F_CONTENTLENGTH" \in parser.flags \cup flags => parser.content_length < ULLONG_MAX
    BY <1>2
  <2> HIDE DEF p
  <2> QED
    BY <1>1, <1>5, <2>1, <2>2, <2>3, ValueBegins DEF p
<1>6. ASSUME NEW h \in ValueStates, Consume([value EXCEPT !.header_state = h])
      PROVE  ParserInv'
  <2>1. [value EXCEPT !.header_state = h] = [value EXCEPT !.flags = @ \cup {}, !.header_state = h]
    BY <1>2 DEF ParserRecords
  <2> QED
    BY <1>5, <1>6, <2>1
<1>7. CASE Consume([value EXCEPT !.flags = @ \cup {"F_UPGRADE"}, !.header_state = General])
  BY <1>4, <1>5, <1>7 DEF Flags
<1>8. CASE Consume([value EXCEPT !.header_state =
                      IF IsHalf(U, "chunked", 1) THEN HS("h_matching_value", "chunked") ELSE General])
  BY <1>4, <1>6, <1>8, FlagOfToken
<1>9. CASE Error("INVALID_CONTENT_LENGTH") \/ Error("UNEXPECTED_CONTENT_LENGTH")
  <2>1. marks' \in [DataCalls -> 0..pos]
    BY <1>1, MarkMarks DEF ParserInv, DataCalls
  <2> QED
    BY <1>9, <2>1, Fails DEF Errnos
<1>10. CASE /\ IsNum(U)
            /\ Consume([value EXCEPT !.flags = @ \cup {"F_CONTENTLENGTH"},
                                     !.content_length = Digits[U.w], !.header_state = LengthNum])
  <2> DEFINE n == Digits[U.w]
             flags == parser.flags \cup {"F_CONTENTLENGTH"}
             p == [value EXCEPT !.flags = @ \cup {"F_CONTENTLENGTH"},
                                !.content_length = n, !.header_state = LengthNum]
  <2>1. n \in 0..ULLONG_MAX /\ n < ULLONG_MAX
    BY <1>10, DigitOf, SizesOK
  <2>2. LengthNum \in HeaderStates /\ flags \in SUBSET Flags
    BY <1>2, HeaderStateNames DEF ParserRecords, Flags
  <2> HIDE DEF n
  <2>3. /\ p \in ParserRecords /\ p.state = "s_header_value" /\ p.flags = flags
        /\ p.content_length = n /\ p.header_state = LengthNum
        /\ p.nread = parser.nread /\ p.http_errno = parser.http_errno
    BY <1>2, <1>3, <2>1, <2>2 DEF ParserRecords
  <2>4. Consume(p)
    BY <1>10 DEF n
  <2> HIDE DEF p, flags
  <2> QED
    BY <1>1, <1>4, <2>1, <2>2, <2>3, <2>4, ValueBegins
<1>11. CASE Consume([value EXCEPT !.header_state =
                       IF U.h = 1 /\ Lower(U.w) \in ConnectionTokens
                       THEN HS("h_matching_value", Lower(U.w)) ELSE Token])
  <2>1. ConnectionTokens \subseteq DOMAIN FlagOf
    BY FlagOfToken DEF ConnectionTokens
  <2> QED
    BY <1>4, <1>6, <1>11, <2>1
<1>12. CASE hs \in {LengthWs, TokenStart} /\ Consume(value)
  <2>1. [value EXCEPT !.header_state = hs] = value
    BY <1>2, <1>3 DEF ParserRecords
  <2> QED
    BY <1>4, <1>6, <1>12, <2>1
<1>13. CASE Consume([value EXCEPT !.header_state = General])
  BY <1>4, <1>6, <1>13
<1> QED
  BY <1>7, <1>8, <1>9, <1>10, <1>11, <1>12, <1>13 DEF StartValue, value

LEMMA DiscardWsInv == ParserInv /\ Frame /\ PassDiscardWs => ParserInv'
<1> SUFFICES ASSUME ParserInv, Frame, PassDiscardWs PROVE ParserInv'
  OBVIOUS
<1>1. at = "switch" /\ parser.state = "s_header_value_discard_ws"
  BY DEF PassDiscardWs, Turn
<1>2. parser.state \notin Inside
  BY <1>1 DEF Inside, UrlStates, ServerStates, QueryStates, FragmentStates, ScanStates
<1>3. CASE Quiet /\ Consume(parser)
  BY <1>1, <1>2, <1>3, StaysOutside DEF Quiet
<1>4. ASSUME NEW state \in {"s_header_value_discard_ws_almost_done", "s_header_value_discard_lws"},
             Quiet, Consume(To(state))
      PROVE  ParserInv'
  BY <1>1, <1>2, <1>4, GoesOutside DEF Quiet, PlainStates, States, ChunkStates, ScanStates
<1>5. CASE StartValue
  BY <1>1, <1>5, StartValueInv
<1> QED
  BY <1>3, <1>4, <1>5 DEF PassDiscardWs

LEMMA ValueStartInv == ParserInv /\ Frame /\ PassValueStart => ParserInv'
BY StartValueInv DEF PassValueStart, Turn

(* One more unit of a value. *)
LEMMA TokenUnitState ==
  ASSUME NEW u
  PROVE  TokenUnit(u) \in HeaderStates /\ TokenUnit(u).phase # "h_name"
<1> DEFINE matches == u.h = 1 /\ Lower(u.w) \in ConnectionTokens
<1>1. u = SP => ~IsToken(u) /\ ~matches
  BY DEF SP, Ch, IsToken, IsAlpha, IsNum, Digits
<1>2. CASE matches
  <2>1. TokenUnit(u) = HS("h_matching_value", Lower(u.w))
    BY <1>1, <1>2, Zenon DEF TokenUnit
  <2>2. Lower(u.w) \in DOMAIN FlagOf
    BY <1>2, FlagOfToken DEF ConnectionTokens
  <2> QED
    BY <2>1, <2>2, HeaderStateNames, HeaderStateFields
<1>3. CASE IsToken(u) /\ ~matches
  <2>1. TokenUnit(u) = Token
    BY <1>1, <1>3, Zenon DEF TokenUnit
  <2> QED
    BY <2>1, HeaderStateNames, HeaderStateFields
<1>4. CASE u = SP
  <2>1. TokenUnit(u) = TokenStart
    BY <1>1, <1>4, Zenon DEF TokenUnit
  <2> QED
    BY <2>1, HeaderStateNames, HeaderStateFields
<1>5. CASE ~IsToken(u) /\ ~matches /\ u # SP
  <2>1. TokenUnit(u) = General
    BY <1>5, Zenon DEF TokenUnit
  <2> QED
    BY <2>1, HeaderStateNames, HeaderStateFields
<1> QED
  BY <1>2, <1>3, <1>4, <1>5

LEMMA ValueUnitState ==
  ASSUME NEW hs \in HeaderStates, NEW u
  PROVE  ValueUnit(hs, u) \in HeaderStates /\ ValueUnit(hs, u).phase # "h_name"
<1> DEFINE next == ValueUnit(hs, u)
           plain == {General, Token, TokenStart, LengthNum, LengthWs}
           matching == hs.phase = "h_matching_value"
           word == hs.phase = "h_value"
<1>1. /\ ~(matching /\ word)
      /\ hs \in plain => ~matching /\ ~word
  BY HeaderStateFields
<1>2. TokenStart # Token /\ TokenStart # LengthNum /\ TokenStart # LengthWs
      /\ Token # LengthNum /\ Token # LengthWs /\ LengthNum # LengthWs
  BY HeaderStateFields
<1>3. \A x \in plain : x \in HeaderStates /\ x.phase # "h_name"
  BY HeaderStateNames, HeaderStateFields
<1>4. CASE matching
  <2>1. next = IF IsHalf(u, hs.word, 2) THEN HS("h_value", hs.word)
               ELSE IF hs.word = "chunked" THEN General ELSE Token
    BY <1>1, <1>4, Zenon DEF ValueUnit
  <2>2. HS("h_value", hs.word) \in HeaderStates /\ HS("h_value", hs.word).phase = "h_value"
    BY <1>4, HeaderStateNames, HeaderStateWords, HeaderStateFields
  <2> QED
    BY <1>3, <2>1, <2>2
<1>5. CASE word
  <2>1. CASE u = SP
    <3>1. next = hs
      BY <1>1, <1>5, <2>1, Zenon DEF ValueUnit
    <3> QED
      BY <1>5, <3>1
  <2>2. CASE u # SP /\ hs.word = "chunked"
    <3>1. next = General
      BY <1>1, <1>5, <2>2, Zenon DEF ValueUnit
    <3> QED
      BY <1>3, <3>1
  <2>3. CASE u # SP /\ hs.word # "chunked"
    <3>1. next = IF u = Ch(",") THEN TokenStart ELSE Token
      BY <1>1, <1>5, <2>3, Zenon DEF ValueUnit
    <3> QED
      BY <1>3, <3>1
  <2> QED
    BY <2>1, <2>2, <2>3
<1>6. CASE hs = TokenStart
  <2>1. next = TokenUnit(u)
    BY <1>1, <1>2, <1>6, Zenon DEF ValueUnit
  <2> QED
    BY <2>1, TokenUnitState
<1>7. CASE hs = Token
  <2>1. next = IF u = Ch(",") THEN TokenStart ELSE Token
    BY <1>1, <1>2, <1>7, Zenon DEF ValueUnit
  <2> QED
    BY <1>3, <2>1
<1>8. CASE hs = LengthNum
  <2>1. next = IF u = SP THEN LengthWs ELSE LengthNum
    BY <1>1, <1>2, <1>8, Zenon DEF ValueUnit
  <2> QED
    BY <1>3, <2>1
<1>9. CASE hs = LengthWs
  <2>1. next = LengthWs
    BY <1>1, <1>2, <1>9, Zenon DEF ValueUnit
  <2> QED
    BY <1>3, <2>1
<1>10. CASE ~matching /\ ~word /\ hs \notin {TokenStart, Token, LengthNum, LengthWs}
  <2>1. next = General
    BY <1>10, Zenon DEF ValueUnit
  <2> QED
    BY <1>3, <2>1
<1> QED
  BY <1>4, <1>5, <1>6, <1>7, <1>8, <1>9, <1>10

LEMMA EarnedFlags ==
  ASSUME NEW hs \in HeaderStates, hs.phase = "h_value"
  PROVE  FlagOf[hs.word] \in Flags \ {"F_CONTENTLENGTH"}
BY HeaderStateWords, FlagOfToken

LEMMA ScanValueInv ==
  ASSUME ParserInv, Frame, at = "switch", parser.state = "s_header_value", pos <= arrived, Quiet,
         ~BadDigit(U), ScanValue
  PROVE  ParserInv'
<1> DEFINE hs == parser.header_state
           more == ValueFlags(hs, U)
           next == ValueUnit(hs, U)
           length == IF hs = LengthNum /\ U # SP THEN AddDigit(parser.content_length, 10, Digits[U.w])
                     ELSE parser.content_length
           p == [parser EXCEPT !.header_state = next, !.flags = @ \cup more, !.content_length = length]
<1>1. /\ parser \in ParserRecords /\ hs \in HeaderStates /\ parser.content_length \in 0..ULLONG_MAX
      /\ parser.flags \in SUBSET Flags
      /\ "F_CONTENTLENGTH" \in parser.flags => parser.content_length < ULLONG_MAX
  BY DEF ParserInv, ParserOK, ParserRecords
<1>2. more \in SUBSET (Flags \ {"F_CONTENTLENGTH"})
  BY <1>1, EarnedFlags DEF ValueFlags
<1>3. next \in HeaderStates /\ next.phase # "h_name"
  BY <1>1, ValueUnitState
<1>4. /\ length \in 0..ULLONG_MAX
      /\ length < ULLONG_MAX \/ length = parser.content_length
  <2>1. CASE hs = LengthNum /\ U # SP
    <3>1. IsNum(U) /\ ~TooLong(parser.content_length, 10, 10)
      BY <2>1 DEF BadDigit
    <3>2. Digits[U.w] \in 0 .. 10 - 1 /\ parser.content_length \in Nat
      BY <3>1, DigitOf, LengthType
    <3> QED
      BY <2>1, <3>1, <3>2, DigitFits
  <2>2. CASE ~(hs = LengthNum /\ U # SP)
    BY <1>1, <2>2
  <2> QED
    BY <2>1, <2>2
<1>5. Scan(p)
  BY Zenon DEF ScanValue
<1> HIDE DEF more, next, length
<1>6. /\ p \in ParserRecords /\ p.state = "s_header_value" /\ p.header_state = next
      /\ p.nread = parser.nread /\ p.flags = parser.flags \cup more /\ p.content_length = length
      /\ p.http_errno = parser.http_errno
  <2>1. parser.flags \cup more \in SUBSET Flags
    BY <1>1, <1>2
  <2> QED
    BY <1>1, <1>3, <1>4, <2>1 DEF ParserRecords
<1> HIDE DEF p
<1>7. next \in ValueStates
  BY <1>3, HeaderStateFields DEF ValueStates
<1>8. "F_CONTENTLENGTH" \in p.flags => p.content_length < ULLONG_MAX
  BY <1>1, <1>2, <1>4, <1>6
<1>9. ParserOK(p) /\ p.http_errno = "OK"
  BY <1>6, <1>7, <1>8, ValueOK DEF ParserInv, AtSwitch
<1> QED
  BY <1>5, <1>6, <1>9, Scans DEF ScanStates

LEMMA HeaderValueInv == ParserInv /\ Frame /\ PassHeaderValue => ParserInv'
<1> SUFFICES ASSUME ParserInv, Frame, PassHeaderValue PROVE ParserInv'
  OBVIOUS
<1>1. at = "switch" /\ parser.state = "s_header_value"
  BY DEF PassHeaderValue, Turn
<1>2. parser.state \in ScanStates
  BY <1>1 DEF ScanStates
<1>3. \A x \in DataCalls \ {"header_value"} : marks[x] = 0
  BY <1>1 DEF ParserInv, AtSwitch, Fits, UrlStates, ServerStates, QueryStates, FragmentStates, DataCalls
<1>4. "s_header_almost_done" \in PlainStates
  BY DEF PlainStates, States, ChunkStates, ScanStates
<1>5. CASE /\ pos <= arrived /\ Data("header_value", pos)
           /\ CountThen(To("s_header_almost_done"), pos, pos + 1, "loop")
  BY <1>1, <1>3, <1>4, <1>5, ScanDone
<1>6. CASE /\ pos <= arrived
           /\ IF Counted(pos) > max_header_size THEN Quiet ELSE Data("header_value", pos)
           /\ CountThen(To("s_header_almost_done"), pos, pos, "switch")
  BY <1>1, <1>3, <1>4, <1>6, ScanDone
<1>7. CASE Quiet /\ (Error("INVALID_HEADER_TOKEN") \/ Error("INVALID_CONTENT_LENGTH"))
  BY <1>7, FailsQuietly DEF Errnos
<1>8. CASE pos <= arrived /\ Quiet /\ ~BadDigit(U) /\ ScanValue
  BY <1>1, <1>8, ScanValueInv
<1>9. CASE pos > arrived /\ Quiet /\ CountThen(parser, pos - 1, pos, "loop")
  BY <1>1, <1>2, <1>9, ScanEnds
<1> QED
  BY <1>5, <1>6, <1>7, <1>8, <1>9 DEF PassHeaderValue

LEMMA HeaderAlmostDoneInv == ParserInv /\ Frame /\ PassHeaderAlmostDone => ParserInv'
<1>1. "s_header_almost_done" \notin Inside
  BY DEF Inside, UrlStates, ServerStates, QueryStates, FragmentStates, ScanStates
<1>2. "s_header_value_lws" \in PlainStates /\ "LF_EXPECTED" \in Errnos \ {"OK"}
  BY DEF PlainStates, States, ChunkStates, ScanStates, Errnos
<1> QED
  BY <1>1, <1>2, ExpectInv DEF PassHeaderAlmostDone

LEMMA EarnFlagOK ==
  ASSUME NEW p, ParserOK(p), p.state \in PlainStates
  PROVE  /\ ParserOK(EarnFlag(p)) /\ EarnFlag(p).state = p.state
         /\ EarnFlag(p).http_errno = p.http_errno
<1>1. CASE p.header_state.phase = "h_value"
  <2> DEFINE more == {FlagOf[p.header_state.word]}
             q == [p EXCEPT !.flags = @ \cup more]
  <2>1. p \in ParserRecords /\ p.flags \in SUBSET Flags /\ p.header_state \in HeaderStates
    BY DEF ParserOK, ParserRecords
  <2>2. more \in SUBSET (Flags \ {"F_CONTENTLENGTH"})
    BY <1>1, <2>1, EarnedFlags
  <2>3. EarnFlag(p) = q
    BY <1>1 DEF EarnFlag
  <2> HIDE DEF more
  <2>4. p.flags \cup more \in SUBSET Flags
    BY <2>1, <2>2
  <2>5. /\ q \in ParserRecords /\ q.flags = p.flags \cup more /\ q.state = p.state
        /\ q.http_errno = p.http_errno /\ q.nread = p.nread /\ q.content_length = p.content_length
    BY <2>1, <2>4 DEF ParserRecords
  <2> HIDE DEF q
  <2>6. ParserOK(q)
    BY <2>2, <2>5 DEF ParserOK, PlainStates, ChunkStates, ScanStates
  <2> QED
    BY <2>3, <2>5, <2>6
<1>2. CASE p.header_state.phase # "h_value"
  BY <1>2 DEF EarnFlag
<1> QED
  BY <1>1, <1>2

LEMMA EarnFlagInv ==
  ASSUME ParserInv, at = "switch", parser.state \notin Inside, Frame, marks' = marks,
         Again(EarnFlag(To("s_header_field_start")))
  PROVE  ParserInv'
<1> DEFINE p == EarnFlag(To("s_header_field_start"))
<1>1. "s_header_field_start" \in PlainStates
  BY DEF PlainStates, States, ChunkStates, ScanStates
<1>2. /\ ParserOK(To("s_header_field_start")) /\ To("s_header_field_start").http_errno = "OK"
      /\ To("s_header_field_start").state = "s_header_field_start"
  BY <1>1, Goes DEF To, ParserInv, ParserOK, ParserRecords
<1>3. ParserOK(p) /\ p.http_errno = "OK" /\ p.state = "s_header_field_start"
  BY <1>1, <1>2, EarnFlagOK
<1>4. Again(p)
  OBVIOUS
<1> HIDE DEF p
<1> QED
  BY <1>3, <1>4, AgainOutside DEF ScanStates

LEMMA ValueLwsInv == ParserInv /\ Frame /\ PassValueLws => ParserInv'
<1> SUFFICES ASSUME ParserInv, Frame, PassValueLws PROVE ParserInv'
  OBVIOUS
<1>1. at = "switch" /\ parser.state = "s_header_value_lws" /\ marks' = marks
  BY DEF PassValueLws, Turn, Quiet
<1>2. parser.state \notin Inside
  BY <1>1 DEF Inside, UrlStates, ServerStates, QueryStates, FragmentStates, ScanStates
<1> DEFINE hs == IF parser.header_state = LengthNum THEN LengthWs ELSE parser.header_state
           p == [To("s_header_value_start") EXCEPT !.header_state = hs]
<1>3. CASE Again([To("s_header_value_start") EXCEPT !.header_state =
                    IF @ = LengthNum THEN LengthWs ELSE @])
  <2>1. hs \in HeaderStates
    BY HeaderStateNames DEF ParserInv, ParserOK, ParserRecords
  <2>2. To("s_header_value_start").header_state = parser.header_state
    BY DEF To, ParserInv, ParserOK, ParserRecords
  <2>3. Again(p)
    BY <1>3, <2>2
  <2> HIDE DEF hs
  <2>4. ParserOK(p) /\ p.http_errno = "OK" /\ p.state = "s_header_value_start"
    BY <1>1, <2>1 DEF ParserInv, AtSwitch, ParserOK, ParserRecords, To, ChunkStates, States
  <2> HIDE DEF p
  <2> QED
    BY <1>1, <1>2, <2>3, <2>4, AgainOutside DEF ScanStates
<1>4. CASE Again(EarnFlag(To("s_header_field_start")))
  BY <1>1, <1>2, <1>4, EarnFlagInv
<1> QED
  BY <1>3, <1>4 DEF PassValueLws

LEMMA DiscardWsAlmostDoneInv == ParserInv /\ Frame /\ PassDiscardWsAlmostDone => ParserInv'
<1>1. "s_header_value_discard_ws_almost_done" \notin Inside
  BY DEF Inside, UrlStates, ServerStates, QueryStates, FragmentStates, ScanStates
<1>2. "s_header_value_discard_lws" \in PlainStates /\ "STRICT" \in Errnos \ {"OK"}
  BY DEF PlainStates, States, ChunkStates, ScanStates, Errnos
<1> QED
  BY <1>1, <1>2, ExpectInv DEF PassDiscardWsAlmostDone

LEMMA DiscardLwsInv == ParserInv /\ Frame /\ PassDiscardLws => ParserInv'
<1> SUFFICES ASSUME ParserInv, Frame, PassDiscardLws PROVE ParserInv'
  OBVIOUS
<1>1. at = "switch" /\ parser.state = "s_header_value_discard_lws" /\ marks' = marks
  BY DEF PassDiscardLws, Turn, Quiet
<1>2. parser.state \notin Inside
  BY <1>1 DEF Inside, UrlStates, ServerStates, QueryStates, FragmentStates, ScanStates
<1>3. CASE Consume(To("s_header_value_discard_ws"))
  BY <1>1, <1>2, <1>3, GoesOutside DEF PlainStates, States, ChunkStates, ScanStates
<1>4. CASE Quiet /\ Error("INVALID_CONTENT_LENGTH")
  BY <1>4, FailsQuietly DEF Errnos
<1>5. CASE Again(EarnFlag(To("s_header_field_start")))
  BY <1>1, <1>2, <1>5, EarnFlagInv
<1> QED
  BY <1>3, <1>4, <1>5 DEF PassDiscardLws

LEMMA HeadersInv == ParserInv /\ Frame /\ Headers => ParserInv'
BY HeaderFieldStartInv, HeaderFieldInv, DiscardWsInv, ValueStartInv, HeaderValueInv,
   HeaderAlmostDoneInv, ValueLwsInv, DiscardWsAlmostDoneInv, DiscardLwsInv
DEF Headers

-----------------------------------------------------------------------------
(* The end of the headers. *)

LEMMA HeadersAlmostDoneInv == ParserInv /\ Frame /\ PassHeadersAlmostDone => ParserInv'
<1> SUFFICES ASSUME ParserInv, Frame, PassHeadersAlmostDone PROVE ParserInv'
  OBVIOUS
<1>1. at = "switch" /\ parser.state = "s_headers_almost_done" /\ marks' = marks
  BY DEF PassHeadersAlmostDone, Turn, Quiet, Notify
<1>2. parser.state \notin Inside
  BY <1>1 DEF Inside, UrlStates, ServerStates, QueryStates, FragmentStates, ScanStates
<1>3. {"s_message_done", "s_headers_done"} \subseteq PlainStates
  BY DEF PlainStates, States, BodyStates, ChunkStates, ScanStates
<1>4. CASE Quiet /\ (Error("STRICT") \/ Error("UNEXPECTED_CONTENT_LENGTH"))
  BY <1>4, FailsQuietly DEF Errnos
<1>5. CASE Again(To("s_message_done"))
  BY <1>1, <1>2, <1>3, <1>5, AgainGoes
<1>6. ASSUME NEW b \in BOOLEAN, Again([To("s_headers_done") EXCEPT !.upgrade = b])
      PROVE  ParserInv'
  <2> DEFINE p == [To("s_headers_done") EXCEPT !.upgrade = b]
  <2>1. ParserOK(p) /\ p.http_errno = "OK" /\ p.state = "s_headers_done"
    BY <1>1 DEF ParserInv, AtSwitch, ParserOK, ParserRecords, To, ChunkStates, States
  <2>2. Again(p)
    BY <1>6
  <2> HIDE DEF p
  <2> QED
    BY <1>1, <1>2, <2>1, <2>2, AgainOutside DEF ScanStates
<1>7. CASE Again([To("s_headers_done") EXCEPT !.upgrade =
                    IF {"F_UPGRADE", "F_CONNECTION_UPGRADE"} \subseteq parser.flags THEN TRUE
                    ELSE parser.method = "CONNECT"])
  BY <1>6, <1>7
<1> QED
  BY <1>4, <1>5, <1>7 DEF PassHeadersAlmostDone

LEMMA NewMessageOK ==
  ASSUME NEW p, ParserOK(p)
  PROVE  /\ ParserOK(NewMessage(p)) /\ NewMessage(p).state \in {"s_start_req", "s_dead"}
         /\ NewMessage(p).http_errno = p.http_errno
<1>1. ASSUME NEW state \in {"s_start_req", "s_dead"}
      PROVE  LET q == [p EXCEPT !.state = state]
             IN  ParserOK(q) /\ q.state = state /\ q.http_errno = p.http_errno
  BY DEF ParserOK, ParserRecords, States, ChunkStates
<1> QED
  BY <1>1 DEF NewMessage

(* A message ends, in front of the next one or of another protocol.        *)
LEMMA EndsMessage ==
  ASSUME ParserInv, at = "switch", parser.state \notin Inside, Frame, marks' = marks,
         NEW p, ParserOK(p), p.http_errno = "OK",
         Consume(NewMessage(p)) \/ Return(NewMessage(p))
  PROVE  ParserInv'
<1> DEFINE q == NewMessage(p)
<1>1. ParserOK(q) /\ q.http_errno = "OK" /\ Fresh(q)
  BY NewMessageOK DEF Fresh
<1> HIDE DEF q
<1>2. CASE Consume(q)
  BY <1>1, <1>2, ConsumesOutside
<1>3. CASE Return(q)
  <2>1. pos \in Nat /\ pos <= arrived /\ arrived \in Nat
    BY DEF ParserInv, Places, AtSwitch, Inside
  <2>2. pos + 1 \in 1 .. arrived + 1 /\ marks' \in [DataCalls -> 0 .. pos + 1]
    BY <2>1 DEF ParserInv, Places
  <2>3. Move(q, pos + 1, "idle")
    BY <1>3 DEF Return
  <2> QED
    BY <1>1, <2>2, <2>3, EndsIdle
<1> QED
  BY <1>2, <1>3 DEF q

LEMMA HeadersDoneInv == ParserInv /\ Frame /\ PassHeadersDone => ParserInv'
<1> SUFFICES ASSUME ParserInv, Frame, PassHeadersDone PROVE ParserInv'
  OBVIOUS
<1> DEFINE p == [parser EXCEPT !.nread = 0]
<1>1. at = "switch" /\ parser.state = "s_headers_done" /\ marks' = marks
  BY DEF PassHeadersDone, Turn, Quiet, Tell, Notify
<1>2. parser.state \notin Inside
  BY <1>1 DEF Inside, UrlStates, ServerStates, QueryStates, FragmentStates, ScanStates
<1>3. parser \in ParserRecords /\ parser.http_errno = "OK"
  BY <1>1 DEF ParserInv, ParserOK, AtSwitch
<1>4. /\ p \in ParserRecords /\ p.nread = 0 /\ p.http_errno = "OK" /\ p.flags = parser.flags
      /\ p.state = "s_headers_done" /\ p.content_length = parser.content_length
      /\ p.header_state = parser.header_state
  BY <1>1, <1>3 DEF ParserRecords
<1> HIDE DEF p
<1>8. ParserOK(p)
  BY <1>4, SizesOK DEF ParserInv, ParserOK, ChunkStates
<1>5. CASE Consume(NewMessage(p)) \/ Return(NewMessage(p))
  BY <1>1, <1>2, <1>4, <1>8, <1>5, EndsMessage
<1>6. CASE "F_CHUNKED" \in parser.flags /\ Consume([p EXCEPT !.state = "s_chunk_size_start"])
  <2> DEFINE q == [p EXCEPT !.state = "s_chunk_size_start"]
  <2>1. /\ q \in ParserRecords /\ q.nread = 0 /\ q.http_errno = "OK" /\ q.flags = parser.flags
        /\ q.state = "s_chunk_size_start" /\ q.content_length = parser.content_length
    BY <1>4 DEF ParserRecords, States
  <2>2. Consume(q)
    BY <1>6
  <2> HIDE DEF q
  <2>3. ParserOK(q) /\ Fresh(q)
    BY <1>6, <2>1, SizesOK DEF ParserInv, ParserOK, Fresh
  <2> QED
    BY <1>1, <1>2, <2>1, <2>2, <2>3, ConsumesOutside
<1>7. CASE /\ parser.content_length \notin {0, ULLONG_MAX}
           /\ Consume([p EXCEPT !.state = "s_body_identity"])
  <2> DEFINE q == [p EXCEPT !.state = "s_body_identity"]
  <2>1. /\ q \in ParserRecords /\ q.nread = 0 /\ q.http_errno = "OK" /\ q.flags = parser.flags
        /\ q.state = "s_body_identity" /\ q.content_length = parser.content_length
    BY <1>4 DEF ParserRecords, States, BodyStates
  <2>2. Consume(q)
    BY <1>7
  <2> HIDE DEF q
  <2>3. ParserOK(q) /\ Fresh(q)
    BY <1>7, <2>1, SizesOK DEF ParserInv, ParserOK, Fresh, ChunkStates
  <2> QED
    BY <1>1, <1>2, <2>1, <2>2, <2>3, ConsumesOutside
<1> QED
  BY <1>5, <1>6, <1>7 DEF PassHeadersDone, p

-----------------------------------------------------------------------------
(* Bodies. *)

LEMMA ToReadOK ==
  ASSUME ParserInv, at = "switch", parser.state \in {"s_body_identity", "s_chunk_data"}
  PROVE  /\ pos \in Nat /\ arrived \in Nat /\ ToRead \in Nat /\ 1 <= ToRead
         /\ ToRead <= parser.content_length /\ pos + ToRead <= arrived + 1
<1> DEFINE length == parser.content_length
           left == arrived - pos + 1
<1>1. pos \in Nat /\ arrived \in Nat /\ pos <= arrived
  BY DEF ParserInv, Places, AtSwitch, ScanStates
<1>2. length \in Nat /\ 1 <= length
  <2>1. length \in Nat
    BY LengthType
  <2>2. length # 0
    BY <2>1, SizesOK DEF ParserInv, ParserOK
  <2> QED
    BY <2>1, <2>2
<1>3. left \in Nat /\ 1 <= left /\ pos + left = arrived + 1
  BY <1>1
<1>4. ToRead = Min({length, left})
  BY DEF ToRead
<1> HIDE DEF length, left
<1>5. ToRead \in {length, left} /\ ToRead <= length /\ ToRead <= left
  BY <1>2, <1>3, <1>4, MinOfTwo
<1> QED
  BY <1>1, <1>2, <1>3, <1>5 DEF length

(* A part of the length is read. *)
LEMMA ReadsPart ==
  ASSUME ParserInv, at = "switch", NEW n \in Nat, n < parser.content_length
  PROVE  LET p == [parser EXCEPT !.content_length = @ - n]
         IN  /\ ParserOK(p) /\ p.http_errno = "OK" /\ p.state = parser.state
             /\ parser.state # "s_chunk_size_start" => Fresh(p)
<1> DEFINE length == parser.content_length - n
           p == [parser EXCEPT !.content_length = length]
<1>1. /\ parser \in ParserRecords /\ parser.http_errno = "OK"
      /\ parser.content_length \in Nat /\ parser.content_length <= ULLONG_MAX
  <2>1. parser \in ParserRecords /\ parser.http_errno = "OK"
    BY DEF ParserInv, ParserOK, AtSwitch
  <2>2. parser.content_length \in 0..ULLONG_MAX
    BY <2>1 DEF ParserRecords
  <2> QED
    BY <2>1, <2>2, SizesOK
<1>2. length \in 0..ULLONG_MAX /\ length # 0
  BY <1>1, SizesOK
<1>3. length < ULLONG_MAX \/ (n = 0 /\ length = parser.content_length)
  BY <1>1, SizesOK
<1>4. parser.content_length # 0 /\ (parser.content_length < ULLONG_MAX => length < ULLONG_MAX)
  BY <1>1, SizesOK
<1>5. length = ULLONG_MAX => length = parser.content_length
  BY <1>2, <1>3, SizesOK
<1> HIDE DEF length
<1>6. /\ p \in ParserRecords /\ p.content_length = length /\ p.http_errno = "OK"
      /\ p.state = parser.state /\ p.nread = parser.nread /\ p.flags = parser.flags
      /\ p.header_state = parser.header_state
  BY <1>1, <1>2 DEF ParserRecords
<1>7. p = [parser EXCEPT !.content_length = @ - n]
  BY <1>1 DEF ParserRecords, length
<1> HIDE DEF p
<1>8. ParserOK(parser)
  BY DEF ParserInv
<1>9. p.content_length \in Nat /\ p.content_length # 0
  BY <1>2, <1>6
<1>10. p.state = "s_body_identity" => p.content_length \notin {0, ULLONG_MAX}
  BY <1>5, <1>6, <1>8, <1>9 DEF ParserOK
<1>11. ParserOK(p)
  BY <1>1, <1>4, <1>6, <1>8, <1>9, <1>10 DEF ParserOK
<1> QED
  BY <1>6, <1>7, <1>11 DEF Fresh

LEMMA BodyMarks ==
  ASSUME ParserInv, at = "switch",
         parser.state \in {"s_body_identity", "s_chunk_data"}, Mark("body")
  PROVE  /\ marks' \in [DataCalls -> 0..pos]
         /\ \A on \in DataCalls \ {"body"} : marks'[on] = 0
<1>1. \A on \in DataCalls \ {"body"} : marks[on] = 0
  BY DEF ParserInv, AtSwitch, Fits, UrlStates, ServerStates, QueryStates, FragmentStates, DataCalls
<1>2. "body" \in DataCalls
  BY DEF DataCalls
<1> QED
  BY <1>1, <1>2, MarkMarks DEF ParserInv

LEMMA BodyIdentityInv == ParserInv /\ Frame /\ PassBodyIdentity => ParserInv'
<1> SUFFICES ASSUME ParserInv, Frame, PassBodyIdentity PROVE ParserInv'
  OBVIOUS
<1>1. at = "switch" /\ parser.state = "s_body_identity"
  BY DEF PassBodyIdentity, Turn
<1> DEFINE n == ToRead
           p == [parser EXCEPT !.content_length = @ - n]
<1>2. /\ pos \in Nat /\ arrived \in Nat /\ n \in Nat /\ 1 <= n
      /\ n <= parser.content_length /\ pos + n <= arrived + 1
  BY <1>1, ToReadOK
<1>3. parser.content_length \in Nat
  BY LengthType
<1>4. CASE n < parser.content_length /\ Mark("body") /\ Move(p, (pos + n - 1) + 1, "loop")
  <2> HIDE DEF n
  <2>1. ParserOK(p) /\ p.http_errno = "OK" /\ p.state = "s_body_identity" /\ Fresh(p)
    BY <1>1, <1>2, <1>4, ReadsPart
  <2>2. (pos + n - 1) + 1 = pos + n /\ pos + n \in pos .. arrived + 1
    BY <1>2
  <2>3. Move(p, pos + n, "loop")
    BY <1>4, <2>2
  <2>4. /\ marks' \in [DataCalls -> 0..pos] 
        /\ \A on \in DataCalls \ {"body"} : marks'[on] = 0
    BY <1>1, <1>4, BodyMarks
  <2>5. marks' \in [DataCalls -> 0 .. pos + n]
    BY <1>2, <2>4
  <2>6. Fits(marks', p.state)
    BY <2>1, <2>4 DEF Fits, DataCalls
  <2> HIDE DEF p
  <2> QED
    BY <2>1, <2>2, <2>3, <2>5, <2>6, EndsLoop
<1>5. CASE /\ n = parser.content_length
           /\ marks' = [marks EXCEPT !["body"] = 0]
           /\ Move([p EXCEPT !.state = "s_message_done"], pos + n - 1, "switch")
  <2> DEFINE q == [p EXCEPT !.state = "s_message_done"]
             length == parser.content_length - n
  <2>1. length \in 0..ULLONG_MAX /\ length < ULLONG_MAX
    BY <1>2, <1>5, SizesOK
  <2> HIDE DEF n
  <2>2. parser \in ParserRecords /\ parser.http_errno = "OK"
    BY <1>1 DEF ParserInv, ParserOK, AtSwitch
  <2>3. p = [parser EXCEPT !.content_length = length]
    BY <2>2 DEF ParserRecords
  <2> HIDE DEF p, length
  <2>4. /\ q \in ParserRecords /\ q.content_length = length /\ q.http_errno = "OK"
        /\ q.state = "s_message_done" /\ q.nread = parser.nread /\ q.flags = parser.flags
        /\ q.header_state = parser.header_state
    BY <2>1, <2>2, <2>3 DEF ParserRecords, States, BodyStates
  <2>5. Move(q, pos + n - 1, "switch")
    BY <1>5
  <2> HIDE DEF q
  <2>6. ParserOK(q)
    BY <2>1, <2>2, <2>4 DEF ParserInv, ParserOK, ChunkStates
  <2>7. pos + n - 1 \in pos .. arrived + 1 /\ pos + n - 1 <= arrived
    BY <1>2
  <2>8. marks \in [DataCalls -> 0..pos] /\ "body" \in DataCalls
    BY DEF ParserInv, Places, DataCalls
  <2>9. marks' \in [DataCalls -> 0..pos] /\ \A on \in DataCalls : marks'[on] \in {0, marks[on]}
    BY <1>2, <1>5, <2>8
  <2>10. Fits(marks', q.state)
    <3>1. marks["url"] = 0 /\ marks["header_field"] = 0 /\ marks["header_value"] = 0
      BY <1>1 DEF ParserInv, AtSwitch, Fits, UrlStates, ServerStates, QueryStates, FragmentStates
    <3> QED
      BY <1>5, <2>8, <3>1 DEF Fits, DataCalls
  <2> QED
    BY <1>1, <2>4, <2>5, <2>6, <2>7, <2>9, <2>10, EndsSwitch
<1> QED
  BY <1>4, <1>5 DEF PassBodyIdentity

LEMMA MessageDoneInv == ParserInv /\ Frame /\ PassMessageDone => ParserInv'
<1> SUFFICES ASSUME ParserInv, Frame, PassMessageDone PROVE ParserInv'
  OBVIOUS
<1>1. at = "switch" /\ parser.state = "s_message_done" /\ marks' = marks
  BY DEF PassMessageDone, Turn, Notify
<1>2. parser.state \notin Inside
  BY <1>1 DEF Inside, UrlStates, ServerStates, QueryStates, FragmentStates, ScanStates
<1>3. ParserOK(parser) /\ parser.http_errno = "OK"
  BY <1>1 DEF ParserInv, AtSwitch
<1> QED
  BY <1>1, <1>2, <1>3, EndsMessage DEF PassMessageDone

(* From one state of a chunk to another. *)
ChunkFits(state, length, nread) ==
  /\ length \in 0..ULLONG_MAX /\ length < ULLONG_MAX
  /\ state = "s_chunk_size_start" => nread = 0
  /\ state = "s_chunk_data" => length # 0
  /\ state = "s_chunk_data_almost_done" => length = 0

ChunkTo(state, length, nread) ==
  [parser EXCEPT !.state = state, !.content_length = length, !.nread = nread]

LEMMA ChunkGoes ==
  ASSUME ParserInv, at = "switch", parser.state \in ChunkStates, NEW state \in ChunkStates,
         NEW length, NEW nread \in {0, parser.nread}, ChunkFits(state, length, nread)
  PROVE  LET p == ChunkTo(state, length, nread)
         IN  ParserOK(p) /\ p.http_errno = "OK" /\ Fresh(p) /\ p.state = state
<1> DEFINE p == ChunkTo(state, length, nread)
<1>1. /\ parser \in ParserRecords /\ parser.http_errno = "OK" /\ parser.nread <= max_header_size
      /\ parser.nread \in Nat /\ "F_CHUNKED" \in parser.flags
  BY DEF ParserInv, ParserOK, AtSwitch, ParserRecords
<1>2. nread \in Nat /\ nread <= max_header_size /\ state \in States
  BY <1>1, SizesOK DEF ChunkStates, States, BodyStates
<1>3. /\ p \in ParserRecords /\ p.state = state /\ p.content_length = length /\ p.nread = nread
      /\ p.http_errno = "OK" /\ p.flags = parser.flags
  BY <1>1, <1>2 DEF ParserRecords, ChunkFits, ChunkTo
<1> HIDE DEF p
<1>4. ParserOK(p)
  BY <1>1, <1>2, <1>3 DEF ParserOK, ChunkStates, ChunkFits
<1> QED
  BY <1>3, <1>4 DEF Fresh, p, ChunkFits

LEMMA ChunkConsumes ==
  ASSUME ParserInv, at = "switch", parser.state \in ChunkStates \ Inside, Frame, marks' = marks,
         NEW state \in ChunkStates,
         NEW length, NEW nread \in {0, parser.nread}, ChunkFits(state, length, nread),
         Consume(ChunkTo(state, length, nread))
  PROVE  ParserInv'
<1> DEFINE p == ChunkTo(state, length, nread)
<1>1. parser.state \in ChunkStates /\ parser.state \notin Inside
  OBVIOUS
<1>2. ParserOK(p) /\ p.http_errno = "OK" /\ Fresh(p)
  BY <1>1, ChunkGoes
<1>3. Consume(p)
  OBVIOUS
<1> HIDE DEF p
<1> QED
  BY <1>1, <1>2, <1>3, ConsumesOutside

LEMMA ChunkSizeStartInv == ParserInv /\ Frame /\ PassChunkSizeStart => ParserInv'
<1> SUFFICES ASSUME ParserInv, Frame, PassChunkSizeStart PROVE ParserInv'
  OBVIOUS
<1>1. at = "switch" /\ parser.state = "s_chunk_size_start" /\ marks' = marks /\ Quiet
  BY DEF PassChunkSizeStart, Turn, Quiet
<1>2. parser.state \in ChunkStates \ Inside /\ parser \in ParserRecords
  BY <1>1 DEF Inside, UrlStates, ServerStates, QueryStates, FragmentStates, ScanStates, ChunkStates,
              ParserInv, ParserOK
<1>3. CASE IsHex(U) /\ Consume([To("s_chunk_size") EXCEPT !.content_length = HexDigits[U.w]])
  <2> DEFINE length == HexDigits[U.w]
  <2>1. length \in 0..ULLONG_MAX /\ length < ULLONG_MAX
    BY <1>3, HexDigitOf, SizesOK
  <2> HIDE DEF length
  <2>2. [To("s_chunk_size") EXCEPT !.content_length = length]
        = ChunkTo("s_chunk_size", length, parser.nread)
    BY <1>2 DEF To, ParserRecords, ChunkTo
  <2>3. "s_chunk_size" \in ChunkStates
    BY DEF ChunkStates
  <2> QED
    BY <1>1, <1>2, <1>3, <2>1, <2>2, <2>3, ChunkConsumes DEF length, ChunkFits
<1>4. CASE Error("INVALID_CHUNK_SIZE")
  BY <1>1, <1>4, FailsQuietly DEF Errnos
<1> QED
  BY <1>3, <1>4 DEF PassChunkSizeStart

LEMMA ChunkSizeInv == ParserInv /\ Frame /\ PassChunkSize => ParserInv'
<1> SUFFICES ASSUME ParserInv, Frame, PassChunkSize PROVE ParserInv'
  OBVIOUS
<1>1. at = "switch" /\ parser.state = "s_chunk_size" /\ marks' = marks /\ Quiet
  BY DEF PassChunkSize, Turn, Quiet
<1>2. parser.state \in ChunkStates \ Inside /\ parser \in ParserRecords
  BY <1>1 DEF Inside, UrlStates, ServerStates, QueryStates, FragmentStates, ScanStates, ChunkStates,
              ParserInv, ParserOK
<1>3. parser.content_length \in 0..ULLONG_MAX /\ parser.content_length < ULLONG_MAX
  BY <1>1 DEF ParserInv, ParserOK, ParserRecords
<1>4. ASSUME NEW state \in {"s_chunk_size_almost_done", "s_chunk_parameters"}, Consume(To(state))
      PROVE  ParserInv'
  <2>1. To(state) = ChunkTo(state, parser.content_length, parser.nread)
    BY <1>2 DEF To, ParserRecords, ChunkTo
  <2>2. state \in ChunkStates
    BY DEF ChunkStates
  <2> QED
    BY <1>1, <1>2, <1>3, <1>4, <2>1, <2>2, ChunkConsumes DEF ChunkFits
<1>5. CASE Error("INVALID_CHUNK_SIZE") \/ Error("INVALID_CONTENT_LENGTH")
  BY <1>1, <1>5, FailsQuietly DEF Errnos
<1>6. CASE /\ IsHex(U) /\ ~TooLong(parser.content_length, 16, 16)
           /\ Consume([parser EXCEPT !.content_length = AddDigit(@, 16, HexDigits[U.w])])
  <2> DEFINE length == AddDigit(parser.content_length, 16, HexDigits[U.w])
  <2>1. length \in 0..ULLONG_MAX /\ length < ULLONG_MAX
    <3>1. HexDigits[U.w] \in 0 .. 16 - 1 /\ parser.content_length \in Nat
      BY <1>6, HexDigitOf, LengthType
    <3> QED
      BY <1>6, <3>1, DigitFits
  <2>2. [parser EXCEPT !.content_length = AddDigit(@, 16, HexDigits[U.w])]
        = [parser EXCEPT !.content_length = length]
    BY <1>2 DEF ParserRecords
  <2> HIDE DEF length
  <2>3. [parser EXCEPT !.content_length = length]
        = ChunkTo("s_chunk_size", length, parser.nread)
    BY <1>1, <1>2 DEF ParserRecords, ChunkTo
  <2> QED
    BY <1>1, <1>2, <1>6, <2>1, <2>2, <2>3, ChunkConsumes DEF ChunkFits
<1> QED
  BY <1>4, <1>5, <1>6 DEF PassChunkSize

LEMMA ChunkParametersInv == ParserInv /\ Frame /\ PassChunkParameters => ParserInv'
<1> SUFFICES ASSUME ParserInv, Frame, PassChunkParameters PROVE ParserInv'
  OBVIOUS
<1>1. at = "switch" /\ parser.state = "s_chunk_parameters" /\ marks' = marks
  BY DEF PassChunkParameters, Turn, Quiet
<1>2. parser.state \in ChunkStates \ Inside /\ parser \in ParserRecords
  BY <1>1 DEF Inside, UrlStates, ServerStates, QueryStates, FragmentStates, ScanStates, ChunkStates,
              ParserInv, ParserOK
<1>3. parser.content_length \in 0..ULLONG_MAX /\ parser.content_length < ULLONG_MAX
  BY <1>1 DEF ParserInv, ParserOK, ParserRecords
<1>4. ASSUME NEW state \in {"s_chunk_size_almost_done"}, Consume(To(state))
      PROVE  ParserInv'
  <2>1. To(state) = ChunkTo(state, parser.content_length, parser.nread)
    BY <1>2 DEF To, ParserRecords, ChunkTo
  <2>2. state \in ChunkStates
    BY DEF ChunkStates
  <2> QED
    BY <1>1, <1>2, <1>3, <1>4, <2>1, <2>2, ChunkConsumes DEF ChunkFits
<1>5. CASE Consume(parser)
  BY <1>1, <1>2, <1>5, StaysOutside
<1> QED
  BY <1>4, <1>5 DEF PassChunkParameters

LEMMA ChunkSizeAlmostDoneInv == ParserInv /\ Frame /\ PassChunkSizeAlmostDone => ParserInv'
<1> SUFFICES ASSUME ParserInv, Frame, PassChunkSizeAlmostDone PROVE ParserInv'
  OBVIOUS
<1>1. at = "switch" /\ parser.state = "s_chunk_size_almost_done" /\ marks' = marks
  BY DEF PassChunkSizeAlmostDone, Turn, Quiet, Notify
<1>2. parser.state \in ChunkStates \ Inside /\ parser \in ParserRecords
      /\ parser.http_errno = "OK"
  BY <1>1 DEF Inside, UrlStates, ServerStates, QueryStates, FragmentStates, ScanStates, ChunkStates,
              ParserInv, ParserOK, AtSwitch
<1>3. parser.content_length \in 0..ULLONG_MAX /\ parser.content_length < ULLONG_MAX
  BY <1>1 DEF ParserInv, ParserOK, ParserRecords
<1>4. CASE Quiet /\ Error("STRICT")
  BY <1>4, FailsQuietly DEF Errnos
<1>5. CASE /\ parser.content_length = 0
           /\ Consume([To("s_header_field_start") EXCEPT !.nread = 0,
                                                         !.flags = @ \cup {"F_TRAILING"}])
  <2> DEFINE flags == parser.flags \cup {"F_TRAILING"}
             p == [To("s_header_field_start") EXCEPT !.nread = 0, !.flags = @ \cup {"F_TRAILING"}]
  <2>1. flags \in SUBSET Flags
    BY <1>2 DEF ParserRecords, Flags
  <2>2. /\ p \in ParserRecords /\ p.state = "s_header_field_start" /\ p.nread = 0
        /\ p.http_errno = "OK" /\ p.content_length = 0
    BY <1>2, <1>5, <2>1 DEF ParserRecords, To, States
  <2>3. Consume(p)
    BY <1>5
  <2> HIDE DEF p, flags
  <2>4. ParserOK(p) /\ Fresh(p)
    BY <2>2, SizesOK DEF ParserOK, ChunkStates, Fresh
  <2> QED
    BY <1>1, <1>2, <2>2, <2>3, <2>4, ConsumesOutside
<1>6. CASE /\ parser.content_length # 0
           /\ Consume([To("s_chunk_data") EXCEPT !.nread = 0])
  <2>1. [To("s_chunk_data") EXCEPT !.nread = 0]
        = ChunkTo("s_chunk_data", parser.content_length, 0)
    BY <1>2 DEF To, ParserRecords, ChunkTo
  <2>2. "s_chunk_data" \in ChunkStates
    BY DEF ChunkStates
  <2> QED
    BY <1>1, <1>2, <1>3, <1>6, <2>1, <2>2, ChunkConsumes DEF ChunkFits
<1> QED
  BY <1>4, <1>5, <1>6 DEF PassChunkSizeAlmostDone

LEMMA ChunkDataInv == ParserInv /\ Frame /\ PassChunkData => ParserInv'
<1> SUFFICES ASSUME ParserInv, Frame, PassChunkData PROVE ParserInv'
  OBVIOUS
<1>1. at = "switch" /\ parser.state = "s_chunk_data" /\ Mark("body")
  BY DEF PassChunkData, Turn
<1> DEFINE n == ToRead
           length == parser.content_length - n
           state == IF length = 0 THEN "s_chunk_data_almost_done" ELSE "s_chunk_data"
           q == [parser EXCEPT !.content_length = @ - n]
           p == ChunkTo(state, length, parser.nread)
<1>2. /\ pos \in Nat /\ arrived \in Nat /\ n \in Nat /\ 1 <= n
      /\ n <= parser.content_length /\ pos + n <= arrived + 1
  BY <1>1, ToReadOK
<1>3. /\ parser \in ParserRecords
      /\ parser.content_length \in 0..ULLONG_MAX /\ parser.content_length < ULLONG_MAX
  BY <1>1 DEF ParserInv, ParserOK, ParserRecords
<1> HIDE DEF n
<1>4. length \in 0..ULLONG_MAX /\ length < ULLONG_MAX
  BY <1>2, <1>3, SizesOK
<1>5. Move(p, pos + n, "loop")
  <2>1. q.content_length = length
    BY <1>3 DEF ParserRecords
  <2>2. p = IF length = 0 THEN [q EXCEPT !.state = "s_chunk_data_almost_done"] ELSE q
    BY <1>1, <1>3 DEF ParserRecords, ChunkTo
  <2> HIDE DEF p, length
  <2>3. Move(IF q.content_length = 0 THEN [q EXCEPT !.state = "s_chunk_data_almost_done"] ELSE q,
             pos + n, "loop")
    BY DEF PassChunkData, n
  <2> QED
    BY <2>1, <2>2, <2>3
<1> HIDE DEF length
<1>6. /\ parser.state \in ChunkStates /\ state \in ChunkStates
      /\ state \in {"s_chunk_data", "s_chunk_data_almost_done"}
      /\ state = "s_chunk_data" => length # 0
      /\ state = "s_chunk_data_almost_done" => length = 0
  BY <1>1 DEF ChunkStates
<1> HIDE DEF state
<1>7. ParserOK(p) /\ p.http_errno = "OK" /\ Fresh(p) /\ p.state = state
  BY <1>1, <1>4, <1>6, ChunkGoes DEF ChunkFits
<1>8. /\ marks' \in [DataCalls -> 0..pos]
      /\ \A on \in DataCalls \ {"body"} : marks'[on] = 0
  BY <1>1, BodyMarks
<1>9. marks' \in [DataCalls -> 0 .. pos + n] /\ pos + n \in pos .. arrived + 1
  BY <1>2, <1>8
<1> HIDE DEF p
<1>10. Fits(marks', p.state)
  BY <1>6, <1>7, <1>8 DEF Fits, DataCalls
<1> QED
  BY <1>5, <1>7, <1>9, <1>10, EndsLoop

LEMMA ChunkDataAlmostDoneInv == ParserInv /\ Frame /\ PassChunkDataAlmostDone => ParserInv'
<1> SUFFICES ASSUME ParserInv, Frame, PassChunkDataAlmostDone PROVE ParserInv'
  OBVIOUS
<1>1. at = "switch" /\ parser.state = "s_chunk_data_almost_done"
  BY DEF PassChunkDataAlmostDone, Turn
<1>2. CASE Quiet /\ Error("STRICT")
  BY <1>2, FailsQuietly DEF Errnos
<1>3. CASE Data("body", pos) /\ Consume(To("s_chunk_data_done"))
  <2> DEFINE p == ChunkTo("s_chunk_data_done", parser.content_length, parser.nread)
  <2>1. parser.content_length \in 0..ULLONG_MAX /\ parser.content_length < ULLONG_MAX
        /\ parser \in ParserRecords
    BY <1>1 DEF ParserInv, ParserOK, ParserRecords
  <2>2. parser.state \in ChunkStates /\ parser.state \notin ScanStates
        /\ "s_chunk_data_done" \in ChunkStates /\ "body" \in DataCalls
    BY <1>1 DEF ChunkStates, ScanStates, DataCalls
  <2>3. ParserOK(p) /\ p.http_errno = "OK" /\ Fresh(p) /\ p.state = "s_chunk_data_done"
    BY <1>1, <2>1, <2>2, ChunkGoes DEF ChunkFits
  <2>4. Consume(p)
    BY <1>3, <2>1 DEF To, ParserRecords, ChunkTo
  <2>5. /\ marks' \in [DataCalls -> 0..pos]
        /\ \A x \in DataCalls : marks'[x] = IF x = "body" THEN 0 ELSE marks[x]
    BY <1>1, <1>3, <2>2, DataMarks DEF ParserInv, AtSwitch
  <2>6. \A x \in DataCalls : marks'[x] = 0
    BY <1>1, <2>5
    DEF ParserInv, AtSwitch, Fits, UrlStates, ServerStates, QueryStates, FragmentStates, DataCalls
  <2> HIDE DEF p
  <2>7. Fits(marks', p.state)
    BY <2>6 DEF Fits, DataCalls
  <2> QED
    BY <1>1, <2>2, <2>3, <2>4, <2>5, <2>7, Consumes
<1> QED
  BY <1>2, <1>3 DEF PassChunkDataAlmostDone

LEMMA ChunkDataDoneInv == ParserInv /\ Frame /\ PassChunkDataDone => ParserInv'
<1> SUFFICES ASSUME ParserInv, Frame, PassChunkDataDone PROVE ParserInv'
  OBVIOUS
<1>1. at = "switch" /\ parser.state = "s_chunk_data_done" /\ marks' = marks
  BY DEF PassChunkDataDone, Turn, Quiet, Notify
<1>2. parser.state \notin Inside
  BY <1>1 DEF Inside, UrlStates, ServerStates, QueryStates, FragmentStates, ScanStates
<1>3. CASE Quiet /\ Error("STRICT")
  BY <1>3, FailsQuietly DEF Errnos
<1>4. CASE Consume([To("s_chunk_size_start") EXCEPT !.nread = 0])
  <2> DEFINE p == [To("s_chunk_size_start") EXCEPT !.nread = 0]
  <2>1. /\ parser \in ParserRecords /\ parser.http_errno = "OK" /\ "F_CHUNKED" \in parser.flags
        /\ "F_CONTENTLENGTH" \in parser.flags => parser.content_length < ULLONG_MAX
    BY <1>1 DEF ParserInv, ParserOK, AtSwitch, ChunkStates
  <2>2. /\ p \in ParserRecords /\ p.state = "s_chunk_size_start" /\ p.nread = 0
        /\ p.http_errno = "OK" /\ p.flags = parser.flags
        /\ p.content_length = parser.content_length
    BY <2>1 DEF ParserRecords, To, States
  <2>3. Consume(p)
    BY <1>4
  <2> HIDE DEF p
  <2>4. ParserOK(p) /\ Fresh(p)
    BY <1>1, <2>1, <2>2, SizesOK DEF ParserInv, ParserOK, Fresh
  <2> QED
    BY <1>1, <1>2, <2>2, <2>3, <2>4, ConsumesOutside
<1> QED
  BY <1>3, <1>4 DEF PassChunkDataDone

LEMMA BodiesInv == ParserInv /\ Frame /\ Bodies => ParserInv'
BY HeadersAlmostDoneInv, HeadersDoneInv, BodyIdentityInv, MessageDoneInv, ChunkSizeStartInv,
   ChunkSizeInv, ChunkParametersInv, ChunkSizeAlmostDoneInv, ChunkDataInv,
   ChunkDataAlmostDoneInv, ChunkDataDoneInv
DEF Bodies

-----------------------------------------------------------------------------
(* The loop, and the calls. *)

LEMMA EndOfChunkInv == ParserInv /\ Frame /\ EndOfChunk => ParserInv'
<1> SUFFICES ASSUME ParserInv, Frame, EndOfChunk PROVE ParserInv'
  OBVIOUS
<1>1. at = "loop" /\ Move(parser, pos, "idle")
  BY DEF EndOfChunk, Move
<1>2. /\ Places /\ ParserOK(parser) /\ Fresh(parser) /\ Fits(marks, parser.state)
      /\ pos \in 1 .. arrived + 1
  BY <1>1 DEF ParserInv, AtLoop, Places
<1>3. marks' \in [DataCalls -> 0..pos]
  <2>1. CASE Quiet
    BY <1>2, <2>1 DEF Quiet, Places
  <2>2. CASE \E on \in DataCalls : marks[on] # 0 /\ Data(on, pos)
    BY <1>2, <2>2, DataMarks
  <2> QED
    BY <2>1, <2>2 DEF EndOfChunk
<1> QED
  BY <1>1, <1>2, <1>3, EndsIdle

LEMMA NextUnitInv ==
  ParserInv /\ NextUnit /\ start' = pos /\ UNCHANGED <<input, arrived>> => ParserInv'
<1> SUFFICES ASSUME ParserInv, NextUnit, start' = pos, UNCHANGED <<input, arrived>>
             PROVE  ParserInv'
  OBVIOUS
<1> DEFINE counted == IF ParsingHeader(parser.state) THEN parser.nread + 1 ELSE parser.nread
           p == [parser EXCEPT !.nread = counted]
           q == [parser EXCEPT !.http_errno = "HEADER_OVERFLOW"]
<1>1. /\ at = "loop" /\ pos <= arrived /\ marks' = marks
  BY DEF NextUnit, Quiet
<1>2. /\ Places /\ ParserOK(parser) /\ parser.http_errno = "OK" /\ Fresh(parser)
      /\ Fits(marks, parser.state) /\ parser \in ParserRecords
  BY <1>1 DEF ParserInv, AtLoop, ParserOK
<1>3. /\ input' = input /\ arrived' = arrived /\ start' = pos
      /\ pos \in Nat \ {0} /\ arrived \in 0..Len(input) /\ marks \in [DataCalls -> 0..pos]
  BY <1>2 DEF Places
<1>4. parser.nread \in Nat /\ parser.nread <= max_header_size
  BY <1>2 DEF ParserOK, ParserRecords
<1>5. CASE Move(q, pos, "idle")
  <2>1. ParserOK(q) /\ q.http_errno # "OK"
    BY <1>2 DEF ParserOK, ParserRecords, Errnos
  <2> HIDE DEF q
  <2>2. Places'
    BY <1>1, <1>2, <1>3, <1>5 DEF Places, Move
  <2>3. ParserOK(parser)' /\ parser'.http_errno # "OK" /\ at' = "idle"
    BY <1>5, <2>1 DEF Move, ParserOK
  <2> QED
    BY <2>2, <2>3 DEF ParserInv, AtIdle, AtLoop, AtSwitch
<1>6. CASE ~(ParsingHeader(parser.state) /\ counted > max_header_size) /\ Move(p, pos, "switch")
  <2>1. counted \in Nat /\ counted <= max_header_size
    BY <1>4, <1>6, SizesOK
  <2>2. parser.state = "s_chunk_size_start" => counted = 1
    BY <1>2, <1>4 DEF Fresh, ParsingHeader, BodyStates
  <2> HIDE DEF counted
  <2>3. /\ p \in ParserRecords /\ p.nread = counted /\ p.http_errno = "OK"
        /\ p.state = parser.state /\ p.flags = parser.flags
        /\ p.content_length = parser.content_length /\ p.header_state = parser.header_state
    BY <1>2, <2>1 DEF ParserRecords
  <2> HIDE DEF p
  <2>4. ParserOK(p)
    BY <1>2, <2>1, <2>3 DEF ParserOK
  <2>5. Places'
    BY <1>1, <1>2, <1>3, <1>6 DEF Places, Move
  <2>6. ParserOK(parser)' /\ parser' = p /\ at' = "switch" /\ pos' = pos
    BY <1>6, <2>4 DEF Move, ParserOK
  <2>7. \A on \in DataCalls : marks[on] <= pos
    BY <1>3
  <2>8. AtSwitch'
    BY <1>1, <1>2, <1>3, <2>2, <2>3, <2>6, <2>7 DEF AtSwitch, Fits
  <2> QED
    BY <2>5, <2>6, <2>8 DEF ParserInv, AtIdle, AtLoop
<1> QED
  BY <1>5, <1>6 DEF NextUnit, Again, Error

LEMMA ExecuteInv == ASSUME NEW n, ParserInv, Execute(n) PROVE ParserInv'
<1>1. at = "idle" /\ n \in 1 .. Len(input) - arrived /\ arrived' = arrived + n
      /\ UNCHANGED <<input, pos, parser, start>>
      /\ at' = IF parser.http_errno = "OK" THEN "loop" ELSE "idle"
  BY DEF Execute
<1>2. Places /\ ParserOK(parser) /\ (parser.http_errno = "OK" => Fresh(parser))
  BY <1>1 DEF ParserInv, AtIdle
<1>3. Len(input) \in Nat /\ arrived \in Nat /\ pos \in Nat \ {0}
  BY <1>2 DEF Places
<1>4. /\ marks' \in [DataCalls -> {0, pos}]
      /\ marks'["url"] # 0 => parser.state \in UrlStates
      /\ marks'["header_field"] # 0 => parser.state = "s_header_field"
      /\ marks'["header_value"] # 0 => parser.state = "s_header_value"
      /\ marks'["body"] = 0
  BY DEF Execute, DataCalls
<1>5. marks' \in [DataCalls -> 0..pos] /\ Fits(marks', parser.state)
  BY <1>3, <1>4 DEF Fits
<1>6. Places'
  <2>1. arrived' \in 0..Len(input) /\ pos \in 1 .. arrived' + 1
    BY <1>1, <1>2, <1>3 DEF Places
  <2> QED
    BY <1>1, <1>2, <1>5, <2>1 DEF Places
<1>7. ParserOK(parser)' /\ parser' = parser
  BY <1>1, <1>2 DEF ParserOK
<1> QED
  BY <1>1, <1>2, <1>5, <1>6, <1>7 DEF ParserInv, AtIdle, AtLoop, AtSwitch, Fresh, Fits

LEMMA ParserInvStep == ParserInv /\ [Next]_parserVars => ParserInv'
<1> SUFFICES ASSUME ParserInv, [Next]_parserVars PROVE ParserInv'
  OBVIOUS
<1>1. CASE Pass
  <2>1. CASE NextUnit /\ start' = pos
    BY <1>1, <2>1, NextUnitInv DEF Pass
  <2>2. CASE (EndOfChunk \/ RequestLine \/ Headers \/ Bodies) /\ UNCHANGED start
    <3>1. Frame
      BY <1>1, <2>2 DEF Pass, Frame
    <3> QED
      BY <2>2, <3>1, EndOfChunkInv, RequestLineInv, HeadersInv, BodiesInv
  <2> QED
    BY <1>1, <2>1, <2>2 DEF Pass
<1>2. CASE \E n \in 1 .. Len(input) - arrived : Execute(n)
  BY <1>2, ExecuteInv
<1>3. CASE UNCHANGED parserVars
  BY <1>3 DEF parserVars, ParserInv, Places, ParserOK, AtIdle, AtLoop, AtSwitch, Fresh, Fits
<1> QED
  BY <1>1, <1>2, <1>3 DEF Next

(* Whatever arrives, cut in whatever way: http_parser_execute() reads only *)
(* what has arrived and reports no more as parsed, its asserts hold, the   *)
(* header is counted against max_header_size, and neither Content-Length   *)
(* nor a chunk's size overflows, or turns into the "no length" value.      *)
THEOREM TypeCorrect == Spec => []TypeOK
<1>1. Init => ParserInv
  BY ParserInit
<1>2. ParserInv /\ [Next]_parserVars => ParserInv'
  BY ParserInvStep
<1>3. ParserInv => TypeOK
  BY InvTypeOK
<1> QED
  BY <1>1, <1>2, <1>3, PTL DEF Spec
=============================================================================
