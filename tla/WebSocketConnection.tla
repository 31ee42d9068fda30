------------------------ MODULE WebSocketConnection ------------------------
(***************************************************************************)
(* One ws::WebSocketConnection after its handshake: parse() and decode(),  *)
(* which turn the bytes that TcpConnection has read, in chunks of any      *)
(* size, into frames and messages, and the operations of the application   *)
(* (sendMessage, ping, pong, close) that share outputBuf_ with the answers *)
(* decode() gives.                                                         *)
(*                                                                         *)
(* Bytes are numbers in 0..255.  One action is one call of parse() up to   *)
(* decode(), one call of decode() up to its tail recursion, or one         *)
(* operation of the application; busy says that decode() is to be called   *)
(* (again), and nothing else runs on the loop thread until it returns.     *)
(* conn_ takes whole buffers: its own queueing is modelled in TcpConnection. *)
(***************************************************************************)
EXTENDS Integers, Sequences

CONSTANTS
  Traffic,      \* the frame sequences the peer may send
  Early,        \* frames may arrive together with the upgrade request
  OnMessage,    \* wsMessageCallback_ is set
  CloseCodes,   \* codes the application calls close() with
  SendLengths,  \* lengths of the messages the application sends
  MaxSends,     \* bound: operations of the application
  Calls         \* which of CallChoices the application makes

CallChoices == {"sendMessage", "ping", "longPing", "close", "sendAfterClose"}

NORMAL_CLOSE == 1000
PROTOCOL_ERROR == 1002
kControlLimit == 126  \* shortest payload that pong() and ping() refuse

Byte == 0..255

(* What a uint64_t holds: the numbers below 2^64. *)
UInt64 == {n \in Nat : ((n \div 65536) \div 65536) \div 65536 < 65536}

(* A frame as the peer means it; form is 0, 126 or 127, the way it chooses *)
(* to encode the length; mask is its masking key or <<>>.                  *)
Frame ==
  {f \in [fin : BOOLEAN, rsv : 0..7, opcode : 0..15, mask : Seq(Byte), form : {0, 126, 127},
          payload : Seq(Byte)] :
     /\ Len(f.mask) \in {0, 4}
     /\ f.form = 0 => Len(f.payload) < 126
     /\ f.form = 126 => Len(f.payload) < 65536
     /\ Len(f.payload) \in UInt64}

ASSUME ConstantsOK ==
  /\ Traffic \subseteq Seq(Frame)
  /\ Early \in BOOLEAN /\ OnMessage \in BOOLEAN
  /\ CloseCodes \subseteq 1000..1003
  /\ SendLengths \subseteq UInt64
  /\ MaxSends \in Nat
  /\ Calls \subseteq CallChoices

VARIABLES
  wire,       \* bytes the peer has sent and the loop has not read
  input,      \* unread bytes of TcpConnection::buf
  header,     \* isFin_, opcode_, masked_, maskKey_, payloadLength_
  headerRead, \* headerRead_
  wanted,     \* wanted_
  decodeBuf,  \* unread bytes of decodeBuf_
  fragmentedOpCode, \* fragmentedOpCode_
  status,     \* status_
  outputBuf,  \* unread bytes of outputBuf_
  reading,    \* conn_ is reading
  busy,       \* decode() is to be called
  failedAssert, \* assert(outputBuf_.empty()) has aborted the process
  pending,    \* history: frames the peer sent that decode() has not handled
  events,     \* history: callbacks made and buffers handed to conn_
  sends       \* history: operations of the application

vars == <<wire, input, header, headerRead, wanted, decodeBuf, fragmentedOpCode, status,
          outputBuf, reading, busy, failedAssert, pending, events, sends>>

-----------------------------------------------------------------------------
(* Bytes. *)

(* a ^ b, bit by bit; w is the weight of a bit. *)
XorBit(a, b, w) == IF (a \div w) % 2 = (b \div w) % 2 THEN 0 ELSE w
Xor(a, b) ==
  XorBit(a, b, 1) + XorBit(a, b, 2) + XorBit(a, b, 4) + XorBit(a, b, 8)
    + XorBit(a, b, 16) + XorBit(a, b, 32) + XorBit(a, b, 64) + XorBit(a, b, 128)

Flag(b) == IF b THEN 1 ELSE 0
Drop(s, n) == SubSeq(s, n + 1, Len(s))
FirstOf(s, n) == SubSeq(s, 1, n)

(* Numbers in network order. *)
PutUInt16(n) == <<(n \div 256) % 256, n % 256>>
PutUInt32(n) == PutUInt16(n \div 65536) \o PutUInt16(n)
PutUInt64(n) == PutUInt32((n \div 65536) \div 65536) \o PutUInt32(n)
ReadUInt16(s) == 256 * s[1] + s[2]
ReadUInt32(s) == 65536 * ReadUInt16(s) + ReadUInt16(Drop(s, 2))
ReadUInt64(s) == 65536 * (65536 * ReadUInt32(s)) + ReadUInt32(Drop(s, 4))

(* Masking and unmasking are the same operation. *)
Masked(payload, mask) ==
  IF mask = <<>> THEN payload
  ELSE [i \in 1..Len(payload) |-> Xor(payload[i], mask[((i - 1) % 4) + 1])]

(* How the peer encodes a frame. *)
FirstTwo(f) ==
  <<128 * Flag(f.fin) + 16 * f.rsv + f.opcode,
    128 * Flag(f.mask # <<>>) + (IF f.form = 0 THEN Len(f.payload) ELSE f.form)>>
Extension(f) ==
  CASE f.form = 0 -> <<>>
    [] f.form = 126 -> PutUInt16(Len(f.payload))
    [] f.form = 127 -> PutUInt64(Len(f.payload))
EncodeHeader(f) == FirstTwo(f) \o (Extension(f) \o f.mask)
Encode(f) == EncodeHeader(f) \o Masked(f.payload, f.mask)

EncodeAll(fs) ==
  LET from[i \in 1..Len(fs) + 1] == IF i > Len(fs) THEN <<>> ELSE Encode(fs[i]) \o from[i + 1]
  IN  from[1]

(* The fields of a header at the front of b. *)
Rsv(b) == (b[1] \div 16) % 8
Opcode(b) == b[1] % 16
IsMasked(b) == b[2] >= 128
Length7(b) == b[2] % 128
ExtendedBytes(b) == CASE Length7(b) = 126 -> 2 [] Length7(b) = 127 -> 8 [] OTHER -> 0

(* Mutant: every frame is taken to have a masking key. *)
HeaderWants_AlwaysMasked(b) ==
  IF Len(b) < 2 THEN 2
  ELSE IF Len(b) < 2 + ExtendedBytes(b) THEN 2 + ExtendedBytes(b)
  ELSE IF Len(b) < 2 + ExtendedBytes(b) + 4 THEN 2 + ExtendedBytes(b) + 4
  ELSE 0

(* How many bytes decode() waits for when b is too short to hold a header, *)
(* as far as it can tell; 0 when it holds one.                             *)
HeaderWants(b) ==
  IF Len(b) < 2 THEN 2
  ELSE IF Len(b) < 2 + ExtendedBytes(b) THEN 2 + ExtendedBytes(b)
  ELSE IF IsMasked(b) /\ Len(b) < 2 + ExtendedBytes(b) + 4 THEN 2 + ExtendedBytes(b) + 4
  ELSE 0

HeaderSize(b) == 2 + ExtendedBytes(b) + 4 * Flag(IsMasked(b))

PayloadLength(b) ==
  CASE ExtendedBytes(b) = 0 -> Length7(b)
    [] ExtendedBytes(b) = 2 -> ReadUInt16(Drop(b, 2))
    [] ExtendedBytes(b) = 8 -> ReadUInt64(Drop(b, 2))

(* The members of the connection that a complete header sets. *)
ReadHeader(b) ==
  [fin    |-> b[1] >= 128,
   opcode |-> Opcode(b),
   mask   |-> IF IsMasked(b) THEN SubSeq(b, 3 + ExtendedBytes(b), 6 + ExtendedBytes(b)) ELSE <<>>,
   length |-> PayloadLength(b)]

NoHeader == [fin |-> FALSE, opcode |-> 0, mask |-> <<>>, length |-> 0]

-----------------------------------------------------------------------------
(* handleConnection() has just set status_ to CONNECT.  What came behind   *)
(* the upgrade request stays in the buffer.                                *)
Init ==
  /\ pending \in Traffic
  /\ LET bytes == EncodeAll(pending)
     IN  \E n \in 0..(IF Early THEN Len(bytes) ELSE 0) :
           input = FirstOf(bytes, n) /\ wire = Drop(bytes, n)
  /\ header = NoHeader
  /\ headerRead = FALSE
  /\ wanted = 0
  /\ decodeBuf = <<>>
  /\ fragmentedOpCode = 0
  /\ status = "CONNECT"
  /\ outputBuf = <<>>
  /\ reading = TRUE
  /\ busy = FALSE
  /\ failedAssert = FALSE
  /\ events = <<>>
  /\ sends = 0

Event(what, data) == [what |-> what, data |-> data]
Sent(bytes) == Event("sent", bytes)

(* What close(code) and pong(message) hand to conn_. *)
CloseFrame(code) == <<136, 2>> \o PutUInt16(code)
ControlFrame(first, message) == <<first, Len(message)>> \o message

(* Mutant: the reading side stays open after a protocol error. *)
CloseWith_KeepsReading(code, told) ==
  /\ outputBuf' = CloseFrame(code)
  /\ events' = events \o told \o <<Sent(CloseFrame(code))>>
  /\ status' = "CLOSING"
  /\ UNCHANGED reading

(* close(code), after the events told.  It leaves the frame in outputBuf_. *)
CloseWith(code, told) ==
  /\ outputBuf' = CloseFrame(code)
  /\ events' = events \o told \o <<Sent(CloseFrame(code))>>
  /\ status' = "CLOSING"
  /\ reading' = (reading /\ code = NORMAL_CLOSE)

(* Mutant: what was sent stays in outputBuf_. *)
SendControl_NotRetrieved(first, message, told) ==
  /\ events' = events \o told \o <<Sent(outputBuf \o ControlFrame(first, message))>>
  /\ outputBuf' = outputBuf \o ControlFrame(first, message)
  /\ UNCHANGED <<status, reading>>

(* ping(message) and pong(message) when the message is short enough: all   *)
(* that is in outputBuf_ is sent.                                          *)
SendControl(first, message, told) ==
  /\ events' = events \o told \o <<Sent(outputBuf \o ControlFrame(first, message))>>
  /\ outputBuf' = <<>>
  /\ UNCHANGED <<status, reading>>

-----------------------------------------------------------------------------
(* n more bytes arrive; parse() calls decode() unless fewer than wanted_   *)
(* are there or the connection is closed.                                  *)
Read(n) ==
  /\ ~busy /\ ~failedAssert
  /\ reading
  /\ n \in 1..Len(wire)
  /\ input' = input \o FirstOf(wire, n)
  /\ wire' = Drop(wire, n)
  /\ busy' = (Len(input') >= wanted /\ status \in {"CONNECT", "CLOSING"})
  /\ UNCHANGED <<header, headerRead, wanted, decodeBuf, fragmentedOpCode, status, outputBuf,
                 reading, failedAssert, pending, events, sends>>

(* The frame at hand is done with. *)
Handled == pending' = IF pending = <<>> THEN <<>> ELSE Tail(pending)

(* The first byte already shows reserved bits: protocol error. *)
DecodeRsv ==
  /\ busy
  /\ ~headerRead
  /\ Rsv(input) # 0
  /\ input' = Tail(input)
  /\ CloseWith(PROTOCOL_ERROR, <<>>)
  /\ busy' = FALSE
  /\ Handled
  /\ UNCHANGED <<wire, header, headerRead, wanted, decodeBuf, fragmentedOpCode, failedAssert, sends>>

(* The header is incomplete: what was read of it is returned to the buffer. *)
DecodeShortHeader ==
  /\ busy
  /\ ~headerRead
  /\ Rsv(input) = 0
  /\ HeaderWants(input) # 0
  /\ wanted' = HeaderWants(input)
  /\ busy' = FALSE
  /\ UNCHANGED <<wire, input, header, headerRead, decodeBuf, fragmentedOpCode, status,
                 outputBuf, reading, failedAssert, pending, events, sends>>

(* The header of the frame at hand, read now or by an earlier call. *)
HeaderComplete == ~headerRead => Rsv(input) = 0 /\ HeaderWants(input) = 0
Header == IF headerRead THEN header ELSE ReadHeader(input)

(* The bytes behind it. *)
Body == IF headerRead THEN input ELSE Drop(input, HeaderSize(input))

(* Mutant: decode() calls itself instead of returning. *)
DecodeShortPayload_Recurses ==
  /\ busy
  /\ HeaderComplete
  /\ Header.length > Len(Body)
  /\ header' = Header
  /\ input' = Body
  /\ headerRead' = TRUE
  /\ wanted' = Header.length
  /\ UNCHANGED <<wire, decodeBuf, fragmentedOpCode, status, outputBuf, reading, failedAssert,
                 busy, pending, events, sends>>

(* The payload is incomplete. *)
DecodeShortPayload ==
  /\ busy
  /\ HeaderComplete
  /\ Header.length > Len(Body)
  /\ header' = Header
  /\ input' = Body
  /\ headerRead' = TRUE
  /\ wanted' = Header.length
  /\ busy' = FALSE
  /\ UNCHANGED <<wire, decodeBuf, fragmentedOpCode, status, outputBuf, reading, failedAssert,
                 pending, events, sends>>

(* Mutant: the key is applied from the start of decodeBuf_, not from where *)
(* this payload starts in it.                                              *)
Payload_FromStart ==
  LET raw == FirstOf(Body, Header.length)
  IN  IF Header.mask = <<>> THEN raw
      ELSE [i \in DOMAIN raw |-> Xor(raw[i], Header.mask[((Len(decodeBuf) + i - 1) % 4) + 1])]

(* A whole frame is at hand: its header is complete and its payload moves  *)
(* behind what decodeBuf_ holds.                                           *)
Payload == Masked(FirstOf(Body, Header.length), Header.mask)

TakeFrame(opcodes) ==
  /\ busy
  /\ HeaderComplete
  /\ Header.length <= Len(Body)
  /\ Header.opcode \in opcodes
  /\ header' = Header
  /\ input' = Drop(Body, Header.length)
  /\ Handled
  /\ UNCHANGED <<wire, failedAssert, sends>>

(* Mutant: what was handled is taken off wanted_ instead of resetting it.  *)
clearDecodeStatus_Subtract == headerRead' = FALSE /\ wanted' = wanted - Header.length

(* The frame is accepted; decode() calls itself while bytes are left. *)
clearDecodeStatus == headerRead' = FALSE /\ wanted' = 0
GoOn == busy' = (input' # <<>>)

(* The frame is refused: close(PROTOCOL_ERROR) and return. *)
Refuse ==
  /\ decodeBuf' = decodeBuf \o Payload
  /\ CloseWith(PROTOCOL_ERROR, <<>>)
  /\ headerRead' = TRUE
  /\ wanted' = IF headerRead THEN wanted ELSE Length7(input)
  /\ busy' = FALSE
  /\ UNCHANGED fragmentedOpCode

(* Mutant: the message is handed over but stays in decodeBuf_. *)
Deliver_NotRetrieved(opcode) ==
  /\ events' = events \o
       (IF OnMessage
        THEN <<Event(IF opcode = 2 THEN "binary" ELSE "text", decodeBuf \o Payload)>> ELSE <<>>)
  /\ decodeBuf' = decodeBuf \o Payload

(* The message that ends with this frame goes to wsMessageCallback_. *)
Deliver(opcode) ==
  /\ events' = events \o
       (IF OnMessage
        THEN <<Event(IF opcode = 2 THEN "binary" ELSE "text", decodeBuf \o Payload)>> ELSE <<>>)
  /\ decodeBuf' = <<>>

(* case 0 *)
DecodeContinuation ==
  /\ TakeFrame({0})
  /\ \/ /\ fragmentedOpCode = 0
        /\ Refuse
     \/ /\ fragmentedOpCode # 0
        /\ \/ /\ Header.fin
              /\ Deliver(fragmentedOpCode)
              /\ fragmentedOpCode' = 0
           \/ /\ ~Header.fin
              /\ decodeBuf' = decodeBuf \o Payload
              /\ UNCHANGED <<fragmentedOpCode, events>>
        /\ clearDecodeStatus
        /\ GoOn
        /\ UNCHANGED <<status, outputBuf, reading>>

(* case 1, case 2 *)
DecodeData ==
  /\ TakeFrame({1, 2})
  /\ \/ /\ fragmentedOpCode # 0
        /\ Refuse
     \/ /\ fragmentedOpCode = 0
        /\ \/ /\ Header.fin
              /\ Deliver(Header.opcode)
              /\ UNCHANGED fragmentedOpCode
           \/ /\ ~Header.fin
              /\ decodeBuf' = decodeBuf \o Payload
              /\ fragmentedOpCode' = Header.opcode
              /\ UNCHANGED events
        /\ clearDecodeStatus
        /\ GoOn
        /\ UNCHANGED <<status, outputBuf, reading>>

(* Mutant: decoding goes on with the next frame. *)
DecodeClose_Cleared ==
  /\ TakeFrame({8})
  /\ decodeBuf' = decodeBuf \o Payload
  /\ \/ /\ status = "CONNECT"
        /\ outputBuf' = CloseFrame(NORMAL_CLOSE)
        /\ events' = events \o <<Sent(CloseFrame(NORMAL_CLOSE)), Event("tcpClose", <<>>)>>
        /\ status' = "CLOSED"
     \/ /\ status # "CONNECT"
        /\ UNCHANGED <<outputBuf, events, status>>
  /\ clearDecodeStatus
  /\ GoOn
  /\ UNCHANGED <<fragmentedOpCode, reading>>

(* case 8.  The decoding state is not cleared, nor is decodeBuf_. *)
DecodeClose ==
  /\ TakeFrame({8})
  /\ decodeBuf' = decodeBuf \o Payload
  /\ \/ /\ status = "CONNECT"
        /\ outputBuf' = CloseFrame(NORMAL_CLOSE)
        /\ events' = events \o <<Sent(CloseFrame(NORMAL_CLOSE)), Event("tcpClose", <<>>)>>
        /\ status' = "CLOSED"
     \/ /\ status # "CONNECT"
        /\ UNCHANGED <<outputBuf, events, status>>
  /\ headerRead' = TRUE
  /\ wanted' = IF headerRead THEN wanted ELSE Length7(input)
  /\ GoOn
  /\ UNCHANGED <<fragmentedOpCode, reading>>

(* The payload of a control frame is taken back, but only if decodeBuf_    *)
(* held something before it.                                               *)
KeepMessage == decodeBuf' = IF decodeBuf = <<>> THEN Payload ELSE decodeBuf

(* case 9: pingCallback_, pong(), which may refuse, and on to the next. *)
DecodePing ==
  /\ TakeFrame({9})
  /\ \/ /\ ~Header.fin
        /\ Refuse
     \/ /\ Header.fin
        /\ \/ /\ Header.length < kControlLimit
              /\ SendControl(138, Payload, <<Event("ping", Payload)>>)
           \/ /\ Header.length >= kControlLimit
              /\ CloseWith(PROTOCOL_ERROR, <<Event("ping", Payload)>>)
        /\ KeepMessage
        /\ clearDecodeStatus
        /\ GoOn
        /\ UNCHANGED fragmentedOpCode

(* case 10: pongCallback_. *)
DecodePong ==
  /\ TakeFrame({10})
  /\ \/ /\ ~Header.fin
        /\ Refuse
     \/ /\ Header.fin
        /\ events' = Append(events, Event("pong", Payload))
        /\ KeepMessage
        /\ clearDecodeStatus
        /\ GoOn
        /\ UNCHANGED <<fragmentedOpCode, status, outputBuf, reading>>

DecodeUnknown == TakeFrame((3..7) \cup (11..15)) /\ Refuse

Decode ==
  \/ DecodeRsv \/ DecodeShortHeader \/ DecodeShortPayload
  \/ DecodeContinuation \/ DecodeData \/ DecodeClose \/ DecodePing \/ DecodePong \/ DecodeUnknown

-----------------------------------------------------------------------------
(* What the application does outside the callbacks of decode(), as long as *)
(* the connection is not closed.                                           *)
AppTurn(call) ==
  /\ call \in Calls
  /\ ~busy /\ ~failedAssert
  /\ status = "CONNECT" \/ (status = "CLOSING" /\ (call = "close" \/ "sendAfterClose" \in Calls))
  /\ sends < MaxSends
  /\ sends' = sends + 1
  /\ UNCHANGED <<wire, input, header, headerRead, wanted, decodeBuf, fragmentedOpCode, busy, pending>>

(* Mutant: the 16-bit form is taken one length too far. *)
WriteHeader_Boundary(opcode, len) ==
  <<128 + opcode>> \o
  (IF len < 126 THEN <<len>>
   ELSE IF len <= 65536 THEN <<126>> \o PutUInt16(len)
   ELSE <<127>> \o PutUInt64(len))

(* writeHeader(len, opcode) *)
WriteHeader(opcode, len) ==
  <<128 + opcode>> \o
  (IF len < 126 THEN <<len>>
   ELSE IF len <= 65535 THEN <<126>> \o PutUInt16(len)
   ELSE <<127>> \o PutUInt64(len))

(* sendMessage(): the header, behind which conn_ sends the message. *)
SendMessage(opcode, len) ==
  /\ AppTurn("sendMessage")
  /\ \/ /\ outputBuf = <<>>
        /\ events' = Append(events, Sent(WriteHeader(opcode, len)))
        /\ UNCHANGED failedAssert
     \/ /\ outputBuf # <<>>
        /\ failedAssert' = TRUE
        /\ UNCHANGED events
  /\ UNCHANGED <<status, outputBuf, reading>>

(* ping() and pong() with a short message, and with one they refuse. *)
SendPing ==
  /\ AppTurn("ping")
  /\ \E first \in {137, 138} : SendControl(first, <<>>, <<>>)
  /\ UNCHANGED failedAssert

SendLongPing ==
  /\ AppTurn("longPing")
  /\ CloseWith(PROTOCOL_ERROR, <<>>)
  /\ UNCHANGED failedAssert

(* close(code) *)
Close(code) ==
  /\ AppTurn("close")
  /\ CloseWith(code, <<>>)
  /\ UNCHANGED failedAssert

App ==
  \/ \E opcode \in {1, 2}, len \in SendLengths : SendMessage(opcode, len)
  \/ SendPing \/ SendLongPing
  \/ \E code \in CloseCodes : Close(code)

Next == (\E n \in 1..Len(wire) : Read(n)) \/ Decode \/ App

Spec == Init /\ [][Next]_vars

(* The loop runs for ever, the peer's bytes arrive, and decode() returns.  *)
(* The application need not do anything.                                   *)
FairSpec == Spec /\ WF_vars(\E n \in 1..Len(wire) : Read(n)) /\ WF_vars(Decode)

-----------------------------------------------------------------------------
(* The peers and applications that the properties below are about.         *)

(* Before frame i data of an unfinished message has arrived: in these      *)
(* frames, or, if open, before them.                                       *)
IsData(f) == f.opcode \in 0..2
Unfinished(fs, js) == \A j \in js : IsData(fs[j]) => ~fs[j].fin
InMessage(fs, i, open) ==
  \/ open /\ Unfinished(fs, 1 .. i - 1)
  \/ \E j \in 1 .. i - 1 :
       IsData(fs[j]) /\ fs[j].payload # <<>> /\ Unfinished(fs, j .. i - 1)

(* Nothing follows a close frame or a ping that pong() refuses, and pings  *)
(* and pongs with a payload come inside a message.                         *)
Ends(f) == f.opcode = 8 \/ (f.opcode = 9 /\ Len(f.payload) >= kControlLimit)
Injected(f) == f.opcode \in {9, 10} /\ f.payload # <<>>
Tidy(fs, open) ==
  \A i \in 1..Len(fs) :
    /\ Ends(fs[i]) => i = Len(fs)
    /\ Injected(fs[i]) => InMessage(fs, i, open)

TidyPeer == \A fs \in Traffic : Tidy(fs, FALSE)

(* close() leaves its frame in outputBuf_: nothing is sent after it, not   *)
(* even the answer to a ping.                                              *)
MayClose == "close" \in Calls /\ NORMAL_CLOSE \in CloseCodes
NoPings(fs) == \A i \in 1..Len(fs) : fs[i].opcode = 9 => ~fs[i].fin
SilentApp ==
  /\ "sendAfterClose" \notin Calls
  /\ MayClose => \A fs \in Traffic : NoPings(fs)

-----------------------------------------------------------------------------
HeaderFields == [fin : BOOLEAN, opcode : 0..15, mask : Seq(Byte), length : Nat]
EventKinds == {"text", "binary", "ping", "pong", "sent", "tcpClose"}
EventRecords == [what : EventKinds, data : Seq(Byte)]

TypeOK ==
  /\ wire \in Seq(Byte) /\ input \in Seq(Byte)
  /\ decodeBuf \in Seq(Byte) /\ outputBuf \in Seq(Byte)
  /\ header \in HeaderFields
  /\ wanted \in Nat
  /\ fragmentedOpCode \in 0..2
  /\ status \in {"CONNECT", "CLOSING", "CLOSED"}
  /\ headerRead \in BOOLEAN /\ reading \in BOOLEAN /\ busy \in BOOLEAN /\ failedAssert \in BOOLEAN
  /\ pending \in Seq(Frame)
  /\ events \in Seq(EventRecords)
  /\ sends \in 0..MaxSends

(* Frames are still taken: neither a protocol error nor a close frame of   *)
(* the peer has been seen.                                                 *)
Accepting == reading /\ ~(headerRead /\ header.opcode = 8 /\ pending = <<>>)

(* What decode() has still to see of the peer's frames: whole frames, or   *)
(* the payload of the first, whose header it has read, and the rest.       *)
HeaderOf(f) == [fin |-> f.fin, opcode |-> f.opcode, mask |-> f.mask, length |-> Len(f.payload)]
InStep ==
  LET bytes == input \o wire
  IN  IF headerRead
      THEN /\ pending # <<>>
           /\ Head(pending).rsv = 0
           /\ header = HeaderOf(Head(pending))
           /\ LET frame == Head(pending)
              IN  bytes = Masked(frame.payload, frame.mask) \o EncodeAll(Tail(pending))
      ELSE bytes = EncodeAll(pending)

(* The invariants behind the properties.  The peer's part, under TidyPeer: *)
ReceiveInv ==
  IF Accepting
  THEN /\ InStep
       /\ Tidy(pending, decodeBuf # <<>>)
       /\ decodeBuf # <<>> => fragmentedOpCode # 0
  ELSE ~busy /\ (reading => wire = <<>>)

(* What is left in outputBuf_ is a close frame, which was sent before.     *)
AnswerInv ==
  outputBuf # <<>> =>
    status # "CONNECT" /\ \E code \in 1000..1003 : outputBuf = CloseFrame(code)

(* The application's part, under SilentApp. *)
SilentInv ==
  Accepting =>
    /\ status # "CONNECT" => MayClose /\ status = "CLOSING"
    /\ MayClose => NoPings(pending)

(* The bytes of f, or those behind its header once that is known.          *)
SizeLeft(f, known) == Len(Encode(f)) - (IF known THEN HeaderSize(Encode(f)) ELSE 0)
FrameAtHand == pending # <<>> /\ Len(input) >= SizeLeft(Head(pending), headerRead)

(* wanted_ never asks for more than the frame at hand, under TidyPeer. *)
WaitInv ==
  Accepting =>
    /\ status # "CLOSED"
    /\ pending # <<>> => wanted <= SizeLeft(Head(pending), headerRead)

(* A read that completes a frame handles it at once: wanted_ never makes   *)
(* parse() wait for bytes that the frame at hand does not need             *)
(* (WebSocketConnection.cpp:248, 262, 273, 284, 411-416).                  *)
Prompt == [][(busy \/ input' # input) /\ ~busy' /\ Accepting' => ~FrameAtHand']_vars

(* Once a frame was refused no further frame is handled, although bytes    *)
(* of it may be in the buffer already (WebSocketConnection.cpp:219-222).   *)
Refused == \E i \in DOMAIN events : events[i] = Sent(CloseFrame(PROTOCOL_ERROR))
NothingAfterError == [][Refused => pending' = pending]_vars

(* Once the peer's close frame was answered nothing else is told to the    *)
(* application or sent: bytes behind it, in the same read or a later one,  *)
(* are never taken for a frame (WebSocketConnection.cpp:358-367, 405-420). *)
ClosedIsQuiet == [][status = "CLOSED" => UNCHANGED <<status, events>>]_vars

(* assert(outputBuf_.empty()) never fails (WebSocketConnection.cpp:134,    *)
(* 153).                                                                   *)
OutputBufAssert == ~failedAssert

(* decodeBuf_ holds data of a fragmented message and nothing else: no      *)
(* payload of a control frame is left in it                                *)
(* (WebSocketConnection.cpp:376-383, 396-398).                             *)
ControlDataApart == Accepting /\ fragmentedOpCode = 0 => decodeBuf = <<>>

(* decode() returns: its tail recursion ends                               *)
(* (WebSocketConnection.cpp:405-407).                                      *)
DecodeReturns == busy ~> ~busy

(* What an event means to the receiver of the frames. *)
FrameEvent(e) ==
  IF e.what # "sent" THEN e
  ELSE LET h == ReadHeader(e.data)
           body == Drop(e.data, HeaderSize(e.data))
       IN  CASE h.opcode = 8  -> Event("sentClose", <<ReadUInt16(body)>>)
             [] h.opcode = 9  -> Event("sentPing", body)
             [] h.opcode = 10 -> Event("sentPong", body)
             [] OTHER         -> Event("sentMessage", <<h.opcode, h.length>>)

Meaning(es) == [i \in DOMAIN es |-> FrameEvent(es[i])]
Partial == IF Accepting THEN decodeBuf ELSE <<>>

Receiver == INSTANCE FrameReceiver WITH
  ControlLimit <- kControlLimit,
  frames <- pending,
  partial <- Partial,
  kind <- fragmentedOpCode,
  accepting <- Accepting,
  events <- Meaning(events)

(* The bytes, their chunks and the buffers are invisible: the connection   *)
(* behaves like the receiver of whole frames, and what it sends is framed  *)
(* as it was meant.                                                        *)
ReceivesFrames == Receiver!Spec

(* And every frame that the peer sends is handled in the end.              *)
ImplementsReceiver == Receiver!FairSpec
=============================================================================
