--------------------------- MODULE FrameReceiver ---------------------------
(***************************************************************************)
(* What the application and the peer are promised of the receiving side of *)
(* a WebSocket connection, frame by frame and with no mention of bytes,    *)
(* chunks or buffers: fragments are joined, control frames may come        *)
(* between them, pings are answered, a close is answered and ends the      *)
(* connection, and a frame that breaks the rules ends it at once.          *)
(*                                                                         *)
(* A frame is a record of fin, rsv, opcode and payload (and of how it was  *)
(* encoded, which does not matter here).  An event is something the        *)
(* application is told or the peer is sent.                                *)
(***************************************************************************)
EXTENDS Integers, Sequences

CONSTANTS
  Traffic,      \* the frame sequences the peer may send
  ControlLimit, \* shortest payload that a ping must not have
  OnMessage,    \* the application has installed a message callback
  CloseCodes,   \* the codes the application may close with
  SendLengths   \* lengths of the messages it may send

VARIABLES
  frames,     \* frames not handled yet
  partial,    \* data of the message whose fragments are arriving
  kind,       \* its opcode, 0 when there is none
  status,     \* "CONNECT", "CLOSING" or "CLOSED"
  accepting,  \* frames are still taken
  events      \* what was told to the application and sent to the peer

recvVars == <<frames, partial, kind, status, accepting, events>>

Event(what, data) == [what |-> what, data |-> data]

Message(opcode, data) ==
  IF OnMessage THEN <<Event(IF opcode = 2 THEN "binary" ELSE "text", data)>> ELSE <<>>

Init ==
  /\ frames \in Traffic
  /\ partial = <<>>
  /\ kind = 0
  /\ status = "CONNECT"
  /\ accepting = TRUE
  /\ events = <<>>

Frame == Head(frames)

Legal(f) ==
  /\ f.rsv = 0
  /\ f.opcode \in {0, 1, 2, 8, 9, 10}
  /\ f.opcode = 0 => kind # 0
  /\ f.opcode \in {1, 2} => kind = 0
  /\ f.opcode \in {9, 10} => f.fin

Take == accepting /\ frames # <<>> /\ frames' = Tail(frames)

(* A fragment, or a whole message when the frame is final. *)
Data ==
  /\ Take /\ Legal(Frame) /\ Frame.opcode \in {0, 1, 2}
  /\ LET opcode == IF Frame.opcode = 0 THEN kind ELSE Frame.opcode
         data == partial \o Frame.payload
     IN  IF Frame.fin
         THEN /\ events' = events \o Message(opcode, data)
              /\ partial' = <<>>
              /\ kind' = 0
         ELSE /\ partial' = data
              /\ kind' = opcode
              /\ UNCHANGED events
  /\ UNCHANGED <<status, accepting>>

IsPing == Legal(Frame) /\ Frame.opcode = 9
Told == Event("ping", Frame.payload)

Ping ==
  /\ Take /\ IsPing /\ Len(Frame.payload) < ControlLimit
  /\ events' = events \o <<Told, Event("sentPong", Frame.payload)>>
  /\ UNCHANGED <<partial, kind, status, accepting>>

Pong ==
  /\ Take /\ Legal(Frame) /\ Frame.opcode = 10
  /\ events' = Append(events, Event("pong", Frame.payload))
  /\ UNCHANGED <<partial, kind, status, accepting>>

(* The peer's close ends the traffic; it is answered unless we closed first. *)
PeerClose ==
  /\ Take /\ Legal(Frame) /\ Frame.opcode = 8
  /\ IF status = "CONNECT"
     THEN /\ events' = events \o <<Event("sentClose", <<1000>>), Event("tcpClose", <<>>)>>
          /\ status' = "CLOSED"
     ELSE UNCHANGED <<events, status>>
  /\ accepting' = FALSE
  /\ partial' = <<>>
  /\ UNCHANGED kind

(* An illegal frame is answered with PROTOCOL_ERROR and is the last.  Of a *)
(* ping that is too long the application is told nevertheless.             *)
Reject ==
  /\ Take
  /\ LET answer == Event("sentClose", <<1002>>)
     IN  \/ ~Legal(Frame) /\ events' = Append(events, answer)
         \/ IsPing /\ Len(Frame.payload) >= ControlLimit /\ events' = events \o <<Told, answer>>
  /\ status' = "CLOSING"
  /\ accepting' = FALSE
  /\ partial' = <<>>
  /\ UNCHANGED kind

Handle == Data \/ Ping \/ Pong \/ PeerClose \/ Reject

(* The application sends a message or a control frame. *)
AppSend ==
  /\ status # "CLOSED"
  /\ \/ \E opcode \in {1, 2}, len \in SendLengths :
          events' = Append(events, Event("sentMessage", <<opcode, len>>))
     \/ \E what \in {"sentPing", "sentPong"} :
          events' = Append(events, Event(what, <<>>))
  /\ UNCHANGED <<frames, partial, kind, status, accepting>>

(* The application closes; a code other than NORMAL_CLOSE stops the traffic. *)
AppClose ==
  /\ status # "CLOSED"
  /\ \E code \in CloseCodes \cup {1002} :
       /\ events' = Append(events, Event("sentClose", <<code>>))
       /\ accepting' = (accepting /\ code = 1000)
  /\ status' = "CLOSING"
  /\ partial' = IF accepting' THEN partial ELSE <<>>
  /\ UNCHANGED <<frames, kind>>

Next == Handle \/ AppSend \/ AppClose

Spec == Init /\ [][Next]_recvVars

FairSpec == Spec /\ WF_recvVars(Handle)
=============================================================================
