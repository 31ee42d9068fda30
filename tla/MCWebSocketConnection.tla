----------------------- MODULE MCWebSocketConnection -----------------------
(* WebSocketConnection for TLC: the traffic of the peer. *)
EXTENDS WebSocketConnection

Key == <<170, 3, 0, 255>>

F(fin, opcode, payload) ==
  [fin |-> fin, rsv |-> 0, opcode |-> opcode, mask |-> Key, form |-> 0, payload |-> payload]

Payloads == {<<>>, <<7, 200, 33>>}
DataFrames == {F(fin, opcode, p) : fin \in BOOLEAN, opcode \in {0, 1, 2}, p \in Payloads}
Closes == {F(TRUE, 8, <<>>), F(TRUE, 8, <<3, 232>>)}
Empties == {F(TRUE, 9, <<>>), F(TRUE, 10, <<>>)}
Pings == {F(TRUE, 9, <<5, 6>>), F(TRUE, 10, <<5, 6>>)}
Bad == {F(FALSE, 9, <<>>), F(FALSE, 10, <<>>), F(TRUE, 3, <<1>>),
        [F(TRUE, 1, <<9, 9>>) EXCEPT !.rsv = 4]}

(* The same message in each encoding of its length, and unmasked. *)
Encodings ==
  {[F(TRUE, 1, <<1, 2>>) EXCEPT !.form = form, !.mask = mask] :
     form \in {0, 126, 127}, mask \in {Key, <<>>}}

(* A ping that pong() refuses. *)
LongPing == {[F(TRUE, 9, [i \in 1..126 |-> 1]) EXCEPT !.form = 126, !.mask = <<>>]}

Begin == {F(FALSE, 2, <<50, 60, 70>>)}
End == {F(TRUE, 0, <<80>>), F(FALSE, 0, <<>>), F(TRUE, 1, <<80>>)}

Three(a, b, c) == {<<x, y, z>> : x \in a, y \in b, z \in c}
Two(a, b) == {<<x, y>> : x \in a, y \in b}

(* Traffic of a peer that keeps control frames with a payload inside a     *)
(* message, and sends nothing behind a close frame.                        *)
TidyTraffic ==
  Two(DataFrames \cup Empties, DataFrames \cup Closes \cup Empties \cup Bad)
    \cup Two(Encodings, Encodings)
    \cup Three(Begin, DataFrames \cup Empties \cup Pings, End \cup Closes)
    \cup Three(Begin, Pings, Pings)
    \cup Two(Begin, LongPing)

(* Traffic without pings, to be mixed with what the application does. *)
QuietTraffic == Two(Begin, {F(TRUE, 0, <<80>>), F(TRUE, 10, <<>>)} \cup Closes \cup Bad)
ASSUME QuietHasNoPings == \A fs \in QuietTraffic : NoPings(fs)

(* What the theorems ask of the peer holds of both. *)
ASSUME TrafficIsTidy == \A fs \in TidyTraffic \cup QuietTraffic : Tidy(fs, FALSE)

(* Traffic of a peer that goes on after its close frame. *)
RudeTraffic == Two(Pings, Closes) \cup Two(Closes, Begin \cup Pings \cup Closes \cup Bad)

(* A ping with a payload, then a message. *)
PingThenMessage == Two(Pings, {F(TRUE, 1, <<80>>)})
=============================================================================
