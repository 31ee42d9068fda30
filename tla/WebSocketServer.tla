--------------------------- MODULE WebSocketServer ---------------------------
(***************************************************************************)
(* TcpServer and WebSocketServer on one loop thread: which objects the two *)
(* maps keep, who destroys them, and what the process dies of.             *)
(*                                                                         *)
(* connectionMap_ owns the TcpConnections.  wsConns_ owns the              *)
(* WebSocketConnections, and so does an application whose callbacks have   *)
(* captured one, as those of main.cpp do.  One action is one callback of   *)
(* libuv.  The connections are those of TcpConnection and                  *)
(* WebSocketConnection, reduced to what decides about their lifetime: how  *)
(* many writes are outstanding, whether something is queued, and the       *)
(* effect of one frame.  A callback on a freed object may end the process  *)
(* or do nothing visible.                                                  *)
(***************************************************************************)
EXTENDS Integers, FiniteSets

CONSTANTS
  MaxConns, \* bound: connections that are accepted
  MaxWrites \* bound: writes of one connection that are outstanding

ASSUME BoundsOK == MaxConns \in Nat /\ MaxWrites \in Nat \ {0}

VARIABLES
  id,            \* id_
  connectionMap, \* connectionMap_
  wsConns,       \* wsConns_
  tcp,           \* the TcpConnections, by id
  ws,            \* the WebSocketConnections, by id
  broken,        \* what the process has died of, or "no"
  culprit        \* and at which connection

vars == <<id, connectionMap, wsConns, tcp, ws, broken, culprit>>

Ids == 0..(MaxConns - 1)

(* state: state_.  reading: uv_read_start is in force.  writes: uv_writes  *)
(* without a callback yet.  queued: outputBuf is not empty.  last:         *)
(* isLastWrite.  closeCb: closeCallback_, the server's closeConnection or  *)
(* the WebSocketConnection's handleClose.  dead: a write has failed.       *)
(* gone: the client has hung up.  asked (history): why a close was         *)
(* requested.  moved (history): a message was sent in two parts.           *)
TcpConnection(accepted) ==
  [state |-> "kConnected", reading |-> accepted, writes |-> 0, queued |-> FALSE, last |-> FALSE,
   closeCb |-> "closeConnection", dead |-> FALSE, gone |-> FALSE, asked |-> "no", moved |-> FALSE]

(* status: status_.  held: the application keeps a reference.              *)
WebSocketConnection == [status |-> "INITIAL", held |-> FALSE]

Init ==
  /\ id = 0
  /\ connectionMap = {}
  /\ wsConns = {}
  /\ tcp = [i \in {} |-> TcpConnection(TRUE)]
  /\ ws = [i \in {} |-> WebSocketConnection]
  /\ broken = "no"
  /\ culprit = 0

Dies(i, why) ==
  /\ broken' = why
  /\ culprit' = i
  /\ UNCHANGED <<connectionMap, wsConns, tcp, ws>>
Lives == UNCHANGED <<broken, culprit>>

-----------------------------------------------------------------------------
(* on_uv_connection(): the connection is entered whether uv_accept() works *)
(* or not; if it does not, there is nothing to read from.                  *)
Accept ==
  /\ broken = "no"
  /\ id < MaxConns
  /\ id' = id + 1
  /\ connectionMap' = connectionMap \cup {id}
  /\ \E accepted \in BOOLEAN :
       tcp' = [i \in DOMAIN tcp \cup {id} |-> IF i = id THEN TcpConnection(accepted) ELSE tcp[i]]
  /\ UNCHANGED <<wsConns, ws>> /\ Lives

-----------------------------------------------------------------------------
(* What is left of connection c when it is freed: the writes that libuv    *)
(* has not called back for.                                                *)
Freed(c) == [TcpConnection(FALSE) EXCEPT !.state = "kDisconnected", !.writes = c.writes, !.moved = c.moved]

(* Mutant: stopRead() is forgotten. *)
HandleClose_KeepsReading(i, c) ==
  \/ /\ c.state = "kWritting"
     /\ tcp' = [tcp EXCEPT ![i] = [c EXCEPT !.state = "kDisconnecting"]]
     /\ UNCHANGED <<connectionMap, wsConns, ws>> /\ Lives
  \/ /\ c.state \in {"kDisconnecting", "kDisconnected"}
     /\ Dies(i, "handleClose")
  \/ /\ c.state = "kConnected" /\ c.closeCb = "handleClose" /\ ~ws[i].held
     /\ Dies(i, "WebSocketConnection freed")
  \/ /\ c.state = "kConnected"
     /\ wsConns' = wsConns \ {i}
     /\ IF c.closeCb = "closeConnection"
        THEN /\ connectionMap' = connectionMap \ {i}
             /\ tcp' = [tcp EXCEPT ![i] = Freed(c)]
             /\ UNCHANGED ws
        ELSE /\ tcp' = [tcp EXCEPT ![i] = [c EXCEPT !.state = "kDisconnected"]]
             /\ ws' = [ws EXCEPT ![i].status = "CLOSED"]
             /\ UNCHANGED connectionMap
     /\ Lives

(* Mutant: the close is not deferred. *)
HandleClose_AtOnce(i, c) ==
  \/ /\ c.state \in {"kDisconnecting", "kDisconnected"}
     /\ Dies(i, "handleClose")
  \/ /\ c.state \in {"kConnected", "kWritting"} /\ c.closeCb = "handleClose" /\ ~ws[i].held
     /\ Dies(i, "WebSocketConnection freed")
  \/ /\ c.state \in {"kConnected", "kWritting"}
     /\ wsConns' = wsConns \ {i}
     /\ IF c.closeCb = "closeConnection"
        THEN /\ connectionMap' = connectionMap \ {i}
             /\ tcp' = [tcp EXCEPT ![i] = Freed(c)]
             /\ UNCHANGED ws
        ELSE /\ tcp' = [tcp EXCEPT ![i] = [c EXCEPT !.state = "kDisconnected", !.reading = FALSE]]
             /\ ws' = [ws EXCEPT ![i].status = "CLOSED"]
             /\ UNCHANGED connectionMap
     /\ Lives

(* TcpConnection::handleClose() on connection i, which is c: deferred, or  *)
(* connectionCallback_, which erases the WebSocketConnection, and then     *)
(* closeCallback_, which erases the TcpConnection unless the application   *)
(* has replaced it by the callback of the WebSocketConnection.  That one   *)
(* may have been freed by the first callback.                              *)
HandleClose(i, c) ==
  \/ /\ c.state = "kWritting"
     /\ tcp' = [tcp EXCEPT ![i] = [c EXCEPT !.state = "kDisconnecting"]]
     /\ UNCHANGED <<connectionMap, wsConns, ws>> /\ Lives
  \/ /\ c.state \in {"kDisconnecting", "kDisconnected"}
     /\ Dies(i, "handleClose")
  \/ /\ c.state = "kConnected" /\ c.closeCb = "handleClose" /\ ~ws[i].held
     /\ Dies(i, "WebSocketConnection freed")
  \/ /\ c.state = "kConnected"
     /\ wsConns' = wsConns \ {i}
     /\ IF c.closeCb = "closeConnection"
        THEN /\ connectionMap' = connectionMap \ {i}
             /\ tcp' = [tcp EXCEPT ![i] = Freed(c)]
             /\ UNCHANGED ws
        ELSE /\ tcp' = [tcp EXCEPT ![i] = [c EXCEPT !.state = "kDisconnected", !.reading = FALSE]]
             /\ ws' = [ws EXCEPT ![i].status = "CLOSED"]
             /\ UNCHANGED connectionMap
     /\ Lives

Asked(c, why) == [c EXCEPT !.asked = IF @ = "no" THEN why ELSE @]

(* Bound: a send that starts another uv_write. *)
Room(c) == c.state = "kWritting" \/ c.writes < MaxWrites

(* send(const char*, size_t) on c. *)
CanSend(c) == c.state \in {"kConnected", "kWritting"}
Sent(c) ==
  IF c.state = "kWritting" THEN [c EXCEPT !.queued = TRUE]
  ELSE [c EXCEPT !.state = "kWritting", !.writes = @ + 1]

(* send(Buffer&, String&&) on c. *)
SentInParts(c) ==
  IF c.state = "kWritting" THEN [c EXCEPT !.queued = TRUE]
  ELSE [c EXCEPT !.writes = @ + 1, !.moved = TRUE]

-----------------------------------------------------------------------------
(* WebSocketServer::handleMessage(): a read of connection i, for which the *)
(* WebSocketConnection is made when the first data arrives.                *)
Reads(i) ==
  /\ broken = "no"
  /\ i \in connectionMap
  /\ tcp[i].reading /\ ~tcp[i].gone
  /\ UNCHANGED id

Known(i) == IF i \in wsConns THEN ws[i] ELSE WebSocketConnection
Keep(i, w) ==
  /\ wsConns' = wsConns \cup {i}
  /\ ws' = [j \in DOMAIN ws \cup {i} |-> IF j = i THEN w ELSE ws[j]]

Become(i, c, w) ==
  /\ tcp' = [tcp EXCEPT ![i] = c]
  /\ Keep(i, w)
  /\ UNCHANGED connectionMap /\ Lives

(* A part of a request, or one that the HTTP parser does not accept.       *)
ReadsPart(i) ==
  /\ Reads(i)
  /\ Known(i).status = "INITIAL"
  /\ Become(i, tcp[i], Known(i))

(* A request that is refused: send() and close(). *)
ReadsBadRequest(i) ==
  /\ Reads(i)
  /\ Known(i).status = "INITIAL"
  /\ \/ ~CanSend(tcp[i]) /\ Dies(i, "send")
     \/ /\ CanSend(tcp[i])
        /\ Become(i, [Sent(Asked(tcp[i], "refused")) EXCEPT !.state = "kDisconnecting"], Known(i))

(* An opening handshake: 101, and the application is told.  It may install *)
(* onClose(), and may keep a reference, which matters only if it does.     *)
ReadsOpening(i) ==
  /\ Reads(i)
  /\ Known(i).status = "INITIAL"
  /\ \/ ~CanSend(tcp[i]) /\ Dies(i, "send")
     \/ /\ CanSend(tcp[i])
        /\ \E closeCb \in {"closeConnection", "handleClose"}, held \in BOOLEAN :
             /\ held => closeCb = "handleClose"
             /\ Become(i, [Sent(tcp[i]) EXCEPT !.closeCb = closeCb], [status |-> "CONNECT", held |-> held])

(* A message, which the application answers with sendMessage(). *)
ReadsMessage(i) ==
  /\ Reads(i)
  /\ Known(i).status \in {"CONNECT", "CLOSING"}
  /\ Room(tcp[i])
  /\ Become(i, SentInParts(tcp[i]), ws[i])

(* A ping, which is answered with pong(). *)
ReadsPing(i) ==
  /\ Reads(i)
  /\ Known(i).status \in {"CONNECT", "CLOSING"}
  /\ Room(tcp[i])
  /\ \/ ~CanSend(tcp[i]) /\ Dies(i, "send")
     \/ CanSend(tcp[i]) /\ Become(i, Sent(tcp[i]), ws[i])

(* Mutant: the close frame does not change status_. *)
ReadsClose_KeepsStatus(i) ==
  /\ Reads(i)
  /\ Known(i).status = "CONNECT"
  /\ Room(tcp[i])
  /\ \/ ~CanSend(tcp[i]) /\ Dies(i, "send")
     \/ /\ CanSend(tcp[i])
        /\ Become(i, [Sent(Asked(tcp[i], "closeFrame")) EXCEPT !.state = "kDisconnecting"], ws[i])

(* The peer's close frame: it is answered, and the TCP connection closed.  *)
ReadsClose(i) ==
  /\ Reads(i)
  /\ Known(i).status = "CONNECT"
  /\ Room(tcp[i])
  /\ \/ ~CanSend(tcp[i]) /\ Dies(i, "send")
     \/ /\ CanSend(tcp[i])
        /\ Become(i, [Sent(Asked(tcp[i], "closeFrame")) EXCEPT !.state = "kDisconnecting"],
                  [ws[i] EXCEPT !.status = "CLOSED"])

(* WebSocketConnection::close(), by the application in a callback or, with *)
(* another code than NORMAL_CLOSE, for a protocol error as well: a close   *)
(* frame is sent.                                                          *)
ReadsAndCloses(i) ==
  /\ Reads(i)
  /\ Known(i).status \in {"CONNECT", "CLOSING"}
  /\ Room(tcp[i])
  /\ \/ ~CanSend(tcp[i]) /\ Dies(i, "send")
     \/ /\ CanSend(tcp[i])
        /\ \E normal \in BOOLEAN :
             Become(i, [Sent(tcp[i]) EXCEPT !.reading = normal], [ws[i] EXCEPT !.status = "CLOSING"])

(* Data of a connection that is CLOSED is ignored: no step.               *)
Read(i) ==
  \/ ReadsPart(i) \/ ReadsBadRequest(i) \/ ReadsOpening(i) \/ ReadsMessage(i) \/ ReadsPing(i)
  \/ ReadsClose(i) \/ ReadsAndCloses(i)

-----------------------------------------------------------------------------
(* The client hangs up, or its connection breaks. *)
HangUp(i) ==
  /\ broken = "no"
  /\ i \in connectionMap /\ ~tcp[i].gone
  /\ tcp' = [tcp EXCEPT ![i].gone = TRUE]
  /\ UNCHANGED <<id, connectionMap, wsConns, ws>> /\ Lives

(* on_uv_read() with nread < 0; libuv has stopped reading.                 *)
ReadEnd(i) ==
  /\ broken = "no"
  /\ i \in connectionMap
  /\ tcp[i].reading /\ tcp[i].gone
  /\ HandleClose(i, [Asked(tcp[i], "gone") EXCEPT !.reading = FALSE])
  /\ UNCHANGED id

(* on_uv_read() with nread = 0: the read before has filled all the space   *)
(* that on_uv_alloc() gave, and there is nothing more to read yet.         *)
ReadNothing(i) ==
  /\ Reads(i)
  /\ i \in wsConns
  /\ HandleClose(i, Asked(tcp[i], "nothing"))

(* Mutant: a deferred close with nothing queued is forgotten. *)
WriteDone_Forgets(i) ==
  /\ broken = "no"
  /\ i \in connectionMap
  /\ tcp[i].writes > 0 /\ ~tcp[i].dead
  /\ LET c == tcp[i]
         done == [c EXCEPT !.writes = @ - 1, !.state = "kConnected"]
         goOn(d) == tcp' = [tcp EXCEPT ![i] = d] /\ UNCHANGED <<connectionMap, wsConns, ws>> /\ Lives
     IN  \/ c.last /\ HandleClose(i, [done EXCEPT !.last = FALSE])
         \/ ~c.last /\ ~c.queued /\ c.state = "kDisconnecting" /\ goOn(done)
         \/ ~c.last /\ ~c.queued /\ c.state # "kDisconnecting" /\ goOn(done)
         \/ /\ ~c.last /\ c.queued
            /\ goOn([Sent(done) EXCEPT !.queued = FALSE, !.last = (c.state = "kDisconnecting")])
  /\ UNCHANGED id

(* The callback of uv_write(), for a write that is done.  Its last         *)
(* assignment is to an object that is freed by then when the close has     *)
(* gone through; that changes nothing here.                                *)
WriteDone(i) ==
  /\ broken = "no"
  /\ i \in connectionMap
  /\ tcp[i].writes > 0 /\ ~tcp[i].dead
  /\ LET c == tcp[i]
         done == [c EXCEPT !.writes = @ - 1, !.state = "kConnected"]
         goOn(d) == tcp' = [tcp EXCEPT ![i] = d] /\ UNCHANGED <<connectionMap, wsConns, ws>> /\ Lives
     IN  \/ c.last /\ HandleClose(i, [done EXCEPT !.last = FALSE])
         \/ ~c.last /\ ~c.queued /\ c.state = "kDisconnecting" /\ HandleClose(i, done)
         \/ ~c.last /\ ~c.queued /\ c.state # "kDisconnecting" /\ goOn(done)
         \/ /\ ~c.last /\ c.queued
            /\ goOn([Sent(done) EXCEPT !.queued = FALSE, !.last = (c.state = "kDisconnecting")])
  /\ UNCHANGED id

(* And for one that has failed. *)
WriteFails(i) ==
  /\ broken = "no"
  /\ i \in connectionMap
  /\ tcp[i].writes > 0
  /\ HandleClose(i, [Asked(tcp[i], "writeFailed") EXCEPT !.writes = @ - 1, !.dead = TRUE])
  /\ UNCHANGED id

(* And for one of a connection that is destroyed: ~TcpConnection has       *)
(* cancelled it, and handleClose() runs on the freed object.               *)
WriteCancelled(i) ==
  /\ broken = "no"
  /\ i \in DOMAIN tcp \ connectionMap
  /\ tcp[i].writes > 0
  /\ \/ Dies(i, "TcpConnection freed")
     \/ /\ tcp' = [tcp EXCEPT ![i].writes = @ - 1]
        /\ UNCHANGED <<connectionMap, wsConns, ws>> /\ Lives
  /\ UNCHANGED id

Next ==
  \/ Accept
  \/ \E i \in Ids :
       Read(i) \/ HangUp(i) \/ ReadEnd(i) \/ ReadNothing(i)
       \/ WriteDone(i) \/ WriteFails(i) \/ WriteCancelled(i)

(* A write to a client that has hung up.  One to a client that does not    *)
(* read may be outstanding for ever.                                       *)
WriteToGoneEnds(i) ==
  /\ i \in DOMAIN tcp /\ tcp[i].gone
  /\ WriteDone(i) \/ WriteFails(i)

(* The loop runs: the hang-up of a client that is read is noticed, and     *)
(* what is being written to it ends.                                       *)
Spec ==
  /\ Init /\ [][Next]_vars
  /\ \A i \in Ids : WF_vars(ReadEnd(i)) /\ WF_vars(WriteToGoneEnds(i))

-----------------------------------------------------------------------------
(* Properties. *)

(* The two maps agree (WebSocketServer.cpp:23, TcpServer.cpp:18): a        *)
(* WebSocketConnection in wsConns_ has a TcpConnection in connectionMap_   *)
(* that is not closed, so that conn_ is alive; a closed TcpConnection      *)
(* stays in connectionMap_ only if onClose() has replaced closeConnection; *)
(* and one that stays behind without its WebSocketConnection is not read   *)
(* any more, or its next frame would be parsed as a request by a new one   *)
(* (WebSocketServer.cpp:12).                                               *)
MapsAgree ==
  /\ wsConns \subseteq connectionMap
  /\ \A i \in connectionMap :
       /\ tcp[i].state = "kDisconnected" => i \notin wsConns /\ tcp[i].closeCb = "handleClose"
       /\ i \in DOMAIN ws \ wsConns => ~tcp[i].reading

(* The assertion in send() (TcpConnection.cpp:85) ends the process only    *)
(* for a connection of which a close is pending while it is still read:    *)
(* one that was refused, one whose buffer was filled to the last byte, and *)
(* one a write to which has failed.  The closing handshake is not one of   *)
(* them, nor is a connection of which no close was asked.                  *)
SendDiesOf ==
  broken = "send" => tcp[culprit].asked \in {"refused", "nothing", "writeFailed"}

(* A connection is destroyed with a write outstanding, whose callback then *)
(* runs on the freed object (TcpConnection.cpp:143), only if it has sent a *)
(* message in two parts, which does not set kWritting (:64).               *)
FreedWithWrites ==
  \A i \in DOMAIN tcp \ connectionMap : tcp[i].writes > 0 => tcp[i].moved

(* A connection whose client has hung up is destroyed, or the process      *)
(* dies, provided that it is read (it was accepted, and close() has not    *)
(* stopped reading for a protocol error, WebSocketConnection.cpp:221) and  *)
(* closeConnection is still its callback (WebSocketConnection.h:75).  One  *)
(* end is a leak: the last write fails in kWritting, and its callback      *)
(* defers the close to a write that does not exist (TcpConnection.cpp:147).*)
Released ==
  \A i \in Ids :
    (/\ i \in connectionMap
     /\ tcp[i].gone /\ tcp[i].reading /\ tcp[i].closeCb = "closeConnection")
    ~> (\/ broken # "no"
        \/ i \in DOMAIN tcp \ connectionMap
        \/ /\ i \in DOMAIN tcp
           /\ tcp[i].state = "kDisconnecting" /\ tcp[i].dead /\ tcp[i].writes = 0)
=============================================================================
