--------------------------- MODULE TcpConnection ---------------------------
(***************************************************************************)
(* One ws::TcpConnection on its event loop: the state_ machine, the write  *)
(* path (send, the uv_write callback, outputBuf), the deferred close       *)
(* (kDisconnecting, isLastWrite) and the object's lifetime, which ends     *)
(* when the close callback erases it from TcpServer::connectionMap_.       *)
(*                                                                         *)
(* One action is one callback or API call run to completion on the loop    *)
(* thread.  The i-th accepted send() carries message i, of one unit of     *)
(* length, and a send() after a close was requested the message Late.      *)
(* libuv is external: uvQueue is its FIFO of uv_write requests whose       *)
(* callback has not run, reading its uv_read_start/stop flag.              *)
(***************************************************************************)
EXTENDS Integers, Sequences

CONSTANTS
  MaxSends,  \* bound: calls of send() that are accepted
  MaxReads,  \* bound: read events that carry data
  Garbage,   \* values the uninitialised lastWrite_ may start with
  Env        \* which of EnvChoices the users and the network exhibit

(* "move": callers use send(Buffer&, String&&); "writeError": uv_write may *)
(* fail; "sendAfterClose": send() is called after a close was requested;   *)
(* "doubleClose": several closes are requested (close() and a peer's FIN,  *)
(* a failed write and a failed read); "onClose": the application installs  *)
(* WebSocketConnection::onClose.                                           *)
EnvChoices == {"move", "writeError", "sendAfterClose", "doubleClose", "onClose"}

ASSUME ConstantsOK ==
  /\ MaxSends \in Nat
  /\ MaxReads \in Nat
  /\ Garbage \subseteq Nat /\ Garbage # {}
  /\ Env \subseteq EnvChoices

StateE == {"kConnecting", "kConnected", "kDisconnected", "kDisconnecting", "kWritting"}

VARIABLES
  state,         \* state_
  outputBuf,     \* outputBuf: messages waiting for the write in flight
  isLastWrite,   \* isLastWrite
  lastWrite,     \* lastWrite_: length of the write in flight
  bytesWritten,  \* bytesWritten_
  bytesRead,     \* bytesRead_
  reading,       \* libuv: uv_read_start is in force
  uvQueue,       \* libuv: the data of each uv_write without a callback yet
  broken,        \* libuv: a write has failed, the socket is dead
  closeCb,       \* closeCallback_: the server's closeConnection or the user's
  alive,         \* the object exists (connectionMap_ still owns it)
  touchedFreed,  \* a callback has dereferenced the destroyed object
  failedAssert,  \* the assert() that aborted the process, "none" if none did
  delivered,     \* history: what the peer has been sent, in order
  sent,          \* history: number of messages send() has accepted
  closeAsked     \* history: somebody has requested a close

vars == <<state, outputBuf, isLastWrite, lastWrite, bytesWritten, bytesRead,
          reading, uvQueue, broken, closeCb, alive, touchedFreed, failedAssert,
          delivered, sent, closeAsked>>

TypeOK ==
  /\ state \in StateE
  /\ outputBuf \in Seq(0..MaxSends)
  /\ isLastWrite \in BOOLEAN
  /\ lastWrite \in Nat
  /\ bytesWritten \in Nat
  /\ bytesRead \in 0..MaxReads
  /\ reading \in BOOLEAN
  /\ uvQueue \in Seq(Seq(0..MaxSends))
  /\ broken \in BOOLEAN
  /\ closeCb \in {"closeConnection", "handleClose"}
  /\ alive \in BOOLEAN
  /\ touchedFreed \in BOOLEAN
  /\ failedAssert \in {"none", "send", "handleClose"}
  /\ delivered \in Seq(0..MaxSends)
  /\ sent \in 0..MaxSends
  /\ closeAsked \in BOOLEAN

(* The constructor; the server has bound its own callbacks. *)
Init ==
  /\ state = "kConnecting"
  /\ outputBuf = <<>>
  /\ isLastWrite = FALSE
  /\ lastWrite \in Garbage
  /\ bytesWritten = 0
  /\ bytesRead = 0
  /\ reading = FALSE
  /\ uvQueue = <<>>
  /\ broken = FALSE
  /\ closeCb = "closeConnection"
  /\ alive = TRUE
  /\ touchedFreed = FALSE
  /\ failedAssert = "none"
  /\ delivered = <<>>
  /\ sent = 0
  /\ closeAsked = FALSE

-----------------------------------------------------------------------------
(* The process runs and the object exists. *)
Running == alive /\ failedAssert = "none"

MayClose == "doubleClose" \in Env \/ ~closeAsked
MaySend == sent < MaxSends /\ ("sendAfterClose" \in Env \/ ~closeAsked)

(* connectionEstablished() and startRead(), at the end of on_uv_connection. *)
Accept ==
  /\ Running
  /\ state = "kConnecting"
  /\ state' = "kConnected"
  /\ reading' = TRUE
  /\ UNCHANGED <<outputBuf, isLastWrite, lastWrite, bytesWritten, bytesRead, uvQueue,
                 broken, closeCb, alive, touchedFreed, failedAssert, delivered, sent,
                 closeAsked>>

(* Mutant: stopRead() is forgotten. *)
HandleClose_KeepsReading(s, readingThen) ==
  IF s = "kWritting"
  THEN state' = "kDisconnecting" /\ reading' = readingThen /\ UNCHANGED <<alive, failedAssert>>
  ELSE /\ state' = "kDisconnected"
       /\ reading' = readingThen
       /\ alive' = (closeCb # "closeConnection")
       /\ UNCHANGED failedAssert

(* handleClose() called with state_ = s: deferred while a write is in      *)
(* flight; else stopRead() and the close callback, which drops the last    *)
(* reference unless the application has replaced it.  readingThen is the   *)
(* read flag the call finds.                                               *)
HandleClose(s, readingThen) ==
  \/ /\ s = "kWritting"
     /\ state' = "kDisconnecting"
     /\ reading' = readingThen
     /\ UNCHANGED <<alive, failedAssert>>
  \/ /\ s \in {"kConnected", "kConnecting"}
     /\ state' = "kDisconnected"
     /\ reading' = FALSE
     /\ alive' = (closeCb # "closeConnection")
     /\ UNCHANGED failedAssert
  \/ /\ s \in {"kDisconnecting", "kDisconnected"}
     /\ failedAssert' = "handleClose"
     /\ UNCHANGED <<state, reading, alive>>

(* close(): the application or the protocol layer ends the connection. *)
Close ==
  /\ Running
  /\ state # "kConnecting"
  /\ MayClose
  /\ closeAsked' = TRUE
  /\ HandleClose(state, reading)
  /\ UNCHANGED <<outputBuf, isLastWrite, lastWrite, bytesWritten, bytesRead, uvQueue,
                 broken, closeCb, touchedFreed, delivered, sent>>

(* on_uv_read with nread > 0: handleMessage(). *)
ReadData ==
  /\ Running
  /\ reading
  /\ bytesRead < MaxReads
  /\ bytesRead' = bytesRead + 1
  /\ UNCHANGED <<state, outputBuf, isLastWrite, lastWrite, bytesWritten, reading, uvQueue,
                 broken, closeCb, alive, touchedFreed, failedAssert, delivered, sent,
                 closeAsked>>

(* on_uv_read with nread < 0, after which libuv has stopped reading by     *)
(* itself, or with nread = 0, after which it goes on.                      *)
ReadEnd ==
  /\ Running
  /\ reading
  /\ MayClose
  /\ closeAsked' = TRUE
  /\ \E goesOn \in BOOLEAN : HandleClose(state, goesOn)
  /\ UNCHANGED <<outputBuf, isLastWrite, lastWrite, bytesWritten, bytesRead, uvQueue,
                 broken, closeCb, touchedFreed, delivered, sent>>

(* stopRead(), called by WebSocketConnection::close on a protocol error. *)
StopRead ==
  /\ Running
  /\ reading
  /\ reading' = FALSE
  /\ UNCHANGED <<state, outputBuf, isLastWrite, lastWrite, bytesWritten, bytesRead, uvQueue,
                 broken, closeCb, alive, touchedFreed, failedAssert, delivered, sent,
                 closeAsked>>

(* WebSocketConnection::onClose replaces the server's close callback. *)
OnClose ==
  /\ "onClose" \in Env
  /\ Running
  /\ state # "kConnecting"
  /\ closeCb = "closeConnection"
  /\ closeCb' = "handleClose"
  /\ UNCHANGED <<state, outputBuf, isLastWrite, lastWrite, bytesWritten, bytesRead, reading,
                 uvQueue, broken, alive, touchedFreed, failedAssert, delivered, sent,
                 closeAsked>>

-----------------------------------------------------------------------------
(* The message the next accepted send() carries; what is sent after a      *)
(* close was requested need not be told apart.                             *)
Late == 0
Msg == IF closeAsked THEN Late ELSE sent + 1

Queue ==
  /\ outputBuf' = Append(outputBuf, Msg)
  /\ UNCHANGED <<state, lastWrite, uvQueue>>

(* Mutant: send() bypasses outputBuf while a write is in flight. *)
Send_Bypass ==
  /\ Running
  /\ state # "kConnecting"
  /\ MaySend
  /\ sent' = sent + 1
  /\ uvQueue' = Append(uvQueue, <<Msg>>)
  /\ lastWrite' = 1
  /\ state' = "kWritting"
  /\ UNCHANGED <<outputBuf, failedAssert>>
  /\ UNCHANGED <<isLastWrite, bytesWritten, bytesRead, reading, broken, closeCb, alive,
                 touchedFreed, delivered, closeAsked>>

(* send(const char*, size_t), which send(Buffer&) and send(std::string)    *)
(* call.                                                                   *)
Send ==
  /\ Running
  /\ state # "kConnecting"
  /\ MaySend
  /\ \/ /\ state = "kWritting"
        /\ sent' = sent + 1
        /\ Queue
        /\ UNCHANGED failedAssert
     \/ /\ state = "kConnected"
        /\ sent' = sent + 1
        /\ uvQueue' = Append(uvQueue, <<Msg>>)
        /\ lastWrite' = 1
        /\ state' = "kWritting"
        /\ UNCHANGED <<outputBuf, failedAssert>>
     \/ /\ state \in {"kDisconnecting", "kDisconnected"}
        /\ failedAssert' = "send"
        /\ UNCHANGED <<state, outputBuf, lastWrite, uvQueue, sent>>
  /\ UNCHANGED <<isLastWrite, bytesWritten, bytesRead, reading, broken, closeCb, alive,
                 touchedFreed, delivered, closeAsked>>

(* Mutant: send(Buffer&, String&&) never queues behind a write in flight. *)
SendMove_NoQueue ==
  /\ "move" \in Env
  /\ Running
  /\ state # "kConnecting"
  /\ MaySend
  /\ sent' = sent + 1
  /\ uvQueue' = Append(uvQueue, <<Msg>>)
  /\ UNCHANGED <<state, lastWrite, outputBuf>>
  /\ UNCHANGED <<isLastWrite, bytesWritten, bytesRead, reading, broken, closeCb, alive,
                 touchedFreed, failedAssert, delivered, closeAsked>>

(* send(Buffer&, String&&): neither checks nor sets state_, and leaves     *)
(* lastWrite_ alone, when it writes directly.                              *)
SendMove ==
  /\ "move" \in Env
  /\ Running
  /\ state # "kConnecting"
  /\ MaySend
  /\ sent' = sent + 1
  /\ \/ /\ state = "kWritting"
        /\ Queue
     \/ /\ state # "kWritting"
        /\ uvQueue' = Append(uvQueue, <<Msg>>)
        /\ UNCHANGED <<state, lastWrite, outputBuf>>
  /\ UNCHANGED <<isLastWrite, bytesWritten, bytesRead, reading, broken, closeCb, alive,
                 touchedFreed, failedAssert, delivered, closeAsked>>

-----------------------------------------------------------------------------
(* Mutant: the bytes of the write are taken off the counter.              *)
RequestDone_Subtract ==
  /\ Running
  /\ uvQueue # <<>>
  /\ ~broken
  /\ delivered' = delivered \o Head(uvQueue)
  /\ bytesWritten' = bytesWritten - lastWrite
  /\ UNCHANGED <<bytesRead, broken, closeCb, sent, closeAsked>>

(* The uv_write callback. Its head request is done: handleWrite() and      *)
(* resetLastWrite(), then one of four continuations.                       *)
RequestDone ==
  /\ Running
  /\ uvQueue # <<>>
  /\ ~broken
  /\ delivered' = delivered \o Head(uvQueue)
  /\ bytesWritten' = bytesWritten + lastWrite
  /\ UNCHANGED <<bytesRead, broken, closeCb, sent, closeAsked>>

(* The last write is out: close now.  isLastWrite is then stored through   *)
(* conn, which the close callback may just have destroyed.                 *)
WriteDone_Last ==
  /\ RequestDone
  /\ isLastWrite
  /\ HandleClose("kConnected", reading)
  /\ isLastWrite' = FALSE
  /\ touchedFreed' = ~alive'
  /\ lastWrite' = 0
  /\ uvQueue' = Tail(uvQueue)
  /\ UNCHANGED outputBuf

(* A close was deferred and nothing is queued: close now. *)
WriteDone_Close ==
  /\ RequestDone
  /\ ~isLastWrite
  /\ state = "kDisconnecting"
  /\ outputBuf = <<>>
  /\ HandleClose("kConnected", reading)
  /\ lastWrite' = 0
  /\ uvQueue' = Tail(uvQueue)
  /\ UNCHANGED <<outputBuf, isLastWrite, touchedFreed>>

(* Mutant: outputBuf is sent but not retrieved. *)
WriteDone_Drain_NoRetrieve ==
  /\ RequestDone
  /\ ~isLastWrite
  /\ outputBuf # <<>>
  /\ isLastWrite' = (state = "kDisconnecting")
  /\ state' = "kWritting"
  /\ lastWrite' = Len(outputBuf)
  /\ uvQueue' = Append(Tail(uvQueue), outputBuf)
  /\ UNCHANGED <<outputBuf, reading, alive, touchedFreed, failedAssert>>

(* Mutant: the drain of a closing connection is not marked as the last.    *)
WriteDone_Drain_NotLast ==
  /\ RequestDone
  /\ ~isLastWrite
  /\ outputBuf # <<>>
  /\ state' = "kWritting"
  /\ lastWrite' = Len(outputBuf)
  /\ uvQueue' = Append(Tail(uvQueue), outputBuf)
  /\ outputBuf' = <<>>
  /\ UNCHANGED <<isLastWrite, reading, alive, touchedFreed, failedAssert>>

(* Mutant: every drain is marked as the last write of the connection.      *)
WriteDone_Drain_AlwaysLast ==
  /\ RequestDone
  /\ ~isLastWrite
  /\ outputBuf # <<>>
  /\ isLastWrite' = TRUE
  /\ state' = "kWritting"
  /\ lastWrite' = Len(outputBuf)
  /\ uvQueue' = Append(Tail(uvQueue), outputBuf)
  /\ outputBuf' = <<>>
  /\ UNCHANGED <<reading, alive, touchedFreed, failedAssert>>

(* Messages are queued: send() them all in one write, the last write of    *)
(* the connection if a close was deferred.                                 *)
WriteDone_Drain ==
  /\ RequestDone
  /\ ~isLastWrite
  /\ outputBuf # <<>>
  /\ isLastWrite' = (state = "kDisconnecting")
  /\ state' = "kWritting"
  /\ lastWrite' = Len(outputBuf)
  /\ uvQueue' = Append(Tail(uvQueue), outputBuf)
  /\ outputBuf' = <<>>
  /\ UNCHANGED <<reading, alive, touchedFreed, failedAssert>>

(* Nothing is queued and no close pending: the connection is idle again,   *)
(* whatever state_ was.                                                    *)
WriteDone_Idle ==
  /\ RequestDone
  /\ ~isLastWrite
  /\ state # "kDisconnecting"
  /\ outputBuf = <<>>
  /\ state' = "kConnected"
  /\ lastWrite' = 0
  /\ uvQueue' = Tail(uvQueue)
  /\ UNCHANGED <<outputBuf, isLastWrite, reading, alive, touchedFreed, failedAssert>>

WriteDone == WriteDone_Last \/ WriteDone_Close \/ WriteDone_Drain \/ WriteDone_Idle

(* The callback with status < 0: handleClose() and nothing else. *)
WriteFailed ==
  /\ "writeError" \in Env
  /\ Running
  /\ uvQueue # <<>>
  /\ MayClose
  /\ broken' = TRUE
  /\ closeAsked' = TRUE
  /\ uvQueue' = Tail(uvQueue)
  /\ HandleClose(state, reading)
  /\ UNCHANGED <<outputBuf, isLastWrite, lastWrite, bytesWritten, bytesRead, closeCb,
                 touchedFreed, delivered, sent>>

(* ~TcpConnection has called uv_close(): libuv cancels the requests still  *)
(* queued and runs their callbacks on the destroyed object.                *)
WriteCancelled ==
  /\ ~alive
  /\ failedAssert = "none"
  /\ uvQueue # <<>>
  /\ uvQueue' = Tail(uvQueue)
  /\ touchedFreed' = TRUE
  /\ UNCHANGED <<state, outputBuf, isLastWrite, lastWrite, bytesWritten, bytesRead, reading,
                 broken, closeCb, alive, failedAssert, delivered, sent, closeAsked>>

Next ==
  \/ Accept \/ Close \/ OnClose
  \/ ReadData \/ ReadEnd \/ StopRead
  \/ Send \/ SendMove
  \/ WriteDone \/ WriteFailed \/ WriteCancelled

Spec == Init /\ [][Next]_vars

(* The loop thread runs uv_run for ever and the peer keeps reading, so a   *)
(* write that is in flight completes.  Nobody has to send, close or talk.  *)
FairSpec == Spec /\ WF_vars(WriteDone)

-----------------------------------------------------------------------------
(* What follows states the promises of the component. *)

(* All that send() has accepted, in order, when none of it was late. *)
Accepted == [i \in 1..sent |-> i]

(* The data of the write in flight, when there is at most one. *)
OnWire == IF uvQueue = <<>> THEN <<>> ELSE Head(uvQueue)

(* Writes are serialised by state_: at most one uv_write is outstanding,   *)
(* and one is exactly while state_ says so.  The buffer handed to uv_write *)
(* and isLastWrite are only sound because of it (TcpConnection.cpp:79-91,  *)
(* 140-173).                                                               *)
SerialWrites ==
  /\ Len(uvQueue) <= 1
  /\ uvQueue # <<>> <=> state \in {"kWritting", "kDisconnecting"}

(* Nothing accepted is lost, repeated or overtaken: it is with the peer,   *)
(* in the write in flight or in outputBuf, in this order; and a closed     *)
(* connection has delivered it all (TcpConnection.cpp:158-172).            *)
NoLoss ==
  /\ delivered \o OnWire \o outputBuf = Accepted
  /\ state = "kDisconnected" => delivered = Accepted

(* bytesWritten() counts what the peer has been sent: lastWrite_ always    *)
(* belongs to the write whose callback runs (TcpConnection.cpp:86, 150).   *)
BytesAccounted ==
  /\ bytesWritten = Len(delivered)
  /\ uvQueue # <<>> => lastWrite = Len(Head(uvQueue))

(* When ~TcpConnection runs no write is outstanding whose callback would   *)
(* reach the freed object through handle->data (TcpConnection.h:142).      *)
NoOrphanWrite == ~alive => uvQueue = <<>>

(* assert(state_ == kConnected) in send() never fails. *)
SendAssert == failedAssert # "send"

(* assert(state_ == kConnected || state_ == kConnecting) in handleClose()  *)
(* never fails.                                                            *)
HandleCloseAssert == failedAssert # "handleClose"

(* Neither of the two assertions fails (TcpConnection.cpp:85, 118). *)
AssertsHold == SendAssert /\ HandleCloseAssert

(* kDisconnected is final: a late callback does not revive a connection    *)
(* whose close callback has run (TcpConnection.cpp:119, 168).              *)
StaysDisconnected == [][state = "kDisconnected" => state' = "kDisconnected"]_vars

(* The message callback never runs on a disconnected connection            *)
(* (TcpConnection.cpp:120).                                                *)
QuietAfterClose == [][bytesRead' # bytesRead => state # "kDisconnected"]_vars

(* Of the timely messages s has those after lo up to hi, each once and in  *)
(* order; late ones may stand anywhere between them.                       *)
Carries(s, lo, hi) ==
  /\ lo <= hi
  /\ \A j \in DOMAIN s : s[j] = Late \/ s[j] \in lo + 1 .. hi
  /\ \A m \in lo + 1 .. hi : \E j \in DOMAIN s : s[j] = m
  /\ \A i, j \in DOMAIN s : i < j /\ s[j] # Late => s[i] < s[j]

(* What has reached the peer of the messages accepted before a close was   *)
(* requested is always an initial part of them, each once and in order,    *)
(* even with two-part sends that ignore state_, failed writes, repeated    *)
(* closes and later sends (TcpConnection.cpp:64-91, 140-173).              *)
InOrder == \E n \in 0..sent : Carries(delivered, 0, n)

(* Why: until a write fails or the object is gone, the peer, the requests  *)
(* of uv_write and outputBuf hold consecutive parts of what was accepted,  *)
(* cut at cut[1], cut[2], ...; and outputBuf, which what is sent beside it *)
(* overtakes, is in use only during a write or after a close was requested. *)
Cuts == [1 .. Len(uvQueue) + 2 -> 0..sent]

Consecutive(cut) ==
  /\ Carries(delivered, 0, cut[1])
  /\ \A q \in 1..Len(uvQueue) : Carries(uvQueue[q], cut[q], cut[q + 1])
  /\ Carries(outputBuf, cut[Len(uvQueue) + 1], cut[Len(uvQueue) + 2])
  /\ ~closeAsked => cut[Len(uvQueue) + 2] = sent

OrderInv ==
  /\ InOrder
  /\ outputBuf # <<>> => state = "kWritting" \/ closeAsked
  /\ isLastWrite \/ state \in {"kDisconnecting", "kDisconnected"} => closeAsked
  /\ broken \/ ~alive \/ \E cut \in Cuts : Consecutive(cut)

(* A connection is not read after it was disconnected, which is all that   *)
(* QuietAfterClose needs.                                                  *)
QuietInv == state = "kDisconnected" => ~reading

(* The discipline the write path is written for: every caller copies its   *)
(* data, writes succeed, a close is requested once and nothing is sent     *)
(* after it.                                                               *)
Serial == Env \subseteq {"onClose"}

(* Under it the following is inductive.  What the promises above leave     *)
(* open: outputBuf is used only during a write, a write carries something, *)
(* and isLastWrite marks the write that drains a connection asked to close. *)
SerialInv ==
  /\ TypeOK
  /\ SerialWrites
  /\ NoLoss
  /\ BytesAccounted
  /\ failedAssert = "none"
  /\ uvQueue # <<>> => OnWire # <<>>
  /\ outputBuf # <<>> => uvQueue # <<>> /\ ~isLastWrite
  /\ isLastWrite => state = "kWritting"
  /\ closeAsked <=> isLastWrite \/ state \in {"kDisconnecting", "kDisconnected"}
  /\ ~alive => state = "kDisconnected"

(* The connection implements the graceful channel. *)
Channel == INSTANCE GracefulChannel WITH
  accepted <- Accepted,
  phase <- IF state = "kDisconnected" THEN "closed"
           ELSE IF closeAsked THEN "closing" ELSE "open"

(* Every step is a step of the graceful channel or invisible to its user,  *)
(* and what was accepted is eventually delivered.                          *)
ImplementsChannel == Channel!FairSpec
=============================================================================
