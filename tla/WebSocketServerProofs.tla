----------------------- MODULE WebSocketServerProofs -----------------------
(* Theorems about WebSocketServer, for any number of connections and of    *)
(* writes that are outstanding.                                            *)
EXTENDS WebSocketServer, TLAPS

(* What a connection and a session can be. *)
Conn ==
  [state : {"kConnected", "kWritting", "kDisconnecting", "kDisconnected"},
   reading : BOOLEAN, writes : Int, queued : BOOLEAN, last : BOOLEAN,
   closeCb : {"closeConnection", "handleClose"}, dead : BOOLEAN, gone : BOOLEAN,
   asked : {"no", "refused", "nothing", "writeFailed", "gone", "closeFrame"},
   moved : BOOLEAN]
Session == [status : {"INITIAL", "CONNECT", "CLOSING", "CLOSED"}, held : BOOLEAN]

TypeInv ==
  /\ id \in Nat
  /\ tcp \in [0..(id - 1) -> Conn]
  /\ connectionMap \subseteq 0..(id - 1)
  /\ DOMAIN ws \subseteq 0..(id - 1)
  /\ ws \in [DOMAIN ws -> Session]

(* What holds of a connection c of connectionMap_, with session w, beyond  *)
(* what the properties say: a single write that was sent in one part goes  *)
(* with kWritting or kDisconnecting; one that is read and about to close   *)
(* has been asked to, and not by a hang-up, after which it is not read;    *)
(* and a close frame has ended its session.                                *)
ConnOK(i, c) ==
  /\ c.state = "kDisconnected" =>
       i \notin wsConns /\ c.closeCb = "handleClose" /\ ~c.reading
  /\ i \in DOMAIN ws \ wsConns => ~c.reading
  /\ ~c.moved => c.writes <= 1 /\ (c.writes > 0 => c.state \in {"kWritting", "kDisconnecting"})
  /\ c.state = "kDisconnecting" /\ c.reading => c.asked # "no"
  /\ c.asked = "gone" => ~c.reading
  /\ c.asked = "closeFrame" /\ c.reading => i \in wsConns /\ ws[i].status = "CLOSED"

ServerInv ==
  /\ TypeInv
  /\ wsConns \subseteq connectionMap /\ wsConns \subseteq DOMAIN ws
  /\ \A i \in connectionMap : ConnOK(i, tcp[i])
  /\ FreedWithWrites
  /\ SendDiesOf

(* Connection i may be given to handleClose() as c. *)
Closable(i, c) ==
  /\ c \in Conn
  /\ ConnOK(i, c)
  /\ c.state = "kWritting" /\ c.reading => c.asked # "no"

(* A connection is replaced by d, and its session by another or a first.   *)
LEMMA ConnReplaced ==
  ASSUME ServerInv, broken = "no", NEW i \in connectionMap, NEW d \in Conn,
         tcp' = [tcp EXCEPT ![i] = d],
         UNCHANGED <<id, connectionMap, broken, culprit>>,
         \/ UNCHANGED <<wsConns, ws>>
         \/ \E w \in Session : Keep(i, w),
         ConnOK(i, d)'
  PROVE  ServerInv'
<1>1. /\ i \in 0..(id - 1) /\ tcp' \in [0..(id - 1) -> Conn]
      /\ tcp'[i] = d /\ \A j \in DOMAIN tcp \ {i} : tcp'[j] = tcp[j]
  BY DEF ServerInv, TypeInv
<1>2. /\ wsConns \subseteq wsConns' /\ wsConns' \subseteq wsConns \cup {i}
      /\ DOMAIN ws \subseteq DOMAIN ws' /\ DOMAIN ws' \subseteq DOMAIN ws \cup {i}
      /\ wsConns' \subseteq DOMAIN ws'
      /\ ws' \in [DOMAIN ws' -> Session]
      /\ \A j \in DOMAIN ws \ {i} : ws'[j] = ws[j]
  BY DEF ServerInv, TypeInv, Keep
<1>3. TypeInv'
  BY <1>1, <1>2 DEF ServerInv, TypeInv
<1>4. \A j \in connectionMap \ {i} : ConnOK(j, tcp[j])'
  <2> TAKE j \in connectionMap \ {i}
  <2>1. ConnOK(j, tcp[j]) /\ tcp'[j] = tcp[j]
    BY <1>1 DEF ServerInv, TypeInv
  <2>2. /\ j \in wsConns' <=> j \in wsConns
        /\ j \in DOMAIN ws' <=> j \in DOMAIN ws
        /\ j \in wsConns => ws'[j] = ws[j]
    BY <1>2 DEF ServerInv
  <2> QED
    BY <2>1, <2>2 DEF ConnOK
<1>5. FreedWithWrites'
  BY <1>1 DEF ServerInv, TypeInv, FreedWithWrites
<1>6. SendDiesOf'
  BY DEF SendDiesOf
<1> QED
  BY <1>1, <1>2, <1>3, <1>4, <1>5, <1>6 DEF ServerInv

(* handleClose() keeps the invariant: a connection that is deferred has    *)
(* been asked to close, one that is destroyed leaves no write behind but   *)
(* one of two parts, and one that stays behind is not read.                *)
LEMMA HandleCloseServer ==
  ASSUME ServerInv, broken = "no", NEW i \in connectionMap, NEW c,
         Closable(i, c), HandleClose(i, c), UNCHANGED id
  PROVE  ServerInv'
<1>0. /\ i \in 0..(id - 1) /\ i \in DOMAIN tcp
      /\ c \in Conn
  BY DEF ServerInv, TypeInv, Closable
<1>1. CASE /\ c.state = "kWritting"
           /\ tcp' = [tcp EXCEPT ![i] = [c EXCEPT !.state = "kDisconnecting"]]
           /\ UNCHANGED <<connectionMap, wsConns, ws, broken, culprit>>
  <2> DEFINE d == [c EXCEPT !.state = "kDisconnecting"]
  <2>1. /\ d \in Conn /\ d.state = "kDisconnecting"
        /\ d.reading = c.reading /\ d.asked = c.asked /\ d.moved = c.moved
        /\ d.writes = c.writes
    BY <1>0 DEF Conn
  <2> HIDE DEF d
  <2>2. tcp' = [tcp EXCEPT ![i] = d]
    BY <1>1 DEF d
  <2>3. ConnOK(i, d)'
    BY <1>1, <2>1 DEF ConnOK, Closable
  <2> QED
    BY <1>0, <1>1, <2>1, <2>2, <2>3, ConnReplaced
<1>2. CASE Dies(i, "handleClose") \/ Dies(i, "WebSocketConnection freed")
  BY <1>2 DEF Dies, ServerInv, TypeInv, ConnOK, FreedWithWrites, SendDiesOf
<1>3. CASE /\ c.state = "kConnected"
           /\ wsConns' = wsConns \ {i}
           /\ connectionMap' = connectionMap \ {i}
           /\ tcp' = [tcp EXCEPT ![i] = Freed(c)]
           /\ UNCHANGED <<ws, broken, culprit>>
  <2>1. Freed(c) \in Conn /\ (Freed(c).writes > 0 => Freed(c).moved)
    BY <1>0, <1>3 DEF Freed, TcpConnection, Conn, Closable, ConnOK
  <2> QED
    BY <1>0, <1>3, <2>1 DEF ServerInv, TypeInv, ConnOK, FreedWithWrites, SendDiesOf
<1>4. CASE /\ c.state = "kConnected"
           /\ c.closeCb = "handleClose"
           /\ wsConns' = wsConns \ {i}
           /\ tcp' = [tcp EXCEPT ![i] = [c EXCEPT !.state = "kDisconnected", !.reading = FALSE]]
           /\ ws' = [ws EXCEPT ![i].status = "CLOSED"]
           /\ UNCHANGED <<connectionMap, broken, culprit>>
  <2>1. ws' \in [DOMAIN ws -> Session] /\ DOMAIN ws' = DOMAIN ws
    BY <1>4 DEF ServerInv, TypeInv, Session
  <2> QED
    BY <1>0, <1>4, <2>1 DEF ServerInv, TypeInv, ConnOK, Closable, FreedWithWrites, SendDiesOf, Conn
<1> QED
  BY <1>0, <1>1, <1>2, <1>3, <1>4 DEF HandleClose, Lives, Conn

(* Asked() and the two ways to send, by what they change. *)
LEMMA AskedConn ==
  ASSUME NEW c \in Conn,
         NEW why \in {"refused", "nothing", "writeFailed", "gone", "closeFrame"}
  PROVE  LET a == Asked(c, why)
         IN  /\ a \in Conn
             /\ a.asked # "no" /\ a.asked \in {c.asked, why}
             /\ a.state = c.state /\ a.reading = c.reading /\ a.writes = c.writes
             /\ a.closeCb = c.closeCb /\ a.moved = c.moved
<1> DEFINE new == IF c.asked = "no" THEN why ELSE c.asked
<1>1. Asked(c, why) = [c EXCEPT !.asked = new]
  BY DEF Asked
<1>2. new # "no" /\ new \in {c.asked, why} /\ new \in {"no", "refused", "nothing", "writeFailed", "gone", "closeFrame"}
  BY DEF Conn
<1> HIDE DEF new
<1>3. LET a == [c EXCEPT !.asked = new]
      IN  /\ a \in Conn
          /\ a.asked = new
          /\ a.state = c.state /\ a.reading = c.reading /\ a.writes = c.writes
          /\ a.closeCb = c.closeCb /\ a.moved = c.moved
  BY <1>2 DEF Conn
<1> QED
  BY <1>1, <1>3 DEF new

LEMMA SentConn ==
  ASSUME NEW c \in Conn
  PROVE  LET s == Sent(c)
         IN  /\ s \in Conn
             /\ s.state = "kWritting"
             /\ s.writes = IF c.state = "kWritting" THEN c.writes ELSE c.writes + 1
             /\ s.reading = c.reading /\ s.closeCb = c.closeCb
             /\ s.asked = c.asked /\ s.moved = c.moved
<1>1. CASE c.state = "kWritting"
  <2>1. Sent(c) = [c EXCEPT !.queued = TRUE]
    BY <1>1 DEF Sent
  <2> QED
    BY <1>1, <2>1 DEF Conn
<1>2. CASE c.state # "kWritting"
  <2>1. Sent(c) = [c EXCEPT !.state = "kWritting", !.writes = c.writes + 1]
    BY <1>2 DEF Sent
  <2>2. c.writes + 1 \in Int
    BY DEF Conn
  <2> QED
    BY <1>2, <2>1, <2>2 DEF Conn
<1> QED
  BY <1>1, <1>2

LEMMA SentInPartsConn ==
  ASSUME NEW c \in Conn
  PROVE  LET s == SentInParts(c)
         IN  /\ s \in Conn
             /\ s.state = c.state
             /\ c.state = "kWritting" => s.writes = c.writes /\ s.moved = c.moved
             /\ c.state # "kWritting" => s.moved
             /\ s.reading = c.reading /\ s.closeCb = c.closeCb /\ s.asked = c.asked
<1>1. CASE c.state = "kWritting"
  <2>1. SentInParts(c) = [c EXCEPT !.queued = TRUE]
    BY <1>1 DEF SentInParts
  <2> QED
    BY <1>1, <2>1 DEF Conn
<1>2. CASE c.state # "kWritting"
  <2>1. SentInParts(c) = [c EXCEPT !.writes = c.writes + 1, !.moved = TRUE]
    BY <1>2 DEF SentInParts
  <2>2. c.writes + 1 \in Int
    BY DEF Conn
  <2> QED
    BY <1>2, <2>1, <2>2 DEF Conn
<1> QED
  BY <1>1, <1>2

(* A connection that is read and whose session is not over can be sent to, *)
(* or has been asked to close for one of the reasons of SendDiesOf.        *)
LEMMA SendDiesServer ==
  ASSUME ServerInv, NEW i \in connectionMap, Reads(i), Known(i).status # "CLOSED",
         ~CanSend(tcp[i]), Dies(i, "send"), UNCHANGED id
  PROVE  ServerInv'
<1>1. tcp[i] \in Conn /\ ConnOK(i, tcp[i]) /\ tcp[i].reading
  BY DEF ServerInv, TypeInv, Reads
<1>2. tcp[i].asked \in {"refused", "nothing", "writeFailed"}
  BY <1>1 DEF ConnOK, Conn, CanSend, Known
<1> QED
  BY <1>2 DEF Dies, ServerInv, TypeInv, ConnOK, FreedWithWrites, SendDiesOf

(* A read. *)
LEMMA ReadServer ==
  ASSUME ServerInv, NEW i \in Ids, Read(i)
  PROVE  ServerInv'
<1> DEFINE c == tcp[i]
<1>1. /\ Reads(i) /\ i \in connectionMap /\ UNCHANGED id /\ broken = "no"
      /\ c \in Conn /\ ConnOK(i, c) /\ c.reading
  BY DEF Read, Reads, ReadsPart, ReadsBadRequest, ReadsOpening, ReadsMessage, ReadsPing,
     ReadsClose, ReadsAndCloses, ServerInv, TypeInv
<1>2. /\ Known(i) \in Session
      /\ Known(i).status # "INITIAL" => i \in wsConns /\ ws[i] \in Session /\ Known(i) = ws[i]
      /\ c.asked = "closeFrame" => Known(i).status = "CLOSED"
      /\ c.state # "kDisconnected"
  BY <1>1 DEF Known, ServerInv, TypeInv, WebSocketConnection, Session, ConnOK
<1> HIDE DEF c
<1>3. ASSUME NEW d \in Conn, NEW w \in Session, Become(i, d, w),
             d.state # "kDisconnected",
             ~d.moved => d.writes <= 1 /\ (d.writes > 0 => d.state \in {"kWritting", "kDisconnecting"}),
             d.state = "kDisconnecting" /\ d.reading => d.asked # "no",
             d.asked = "gone" => ~d.reading,
             d.asked = "closeFrame" => w.status = "CLOSED"
      PROVE  ServerInv'
  <2>1. tcp' = [tcp EXCEPT ![i] = d] /\ Keep(i, w) /\ UNCHANGED <<id, connectionMap, broken, culprit>>
    BY <1>1, <1>3 DEF Become, Lives
  <2>2. i \in wsConns' /\ ws'[i] = w
    BY <2>1 DEF Keep
  <2>3. ConnOK(i, d)'
    BY <1>3, <2>2 DEF ConnOK
  <2> QED
    BY <1>1, <2>1, <2>3, ConnReplaced
<1>4. CASE ReadsPart(i)
  <2>1. Become(i, c, Known(i))
    BY <1>4 DEF ReadsPart, c
  <2> QED
    BY <1>1, <1>2, <1>3, <2>1, <1>4 DEF ConnOK, ReadsPart
<1>5. CASE ReadsBadRequest(i)
  <2> DEFINE a == Asked(c, "refused")  s == Sent(a)  d == [s EXCEPT !.state = "kDisconnecting"]
  <2>1. CASE CanSend(c) /\ Become(i, d, Known(i))
    <3>1. /\ a \in Conn /\ a.state = c.state /\ a.writes = c.writes /\ a.moved = c.moved
          /\ a.reading = c.reading /\ a.asked # "no"
          /\ a.asked \in {c.asked, "refused"}
      BY <1>1, AskedConn
    <3> HIDE DEF a
    <3>2. /\ s \in Conn /\ s.reading = a.reading /\ s.asked = a.asked /\ s.moved = a.moved
          /\ s.writes = IF a.state = "kWritting" THEN a.writes ELSE a.writes + 1
      BY <3>1, SentConn
    <3> HIDE DEF s
    <3>3. /\ d \in Conn /\ d.state = "kDisconnecting"
          /\ d.reading = s.reading /\ d.asked = s.asked /\ d.moved = s.moved /\ d.writes = s.writes
      BY <3>2 DEF Conn
    <3> HIDE DEF d
    <3>4. ~d.moved => d.writes <= 1
      BY <1>1, <2>1, <3>1, <3>2, <3>3 DEF ConnOK, CanSend, Conn
    <3> QED
      BY <1>1, <1>2, <1>3, <1>5, <2>1, <3>1, <3>2, <3>3, <3>4 DEF ConnOK, ReadsBadRequest
  <2> QED
    BY <1>1, <1>5, <2>1, SendDiesServer DEF ReadsBadRequest, c
<1>6. CASE ReadsOpening(i)
  <2>1. CASE ~CanSend(c) /\ Dies(i, "send")
    BY <1>1, <1>6, <2>1, SendDiesServer DEF ReadsOpening, c
  <2>2. CASE CanSend(c)
    <3> DEFINE s == Sent(c)
    <3>1. PICK closeCb \in {"closeConnection", "handleClose"}, held \in BOOLEAN :
            Become(i, [s EXCEPT !.closeCb = closeCb], [status |-> "CONNECT", held |-> held])
      BY <1>6, <2>2 DEF ReadsOpening, c
    <3>2. /\ s \in Conn /\ s.reading = c.reading /\ s.asked = c.asked /\ s.moved = c.moved
          /\ s.state = "kWritting"
          /\ s.writes = IF c.state = "kWritting" THEN c.writes ELSE c.writes + 1
      BY <1>1, SentConn
    <3> HIDE DEF s
    <3> DEFINE d == [s EXCEPT !.closeCb = closeCb]
    <3>3. /\ d \in Conn /\ d.state = "kWritting"
          /\ d.reading = s.reading /\ d.asked = s.asked /\ d.moved = s.moved /\ d.writes = s.writes
      BY <3>2 DEF Conn
    <3>4. Become(i, d, [status |-> "CONNECT", held |-> held])
      BY <3>1
    <3> HIDE DEF d
    <3>5. [status |-> "CONNECT", held |-> held] \in Session
      BY DEF Session
    <3>6. ~d.moved => d.writes <= 1
      BY <1>1, <2>2, <3>2, <3>3 DEF ConnOK, CanSend, Conn
    <3>7. Known(i).status = "INITIAL"
      BY <1>6 DEF ReadsOpening
    <3> QED
      BY <1>1, <1>2, <1>3, <3>2, <3>3, <3>4, <3>5, <3>6, <3>7 DEF ConnOK
  <2> QED
    BY <1>6, <2>1, <2>2 DEF ReadsOpening, c
<1>7. CASE ReadsMessage(i)
  <2> DEFINE s == SentInParts(c)
  <2>1. Become(i, s, ws[i]) /\ Known(i).status \in {"CONNECT", "CLOSING"}
    BY <1>7 DEF ReadsMessage, c
  <2>2. /\ s \in Conn /\ s.state = c.state
        /\ c.state = "kWritting" => s.writes = c.writes /\ s.moved = c.moved
        /\ c.state # "kWritting" => s.moved
        /\ s.reading = c.reading /\ s.asked = c.asked
    BY <1>1, SentInPartsConn
  <2> HIDE DEF s
  <2> QED
    BY <1>1, <1>2, <1>3, <2>1, <2>2 DEF ConnOK
<1>8. CASE ReadsPing(i)
  <2> DEFINE s == Sent(c)
  <2>1. CASE CanSend(c) /\ Become(i, s, ws[i])
    <3>1. /\ s \in Conn /\ s.reading = c.reading /\ s.asked = c.asked /\ s.moved = c.moved
          /\ s.state = "kWritting"
          /\ s.writes = IF c.state = "kWritting" THEN c.writes ELSE c.writes + 1
      BY <1>1, SentConn
    <3> HIDE DEF s
    <3>2. ~s.moved => s.writes <= 1
      BY <1>1, <2>1, <3>1 DEF ConnOK, CanSend, Conn
    <3>3. Known(i).status \in {"CONNECT", "CLOSING"}
      BY <1>8 DEF ReadsPing
    <3> QED
      BY <1>1, <1>2, <1>3, <2>1, <3>1, <3>2, <3>3 DEF ConnOK
  <2> QED
    BY <1>1, <1>8, <2>1, SendDiesServer DEF ReadsPing, c
<1>9. CASE ReadsClose(i)
  <2> DEFINE a == Asked(c, "closeFrame")  s == Sent(a)  d == [s EXCEPT !.state = "kDisconnecting"]
             w == [ws[i] EXCEPT !.status = "CLOSED"]
  <2>1. CASE CanSend(c) /\ Become(i, d, w)
    <3>1. /\ a \in Conn /\ a.state = c.state /\ a.writes = c.writes /\ a.moved = c.moved
          /\ a.reading = c.reading /\ a.asked # "no"
          /\ a.asked \in {c.asked, "closeFrame"}
      BY <1>1, AskedConn
    <3> HIDE DEF a
    <3>2. /\ s \in Conn /\ s.reading = a.reading /\ s.asked = a.asked /\ s.moved = a.moved
          /\ s.writes = IF a.state = "kWritting" THEN a.writes ELSE a.writes + 1
      BY <3>1, SentConn
    <3> HIDE DEF s
    <3>3. /\ d \in Conn /\ d.state = "kDisconnecting"
          /\ d.reading = s.reading /\ d.asked = s.asked /\ d.moved = s.moved /\ d.writes = s.writes
      BY <3>2 DEF Conn
    <3> HIDE DEF d
    <3>4. ~d.moved => d.writes <= 1
      BY <1>1, <2>1, <3>1, <3>2, <3>3 DEF ConnOK, CanSend, Conn
    <3>5. w \in Session /\ w.status = "CLOSED"
      BY <1>2, <1>9 DEF ReadsClose, Session
    <3> HIDE DEF w
    <3> QED
      BY <1>1, <1>2, <1>3, <2>1, <3>1, <3>2, <3>3, <3>4, <3>5 DEF ConnOK
  <2> QED
    BY <1>1, <1>9, <2>1, SendDiesServer DEF ReadsClose, c
<1>10. CASE ReadsAndCloses(i)
  <2> DEFINE s == Sent(c)  w == [ws[i] EXCEPT !.status = "CLOSING"]
  <2>1. CASE ~CanSend(c) /\ Dies(i, "send")
    BY <1>1, <1>10, <2>1, SendDiesServer DEF ReadsAndCloses, c
  <2>2. CASE CanSend(c)
    <3>1. PICK normal \in BOOLEAN : Become(i, [s EXCEPT !.reading = normal], w)
      BY <1>10, <2>2 DEF ReadsAndCloses, c
    <3>2. /\ s \in Conn /\ s.reading = c.reading /\ s.asked = c.asked /\ s.moved = c.moved
          /\ s.state = "kWritting"
          /\ s.writes = IF c.state = "kWritting" THEN c.writes ELSE c.writes + 1
      BY <1>1, SentConn
    <3> HIDE DEF s
    <3> DEFINE d == [s EXCEPT !.reading = normal]
    <3>3. /\ d \in Conn /\ d.state = "kWritting"
          /\ d.asked = s.asked /\ d.moved = s.moved /\ d.writes = s.writes
      BY <3>2 DEF Conn
    <3>4. Become(i, d, w)
      BY <3>1
    <3> HIDE DEF d
    <3>5. Known(i).status \in {"CONNECT", "CLOSING"}
      BY <1>10 DEF ReadsAndCloses
    <3>6. w \in Session
      BY <1>2, <3>5 DEF Session
    <3> HIDE DEF w
    <3>7. ~d.moved => d.writes <= 1
      BY <1>1, <2>2, <3>2, <3>3 DEF ConnOK, CanSend, Conn
    <3> QED
      BY <1>1, <1>2, <1>3, <3>2, <3>3, <3>4, <3>5, <3>6, <3>7 DEF ConnOK
  <2> QED
    BY <1>10, <2>1, <2>2 DEF ReadsAndCloses, c
<1> QED
  BY <1>4, <1>5, <1>6, <1>7, <1>8, <1>9, <1>10 DEF Read

-----------------------------------------------------------------------------
(* A connection is accepted: its id is new. *)
LEMMA AcceptServer ==
  ASSUME ServerInv, Accept
  PROVE  ServerInv'
<1>1. /\ id \in Nat /\ id' = id + 1
      /\ connectionMap' = connectionMap \cup {id}
      /\ UNCHANGED <<wsConns, ws, broken, culprit>>
  BY DEF Accept, Lives, ServerInv, TypeInv
<1>2. PICK accepted \in BOOLEAN :
        tcp' = [i \in DOMAIN tcp \cup {id} |-> IF i = id THEN TcpConnection(accepted) ELSE tcp[i]]
  BY DEF Accept
<1>3. 0..id = 0..(id - 1) \cup {id} /\ id \notin 0..(id - 1) /\ id' - 1 = id
  BY <1>1
<1>4. TcpConnection(accepted) \in Conn
  BY DEF TcpConnection, Conn
<1>5. /\ tcp' \in [0..id -> Conn] /\ tcp'[id] = TcpConnection(accepted)
      /\ \A i \in DOMAIN tcp : tcp'[i] = tcp[i]
  BY <1>2, <1>3, <1>4 DEF ServerInv, TypeInv
<1>6. TypeInv'
  BY <1>1, <1>3, <1>5 DEF ServerInv, TypeInv
<1>7. id \notin connectionMap /\ id \notin DOMAIN ws /\ id \notin wsConns
  BY <1>3 DEF ServerInv, TypeInv
<1>8. \A i \in connectionMap' : ConnOK(i, tcp[i])'
  <2>1. ASSUME NEW i \in connectionMap', i = id
        PROVE  ConnOK(i, tcp[i])'
    BY <1>1, <1>5, <1>7, <2>1 DEF ConnOK, TcpConnection
  <2>2. ASSUME NEW i \in connectionMap', i # id
        PROVE  ConnOK(i, tcp[i])'
    BY <1>1, <1>5, <2>2 DEF ServerInv, TypeInv, ConnOK
  <2> QED
    BY <2>1, <2>2
<1>9. FreedWithWrites'
  BY <1>1, <1>3, <1>5 DEF ServerInv, TypeInv, FreedWithWrites
<1>10. SendDiesOf'
  BY <1>1 DEF Accept, SendDiesOf
<1> QED
  BY <1>1, <1>6, <1>8, <1>9, <1>10 DEF ServerInv

(* The callbacks of libuv for connection i that are not reads of data. *)
LEMMA CallbackServer ==
  ASSUME ServerInv, NEW i \in connectionMap, broken = "no", UNCHANGED id,
         ReadEnd(i) \/ ReadNothing(i) \/ WriteDone(i) \/ WriteFails(i)
  PROVE  ServerInv'
<1> DEFINE c == tcp[i]
<1>1. c \in Conn /\ ConnOK(i, c)
  BY DEF ServerInv, TypeInv
<1>2. ASSUME NEW why \in {"refused", "nothing", "writeFailed", "gone", "closeFrame"}
      PROVE  LET a == Asked(c, why)
             IN  /\ a \in Conn
                 /\ a.asked # "no" /\ a.asked \in {c.asked, why}
                 /\ a.state = c.state /\ a.reading = c.reading /\ a.writes = c.writes
                 /\ a.closeCb = c.closeCb /\ a.moved = c.moved
  BY <1>1, AskedConn
<1>3. CASE ReadEnd(i)
  <2> DEFINE a == Asked(c, "gone")  d == [a EXCEPT !.reading = FALSE]
  <2>1. HandleClose(i, d)
    BY <1>3 DEF ReadEnd
  <2>2. /\ a \in Conn /\ a.state = c.state /\ a.writes = c.writes
        /\ a.closeCb = c.closeCb /\ a.moved = c.moved
    BY <1>2
  <2> HIDE DEF a
  <2>3. /\ d \in Conn /\ ~d.reading /\ d.state = a.state /\ d.writes = a.writes
        /\ d.closeCb = a.closeCb /\ d.moved = a.moved
    BY <2>2 DEF Conn
  <2> HIDE DEF d
  <2>4. Closable(i, d)
    BY <1>1, <2>2, <2>3 DEF Closable, ConnOK
  <2> QED
    BY <2>1, <2>4, HandleCloseServer
<1>4. CASE ReadNothing(i)
  <2> DEFINE a == Asked(c, "nothing")
  <2>1. HandleClose(i, a)
    BY <1>4 DEF ReadNothing
  <2>2. /\ a \in Conn /\ a.state = c.state /\ a.writes = c.writes /\ a.reading = c.reading
        /\ a.closeCb = c.closeCb /\ a.moved = c.moved
        /\ a.asked # "no" /\ a.asked \in {c.asked, "nothing"}
    BY <1>2
  <2> HIDE DEF a
  <2>3. Closable(i, a)
    BY <1>1, <2>2 DEF Closable, ConnOK
  <2> QED
    BY <2>1, <2>3, HandleCloseServer
<1>5. CASE WriteDone(i)
  <2> DEFINE left == c.writes - 1
             done == [c EXCEPT !.writes = left, !.state = "kConnected"]
             lastDone == [done EXCEPT !.last = FALSE]
             drained == [Sent(done) EXCEPT !.queued = FALSE, !.last = (c.state = "kDisconnecting")]
  <2>1. /\ done \in Conn /\ done.state = "kConnected" /\ done.writes = c.writes - 1
        /\ done.reading = c.reading /\ done.asked = c.asked /\ done.moved = c.moved
        /\ done.closeCb = c.closeCb
    <3>1. left \in Int
      BY <1>1 DEF Conn
    <3> HIDE DEF left
    <3>2. /\ done \in Conn /\ done.state = "kConnected" /\ done.writes = left
          /\ done.reading = c.reading /\ done.asked = c.asked /\ done.moved = c.moved
          /\ done.closeCb = c.closeCb
      BY <1>1, <3>1 DEF Conn
    <3> QED
      BY <3>2 DEF left
  <2>2. \/ HandleClose(i, lastDone) \/ HandleClose(i, done)
        \/ /\ tcp' = [tcp EXCEPT ![i] = done] \/ tcp' = [tcp EXCEPT ![i] = drained]
           /\ UNCHANGED <<connectionMap, wsConns, ws, broken, culprit>>
    BY <1>5 DEF WriteDone, Lives
  <2> HIDE DEF done
  <2>3. /\ lastDone \in Conn /\ lastDone.state = "kConnected" /\ lastDone.writes = c.writes - 1
        /\ lastDone.reading = c.reading /\ lastDone.asked = c.asked /\ lastDone.moved = c.moved
        /\ lastDone.closeCb = c.closeCb
    BY <2>1 DEF Conn
  <2>4. /\ Sent(done) \in Conn /\ Sent(done).state = "kWritting" /\ Sent(done).writes = c.writes
        /\ Sent(done).reading = c.reading /\ Sent(done).asked = c.asked
        /\ Sent(done).moved = c.moved /\ Sent(done).closeCb = c.closeCb
    <3>1. (c.writes - 1) + 1 = c.writes
      BY <1>1 DEF Conn
    <3> QED
      BY <2>1, <3>1, SentConn
  <2>5. /\ drained \in Conn /\ drained.state = "kWritting" /\ drained.writes = c.writes
        /\ drained.reading = c.reading /\ drained.asked = c.asked /\ drained.moved = c.moved
        /\ drained.closeCb = c.closeCb
    <3> DEFINE s == Sent(done)
               l == (c.state = "kDisconnecting")
    <3>1. drained = [s EXCEPT !.queued = FALSE, !.last = l] /\ l \in BOOLEAN
      OBVIOUS
    <3>2. s \in Conn
      BY <2>4
    <3> HIDE DEF s, l
    <3>3. LET d == [s EXCEPT !.queued = FALSE, !.last = l]
          IN  /\ d \in Conn /\ d.state = s.state /\ d.writes = s.writes
              /\ d.reading = s.reading /\ d.asked = s.asked /\ d.moved = s.moved
              /\ d.closeCb = s.closeCb
      BY <3>1, <3>2 DEF Conn
    <3> QED
      BY <2>4, <3>1, <3>3 DEF s
  <2> HIDE DEF lastDone, drained, c
  <2>6. /\ ~c.moved => c.writes - 1 <= 0
        /\ c.writes \in Int
    BY <1>1 DEF ConnOK, Conn
  <2>7. Closable(i, done) /\ Closable(i, lastDone)
    BY <1>1, <2>1, <2>3, <2>6 DEF Closable, ConnOK
  <2>8. ASSUME NEW e \in {done, drained}, tcp' = [tcp EXCEPT ![i] = e],
               UNCHANGED <<connectionMap, wsConns, ws, broken, culprit>>
        PROVE  ServerInv'
    <3>1. /\ e \in Conn /\ e.state \in {"kConnected", "kWritting"}
          /\ e.writes = c.writes - 1 \/ (e.writes = c.writes /\ e.state = "kWritting")
          /\ e.reading = c.reading /\ e.asked = c.asked /\ e.moved = c.moved
          /\ e.closeCb = c.closeCb
      BY <2>1, <2>5, <2>8
    <3>2. ConnOK(i, e)'
      BY <1>1, <2>6, <2>8, <3>1 DEF ConnOK
    <3> QED
      BY <2>8, <3>1, <3>2, ConnReplaced
  <2> QED
    BY <2>2, <2>7, <2>8, HandleCloseServer
<1>6. CASE WriteFails(i)
  <2> DEFINE a == Asked(c, "writeFailed")  left == a.writes - 1
             d == [a EXCEPT !.writes = left, !.dead = TRUE]
  <2>1. HandleClose(i, d)
    BY <1>6 DEF WriteFails
  <2>2. /\ a \in Conn /\ a.state = c.state /\ a.writes = c.writes /\ a.reading = c.reading
        /\ a.closeCb = c.closeCb /\ a.moved = c.moved
        /\ a.asked # "no" /\ a.asked \in {c.asked, "writeFailed"}
    BY <1>2
  <2> HIDE DEF a
  <2>3. /\ d \in Conn /\ d.reading = a.reading /\ d.state = a.state /\ d.writes = a.writes - 1
        /\ d.closeCb = a.closeCb /\ d.moved = a.moved /\ d.asked = a.asked
    <3>1. left \in Int
      BY <2>2 DEF Conn
    <3> HIDE DEF left
    <3>2. /\ d \in Conn /\ d.reading = a.reading /\ d.state = a.state /\ d.writes = left
          /\ d.closeCb = a.closeCb /\ d.moved = a.moved /\ d.asked = a.asked
      BY <2>2, <3>1 DEF Conn
    <3> QED
      BY <3>2 DEF left
  <2> HIDE DEF d
  <2>4. c.writes \in Int
    BY <1>1 DEF Conn
  <2>5. Closable(i, d)
    BY <1>1, <2>2, <2>3, <2>4 DEF Closable, ConnOK
  <2> QED
    BY <2>1, <2>5, HandleCloseServer
<1> QED
  BY <1>3, <1>4, <1>5, <1>6

(* Every step keeps the invariant. *)
LEMMA ServerStep == ServerInv /\ [Next]_vars => ServerInv'
<1> SUFFICES ASSUME ServerInv, [Next]_vars
             PROVE  ServerInv'
  OBVIOUS
<1>1. CASE Accept
  BY <1>1, AcceptServer
<1>2. ASSUME NEW i \in Ids, Read(i)
      PROVE  ServerInv'
  BY <1>2, ReadServer
<1>3. ASSUME NEW i \in Ids, HangUp(i)
      PROVE  ServerInv'
  <2> DEFINE d == [tcp[i] EXCEPT !.gone = TRUE]
  <2>1. /\ i \in connectionMap /\ broken = "no"
        /\ UNCHANGED <<id, connectionMap, wsConns, ws, broken, culprit>>
        /\ tcp' = [tcp EXCEPT ![i] = d]
    BY <1>3 DEF HangUp, Lives
  <2>2. tcp[i] \in Conn /\ ConnOK(i, tcp[i])
    BY <2>1 DEF ServerInv, TypeInv
  <2>3. /\ d \in Conn /\ d.state = tcp[i].state /\ d.writes = tcp[i].writes
        /\ d.reading = tcp[i].reading /\ d.asked = tcp[i].asked /\ d.moved = tcp[i].moved
        /\ d.closeCb = tcp[i].closeCb
    BY <2>2 DEF Conn
  <2> HIDE DEF d
  <2>4. PICK e \in Conn : e = d
    BY <2>3
  <2>5. ConnOK(i, e)'
    BY <2>1, <2>2, <2>3, <2>4 DEF ConnOK
  <2> QED
    BY <2>1, <2>4, <2>5, ConnReplaced
<1>4. ASSUME NEW i \in Ids, ReadEnd(i) \/ ReadNothing(i) \/ WriteDone(i) \/ WriteFails(i)
      PROVE  ServerInv'
  <2>1. i \in connectionMap /\ broken = "no" /\ UNCHANGED id
    BY <1>4 DEF ReadEnd, ReadNothing, Reads, WriteDone, WriteFails
  <2> QED
    BY <1>4, <2>1, CallbackServer
<1>5. ASSUME NEW i \in Ids, WriteCancelled(i)
      PROVE  ServerInv'
  <2>1. i \in DOMAIN tcp \ connectionMap /\ broken = "no" /\ UNCHANGED id
    BY <1>5 DEF WriteCancelled
  <2>2. CASE Dies(i, "TcpConnection freed")
    BY <2>1, <2>2 DEF Dies, ServerInv, TypeInv, ConnOK, FreedWithWrites, SendDiesOf
  <2>3. CASE /\ tcp' = [tcp EXCEPT ![i].writes = @ - 1]
             /\ UNCHANGED <<connectionMap, wsConns, ws, broken, culprit>>
    <3> DEFINE d == [tcp[i] EXCEPT !.writes = @ - 1]
    <3>1. tcp[i] \in Conn /\ tcp[i].writes > 0
      BY <1>5, <2>1 DEF ServerInv, TypeInv, WriteCancelled
    <3>2. d \in Conn /\ d.moved = tcp[i].moved
      BY <3>1 DEF Conn
    <3>3. tcp' = [tcp EXCEPT ![i] = d]
      BY <2>3
    <3> HIDE DEF d
    <3>4. /\ tcp' \in [0..(id - 1) -> Conn] /\ tcp'[i] = d
          /\ \A j \in DOMAIN tcp \ {i} : tcp'[j] = tcp[j]
      BY <2>1, <3>2, <3>3 DEF ServerInv, TypeInv
    <3>5. \A j \in connectionMap : ConnOK(j, tcp[j])'
      BY <2>1, <2>3, <3>4 DEF ServerInv, TypeInv, ConnOK
    <3>6. FreedWithWrites' /\ SendDiesOf'
      BY <2>1, <2>3, <3>1, <3>2, <3>4 DEF ServerInv, TypeInv, FreedWithWrites, SendDiesOf
    <3> QED
      BY <2>1, <2>3, <3>4, <3>5, <3>6 DEF ServerInv, TypeInv
  <2> QED
    BY <1>5, <2>2, <2>3 DEF WriteCancelled, Lives
<1>6. CASE UNCHANGED vars
  BY <1>6 DEF vars, ServerInv, TypeInv, ConnOK, FreedWithWrites, SendDiesOf
<1> QED
  BY <1>1, <1>2, <1>3, <1>4, <1>5, <1>6 DEF Next

LEMMA ServerInitial == Init => ServerInv
<1> SUFFICES ASSUME Init PROVE ServerInv
  OBVIOUS
<1>1. 0..(id - 1) = {}
  BY DEF Init
<1>2. /\ DOMAIN tcp = {} /\ tcp \in [{} -> Conn]
      /\ DOMAIN ws = {} /\ ws \in [{} -> Session]
  BY DEF Init
<1> QED
  BY <1>1, <1>2 DEF Init, ServerInv, TypeInv, FreedWithWrites, SendDiesOf

(* The inductive invariant. *)
THEOREM ServerCorrect == Spec => []ServerInv
  BY ServerInitial, ServerStep, PTL DEF Spec

(* The maps of the two servers agree, for any number of connections.       *)
THEOREM MapsAgreeCorrect == Spec => []MapsAgree
<1>1. ServerInv => MapsAgree
  BY DEF ServerInv, ConnOK, MapsAgree
<1> QED
  BY <1>1, ServerCorrect, PTL

(* The assert in send() fails for three reasons only. *)
THEOREM SendDiesOfCorrect == Spec => []SendDiesOf
<1>1. ServerInv => SendDiesOf
  BY DEF ServerInv
<1> QED
  BY <1>1, ServerCorrect, PTL

(* Only messages sent in two parts leave writes behind a connection that   *)
(* is destroyed.                                                           *)
THEOREM FreedWithWritesCorrect == Spec => []FreedWithWrites
<1>1. ServerInv => FreedWithWrites
  BY DEF ServerInv
<1> QED
  BY <1>1, ServerCorrect, PTL
=============================================================================
