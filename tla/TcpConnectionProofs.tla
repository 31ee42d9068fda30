------------------------ MODULE TcpConnectionProofs ------------------------
(* Theorems about TcpConnection, for every value of its constants.         *)
EXTENDS TcpConnection, SequenceTheorems, TLAPS

(* What handleClose() assigns, whatever state it finds. *)
LEMMA HandleCloseType ==
  ASSUME TypeOK, NEW s \in StateE, NEW r \in BOOLEAN, HandleClose(s, r)
  PROVE  /\ state' \in StateE
         /\ reading' \in BOOLEAN
         /\ alive' \in BOOLEAN
         /\ failedAssert' \in {"none", "send", "handleClose"}
  BY DEF HandleClose, TypeOK, StateE

(* The part of TypeOK that a finished write request re-establishes. *)
LEMMA RequestDoneType ==
  ASSUME TypeOK, RequestDone
  PROVE  /\ delivered' \in Seq(0..MaxSends)
         /\ Tail(uvQueue) \in Seq(Seq(0..MaxSends))
         /\ bytesWritten' \in Nat
         /\ bytesRead' \in 0..MaxReads
         /\ broken' \in BOOLEAN
         /\ closeCb' \in {"closeConnection", "handleClose"}
         /\ sent' \in 0..MaxSends
         /\ closeAsked' \in BOOLEAN
<1> DEFINE M == 0..MaxSends
<1>1. /\ Head(uvQueue) \in Seq(M)
      /\ Tail(uvQueue) \in Seq(Seq(M))
  BY HeadTailProperties DEF RequestDone, TypeOK
<1>2. delivered \o Head(uvQueue) \in Seq(M)
  BY <1>1, ConcatProperties DEF TypeOK
<1> QED
  BY <1>1, <1>2 DEF RequestDone, TypeOK

(* The initial values have their types. *)
LEMMA TypeInitial == Init => TypeOK
<1> DEFINE M == 0..MaxSends
<1> SUFFICES ASSUME Init PROVE TypeOK
  OBVIOUS
<1>1. lastWrite \in Nat
  BY ConstantsOK DEF ConstantsOK, Init
<1>2. <<>> \in Seq(M) /\ <<>> \in Seq(Seq(M))
  BY EmptySeq
<1>3. 0 \in 0..MaxSends /\ 0 \in 0..MaxReads
  BY ConstantsOK DEF ConstantsOK
<1> QED
  BY <1>1, <1>2, <1>3 DEF Init, TypeOK, StateE

(* Every step keeps the types, whatever Env allows. *)
LEMMA TypeStep == TypeOK /\ [Next]_vars => TypeOK'
<1> DEFINE M == 0..MaxSends
<1> SUFFICES ASSUME TypeOK, [Next]_vars
             PROVE  TypeOK'
  OBVIOUS
<1> USE ConstantsOK DEF ConstantsOK
<1>1. CASE Accept
  BY <1>1 DEF Accept, TypeOK, StateE
<1>2. CASE Close
  BY <1>2, HandleCloseType DEF Close, TypeOK
<1>3. CASE OnClose
  BY <1>3 DEF OnClose, TypeOK
<1>4. CASE ReadData
  BY <1>4 DEF ReadData, TypeOK
<1>5. CASE ReadEnd
  BY <1>5, HandleCloseType DEF ReadEnd, TypeOK
<1>6. CASE StopRead
  BY <1>6 DEF StopRead, TypeOK
<1>7. ASSUME MaySend
      PROVE  /\ Msg \in M
             /\ Append(outputBuf, Msg) \in Seq(M)
             /\ <<Msg>> \in Seq(M)
             /\ Append(uvQueue, <<Msg>>) \in Seq(Seq(M))
             /\ sent + 1 \in 0..MaxSends
  <2>1. Msg \in M /\ sent + 1 \in 0..MaxSends
    BY <1>7 DEF MaySend, Msg, Late, TypeOK
  <2>2. <<Msg>> \in Seq(M)
    BY <2>1
  <2> QED
    BY <2>1, <2>2, AppendProperties DEF TypeOK
<1>8. CASE Send
  <2>1. CASE state = "kWritting"
    BY <1>7, <1>8, <2>1 DEF Send, Queue, TypeOK, StateE
  <2>2. CASE state = "kConnected"
    <3>1. /\ sent' = sent + 1
          /\ uvQueue' = Append(uvQueue, <<Msg>>)
          /\ lastWrite' = 1
          /\ state' = "kWritting"
          /\ MaySend
          /\ UNCHANGED <<outputBuf, failedAssert, isLastWrite, bytesWritten, bytesRead,
                         reading, broken, closeCb, alive, touchedFreed, delivered,
                         closeAsked>>
      BY <1>8, <2>2 DEF Send
    <3> HIDE DEF M
    <3> QED
      BY <1>7, <3>1 DEF TypeOK, StateE, M
  <2>3. CASE state \in {"kDisconnecting", "kDisconnected"}
    BY <1>8, <2>3 DEF Send, TypeOK, StateE
  <2> QED
    BY <1>8, <2>1, <2>2, <2>3 DEF Send
<1>9. CASE SendMove
  BY <1>7, <1>9 DEF SendMove, Queue, TypeOK, StateE
<1>10. CASE WriteDone_Last
  BY <1>10, RequestDoneType, HandleCloseType DEF WriteDone_Last, TypeOK, StateE
<1>11. CASE WriteDone_Close
  BY <1>11, RequestDoneType, HandleCloseType DEF WriteDone_Close, TypeOK, StateE
<1>12. CASE WriteDone_Drain
  <2>1. Append(Tail(uvQueue), outputBuf) \in Seq(Seq(M))
    BY <1>12, RequestDoneType, AppendProperties DEF WriteDone_Drain, TypeOK
  <2>2. Len(outputBuf) \in Nat
    BY LenProperties DEF TypeOK
  <2> QED
    BY <1>12, <2>1, <2>2, RequestDoneType DEF WriteDone_Drain, TypeOK, StateE
<1>13. CASE WriteDone_Idle
  BY <1>13, RequestDoneType DEF WriteDone_Idle, TypeOK, StateE
<1>14. CASE WriteFailed
  BY <1>14, HandleCloseType, HeadTailProperties DEF WriteFailed, TypeOK
<1>15. CASE WriteCancelled
  BY <1>15, HeadTailProperties DEF WriteCancelled, TypeOK
<1>16. CASE UNCHANGED vars
  BY <1>16 DEF vars, TypeOK
<1> QED
  BY <1>1, <1>2, <1>3, <1>4, <1>5, <1>6, <1>8, <1>9, <1>10, <1>11, <1>12, <1>13,
     <1>14, <1>15, <1>16 DEF Next, WriteDone

(* Every variable keeps its type, whatever Env allows. *)
THEOREM TypeCorrect == Spec => []TypeOK
  BY TypeInitial, TypeStep, PTL DEF Spec

-----------------------------------------------------------------------------
(* The message of an accepted send() extends what has been accepted. *)
LEMMA AcceptedGrows ==
  ASSUME TypeOK, ~closeAsked, sent' = sent + 1
  PROVE  /\ Accepted \in Seq(Nat)
         /\ Accepted' = Append(Accepted, Msg)
<1>1. sent \in Nat /\ Accepted \in Seq(Nat) /\ Len(Accepted) = sent
  BY DEF TypeOK, Accepted
<1>2. \A i \in 1..sent + 1 : Append(Accepted, Msg)[i] = i
  BY <1>1, AppendProperties DEF Accepted, Msg
<1>3. Accepted' = [i \in 1..sent + 1 |-> i]
  BY DEF Accepted
<1>4. /\ Append(Accepted, Msg) \in Seq(Nat)
      /\ Accepted' \in Seq(Nat)
      /\ Len(Append(Accepted, Msg)) = Len(Accepted')
      /\ Len(Accepted') = sent + 1
  BY <1>1, <1>3, AppendProperties DEF Msg
<1>5. Accepted' = Append(Accepted, Msg)
  BY <1>2, <1>3, <1>4, SeqEqual
<1> QED
  BY <1>1, <1>5

(* Appending to the right part of a concatenation appends to the whole. *)
LEMMA ConcatAppend ==
  ASSUME NEW S, NEW s \in Seq(S), NEW t \in Seq(S), NEW x \in S
  PROVE  s \o Append(t, x) = Append(s \o t, x)
<1>1. /\ <<x>> \in Seq(S)
      /\ Append(t, x) = t \o <<x>>
      /\ s \o t \in Seq(S)
      /\ Append(s \o t, x) = (s \o t) \o <<x>>
  BY AppendIsConcat, ConcatProperties
<1> QED
  BY <1>1, ConcatAssociative

(* With one write outstanding, the request at the head is all there is. *)
LEMMA OneWrite ==
  ASSUME TypeOK, SerialWrites, uvQueue # <<>>
  PROVE  /\ OnWire = Head(uvQueue)
         /\ OnWire \in Seq(0..MaxSends)
         /\ Tail(uvQueue) = <<>>
         /\ state \in {"kWritting", "kDisconnecting"}
<1>1. Len(Tail(uvQueue)) = Len(uvQueue) - 1 /\ Tail(uvQueue) \in Seq(Seq(0..MaxSends))
  BY HeadTailProperties DEF TypeOK
<1>2. Len(uvQueue) <= 1
  BY DEF SerialWrites
<1>3. Len(Tail(uvQueue)) = 0
  BY <1>1, <1>2, LenProperties, EmptySeq DEF TypeOK
<1>4. Tail(uvQueue) = <<>>
  BY <1>1, <1>3, EmptySeq
<1> QED
  BY <1>4, HeadTailProperties DEF OnWire, TypeOK, SerialWrites

(* A request that is done leaves exactly outputBuf undelivered. *)
LEMMA HeadDelivered ==
  ASSUME SerialInv, RequestDone
  PROVE  /\ delivered' \o outputBuf = Accepted
         /\ delivered' \in Seq(0..MaxSends)
         /\ bytesWritten' = Len(delivered')
         /\ Accepted' = Accepted
         /\ closeAsked' = closeAsked
         /\ alive
         /\ Tail(uvQueue) = <<>>
         /\ state \in {"kWritting", "kDisconnecting"}
<1>1. /\ TypeOK /\ SerialWrites /\ NoLoss /\ BytesAccounted
      /\ uvQueue # <<>> /\ alive
      /\ delivered' = delivered \o Head(uvQueue)
      /\ bytesWritten' = bytesWritten + lastWrite
      /\ UNCHANGED <<sent, closeAsked>>
  BY DEF SerialInv, RequestDone, Running
<1>2. /\ OnWire = Head(uvQueue)
      /\ OnWire \in Seq(0..MaxSends)
      /\ Tail(uvQueue) = <<>>
      /\ state \in {"kWritting", "kDisconnecting"}
  BY <1>1, OneWrite
<1>3. delivered' \in Seq(0..MaxSends) /\ Len(delivered') = Len(delivered) + Len(OnWire)
  BY <1>1, <1>2, ConcatProperties DEF TypeOK
<1>4. bytesWritten' = Len(delivered')
  BY <1>1, <1>2, <1>3 DEF BytesAccounted
<1>5. Accepted' = Accepted
  BY <1>1 DEF Accepted
<1>6. delivered' \o outputBuf = Accepted
  BY <1>1, <1>2 DEF NoLoss
<1> QED
  BY <1>1, <1>2, <1>3, <1>4, <1>5, <1>6

(* SerialInv survives a send(): it is queued behind the write in flight or *)
(* becomes the write in flight.                                            *)
LEMMA SendSerial ==
  ASSUME Serial, SerialInv, TypeOK', Send
  PROVE  SerialInv'
<1>1. /\ TypeOK /\ SerialWrites /\ NoLoss /\ BytesAccounted
      /\ ~closeAsked /\ alive
      /\ state \in {"kConnected", "kWritting"}
      /\ sent' = sent + 1
      /\ UNCHANGED <<isLastWrite, bytesWritten, alive, delivered, closeAsked, failedAssert>>
  BY DEF SerialInv, Serial, Send, MaySend, Running, TypeOK, StateE
<1>2. Accepted' = Append(Accepted, Msg) /\ Accepted \in Seq(Nat)
  BY <1>1, AcceptedGrows
<1>3. /\ OnWire \in Seq(Nat) /\ outputBuf \in Seq(Nat) /\ delivered \in Seq(Nat)
      /\ Msg \in Nat
  <2>1. 0..MaxSends \subseteq Nat
    OBVIOUS
  <2>2. \A q \in Seq(0..MaxSends) : q \in Seq(Nat)
    BY <2>1, SeqMonotonic
  <2>3. OnWire \in Seq(0..MaxSends)
    BY <1>1, HeadTailProperties, EmptySeq DEF OnWire, TypeOK
  <2> QED
    BY <1>1, <2>2, <2>3 DEF TypeOK, Msg, Late
<1>4. CASE state = "kWritting"
  <2>1. /\ outputBuf' = Append(outputBuf, Msg)
        /\ UNCHANGED <<state, lastWrite, uvQueue>>
    BY <1>4 DEF Send, Queue
  <2>2. delivered' \o OnWire' \o outputBuf' = Accepted'
    <3>1. OnWire' = OnWire
      BY <2>1 DEF OnWire
    <3>2. delivered \o OnWire \in Seq(Nat)
      BY <1>3, ConcatProperties
    <3>3. (delivered \o OnWire) \o Append(outputBuf, Msg)
            = Append((delivered \o OnWire) \o outputBuf, Msg)
      BY <1>3, <3>2, ConcatAppend
    <3> QED
      BY <1>1, <1>2, <2>1, <3>1, <3>3 DEF NoLoss
  <2>3. SerialWrites' /\ uvQueue # <<>>
    BY <1>1, <1>4, <2>1 DEF SerialWrites
  <2>4. BytesAccounted'
    BY <1>1, <2>1 DEF BytesAccounted
  <2> QED
    BY <1>1, <1>4, <2>1, <2>2, <2>3, <2>4 DEF SerialInv, NoLoss, OnWire
<1>5. CASE state = "kConnected"
  <2>1. /\ uvQueue' = Append(uvQueue, <<Msg>>)
        /\ lastWrite' = 1
        /\ state' = "kWritting"
        /\ outputBuf' = outputBuf
    BY <1>5 DEF Send
  <2>2. uvQueue = <<>> /\ outputBuf = <<>> /\ OnWire = <<>>
    BY <1>1, <1>5 DEF SerialWrites, SerialInv, OnWire
  <2>3. uvQueue' = << <<Msg>> >> /\ OnWire' = <<Msg>>
    BY <2>1, <2>2 DEF OnWire
  <2>4. delivered = Accepted
    BY <1>1, <1>3, <2>2, ConcatEmptySeq DEF NoLoss
  <2>5. delivered' \o OnWire' \o outputBuf' = Accepted'
    <3>1. Accepted \o <<Msg>> = Append(Accepted, Msg) /\ <<Msg>> \in Seq(Nat)
      BY <1>2, <1>3, AppendIsConcat
    <3>2. Accepted \o <<Msg>> \in Seq(Nat)
      BY <1>2, <3>1, ConcatProperties
    <3> QED
      BY <1>1, <1>2, <2>1, <2>2, <2>3, <2>4, <3>1, <3>2, ConcatEmptySeq
  <2>6. SerialWrites'
    BY <2>1, <2>3 DEF SerialWrites
  <2>7. BytesAccounted'
    BY <1>1, <2>1, <2>3 DEF BytesAccounted
  <2>8. ~isLastWrite /\ OnWire' # <<>>
    BY <1>1, <2>3 DEF SerialInv
  <2> QED
    BY <1>1, <2>1, <2>2, <2>5, <2>6, <2>7, <2>8 DEF SerialInv, NoLoss
<1> QED
  BY <1>1, <1>4, <1>5

(* SerialInv survives a write callback: each continuation either closes a  *)
(* connection with nothing left, or starts the only write, or goes idle.   *)
LEMMA WriteDoneSerial ==
  ASSUME SerialInv, TypeOK', WriteDone
  PROVE  SerialInv'
<1>1. RequestDone
  BY DEF WriteDone, WriteDone_Last, WriteDone_Close, WriteDone_Drain, WriteDone_Idle
<1>2. /\ delivered' \o outputBuf = Accepted
      /\ delivered' \in Seq(0..MaxSends)
      /\ bytesWritten' = Len(delivered')
      /\ Accepted' = Accepted
      /\ closeAsked' = closeAsked
      /\ alive
      /\ Tail(uvQueue) = <<>>
      /\ state \in {"kWritting", "kDisconnecting"}
  BY <1>1, HeadDelivered
<1>3. /\ outputBuf \in Seq(0..MaxSends)
      /\ isLastWrite => state = "kWritting"
      /\ isLastWrite => outputBuf = <<>>
      /\ closeAsked <=> isLastWrite \/ state = "kDisconnecting"
      /\ failedAssert = "none"
  BY <1>2 DEF SerialInv, TypeOK
<1>4. ASSUME outputBuf = <<>>, outputBuf' = <<>>, uvQueue' = Tail(uvQueue)
      PROVE  /\ NoLoss'
             /\ BytesAccounted'
             /\ Len(uvQueue') <= 1
             /\ uvQueue' = <<>>
  <2>1. delivered' = Accepted'
    BY <1>2, <1>4, ConcatEmptySeq
  <2>2. uvQueue' = <<>> /\ OnWire' = <<>>
    BY <1>2, <1>4 DEF OnWire
  <2>4. Len(uvQueue') <= 1
    BY <2>2
  <2>3. delivered' \o OnWire' \o outputBuf' = Accepted'
    BY <1>2, <1>4, <2>1, <2>2, ConcatEmptySeq
  <2> QED
    BY <1>2, <2>1, <2>2, <2>3, <2>4 DEF NoLoss, BytesAccounted
<1>5. CASE WriteDone_Last \/ WriteDone_Close
  <2>1. /\ HandleClose("kConnected", reading)
        /\ uvQueue' = Tail(uvQueue)
        /\ outputBuf = <<>> /\ outputBuf' = outputBuf
        /\ ~isLastWrite'
        /\ closeAsked
    BY <1>3, <1>5 DEF WriteDone_Last, WriteDone_Close
  <2>2. state' = "kDisconnected" /\ failedAssert' = "none"
    BY <1>3, <2>1 DEF HandleClose
  <2>3. NoLoss' /\ BytesAccounted' /\ Len(uvQueue') <= 1 /\ uvQueue' = <<>>
    BY <1>4, <2>1
  <2> QED
    BY <1>2, <2>1, <2>2, <2>3 DEF SerialInv, SerialWrites
<1>6. CASE WriteDone_Drain
  <2>1. /\ outputBuf # <<>>
        /\ ~isLastWrite
        /\ isLastWrite' = (state = "kDisconnecting")
        /\ state' = "kWritting"
        /\ lastWrite' = Len(outputBuf)
        /\ uvQueue' = Append(Tail(uvQueue), outputBuf)
        /\ outputBuf' = <<>>
        /\ UNCHANGED <<alive, failedAssert>>
    BY <1>6 DEF WriteDone_Drain
  <2>2. /\ uvQueue' = <<outputBuf>> /\ uvQueue' # <<>>
        /\ Head(uvQueue') = outputBuf /\ OnWire' = outputBuf
    <3>1. uvQueue' = Append(<<>>, outputBuf)
      BY <1>2, <2>1
    <3>2. uvQueue' = <<outputBuf>>
      BY <3>1
    <3> QED
      BY <3>2 DEF OnWire
  <2>3. delivered' \o OnWire' \o outputBuf' = Accepted'
    <3>1. delivered' \o outputBuf \in Seq(0..MaxSends)
      BY <1>2, <1>3, ConcatProperties
    <3> QED
      BY <1>2, <2>1, <2>2, <3>1, ConcatEmptySeq
  <2>4. NoLoss' /\ BytesAccounted' /\ SerialWrites'
    <3>1. Len(uvQueue') = 1
      BY <2>2
    <3> QED
      BY <1>2, <2>1, <2>2, <2>3, <3>1 DEF NoLoss, BytesAccounted, SerialWrites
  <2>5. closeAsked' <=> isLastWrite'
    BY <1>2, <1>3, <2>1
  <2> QED
    BY <1>2, <1>3, <2>1, <2>2, <2>4, <2>5 DEF SerialInv
<1>7. CASE WriteDone_Idle
  <2>1. /\ outputBuf = <<>> /\ outputBuf' = outputBuf
        /\ ~isLastWrite /\ isLastWrite' = isLastWrite
        /\ state # "kDisconnecting"
        /\ state' = "kConnected"
        /\ uvQueue' = Tail(uvQueue)
        /\ UNCHANGED <<alive, failedAssert>>
    BY <1>7 DEF WriteDone_Idle
  <2>2. NoLoss' /\ BytesAccounted' /\ Len(uvQueue') <= 1 /\ uvQueue' = <<>>
    BY <1>4, <2>1
  <2> QED
    BY <1>2, <1>3, <2>1, <2>2 DEF SerialInv, SerialWrites
<1> QED
  BY <1>5, <1>6, <1>7 DEF WriteDone

(* A close or a failed read on a connection that nobody has closed yet     *)
(* defers to the write in flight or finds everything delivered.            *)
LEMMA CloseSerial ==
  ASSUME SerialInv, TypeOK', ~closeAsked, closeAsked', alive,
         NEW r \in BOOLEAN, HandleClose(state, r),
         UNCHANGED <<outputBuf, isLastWrite, lastWrite, bytesWritten, uvQueue, delivered, sent>>
  PROVE  SerialInv'
<1>1. /\ TypeOK /\ SerialWrites /\ NoLoss /\ BytesAccounted
      /\ state \in {"kConnecting", "kConnected", "kWritting"}
      /\ ~isLastWrite /\ failedAssert = "none"
      /\ outputBuf # <<>> => uvQueue # <<>>
  BY DEF SerialInv, TypeOK, StateE
<1>2. OnWire' = OnWire /\ Accepted' = Accepted
  BY DEF OnWire, Accepted
<1>3. BytesAccounted'
  BY <1>1 DEF BytesAccounted
<1>4. CASE state = "kWritting"
  <2>1. state' = "kDisconnecting" /\ UNCHANGED <<alive, failedAssert>>
    BY <1>4 DEF HandleClose
  <2>2. SerialWrites' /\ NoLoss'
    BY <1>1, <1>2, <1>4, <2>1 DEF SerialWrites, NoLoss
  <2> QED
    BY <1>1, <1>2, <1>3, <2>1, <2>2 DEF SerialInv
<1>5. CASE state \in {"kConnecting", "kConnected"}
  <2>1. state' = "kDisconnected" /\ failedAssert' = failedAssert
    BY <1>5 DEF HandleClose
  <2>2. uvQueue = <<>> /\ outputBuf = <<>> /\ OnWire = <<>>
    BY <1>1, <1>5 DEF SerialWrites, OnWire
  <2>3. delivered = Accepted
    BY <1>1, <2>2, ConcatEmptySeq DEF NoLoss, TypeOK
  <2>4. SerialWrites' /\ NoLoss'
    BY <1>1, <1>2, <2>1, <2>2, <2>3 DEF SerialWrites, NoLoss
  <2> QED
    BY <1>1, <1>3, <2>1, <2>2, <2>4 DEF SerialInv
<1> QED
  BY <1>1, <1>4, <1>5

(* Actions that touch nothing SerialInv speaks of, other than TypeOK. *)
LEMMA FrameSerial ==
  ASSUME SerialInv, TypeOK',
         UNCHANGED <<state, outputBuf, isLastWrite, lastWrite, bytesWritten, uvQueue, alive,
                     failedAssert, delivered, sent, closeAsked>>
  PROVE  SerialInv'
<1>1. OnWire' = OnWire /\ Accepted' = Accepted
  BY DEF OnWire, Accepted
<1>2. SerialWrites' /\ NoLoss' /\ BytesAccounted'
  BY <1>1 DEF SerialInv, SerialWrites, NoLoss, BytesAccounted
<1> QED
  BY <1>1, <1>2 DEF SerialInv

(* Under the serial discipline SerialInv is invariant, whatever the number *)
(* of sends and reads.                                                     *)
THEOREM SerialCorrect == ASSUME Serial PROVE Spec => []SerialInv
<1>1. Init => SerialInv
  <2> SUFFICES ASSUME Init PROVE SerialInv
    OBVIOUS
  <2>1. TypeOK
    BY TypeInitial
  <2>2. Accepted = <<>> /\ OnWire = <<>>
    BY DEF Init, Accepted, OnWire
  <2>3. NoLoss
    BY <2>2 DEF Init, NoLoss
  <2>4. SerialWrites /\ BytesAccounted
    BY DEF Init, SerialWrites, BytesAccounted
  <2> QED
    BY <2>1, <2>3, <2>4 DEF Init, SerialInv
<1>2. SerialInv /\ [Next]_vars => SerialInv'
  <2> SUFFICES ASSUME SerialInv, [Next]_vars PROVE SerialInv'
    OBVIOUS
  <2>0. TypeOK /\ TypeOK'
    BY TypeStep DEF SerialInv
  <2>1. CASE Accept
    <3>1. state = "kConnecting" /\ state' = "kConnected"
      BY <2>1 DEF Accept
    <3>2. OnWire' = OnWire /\ Accepted' = Accepted
      BY <2>1 DEF Accept, OnWire, Accepted
    <3>3. SerialWrites' /\ NoLoss' /\ BytesAccounted'
      BY <2>1, <3>1, <3>2 DEF Accept, SerialInv, SerialWrites, NoLoss, BytesAccounted
    <3> QED
      BY <2>0, <2>1, <3>1, <3>2, <3>3 DEF Accept, SerialInv
  <2>2. CASE Close
    <3>1. ~closeAsked /\ closeAsked' /\ alive /\ reading \in BOOLEAN
      BY <2>0, <2>2 DEF Close, MayClose, Serial, Running, TypeOK
    <3> QED
      BY <2>0, <2>2, <3>1, CloseSerial DEF Close
  <2>3. CASE ReadEnd
    <3>1. ~closeAsked /\ closeAsked' /\ alive
      BY <2>3 DEF ReadEnd, MayClose, Serial, Running
    <3>2. PICK r \in BOOLEAN : HandleClose(state, r)
      BY <2>3 DEF ReadEnd
    <3> QED
      BY <2>0, <2>3, <3>1, <3>2, CloseSerial DEF ReadEnd
  <2>4. CASE OnClose \/ ReadData \/ StopRead
    BY <2>0, <2>4, FrameSerial DEF OnClose, ReadData, StopRead
  <2>5. CASE Send
    BY <2>0, <2>5, SendSerial
  <2>6. CASE WriteDone
    BY <2>0, <2>6, WriteDoneSerial
  <2>7. CASE SendMove \/ WriteFailed
    BY <2>7 DEF SendMove, WriteFailed, Serial
  <2>8. CASE WriteCancelled
    BY <2>8 DEF WriteCancelled, SerialInv, SerialWrites
  <2>9. CASE UNCHANGED vars
    BY <2>0, <2>9, FrameSerial DEF vars
  <2> QED
    BY <2>1, <2>2, <2>3, <2>4, <2>5, <2>6, <2>7, <2>8, <2>9 DEF Next
<1> QED
  BY <1>1, <1>2, PTL DEF Spec

-----------------------------------------------------------------------------
(* The promises are parts or consequences of SerialInv. *)
LEMMA SerialImplies ==
  SerialInv => SerialWrites /\ NoLoss /\ NoOrphanWrite /\ SendAssert /\ HandleCloseAssert
<1> SUFFICES ASSUME SerialInv
             PROVE  NoOrphanWrite /\ SendAssert /\ HandleCloseAssert
  BY DEF SerialInv
<1>1. ASSUME ~alive PROVE uvQueue = <<>>
  BY <1>1 DEF SerialInv, SerialWrites
<1> QED
  BY <1>1 DEF NoOrphanWrite, SendAssert, HandleCloseAssert, SerialInv

(* At most one uv_write is outstanding, exactly while state_ says so.      *)
THEOREM SerialWritesCorrect == ASSUME Serial PROVE Spec => []SerialWrites
  BY SerialCorrect, SerialImplies, PTL

(* No accepted message is lost, repeated or overtaken, and a closed        *)
(* connection has delivered them all.                                      *)
THEOREM NoLossCorrect == ASSUME Serial PROVE Spec => []NoLoss
  BY SerialCorrect, SerialImplies, PTL

(* No write is outstanding when the connection is destroyed, so that no    *)
(* callback reaches the freed object.                                      *)
THEOREM NoOrphanWriteCorrect == ASSUME Serial PROVE Spec => []NoOrphanWrite
  BY SerialCorrect, SerialImplies, PTL

(* Neither assert() of the write path fails. *)
THEOREM AssertsCorrect ==
  ASSUME Serial PROVE Spec => []AssertsHold
  BY SerialCorrect, SerialImplies, PTL DEF AssertsHold

(* A disconnected connection is never revived by a late callback: the      *)
(* write path has nothing left to call back.                               *)
THEOREM StaysDisconnectedCorrect == ASSUME Serial PROVE Spec => StaysDisconnected
<1>1. SerialInv /\ [Next]_vars => [state = "kDisconnected" => state' = "kDisconnected"]_vars
  <2> SUFFICES ASSUME SerialInv, [Next]_vars, state = "kDisconnected"
               PROVE  state' = state
    OBVIOUS
  <2>1. closeAsked /\ uvQueue = <<>>
    BY DEF SerialInv, SerialWrites
  <2>2. CASE Accept
    BY <2>2 DEF Accept
  <2>3. CASE Close \/ ReadEnd \/ Send \/ SendMove \/ WriteFailed
    BY <2>1, <2>3 DEF Close, ReadEnd, Send, SendMove, WriteFailed, MayClose, MaySend, Serial
  <2>4. CASE OnClose \/ ReadData \/ StopRead \/ WriteCancelled
    BY <2>4 DEF OnClose, ReadData, StopRead, WriteCancelled
  <2>5. CASE WriteDone
    BY <2>1, <2>5 DEF WriteDone, WriteDone_Last, WriteDone_Close, WriteDone_Drain,
                      WriteDone_Idle, RequestDone
  <2>6. CASE UNCHANGED vars
    BY <2>6 DEF vars
  <2> QED
    BY <2>2, <2>3, <2>4, <2>5, <2>6 DEF Next
<1> QED
  BY <1>1, SerialCorrect, PTL DEF Spec, StaysDisconnected

-----------------------------------------------------------------------------
(* The phase of the channel that a connection implements. *)
LEMMA ChannelPhase ==
  ASSUME SerialInv
  PROVE  /\ ~closeAsked => state # "kDisconnected"
         /\ uvQueue # <<>> => state # "kDisconnected"
  BY DEF SerialInv, SerialWrites

(* A first request to close is the channel's RequestClose.                 *)
LEMMA CloseRefines ==
  ASSUME SerialInv, ~closeAsked, closeAsked', NEW r \in BOOLEAN, HandleClose(state, r),
         UNCHANGED <<delivered, sent>>
  PROVE  Channel!RequestClose
<1>1. Accepted' = Accepted
  BY DEF Accepted
<1>2. state \in {"kConnecting", "kConnected", "kWritting"} /\ failedAssert = "none"
  BY DEF SerialInv, TypeOK, StateE
<1>3. CASE state = "kWritting"
  <2>1. state' = "kDisconnecting"
    BY <1>3 DEF HandleClose
  <2>2. delivered # Accepted
    <3>1. /\ delivered \in Seq(0..MaxSends) /\ outputBuf \in Seq(0..MaxSends)
          /\ OnWire \in Seq(0..MaxSends) /\ OnWire # <<>>
          /\ delivered \o OnWire \o outputBuf = Accepted
      BY <1>3, OneWrite DEF SerialInv, SerialWrites, TypeOK, NoLoss
    <3>2. Len(OnWire) \in Nat /\ Len(OnWire) # 0
      BY <3>1, EmptySeq
    <3>3. Len(Accepted) = Len(delivered) + Len(OnWire) + Len(outputBuf)
      BY <3>1, ConcatProperties
    <3> QED
      BY <3>1, <3>2, <3>3
  <2> QED
    BY <1>1, <1>3, <2>1, <2>2 DEF Channel!RequestClose
<1>4. CASE state \in {"kConnecting", "kConnected"}
  <2>1. state' = "kDisconnected"
    BY <1>4 DEF HandleClose
  <2>2. uvQueue = <<>> /\ outputBuf = <<>> /\ OnWire = <<>>
    BY <1>4 DEF SerialInv, SerialWrites, OnWire
  <2>3. delivered = Accepted
    BY <2>2, ConcatEmptySeq DEF SerialInv, NoLoss, TypeOK
  <2> QED
    BY <1>1, <1>4, <2>1, <2>3 DEF Channel!RequestClose
<1> QED
  BY <1>2, <1>3, <1>4

(* An accepted send() is the channel's Accept. *)
LEMMA SendRefines ==
  ASSUME Serial, SerialInv, Send
  PROVE  Channel!Accept
<1>1. /\ ~closeAsked /\ closeAsked' = closeAsked
      /\ state \in {"kConnected", "kWritting"}
      /\ state' = "kWritting"
      /\ sent' = sent + 1
      /\ delivered' = delivered
  BY DEF SerialInv, Serial, Send, Queue, MaySend, TypeOK, StateE
<1>2. Accepted' = Append(Accepted, Msg)
  BY <1>1, AcceptedGrows DEF SerialInv
<1>3. Len(Accepted) = sent
  BY DEF Accepted, SerialInv, TypeOK
<1> QED
  BY <1>1, <1>2, <1>3 DEF Channel!Accept, Msg

(* A write callback is the channel's Deliver: it delivers the write in     *)
(* flight, and closes the channel exactly if that was the last of it.      *)
LEMMA WriteDoneRefines ==
  ASSUME SerialInv, WriteDone
  PROVE  Channel!Deliver
<1> DEFINE M == 0..MaxSends
<1>1. RequestDone
  BY DEF WriteDone, WriteDone_Last, WriteDone_Close, WriteDone_Drain, WriteDone_Idle
<1>2. /\ delivered' \o outputBuf = Accepted
      /\ delivered' \in Seq(M)
      /\ delivered \in Seq(M) /\ outputBuf \in Seq(M)
      /\ Accepted' = Accepted
      /\ closeAsked' = closeAsked
      /\ state \in {"kWritting", "kDisconnecting"}
      /\ closeAsked <=> isLastWrite \/ state = "kDisconnecting"
      /\ isLastWrite => outputBuf = <<>>
  BY <1>1, HeadDelivered DEF SerialInv, TypeOK
<1>3. /\ OnWire \in Seq(M) /\ OnWire # <<>>
      /\ delivered' = delivered \o OnWire
  BY <1>1, OneWrite DEF RequestDone, SerialInv
<1> HIDE DEF M
<1>4. /\ Len(delivered') \in Len(delivered) + 1 .. Len(Accepted)
      /\ Len(Accepted) = Len(delivered') + Len(outputBuf)
  <2>1. Len(OnWire) \in Nat /\ Len(OnWire) # 0 /\ Len(delivered) \in Nat
    BY <1>2, <1>3, EmptySeq
  <2>2. Len(delivered') = Len(delivered) + Len(OnWire)
    BY <1>2, <1>3, ConcatProperties
  <2>3. Len(Accepted) = Len(delivered') + Len(outputBuf) /\ Len(outputBuf) \in Nat
    BY <1>2, ConcatProperties
  <2> QED
    BY <2>1, <2>2, <2>3
<1>5. delivered' = SubSeq(Accepted, 1, Len(delivered'))
  <2>1. Len(delivered') \in Nat /\ Len(delivered') # 0
    <3>1. Len(delivered) \in Nat /\ Len(Accepted) \in Nat
      BY <1>2, LenProperties, ConcatProperties
    <3> QED
      BY <1>4, <3>1
  <2>2. SubSeq(delivered' \o outputBuf, 1, Len(delivered'))
          = SubSeq(delivered', 1, Len(delivered'))
    BY <1>2, <2>1, SubSeqOfConcat1
  <2> QED
    BY <1>2, <2>2, SubSeqFull
<1>6. delivered' = Accepted <=> outputBuf = <<>>
  <2>1. outputBuf = <<>> => delivered' = Accepted
    BY <1>2, ConcatEmptySeq
  <2>2. outputBuf # <<>> => Len(outputBuf) # 0
    BY <1>2, EmptySeq
  <2>3. Len(delivered') \in Nat /\ Len(outputBuf) \in Nat
    BY <1>2
  <2> QED
    BY <1>4, <2>1, <2>2, <2>3
<1>7. CASE WriteDone_Last \/ WriteDone_Close
  <2>1. outputBuf = <<>> /\ closeAsked /\ state' = "kDisconnected"
    BY <1>2, <1>7 DEF WriteDone_Last, WriteDone_Close, HandleClose
  <2> QED
    BY <1>2, <1>4, <1>5, <1>6, <2>1 DEF Channel!Deliver
<1>8. CASE WriteDone_Drain
  <2>1. outputBuf # <<>> /\ state' = "kWritting"
    BY <1>8 DEF WriteDone_Drain
  <2> QED
    BY <1>2, <1>4, <1>5, <1>6, <2>1 DEF Channel!Deliver
<1>9. CASE WriteDone_Idle
  <2>1. ~closeAsked /\ state' = "kConnected"
    BY <1>2, <1>9 DEF WriteDone_Idle
  <2> QED
    BY <1>2, <1>4, <1>5, <2>1 DEF Channel!Deliver
<1> QED
  BY <1>7, <1>8, <1>9 DEF WriteDone

(* The connection implements the graceful channel's safety: whatever its   *)
(* user can see of send(), close() and the data that leaves is what the    *)
(* channel allows, for any number of messages.                             *)
THEOREM ChannelCorrect == ASSUME Serial PROVE Spec => Channel!Spec
<1>1. Init => Channel!Init
  <2> SUFFICES ASSUME Init PROVE Channel!Init
    OBVIOUS
  <2>1. Accepted = <<>>
    BY DEF Init, Accepted
  <2> QED
    BY <2>1 DEF Init, Channel!Init
<1>2. SerialInv /\ [Next]_vars => [Channel!Next]_Channel!chanVars
  <2> SUFFICES ASSUME SerialInv, [Next]_vars
               PROVE  Channel!Next \/ UNCHANGED Channel!chanVars
    OBVIOUS
  <2>0. reading \in BOOLEAN
    BY DEF SerialInv, TypeOK
  <2>1. CASE Accept
    BY <2>1 DEF Accept, Accepted, Channel!chanVars
  <2>2. CASE Close
    BY <2>0, <2>2, CloseRefines DEF Close, MayClose, Serial, Channel!Next
  <2>3. CASE ReadEnd
    BY <2>3, CloseRefines DEF ReadEnd, MayClose, Serial, Channel!Next
  <2>4. CASE OnClose \/ ReadData \/ StopRead \/ WriteCancelled
    BY <2>4 DEF OnClose, ReadData, StopRead, WriteCancelled, Accepted, Channel!chanVars
  <2>5. CASE Send
    BY <2>5, SendRefines DEF Channel!Next
  <2>6. CASE WriteDone
    BY <2>6, WriteDoneRefines DEF Channel!Next
  <2>7. CASE SendMove \/ WriteFailed
    BY <2>7 DEF SendMove, WriteFailed, Serial
  <2>8. CASE UNCHANGED vars
    BY <2>8 DEF vars, Accepted, Channel!chanVars
  <2> QED
    BY <2>1, <2>2, <2>3, <2>4, <2>5, <2>6, <2>7, <2>8 DEF Next
<1> QED
  BY <1>1, <1>2, SerialCorrect, PTL DEF Spec, Channel!Spec

-----------------------------------------------------------------------------
(* An empty sequence carries nothing, a late message adds nothing, and a   *)
(* timely one is the next.                                                 *)
LEMMA CarriesOne ==
  ASSUME NEW n \in Nat
  PROVE  /\ Carries(<<>>, n, n)
         /\ Carries(<<Late>>, n, n)
         /\ Carries(<<n + 1>>, n, n + 1)
  BY DEF Carries, Late

(* Consecutive parts make up a whole. *)
LEMMA CarriesConcat ==
  ASSUME NEW s \in Seq(Nat), NEW t \in Seq(Nat), NEW a \in Nat, NEW b \in Nat, NEW c \in Nat,
         Carries(s, a, b), Carries(t, b, c)
  PROVE  Carries(s \o t, a, c)
<1> DEFINE u == s \o t
<1>1. /\ u \in Seq(Nat)
      /\ Len(s) \in Nat /\ Len(t) \in Nat
      /\ DOMAIN s = 1..Len(s) /\ DOMAIN t = 1..Len(t)
      /\ DOMAIN u = 1 .. Len(s) + Len(t)
      /\ \A i \in 1 .. Len(s) + Len(t) : u[i] = IF i <= Len(s) THEN s[i] ELSE t[i - Len(s)]
  BY ConcatProperties, LenProperties
<1>2. /\ \A i \in 1..Len(s) : s[i] \in Nat
      /\ \A i \in 1..Len(t) : t[i] \in Nat
  BY <1>1, ElementOfSeq
<1>3. \A i \in 1..Len(s) : i \in DOMAIN u /\ u[i] = s[i]
  BY <1>1
<1>4. \A i \in 1..Len(t) : Len(s) + i \in DOMAIN u /\ u[Len(s) + i] = t[i]
  BY <1>1
<1>5. \A j \in DOMAIN u : j \in DOMAIN s \/ j - Len(s) \in DOMAIN t
  BY <1>1
<1> HIDE DEF u
<1>6. a <= c
  BY DEF Carries
<1>7. \A j \in DOMAIN u : u[j] = Late \/ u[j] \in a + 1 .. c
  <2> SUFFICES ASSUME NEW j \in DOMAIN u PROVE u[j] = Late \/ u[j] \in a + 1 .. c
    OBVIOUS
  <2>1. CASE j \in DOMAIN s
    BY <1>1, <1>3, <2>1 DEF Carries
  <2>2. CASE j - Len(s) \in DOMAIN t
    <3>1. u[j] = t[j - Len(s)]
      BY <1>1, <1>4, <2>2
    <3> QED
      BY <2>2, <3>1 DEF Carries
  <2> QED
    BY <1>5, <2>1, <2>2
<1>8. \A m \in a + 1 .. c : \E j \in DOMAIN u : u[j] = m
  <2> SUFFICES ASSUME NEW m \in a + 1 .. c PROVE \E j \in DOMAIN u : u[j] = m
    OBVIOUS
  <2>1. CASE m \in a + 1 .. b
    BY <1>1, <1>3, <2>1 DEF Carries
  <2>2. CASE m \in b + 1 .. c
    <3>1. PICK j \in DOMAIN t : t[j] = m
      BY <2>2 DEF Carries
    <3> QED
      BY <1>1, <1>4, <3>1
  <2> QED
    BY <2>1, <2>2
<1>9. \A i, j \in DOMAIN u : i < j /\ u[j] # Late => u[i] < u[j]
  <2> SUFFICES ASSUME NEW i \in DOMAIN u, NEW j \in DOMAIN u, i < j, u[j] # Late
               PROVE  u[i] < u[j]
    OBVIOUS
  <2>1. CASE j \in DOMAIN s
    <3>1. i \in DOMAIN s
      BY <1>1, <2>1
    <3> QED
      BY <1>1, <1>3, <2>1, <3>1 DEF Carries
  <2>2. CASE j - Len(s) \in DOMAIN t /\ i \in DOMAIN s
    <3>1. u[j] = t[j - Len(s)] /\ u[i] = s[i]
      BY <1>1, <1>3, <1>4, <2>2
    <3>2. u[j] \in b + 1 .. c
      BY <2>2, <3>1 DEF Carries
    <3>3. u[i] = Late \/ u[i] \in a + 1 .. b
      BY <2>2, <3>1 DEF Carries
    <3> QED
      BY <3>2, <3>3 DEF Late
  <2>3. CASE j - Len(s) \in DOMAIN t /\ i - Len(s) \in DOMAIN t
    <3>1. u[j] = t[j - Len(s)] /\ u[i] = t[i - Len(s)]
      BY <1>1, <1>4, <2>3
    <3>2. i - Len(s) < j - Len(s)
      BY <1>1
    <3> QED
      BY <2>3, <3>1, <3>2 DEF Carries
  <2> QED
    BY <1>5, <2>1, <2>2, <2>3
<1> QED
  BY <1>6, <1>7, <1>8, <1>9 DEF Carries, u

(* The next message carries what has been accepted by one more. *)
LEMMA MsgCarries ==
  ASSUME TypeOK, NEW n \in Nat, closeAsked \/ n = sent
  PROVE  /\ Msg \in Nat
         /\ Carries(<<Msg>>, n, IF closeAsked THEN n ELSE n + 1)
<1>1. sent \in Nat
  BY DEF TypeOK
<1>2. CASE closeAsked
  BY <1>2, CarriesOne DEF Msg, Late
<1>3. CASE ~closeAsked
  BY <1>1, <1>3, CarriesOne DEF Msg
<1> QED
  BY <1>2, <1>3

(* The sequences of messages, and the cuts between them, are of numbers. *)
LEMMA ChunksOfNat ==
  ASSUME TypeOK
  PROVE  /\ delivered \in Seq(Nat) /\ outputBuf \in Seq(Nat) /\ uvQueue \in Seq(Seq(Nat))
         /\ Len(uvQueue) \in Nat /\ DOMAIN uvQueue = 1..Len(uvQueue)
         /\ \A q \in 1..Len(uvQueue) : uvQueue[q] \in Seq(Nat)
         /\ sent \in Nat
<1>1. 0..MaxSends \subseteq Nat
  OBVIOUS
<1>2. \A q \in Seq(0..MaxSends) : q \in Seq(Nat)
  BY <1>1, SeqMonotonic
<1>3. Seq(0..MaxSends) \subseteq Seq(Nat)
  BY <1>2
<1>4. uvQueue \in Seq(Seq(Nat))
  BY <1>3, SeqMonotonic DEF TypeOK
<1> QED
  BY <1>2, <1>4, LenProperties, ElementOfSeq DEF TypeOK

(* A message that joins outputBuf extends the last part. *)
LEMMA QueueOrder ==
  ASSUME TypeOK, Queue, sent' = sent + 1, UNCHANGED <<delivered, closeAsked>>,
         NEW cut \in Cuts, Consecutive(cut)
  PROVE  \E d \in Cuts' : Consecutive(d)'
<1> DEFINE n == Len(uvQueue)
           x == IF closeAsked THEN cut[n + 2] ELSE cut[n + 2] + 1
           d == [cut EXCEPT ![n + 2] = x]
<1>1. /\ delivered \in Seq(Nat) /\ outputBuf \in Seq(Nat)
      /\ n \in Nat /\ sent \in Nat
  BY ChunksOfNat
<1>0. n \in Nat /\ 1 \in 1 .. n + 1 /\ n + 1 \in 1 .. n + 2 /\ n + 2 \in 1 .. n + 2
  BY <1>1
<1>2. cut \in [1 .. n + 2 -> 0..sent] /\ cut[n + 2] \in 0..sent /\ cut[n + 1] \in 0..sent
  <2>1. cut \in [1 .. n + 2 -> 0..sent]
    BY DEF Cuts
  <2> HIDE DEF n
  <2> QED
    BY <1>0, <2>1
<1>3. closeAsked \/ cut[n + 2] = sent
  BY DEF Consecutive
<1>4. /\ Carries(<<Msg>>, cut[n + 2], x)
      /\ Msg \in Nat
  BY <1>2, <1>3, MsgCarries
<1>5. x \in 0 .. sent + 1
  BY <1>1, <1>2, <1>3
<1>6. outputBuf' = outputBuf \o <<Msg>>
  BY <1>1, <1>4, AppendIsConcat DEF Queue
<1>7. Carries(outputBuf', cut[n + 1], x)
  <2>1. Carries(outputBuf, cut[n + 1], cut[n + 2])
    BY DEF Consecutive
  <2>2. /\ <<Msg>> \in Seq(Nat) /\ x \in Nat
        /\ cut[n + 1] \in Nat /\ cut[n + 2] \in Nat
    BY <1>1, <1>2, <1>4, <1>5
  <2> HIDE DEF x
  <2> QED
    BY <1>1, <1>2, <1>4, <1>6, <2>1, <2>2, CarriesConcat
<1>8. uvQueue' = uvQueue
  BY DEF Queue
<1>9. /\ d \in [1 .. n + 2 -> 0 .. sent + 1]
      /\ d[n + 2] = x
      /\ \A q \in 1 .. n + 1 : d[q] = cut[q]
  BY <1>1, <1>2, <1>5
<1> HIDE DEF d
<1>10. d \in Cuts'
  BY <1>8, <1>9 DEF Cuts
<1>11. Carries(delivered', 0, d[1])
  BY <1>0, <1>1, <1>9 DEF Consecutive
<1>12. \A q \in 1..n : Carries(uvQueue'[q], d[q], d[q + 1])
  <2> SUFFICES ASSUME NEW q \in 1..n PROVE Carries(uvQueue'[q], d[q], d[q + 1])
    OBVIOUS
  <2>1. q \in 1 .. n + 1 /\ q + 1 \in 1 .. n + 1
    BY <1>0
  <2>2. d[q] = cut[q] /\ d[q + 1] = cut[q + 1]
    BY <1>9, <2>1
  <2> QED
    BY <1>8, <2>2 DEF Consecutive
<1>13. Carries(outputBuf', d[n + 1], d[n + 2])
  BY <1>1, <1>7, <1>9
<1>14. ~closeAsked' => d[n + 2] = sent'
  BY <1>3, <1>9
<1> QED
  BY <1>8, <1>10, <1>11, <1>12, <1>13, <1>14 DEF Consecutive

(* A message handed to uv_write becomes a part of its own: outputBuf is    *)
(* empty, or the message is late.                                          *)
LEMMA DirectOrder ==
  ASSUME TypeOK, uvQueue' = Append(uvQueue, <<Msg>>), sent' = sent + 1,
         UNCHANGED <<delivered, outputBuf, closeAsked>>,
         closeAsked \/ outputBuf = <<>>,
         NEW cut \in Cuts, Consecutive(cut)
  PROVE  \E d \in Cuts' : Consecutive(d)'
<1> DEFINE n == Len(uvQueue)
           x == IF closeAsked THEN cut[n + 1] ELSE cut[n + 1] + 1
           y == IF closeAsked THEN cut[n + 2] ELSE x
           d == [q \in 1 .. n + 3 |-> IF q <= n + 1 THEN cut[q] ELSE IF q = n + 2 THEN x ELSE y]
<1>1. /\ delivered \in Seq(Nat) /\ outputBuf \in Seq(Nat) /\ uvQueue \in Seq(Seq(Nat))
      /\ n \in Nat /\ sent \in Nat
  BY ChunksOfNat
<1>0. n \in Nat /\ 1 \in 1 .. n + 1 /\ n + 1 \in 1 .. n + 2 /\ n + 2 \in 1 .. n + 2
  BY <1>1
<1>2. cut \in [1 .. n + 2 -> 0..sent] /\ cut[n + 2] \in 0..sent /\ cut[n + 1] \in 0..sent
  <2>1. cut \in [1 .. n + 2 -> 0..sent]
    BY DEF Cuts
  <2> HIDE DEF n
  <2> QED
    BY <1>0, <2>1
<1>3. /\ Carries(outputBuf, cut[n + 1], cut[n + 2])
      /\ closeAsked \/ cut[n + 2] = sent
  BY DEF Consecutive
<1>4. closeAsked \/ cut[n + 1] = sent
  <2> SUFFICES ASSUME ~closeAsked PROVE cut[n + 1] = sent
    OBVIOUS
  <2>1. DOMAIN outputBuf = {}
    BY <1>1, LenProperties, EmptySeq
  <2>2. cut[n + 1] <= cut[n + 2] /\ cut[n + 1] + 1 .. cut[n + 2] = {}
    BY <1>2, <1>3, <2>1 DEF Carries
  <2> QED
    BY <1>2, <1>3, <2>2
<1>5. Carries(<<Msg>>, cut[n + 1], x) /\ Msg \in Nat
  BY <1>2, <1>4, MsgCarries
<1>6. x \in 0 .. sent + 1 /\ y \in 0 .. sent + 1
  BY <1>1, <1>2, <1>4
<1>7. Carries(outputBuf, x, y)
  <2>1. CASE closeAsked
    BY <1>3, <2>1
  <2>2. CASE ~closeAsked
    <3>1. outputBuf = <<>> /\ y = x /\ x \in Nat
      BY <1>6, <2>2
    <3> QED
      BY <3>1, CarriesOne
  <2> QED
    BY <2>1, <2>2
<1>8. y = IF closeAsked THEN cut[n + 2] ELSE sent + 1
  BY <1>2, <1>4
<1> HIDE DEF x, y
<1>9. /\ Len(uvQueue') = n + 1
      /\ \A q \in 1..n : uvQueue'[q] = uvQueue[q]
      /\ uvQueue'[n + 1] = <<Msg>>
  <2>1. <<Msg>> \in Seq(Nat)
    BY <1>5
  <2> QED
    BY <1>1, <2>1, AppendProperties
<1>10. /\ d \in [1 .. n + 3 -> 0 .. sent + 1]
       /\ d[n + 2] = x /\ d[n + 3] = y
       /\ \A q \in 1 .. n + 1 : d[q] = cut[q]
  BY <1>1, <1>2, <1>6
<1> HIDE DEF d
<1>11. d \in Cuts'
  BY <1>1, <1>9, <1>10 DEF Cuts
<1>12. Carries(delivered', 0, d[1])
  BY <1>0, <1>1, <1>10 DEF Consecutive
<1>13. \A q \in 1 .. n + 1 : Carries(uvQueue'[q], d[q], d[q + 1])
  <2> SUFFICES ASSUME NEW q \in 1 .. n + 1 PROVE Carries(uvQueue'[q], d[q], d[q + 1])
    OBVIOUS
  <2>1. CASE q \in 1..n
    <3>1. q \in 1 .. n + 1 /\ q + 1 \in 1 .. n + 1
      BY <1>0, <2>1
    <3>2. d[q] = cut[q] /\ d[q + 1] = cut[q + 1]
      BY <1>10, <3>1
    <3> QED
      BY <1>9, <2>1, <3>2 DEF Consecutive
  <2>2. CASE q = n + 1
    <3>1. n + 1 \in 1 .. n + 1 /\ q + 1 = n + 2
      BY <1>0, <2>2
    <3>2. d[q] = cut[n + 1] /\ d[q + 1] = x
      BY <1>10, <2>2, <3>1
    <3> QED
      BY <1>5, <1>9, <2>2, <3>2
  <2> QED
    BY <1>1, <2>1, <2>2
<1>14. Carries(outputBuf', d[n + 2], d[n + 3])
  BY <1>7, <1>10
<1>15. ~closeAsked' => d[n + 3] = sent'
  BY <1>8, <1>10
<1>16. Len(uvQueue') + 1 = n + 2 /\ Len(uvQueue') + 2 = n + 3
  BY <1>1, <1>9
<1> QED
  BY <1>9, <1>11, <1>12, <1>13, <1>14, <1>15, <1>16 DEF Consecutive

(* The request at the head joins what the peer has. *)
LEMMA DeliveredOrder ==
  ASSUME TypeOK, uvQueue # <<>>, NEW cut \in Cuts, Consecutive(cut)
  PROVE  /\ cut[2] \in 0..sent
         /\ Carries(delivered \o Head(uvQueue), 0, cut[2])
<1>1. /\ delivered \in Seq(Nat) /\ uvQueue \in Seq(Seq(Nat))
      /\ Len(uvQueue) \in Nat /\ sent \in Nat
  BY ChunksOfNat
<1>2. Len(uvQueue) > 0
  BY <1>1, EmptySeq
<1>3. /\ 1 \in 1..Len(uvQueue)
      /\ 1 \in 1 .. Len(uvQueue) + 2 /\ 2 \in 1 .. Len(uvQueue) + 2
  BY <1>1, <1>2
<1>4. cut[1] \in 0..sent /\ cut[2] \in 0..sent
  BY <1>3 DEF Cuts
<1>5. Carries(delivered, 0, cut[1]) /\ Carries(uvQueue[1], cut[1], cut[2])
  BY <1>3 DEF Consecutive
<1>6. Head(uvQueue) = uvQueue[1] /\ uvQueue[1] \in Seq(Nat)
  BY <1>1, <1>3, HeadTailProperties, ElementOfSeq
<1>7. cut[1] \in Nat /\ cut[2] \in Nat
  BY <1>1, <1>4
<1> QED
  BY <1>1, <1>4, <1>5, <1>6, <1>7, CarriesConcat

(* A finished request after which outputBuf stays as it is. *)
LEMMA TailOrder ==
  ASSUME TypeOK, RequestDone, uvQueue' = Tail(uvQueue), UNCHANGED outputBuf,
         NEW cut \in Cuts, Consecutive(cut)
  PROVE  \E d \in Cuts' : Consecutive(d)'
<1> DEFINE n == Len(uvQueue)
           d == [q \in 1 .. n + 1 |-> cut[q + 1]]
<1>1. /\ uvQueue # <<>>
      /\ delivered' = delivered \o Head(uvQueue)
      /\ UNCHANGED <<sent, closeAsked>>
  BY DEF RequestDone
<1>2. cut[2] \in 0..sent /\ Carries(delivered \o Head(uvQueue), 0, cut[2])
  BY <1>1, DeliveredOrder
<1>3. uvQueue \in Seq(Seq(Nat)) /\ n \in Nat
  BY ChunksOfNat
<1>4. /\ Len(uvQueue') = n - 1
      /\ \A q \in 1 .. n - 1 : uvQueue'[q] = uvQueue[q + 1]
  BY <1>1, <1>3, HeadTailProperties
<1>5. n >= 1
  BY <1>1, <1>3, EmptySeq
<1>6. cut \in [1 .. n + 2 -> 0..sent]
  BY DEF Cuts
<1>7. /\ \A q \in 1..n : Carries(uvQueue[q], cut[q], cut[q + 1])
      /\ Carries(outputBuf, cut[n + 1], cut[n + 2])
      /\ ~closeAsked => cut[n + 2] = sent
  BY DEF Consecutive
<1> HIDE DEF n
<1>8. Len(uvQueue') + 1 = n /\ Len(uvQueue') + 2 = n + 1
  BY <1>3, <1>4
<1>9. \A q \in 1 .. n + 1 : q + 1 \in 1 .. n + 2
  BY <1>3
<1>10. /\ d \in [1 .. n + 1 -> 0..sent]
       /\ \A q \in 1 .. n + 1 : d[q] = cut[q + 1]
  BY <1>6, <1>9
<1> HIDE DEF d
<1>11. d \in Cuts'
  BY <1>1, <1>8, <1>10 DEF Cuts
<1>12. Carries(delivered', 0, d[1])
  <2>1. 1 \in 1 .. n + 1
    BY <1>3
  <2> QED
    BY <1>1, <1>2, <1>10, <2>1
<1>13. \A q \in 1 .. n - 1 : Carries(uvQueue'[q], d[q], d[q + 1])
  <2> SUFFICES ASSUME NEW q \in 1 .. n - 1 PROVE Carries(uvQueue'[q], d[q], d[q + 1])
    OBVIOUS
  <2>1. q + 1 \in 1..n /\ q \in 1 .. n + 1 /\ q + 1 \in 1 .. n + 1
    BY <1>3
  <2> QED
    BY <1>4, <1>7, <1>10, <2>1
<1>14. Carries(outputBuf', d[n], d[n + 1]) /\ (~closeAsked' => d[n + 1] = sent')
  <2>1. n \in 1 .. n + 1 /\ n + 1 \in 1 .. n + 1
    BY <1>3, <1>5
  <2>2. d[n] = cut[n + 1] /\ d[n + 1] = cut[(n + 1) + 1] /\ (n + 1) + 1 = n + 2
    BY <1>3, <1>10, <2>1
  <2> QED
    BY <1>1, <1>7, <2>2
<1> QED
  BY <1>4, <1>8, <1>11, <1>12, <1>13, <1>14 DEF Consecutive

(* A finished request after which outputBuf is sent: it becomes the last   *)
(* request and leaves an empty buffer.                                     *)
LEMMA DrainOrder ==
  ASSUME TypeOK, WriteDone_Drain, NEW cut \in Cuts, Consecutive(cut)
  PROVE  \E d \in Cuts' : Consecutive(d)'
<1> DEFINE n == Len(uvQueue)
           d == [q \in 1 .. n + 2 |-> IF q = n + 2 THEN cut[n + 2] ELSE cut[q + 1]]
<1>1. /\ uvQueue # <<>>
      /\ delivered' = delivered \o Head(uvQueue)
      /\ uvQueue' = Append(Tail(uvQueue), outputBuf)
      /\ outputBuf' = <<>>
      /\ UNCHANGED <<sent, closeAsked>>
  BY DEF RequestDone, WriteDone_Drain
<1>2. cut[2] \in 0..sent /\ Carries(delivered \o Head(uvQueue), 0, cut[2])
  BY <1>1, DeliveredOrder
<1>3. uvQueue \in Seq(Seq(Nat)) /\ outputBuf \in Seq(Nat) /\ n \in Nat /\ sent \in Nat
  BY ChunksOfNat
<1>4. /\ Len(uvQueue') = n
      /\ \A q \in 1 .. n - 1 : uvQueue'[q] = uvQueue[q + 1]
      /\ uvQueue'[n] = outputBuf
  <2> DEFINE S == Seq(Nat)
  <2>1. uvQueue \in Seq(S) /\ outputBuf \in S
    BY <1>3
  <2> HIDE DEF S
  <2>2. /\ Tail(uvQueue) \in Seq(S) /\ Len(Tail(uvQueue)) = n - 1
        /\ \A q \in 1 .. n - 1 : Tail(uvQueue)[q] = uvQueue[q + 1]
    BY <1>1, <2>1, HeadTailProperties
  <2>3. /\ Len(uvQueue') = (n - 1) + 1
        /\ \A q \in 1 .. n - 1 : uvQueue'[q] = Tail(uvQueue)[q]
        /\ uvQueue'[(n - 1) + 1] = outputBuf
    BY <1>1, <2>1, <2>2, AppendProperties
  <2> QED
    BY <1>3, <2>2, <2>3
<1>5. n >= 1
  BY <1>1, <1>3, EmptySeq
<1>6. cut \in [1 .. n + 2 -> 0..sent]
  BY DEF Cuts
<1>7. /\ \A q \in 1..n : Carries(uvQueue[q], cut[q], cut[q + 1])
      /\ Carries(outputBuf, cut[n + 1], cut[n + 2])
      /\ ~closeAsked => cut[n + 2] = sent
  BY DEF Consecutive
<1> HIDE DEF n
<1>9. \A q \in 1 .. n + 1 : q + 1 \in 1 .. n + 2 /\ q \in 1 .. n + 2 /\ q # n + 2
  BY <1>3
<1>10. /\ d \in [1 .. n + 2 -> 0..sent]
       /\ \A q \in 1 .. n + 1 : d[q] = cut[q + 1]
       /\ d[n + 2] = cut[n + 2]
  <2>1. n + 2 \in 1 .. n + 2
    BY <1>3
  <2>2. \A q \in 1 .. n + 2 : q = n + 2 \/ q \in 1 .. n + 1
    BY <1>3
  <2> QED
    BY <1>6, <1>9, <2>1, <2>2
<1> HIDE DEF d
<1>11. d \in Cuts'
  BY <1>1, <1>4, <1>10 DEF Cuts
<1>12. Carries(delivered', 0, d[1])
  <2>1. 1 \in 1 .. n + 1
    BY <1>3
  <2> QED
    BY <1>1, <1>2, <1>10, <2>1
<1>13. \A q \in 1..n : Carries(uvQueue'[q], d[q], d[q + 1])
  <2> SUFFICES ASSUME NEW q \in 1..n PROVE Carries(uvQueue'[q], d[q], d[q + 1])
    OBVIOUS
  <2>1. q \in 1 .. n + 1 /\ q + 1 \in 1 .. n + 1 /\ (q + 1) + 1 = q + 2
    BY <1>3
  <2>2. d[q] = cut[q + 1] /\ d[q + 1] = cut[q + 2]
    BY <1>10, <2>1
  <2>3. CASE q \in 1 .. n - 1
    <3>1. q + 1 \in 1..n
      BY <1>3, <2>3
    <3>2. Carries(uvQueue[q + 1], cut[q + 1], cut[q + 2])
      BY <1>7, <2>1, <3>1
    <3> QED
      BY <1>4, <2>2, <2>3, <3>2
  <2>4. CASE q = n
    BY <1>4, <1>7, <2>2, <2>4
  <2> QED
    BY <1>3, <2>3, <2>4
<1>14. Carries(outputBuf', d[n + 1], d[n + 2]) /\ (~closeAsked' => d[n + 2] = sent')
  <2>1. n + 1 \in 1 .. n + 1 /\ n + 2 \in 1 .. n + 2 /\ (n + 1) + 1 = n + 2
    BY <1>3
  <2>2. d[n + 1] = cut[n + 2] /\ d[n + 2] = cut[n + 2]
    BY <1>10, <2>1
  <2>3. cut[n + 2] \in Nat
    BY <1>3, <1>6, <2>1
  <2>4. Carries(<<>>, cut[n + 2], cut[n + 2])
    BY <2>3, CarriesOne
  <2> QED
    BY <1>1, <1>7, <2>2, <2>4
<1> QED
  BY <1>4, <1>11, <1>12, <1>13, <1>14 DEF Consecutive

(* The first part of OrderInv is a consequence of the last while writes    *)
(* complete, and stays as it is afterwards.                                *)
LEMMA OrderHolds ==
  ASSUME TypeOK', NEW d \in Cuts', Consecutive(d)'
  PROVE  InOrder'
<1>1. Len(uvQueue') \in Nat
  BY LenProperties DEF TypeOK
<1>2. 1 \in 1 .. Len(uvQueue') + 2
  BY <1>1
<1>3. d[1] \in 0..sent'
  BY <1>2 DEF Cuts
<1>4. Carries(delivered', 0, d[1])
  BY DEF Consecutive
<1> QED
  BY <1>3, <1>4 DEF InOrder

(* A step that neither sends nor completes a write cuts nothing anew. *)
LEMMA IdleOrder ==
  ASSUME OrderInv, UNCHANGED <<delivered, sent>>,
         \/ broken' \/ ~alive'
         \/ /\ UNCHANGED <<uvQueue, outputBuf, broken>>
            /\ alive' => alive
            /\ closeAsked => closeAsked'
  PROVE  /\ InOrder'
         /\ broken' \/ ~alive' \/ \E d \in Cuts' : Consecutive(d)'
<1>1. InOrder'
  BY DEF OrderInv, InOrder
<1>2. ASSUME ~broken', alive'
      PROVE  \E d \in Cuts' : Consecutive(d)'
  <2>1. PICK cut \in Cuts : Consecutive(cut)
    BY <1>2 DEF OrderInv
  <2>2. cut \in Cuts'
    BY <1>2, <2>1 DEF Cuts
  <2>3. Consecutive(cut)'
    BY <1>2, <2>1 DEF Consecutive
  <2> QED
    BY <2>2, <2>3
<1> QED
  BY <1>1, <1>2

(* OrderInv survives every step, whatever Env allows. *)
LEMMA OrderStep ==
  ASSUME TypeOK, TypeOK', OrderInv, [Next]_vars
  PROVE  OrderInv'
<1> DEFINE Flags == /\ outputBuf' # <<>> => state' = "kWritting" \/ closeAsked'
                    /\ isLastWrite' \/ state' \in {"kDisconnecting", "kDisconnected"} => closeAsked'
           Parts == \E d \in Cuts' : Consecutive(d)'
<1>1. /\ outputBuf # <<>> => state = "kWritting" \/ closeAsked
      /\ isLastWrite \/ state \in {"kDisconnecting", "kDisconnected"} => closeAsked
  BY DEF OrderInv
<1>2. ASSUME Flags, Parts PROVE OrderInv'
  BY <1>2, OrderHolds DEF OrderInv
<1>3. CASE Accept \/ OnClose \/ ReadData \/ StopRead \/ Close \/ ReadEnd \/ WriteFailed \/ WriteCancelled
           \/ UNCHANGED vars
  <2>1. Flags
    BY <1>1, <1>3 DEF Accept, OnClose, ReadData, StopRead, Close, ReadEnd, WriteFailed,
                      WriteCancelled, vars
  <2>2. /\ UNCHANGED <<delivered, sent>>
        /\ \/ broken' \/ ~alive'
           \/ /\ UNCHANGED <<uvQueue, outputBuf, broken>>
              /\ alive' => alive
              /\ closeAsked => closeAsked'
    BY <1>3 DEF Accept, OnClose, ReadData, StopRead, Close, ReadEnd, WriteFailed,
                WriteCancelled, Running, vars
  <2>3. InOrder' /\ (broken' \/ ~alive' \/ Parts)
    BY <2>2, IdleOrder
  <2> QED
    BY <2>1, <2>3 DEF OrderInv
<1>4. CASE Send \/ SendMove
  <2>0. /\ Running
        /\ UNCHANGED <<delivered, closeAsked, isLastWrite, broken, alive>>
    BY <1>4 DEF Send, SendMove
  <2>1. CASE UNCHANGED <<state, outputBuf, uvQueue, sent>>
    <3>1. InOrder' /\ (broken' \/ ~alive' \/ Parts)
      BY <2>0, <2>1, IdleOrder
    <3>2. Flags
      BY <1>1, <2>0, <2>1
    <3> QED
      BY <3>1, <3>2 DEF OrderInv
  <2>2. CASE sent' = sent + 1 /\ Queue /\ state = "kWritting"
    <3>1. Flags
      BY <1>1, <2>0, <2>2 DEF Queue
    <3>2. broken' \/ ~alive' \/ Parts
      BY <2>0, <2>2, QueueOrder DEF OrderInv
    <3>3. InOrder'
      BY <2>0, <2>2 DEF OrderInv, InOrder, TypeOK
    <3> QED
      BY <3>1, <3>2, <3>3 DEF OrderInv
  <2>3. CASE /\ sent' = sent + 1 /\ uvQueue' = Append(uvQueue, <<Msg>>)
             /\ state # "kWritting" /\ state' \in {"kWritting", state} /\ UNCHANGED outputBuf
    <3>1. Flags
      BY <1>1, <2>0, <2>3
    <3>2. broken' \/ ~alive' \/ Parts
      BY <1>1, <2>0, <2>3, DirectOrder DEF OrderInv
    <3>3. InOrder'
      BY <2>0, <2>3 DEF OrderInv, InOrder, TypeOK
    <3> QED
      BY <3>1, <3>2, <3>3 DEF OrderInv
  <2> QED
    BY <1>4, <2>1, <2>2, <2>3 DEF Send, SendMove
<1>5. CASE WriteDone_Last \/ WriteDone_Close \/ WriteDone_Idle
  <2>1. RequestDone /\ uvQueue' = Tail(uvQueue) /\ UNCHANGED outputBuf
    BY <1>5 DEF WriteDone_Last, WriteDone_Close, WriteDone_Idle
  <2>2. Flags
    BY <1>1, <1>5, <2>1 DEF RequestDone, WriteDone_Last, WriteDone_Close, WriteDone_Idle, HandleClose
  <2>3. Parts
    BY <2>1, TailOrder DEF OrderInv, RequestDone, Running
  <2> QED
    BY <1>2, <2>2, <2>3
<1>6. CASE WriteDone_Drain
  <2>1. Flags
    BY <1>1, <1>6 DEF WriteDone_Drain, RequestDone
  <2>2. Parts
    BY <1>6, DrainOrder DEF OrderInv, WriteDone_Drain, RequestDone, Running
  <2> QED
    BY <1>2, <2>1, <2>2
<1> QED
  BY <1>3, <1>4, <1>5, <1>6 DEF Next, WriteDone

(* At first nothing has been accepted. *)
LEMMA OrderInitial == Init => OrderInv
<1> SUFFICES ASSUME Init PROVE OrderInv
  OBVIOUS
<1>1. Carries(<<>>, 0, 0)
  BY CarriesOne
<1>2. Len(uvQueue) = 0 /\ sent = 0 /\ delivered = <<>> /\ outputBuf = <<>>
  BY DEF Init
<1>3. InOrder
  BY <1>1, <1>2 DEF InOrder
<1> DEFINE d == [q \in 1..2 |-> 0]
<1>4. d \in Cuts
  BY <1>2 DEF Cuts
<1>5. Consecutive(d)
  BY <1>1, <1>2 DEF Consecutive
<1> QED
  BY <1>3, <1>4, <1>5 DEF Init, OrderInv

(* The order on the wire, for any number of messages and whatever users    *)
(* and network do: OrderInv is inductive with the types.                   *)
THEOREM InOrderCorrect == Spec => []InOrder
<1>1. TypeOK /\ OrderInv /\ [Next]_vars => OrderInv'
  BY TypeStep, OrderStep
<1>2. OrderInv => InOrder
  BY DEF OrderInv
<1> QED
  BY <1>1, <1>2, OrderInitial, TypeCorrect, PTL DEF Spec

(* No data reaches a disconnected connection: disconnecting ends the       *)
(* reading, and nothing resumes it.                                        *)
THEOREM QuietAfterCloseCorrect == Spec => QuietAfterClose
<1>1. Init => QuietInv
  BY DEF Init, QuietInv
<1>2. TypeOK /\ QuietInv /\ [Next]_vars => QuietInv'
  <2> SUFFICES ASSUME QuietInv, [Next]_vars PROVE QuietInv'
    OBVIOUS
  <2>1. CASE WriteDone
    BY <2>1 DEF WriteDone, WriteDone_Last, WriteDone_Close, WriteDone_Drain, WriteDone_Idle,
                HandleClose, QuietInv
  <2>2. CASE Send \/ SendMove
    BY <2>2 DEF Send, SendMove, Queue, QuietInv
  <2>3. CASE Close \/ ReadEnd \/ WriteFailed
    BY <2>3 DEF Close, ReadEnd, WriteFailed, HandleClose, QuietInv
  <2>4. CASE Accept \/ OnClose \/ ReadData \/ StopRead \/ WriteCancelled \/ UNCHANGED vars
    BY <2>4 DEF Accept, OnClose, ReadData, StopRead, WriteCancelled, vars, QuietInv
  <2> QED
    BY <2>1, <2>2, <2>3, <2>4 DEF Next
<1>3. QuietInv /\ [Next]_vars => (bytesRead' # bytesRead => state # "kDisconnected")
  <2> SUFFICES ASSUME QuietInv, [Next]_vars, bytesRead' # bytesRead
               PROVE  state # "kDisconnected"
    OBVIOUS
  <2>1. CASE ReadData
    BY <2>1 DEF ReadData, QuietInv
  <2>2. CASE ~ReadData
    BY <2>2 DEF Next, Accept, Close, OnClose, ReadEnd, StopRead, Send, SendMove, WriteDone,
                WriteDone_Last, WriteDone_Close, WriteDone_Drain, WriteDone_Idle, RequestDone,
                WriteFailed, WriteCancelled, vars
  <2> QED
    BY <2>1, <2>2
<1> QED
  BY <1>1, <1>2, <1>3, TypeCorrect, PTL DEF Spec, QuietAfterClose
=============================================================================
