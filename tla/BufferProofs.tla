---------------------------- MODULE BufferProofs ----------------------------
(* Theorems about Buffer, for every value of its constants.                *)
EXTENDS Buffer, SequenceTheorems, TLAPS

-----------------------------------------------------------------------------
(* The sequence operators that stand for vector and copy operations.       *)

(* A part of a sequence: its type, length and elements. *)
LEMMA PartProps ==
  ASSUME NEW S, NEW s \in Seq(S), NEW m \in 1..Len(s) + 1, NEW n \in m - 1..Len(s)
  PROVE  /\ SubSeq(s, m, n) \in Seq(S)
         /\ Len(SubSeq(s, m, n)) = n - m + 1
         /\ \A i \in 1..n - m + 1 : SubSeq(s, m, n)[i] = s[m + i - 1]
<1>1. m \in Int /\ n \in Int /\ Len(s) \in Nat
  OBVIOUS
<1>2. \A i \in m..n : s[i] \in S
  <2> TAKE i \in m..n
  <2>1. i \in 1..Len(s)
    BY <1>1
  <2> QED
    BY <2>1, ElementOfSeq
<1>3. /\ SubSeq(s, m, n) \in Seq(S)
      /\ Len(SubSeq(s, m, n)) = IF m <= n THEN n - m + 1 ELSE 0
      /\ \A i \in 1..n - m + 1 : SubSeq(s, m, n)[i] = s[m + i - 1]
  BY <1>1, <1>2, SubSeqProperties
<1> QED
  BY <1>1, <1>3

(* A prefix of a sequence of bytes. *)
LEMMA PrefixProps ==
  ASSUME NEW s \in Seq(Nat), NEW n \in Nat, n <= Len(s)
  PROVE  /\ SubSeq(s, 1, n) \in Seq(Nat)
         /\ Len(SubSeq(s, 1, n)) = n
         /\ \A i \in 1..n : SubSeq(s, 1, n)[i] = s[i]
<1>1. Len(s) \in Nat /\ 1 \in 1..Len(s) + 1 /\ n \in 1 - 1..Len(s) /\ n - 1 + 1 = n
  OBVIOUS
<1>2. /\ SubSeq(s, 1, n) \in Seq(Nat)
      /\ Len(SubSeq(s, 1, n)) = n - 1 + 1
      /\ \A i \in 1..n - 1 + 1 : SubSeq(s, 1, n)[i] = s[1 + i - 1]
  BY <1>1, PartProps
<1>3. \A i \in 1..n : SubSeq(s, 1, n)[i] = s[i]
  <2> TAKE i \in 1..n
  <2>1. 1 + i - 1 = i
    OBVIOUS
  <2> QED
    BY <1>1, <1>2, <2>1
<1> QED
  BY <1>1, <1>2, <1>3

(* resize() keeps what fits. *)
LEMMA ResizedProps ==
  ASSUME NEW b \in Seq(Nat), NEW n \in Nat
  PROVE  /\ Resized(b, n) \in Seq(Nat)
         /\ Len(Resized(b, n)) = n
         /\ \A i \in 1..n : i <= Len(b) => Resized(b, n)[i] = b[i]
<1>1. CASE n <= Len(b)
  <2>1. 1 \in 1..Len(b) + 1 /\ n \in 1 - 1..Len(b)
    BY <1>1
  <2> QED
    BY <1>1, <2>1, PartProps DEF Resized
<1>2. CASE ~(n <= Len(b))
  <2> DEFINE z == [i \in 1..(n - Len(b)) |-> 0]
  <2>1. z \in Seq(Nat) /\ Len(z) = n - Len(b)
    BY <1>2
  <2> HIDE DEF z
  <2>2. /\ b \o z \in Seq(Nat) /\ Len(b \o z) = Len(b) + Len(z)
        /\ \A i \in 1..Len(b) + Len(z) : (b \o z)[i] = IF i <= Len(b) THEN b[i] ELSE z[i - Len(b)]
    BY <2>1, ConcatProperties
  <2>3. Resized(b, n) = b \o z
    BY <1>2 DEF Resized, z
  <2> QED
    BY <1>2, <2>1, <2>2, <2>3
<1> QED
  BY <1>1, <1>2

(* Storing into existing cells changes only those. *)
LEMMA StoredProps ==
  ASSUME NEW b \in Seq(Nat), NEW at \in Nat, NEW s \in Seq(Nat), at + Len(s) <= Len(b)
  PROVE  /\ Stored(b, at, s) \in Seq(Nat)
         /\ Len(Stored(b, at, s)) = Len(b)
         /\ \A i \in 1..at : Stored(b, at, s)[i] = b[i]
<1> DEFINE p == SubSeq(b, 1, at)
           q == SubSeq(b, at + Len(s) + 1, Len(b))
<1>0. Len(s) \in Nat /\ Len(b) \in Nat
  OBVIOUS
<1>1. p \in Seq(Nat) /\ Len(p) = at /\ \A i \in 1..at : p[i] = b[i]
  <2>1. 1 \in 1..Len(b) + 1 /\ at \in 1 - 1..Len(b)
    BY <1>0
  <2> QED
    BY <2>1, PartProps
<1>2. q \in Seq(Nat) /\ Len(q) = Len(b) - at - Len(s)
  <2>1. at + Len(s) + 1 \in 1..Len(b) + 1 /\ Len(b) \in at + Len(s) + 1 - 1..Len(b)
    BY <1>0
  <2> QED
    BY <1>0, <2>1, PartProps
<1> HIDE DEF p, q
<1>3. /\ p \o s \in Seq(Nat) /\ Len(p \o s) = at + Len(s)
      /\ \A i \in 1..at : (p \o s)[i] = b[i]
  <2>1. /\ p \o s \in Seq(Nat) /\ Len(p \o s) = Len(p) + Len(s)
        /\ \A i \in 1..Len(p) + Len(s) : (p \o s)[i] = IF i <= Len(p) THEN p[i] ELSE s[i - Len(p)]
    BY <1>1, ConcatProperties
  <2> QED
    BY <1>0, <1>1, <2>1
<1>4. /\ (p \o s) \o q \in Seq(Nat) /\ Len((p \o s) \o q) = Len(b)
      /\ \A i \in 1..at : ((p \o s) \o q)[i] = b[i]
  <2> DEFINE ps == p \o s
  <2>0. /\ ps \in Seq(Nat) /\ Len(ps) = at + Len(s)
        /\ \A i \in 1..at : ps[i] = b[i]
    BY <1>3
  <2> HIDE DEF ps
  <2>1. /\ ps \o q \in Seq(Nat) /\ Len(ps \o q) = Len(ps) + Len(q)
        /\ \A i \in 1..Len(ps) + Len(q) :
             (ps \o q)[i] = IF i <= Len(ps) THEN ps[i] ELSE q[i - Len(ps)]
    <3>1. \A x, y \in Seq(Nat) :
            /\ x \o y \in Seq(Nat) /\ Len(x \o y) = Len(x) + Len(y)
            /\ \A i \in 1..Len(x) + Len(y) :
                 (x \o y)[i] = IF i <= Len(x) THEN x[i] ELSE y[i - Len(x)]
      BY ConcatProperties
    <3> QED
      BY <1>2, <2>0, <3>1
  <2>2. /\ ps \o q \in Seq(Nat) /\ Len(ps \o q) = Len(b)
        /\ \A i \in 1..at : (ps \o q)[i] = b[i]
    BY <1>0, <1>2, <2>0, <2>1
  <2> QED
    BY <2>2 DEF ps
<1>5. Stored(b, at, s) = (p \o s) \o q
  BY DEF Stored, p, q
<1> QED
  BY <1>4, <1>5

-----------------------------------------------------------------------------
(* The inductive invariant: the types and the two bounds on the indices.   *)
IndexInv == TypeOK /\ IndicesOK /\ GrantFits

(* The unread bytes survive compaction, which keeps the vector's size. *)
LEMMA CompactedProps ==
  ASSUME IndexInv
  PROVE  /\ Contents \in Seq(Nat)
         /\ Len(Contents) = readableBytes
         /\ Compacted \in Seq(Nat)
         /\ Len(Compacted) = Len(buf)
         /\ \A i \in 1..readableBytes : Compacted[i] = buf[readIndex + i]
<1> DEFINE q == SubSeq(buf, readableBytes + 1, Len(buf))
<1>0. /\ buf \in Seq(Nat) /\ Len(buf) \in Nat /\ readIndex \in Nat /\ writeIndex \in Nat
      /\ readIndex <= writeIndex /\ writeIndex <= Len(buf)
      /\ readableBytes \in Nat /\ readableBytes = writeIndex - readIndex
  BY DEF IndexInv, TypeOK, IndicesOK, readableBytes
<1>1. /\ Contents \in Seq(Nat) /\ Len(Contents) = readableBytes
      /\ \A i \in 1..readableBytes : Contents[i] = buf[readIndex + i]
  <2>1. readIndex + 1 \in 1..Len(buf) + 1 /\ writeIndex \in readIndex + 1 - 1..Len(buf)
    BY <1>0
  <2>2. /\ SubSeq(buf, readIndex + 1, writeIndex) \in Seq(Nat)
        /\ Len(SubSeq(buf, readIndex + 1, writeIndex)) = writeIndex - (readIndex + 1) + 1
        /\ \A i \in 1..writeIndex - (readIndex + 1) + 1 :
             SubSeq(buf, readIndex + 1, writeIndex)[i] = buf[readIndex + 1 + i - 1]
    BY <1>0, <2>1, PartProps
  <2>3. writeIndex - (readIndex + 1) + 1 = readableBytes
    BY <1>0
  <2>4. ASSUME NEW i \in 1..readableBytes
        PROVE  Contents[i] = buf[readIndex + i]
    <3>1. readIndex + 1 + i - 1 = readIndex + i
      BY <1>0
    <3> QED
      BY <2>2, <2>3, <3>1 DEF Contents
  <2> QED
    BY <2>2, <2>3, <2>4 DEF Contents
<1>2. q \in Seq(Nat) /\ Len(q) = Len(buf) - readableBytes
  <2>1. readableBytes + 1 \in 1..Len(buf) + 1 /\ Len(buf) \in readableBytes + 1 - 1..Len(buf)
    BY <1>0
  <2> QED
    BY <1>0, <2>1, PartProps
<1> HIDE DEF q
<1>3. /\ Contents \o q \in Seq(Nat) /\ Len(Contents \o q) = Len(Contents) + Len(q)
      /\ \A i \in 1..Len(Contents) + Len(q) :
           (Contents \o q)[i] = IF i <= Len(Contents) THEN Contents[i] ELSE q[i - Len(Contents)]
  BY <1>1, <1>2, ConcatProperties
<1>4. Compacted = Contents \o q
  BY DEF Compacted, q
<1> QED
  BY <1>0, <1>1, <1>2, <1>3, <1>4

(* ensureSpace(len) makes room for len bytes behind writeIndex_, promises  *)
(* no more than there is, and keeps the unread bytes in their order.       *)
LEMMA EnsureSpaceProps ==
  ASSUME IndexInv, NEW len \in Nat, NEW e, e = ensureSpace(len)
  PROVE  /\ e.buf \in Seq(Nat) /\ Len(e.buf) \in Nat
         /\ e.readIndex \in Nat /\ e.writeIndex \in Nat /\ e.readIndex <= e.writeIndex
         /\ e.writeIndex - e.readIndex = readableBytes
         /\ e.writeIndex + len <= Len(e.buf)
         /\ e.lastExpand \in 0..kExpandThreshold
         /\ e.result \in Nat /\ len <= e.result /\ e.result <= Len(e.buf) - e.writeIndex
         /\ \A i \in 1..readableBytes : e.buf[e.readIndex + i] = buf[readIndex + i]
<1> USE ConstantsOK DEF ConstantsOK
<1>0. /\ buf \in Seq(Nat) /\ Len(buf) \in Nat /\ readIndex \in Nat /\ writeIndex \in Nat
      /\ readIndex <= writeIndex /\ writeIndex <= Len(buf)
      /\ readableBytes \in Nat /\ readableBytes = writeIndex - readIndex
      /\ lastExpand \in 0..kExpandThreshold
      /\ remaining = Len(buf) - writeIndex /\ available = remaining + readIndex
      /\ remaining \in Nat /\ available \in Nat
  BY DEF IndexInv, TypeOK, IndicesOK, readableBytes, remaining, available
<1>1. CASE remaining >= len
  BY <1>0, <1>1 DEF ensureSpace, Effect
<1>2. CASE ~(remaining >= len) /\ available >= len
  <2>1. e = Effect(Compacted, 0, readableBytes, lastExpand, len)
    BY <1>2 DEF ensureSpace
  <2>2. Len(Compacted) = Len(buf) /\ readableBytes + len <= Len(buf)
    BY <1>0, <1>2, CompactedProps
  <2> QED
    BY <1>0, <2>1, <2>2, CompactedProps DEF Effect
<1>3. CASE ~(remaining >= len) /\ ~(available >= len)
  <2> DEFINE extra == lastExpand + 1 > kExpandThreshold
             size == Len(buf) + (len - remaining) + (IF extra THEN kExpandSize ELSE 0)
  <2>1. size \in Nat /\ size >= writeIndex + len /\ size >= Len(buf)
    BY <1>0, <1>3
  <2>2. e = Effect(Resized(buf, size), readIndex, writeIndex,
                   IF extra THEN 0 ELSE lastExpand + 1,
                   IF extra THEN size - writeIndex ELSE len)
    BY <1>3 DEF ensureSpace, Grown
  <2>3. (IF extra THEN 0 ELSE lastExpand + 1) \in 0..kExpandThreshold
    BY <1>0
  <2> HIDE DEF extra, size
  <2>4. /\ Resized(buf, size) \in Seq(Nat)
        /\ Len(Resized(buf, size)) = size
        /\ \A i \in 1..size : i <= Len(buf) => Resized(buf, size)[i] = buf[i]
    BY <1>0, <2>1, ResizedProps
  <2>5. \A i \in 1..readableBytes : Resized(buf, size)[readIndex + i] = buf[readIndex + i]
    BY <1>0, <2>1, <2>4
  <2> QED
    BY <1>0, <2>1, <2>2, <2>3, <2>4, <2>5 DEF Effect
<1> QED
  BY <1>1, <1>2, <1>3

(* The bytes a caller supplies. *)
LEMMA NextBytesProps ==
  ASSUME written \in Nat, NEW n \in Nat
  PROVE  NextBytes(n) \in Seq(Nat) /\ Len(NextBytes(n)) = n
  BY DEF NextBytes

(* A new buffer satisfies the invariant. *)
LEMMA IndexInitial == Init => IndexInv
<1> SUFFICES ASSUME Init PROVE IndexInv
  OBVIOUS
<1> USE ConstantsOK DEF ConstantsOK
<1>1. PICK n \in InitialSizes : buf = [i \in 1..n |-> 0]
  BY DEF Init
<1>2. n \in Nat /\ buf \in Seq(Nat) /\ Len(buf) = n
  BY <1>1
<1> QED
  BY <1>2 DEF Init, IndexInv, TypeOK, IndicesOK, GrantFits, remaining

(* Every call keeps the invariant. *)
LEMMA IndexStep == IndexInv /\ [Next]_vars => IndexInv'
<1> SUFFICES ASSUME IndexInv, [Next]_vars
             PROVE  IndexInv'
  OBVIOUS
<1> USE ConstantsOK DEF ConstantsOK
<1>0. /\ buf \in Seq(Nat) /\ Len(buf) \in Nat /\ readIndex \in Nat /\ writeIndex \in Nat
      /\ readIndex <= writeIndex /\ writeIndex <= Len(buf)
      /\ lastExpand \in 0..kExpandThreshold
      /\ granted \in Nat /\ granted <= Len(buf) - writeIndex
      /\ rereadable \in Nat /\ rereadable <= readIndex
      /\ written \in 0..MaxBytes /\ written \in Nat
      /\ readableBytes = writeIndex - readIndex /\ readableBytes \in Nat
  BY DEF IndexInv, TypeOK, IndicesOK, GrantFits, readableBytes, remaining
<1>1. ASSUME NEW len \in 0..MaxLen, write(len)
      PROVE  IndexInv'
  <2> DEFINE e == ensureSpace(len)
             s == NextBytes(len)
  <2>1. len \in Nat /\ s \in Seq(Nat) /\ Len(s) = len
    BY <1>0, NextBytesProps
  <2>2. /\ e.buf \in Seq(Nat) /\ Len(e.buf) \in Nat
        /\ e.readIndex \in Nat /\ e.writeIndex \in Nat /\ e.readIndex <= e.writeIndex
        /\ e.writeIndex - e.readIndex = readableBytes
        /\ e.writeIndex + len <= Len(e.buf)
        /\ e.lastExpand \in 0..kExpandThreshold
    BY <2>1, EnsureSpaceProps
  <2>3. /\ buf' = Stored(e.buf, e.writeIndex, s)
        /\ readIndex' = e.readIndex
        /\ writeIndex' = e.writeIndex + len
        /\ lastExpand' = e.lastExpand
        /\ written' = written + len /\ written + len <= MaxBytes
        /\ rereadable' = 0
        /\ granted' = 0
    BY <1>1 DEF write, Idle
  <2> HIDE DEF e, s
  <2>4. buf' \in Seq(Nat) /\ Len(buf') = Len(e.buf)
    <3>1. e.writeIndex + Len(s) <= Len(e.buf)
      BY <2>1, <2>2
    <3> QED
      BY <2>1, <2>2, <2>3, <3>1, StoredProps
  <2>5. /\ readIndex' <= writeIndex' /\ writeIndex' <= Len(buf')
        /\ 0 <= Len(buf') - writeIndex'
    BY <2>1, <2>2, <2>3, <2>4
  <2>6. TypeOK'
    BY <1>0, <2>1, <2>2, <2>3, <2>4 DEF TypeOK
  <2> QED
    BY <2>2, <2>3, <2>5, <2>6 DEF IndexInv, IndicesOK, GrantFits, remaining
<1>2. CASE on_uv_alloc
  <2> DEFINE e == ensureSpace(kMinWritableSize)
  <2>1. kMinWritableSize \in Nat
    OBVIOUS
  <2>2. /\ e.buf \in Seq(Nat) /\ Len(e.buf) \in Nat
        /\ e.readIndex \in Nat /\ e.writeIndex \in Nat /\ e.readIndex <= e.writeIndex
        /\ e.writeIndex - e.readIndex = readableBytes
        /\ e.writeIndex + kMinWritableSize <= Len(e.buf)
        /\ e.lastExpand \in 0..kExpandThreshold
        /\ e.result \in Nat /\ e.result <= Len(e.buf) - e.writeIndex
    BY <2>1, EnsureSpaceProps
  <2>3. /\ buf' = e.buf
        /\ readIndex' = e.readIndex
        /\ writeIndex' = e.writeIndex
        /\ lastExpand' = e.lastExpand
        /\ granted' = e.result
        /\ rereadable' = 0 /\ written' = written
    BY <1>2 DEF on_uv_alloc
  <2> HIDE DEF e
  <2>4. /\ Len(buf') \in Nat
        /\ readIndex' <= writeIndex' /\ writeIndex' <= Len(buf')
        /\ granted' <= Len(buf') - writeIndex'
    BY <1>0, <2>1, <2>2, <2>3
  <2>5. TypeOK'
    BY <1>0, <2>2, <2>3 DEF TypeOK
  <2> QED
    BY <1>0, <2>2, <2>3, <2>4, <2>5 DEF IndexInv, IndicesOK, GrantFits, remaining
<1>3. ASSUME NEW nread \in 1..MaxBytes, on_uv_read(nread)
      PROVE  IndexInv'
  <2> DEFINE s == NextBytes(nread)
  <2>1. nread \in Nat /\ s \in Seq(Nat) /\ Len(s) = nread
    BY <1>0, NextBytesProps
  <2>2. /\ nread \in 1..granted
        /\ written' = written + nread /\ written + nread <= MaxBytes
        /\ buf' = Stored(buf, writeIndex, s)
        /\ writeIndex' = writeIndex + nread
        /\ granted' = 0
        /\ UNCHANGED <<readIndex, lastExpand, rereadable>>
    BY <1>0, <1>3 DEF on_uv_read, updateWriteIndex
  <2> HIDE DEF s
  <2>3. writeIndex + Len(s) <= Len(buf)
    BY <1>0, <2>1, <2>2
  <2>4. buf' \in Seq(Nat) /\ Len(buf') = Len(buf)
    BY <1>0, <2>1, <2>2, <2>3, StoredProps
  <2> QED
    BY <1>0, <2>1, <2>2, <2>3, <2>4 DEF IndexInv, TypeOK, IndicesOK, GrantFits, remaining
<1>4. CASE on_uv_read_nothing
  BY <1>0, <1>4 DEF on_uv_read_nothing, IndexInv, TypeOK, IndicesOK, GrantFits, remaining
<1>5. ASSUME NEW len \in 0..MaxLen, retrieve(len) \/ unread(len)
      PROVE  IndexInv'
  BY <1>0, <1>5 DEF retrieve, unread, Idle, IndexInv, TypeOK, IndicesOK, GrantFits, remaining
<1>6. ASSUME NEW len \in 0..MaxLen, unwrite(len)
      PROVE  IndexInv'
  <2>1. /\ writeIndex' \in Nat /\ readIndex <= writeIndex' /\ writeIndex' <= writeIndex
        /\ UNCHANGED <<buf, readIndex, lastExpand, granted, rereadable, written>>
    BY <1>0, <1>6 DEF unwrite, updateWriteIndex
  <2> QED
    BY <1>0, <2>1 DEF IndexInv, TypeOK, IndicesOK, GrantFits, remaining
<1>7. CASE clear
  BY <1>0, <1>7 DEF clear, Idle, IndexInv, TypeOK, IndicesOK, GrantFits, remaining
<1>8. ASSUME NEW len \in 0..MaxLen, shrink(len)
      PROVE  IndexInv'
  <2>1. len \in Nat /\ Compacted \in Seq(Nat)
    BY CompactedProps
  <2>2. Resized(Compacted, len) \in Seq(Nat) /\ Len(Resized(Compacted, len)) = len
    BY <2>1, ResizedProps
  <2>3. /\ buf' = Resized(Compacted, len)
        /\ readIndex' = 0
        /\ writeIndex' = IF readableBytes > len THEN len ELSE readableBytes
        /\ rereadable' = 0
        /\ granted' = 0
        /\ UNCHANGED <<lastExpand, written>>
    BY <1>8 DEF shrink, Idle
  <2> QED
    BY <1>0, <2>1, <2>2, <2>3 DEF IndexInv, TypeOK, IndicesOK, GrantFits, remaining
<1>9. CASE UNCHANGED vars
  BY <1>0, <1>9 DEF vars, IndexInv, TypeOK, IndicesOK, GrantFits, remaining
<1> QED
  BY <1>1, <1>2, <1>3, <1>4, <1>5, <1>6, <1>7, <1>8, <1>9 DEF Next

(* The indices always delimit a part of the vector, so that no assert of   *)
(* Buffer.h fails and no cell outside it is touched.                       *)
THEOREM IndicesCorrect == Spec => []IndicesOK
<1>1. IndexInv => IndicesOK
  BY DEF IndexInv
<1> QED
  BY <1>1, IndexInitial, IndexStep, PTL DEF Spec

(* What on_uv_alloc grants to libuv is always inside the vector. *)
THEOREM GrantCorrect == Spec => []GrantFits
<1>1. IndexInv => GrantFits
  BY DEF IndexInv
<1> QED
  BY <1>1, IndexInitial, IndexStep, PTL DEF Spec

(* The vector grows only when the unread bytes and the request together do *)
(* not fit in it.                                                          *)
THEOREM GrowsOnlyWhenFullCorrect == Spec => GrowsOnlyWhenFull
<1>1. ASSUME IndexInv, NEW len \in 0..MaxLen, write(len), Len(buf') > Len(buf)
      PROVE  readableBytes + len > Len(buf)
  <2>0. /\ buf \in Seq(Nat) /\ Len(buf) \in Nat /\ readIndex \in Nat /\ writeIndex \in Nat
        /\ readIndex <= writeIndex /\ writeIndex <= Len(buf) /\ len \in Nat /\ written \in Nat
    BY <1>1, ConstantsOK DEF IndexInv, TypeOK, IndicesOK, ConstantsOK
  <2> SUFFICES ASSUME available >= len
               PROVE  Len(buf') = Len(buf)
    BY <1>1, <2>0 DEF readableBytes, available
  <2> DEFINE e == ensureSpace(len)
  <2>1. Len(e.buf) = Len(buf)
    <3>1. CASE remaining >= len
      BY <3>1 DEF ensureSpace, Effect
    <3>2. CASE ~(remaining >= len)
      <4>1. e = Effect(Compacted, 0, readableBytes, lastExpand, len)
        BY <3>2 DEF ensureSpace
      <4> QED
        BY <1>1, <4>1, CompactedProps DEF Effect
    <3> QED
      BY <3>1, <3>2
  <2>2. /\ e.buf \in Seq(Nat) /\ e.writeIndex \in Nat
        /\ e.writeIndex + len <= Len(e.buf)
    BY <1>1, <2>0, EnsureSpaceProps
  <2>3. buf' = Stored(e.buf, e.writeIndex, NextBytes(len))
    BY <1>1 DEF write
  <2> HIDE DEF e
  <2>4. NextBytes(len) \in Seq(Nat) /\ Len(NextBytes(len)) = len
    BY <2>0, NextBytesProps
  <2> QED
    BY <2>1, <2>2, <2>3, <2>4, StoredProps
<1>2. IndexInv /\ [Next]_vars =>
        [\A len \in 0..MaxLen : write(len) /\ Len(buf') > Len(buf)
           => readableBytes + len > Len(buf)]_vars
  BY <1>1
<1> QED
  BY <1>2, IndexInitial, IndexStep, PTL DEF Spec, GrowsOnlyWhenFull

-----------------------------------------------------------------------------
(* Windows of the vector, as the byte queue sees them.                     *)
Window(b, from, to) == SubSeq(b, from + 1, to)

LEMMA WindowProps ==
  ASSUME NEW b \in Seq(Nat), NEW from \in Nat, NEW to \in Nat,
         from <= to, to <= Len(b)
  PROVE  /\ Window(b, from, to) \in Seq(Nat)
         /\ Len(Window(b, from, to)) = to - from
         /\ \A i \in 1..to - from : Window(b, from, to)[i] = b[from + i]
<1>1. from + 1 \in 1..Len(b) + 1 /\ to \in from + 1 - 1..Len(b) /\ Len(b) \in Nat
  OBVIOUS
<1>2. /\ SubSeq(b, from + 1, to) \in Seq(Nat)
      /\ Len(SubSeq(b, from + 1, to)) = to - (from + 1) + 1
      /\ \A i \in 1..to - (from + 1) + 1 :
           SubSeq(b, from + 1, to)[i] = b[from + 1 + i - 1]
  BY <1>1, PartProps
<1>3. to - (from + 1) + 1 = to - from
  OBVIOUS
<1>4. ASSUME NEW i \in 1..to - from
      PROVE  Window(b, from, to)[i] = b[from + i]
  <2>1. from + 1 + i - 1 = from + i
    OBVIOUS
  <2> QED
    BY <1>2, <1>3, <2>1 DEF Window
<1> QED
  BY <1>2, <1>3, <1>4 DEF Window

(* A window of a window is a window. *)
LEMMA WindowOfWindow ==
  ASSUME NEW b \in Seq(Nat), NEW from \in Nat, NEW to \in Nat, from <= to, to <= Len(b),
         NEW i \in Nat, NEW j \in Nat, i <= j, j <= to - from
  PROVE  Window(Window(b, from, to), i, j) = Window(b, from + i, from + j)
<1> DEFINE w == Window(b, from, to)
<1>1. /\ w \in Seq(Nat) /\ Len(w) = to - from
      /\ \A k \in 1..to - from : w[k] = b[from + k]
  BY WindowProps
<1> HIDE DEF w
<1>2. Len(b) \in Nat
  OBVIOUS
<1>3. \A k \in 1..j - i : w[i + k] = b[(from + i) + k]
  <2> TAKE k \in 1..j - i
  <2>1. i + k \in 1..to - from /\ from + (i + k) = (from + i) + k
    OBVIOUS
  <2> QED
    BY <1>1, <2>1
<1>4. /\ from + i \in Nat /\ from + j \in Nat /\ from + i <= from + j
      /\ from + j <= Len(b) /\ (from + j) - (from + i) = j - i /\ j <= Len(w)
  BY <1>1, <1>2
<1>5. Window(w, i, j) = Window(b, from + i, from + j)
  <2> DEFINE x == from + i
             y == from + j
  <2>1. /\ x \in Nat /\ y \in Nat /\ x <= y /\ y <= Len(b) /\ j - i = y - x /\ j <= Len(w)
        /\ \A k \in 1..j - i : w[i + k] = b[x + k]
    BY <1>3, <1>4
  <2> HIDE DEF x, y
  <2>2. /\ Window(w, i, j) \in Seq(Nat) /\ Len(Window(w, i, j)) = j - i
        /\ \A k \in 1..j - i : Window(w, i, j)[k] = w[i + k]
    BY <1>1, <2>1, WindowProps
  <2>3. /\ Window(b, x, y) \in Seq(Nat) /\ Len(Window(b, x, y)) = y - x
        /\ \A k \in 1..y - x : Window(b, x, y)[k] = b[x + k]
    BY <2>1, WindowProps
  <2>4. Window(w, i, j) = Window(b, x, y)
    <3>1. \A k \in 1..Len(Window(w, i, j)) : Window(w, i, j)[k] = Window(b, x, y)[k]
      BY <2>1, <2>2, <2>3
    <3>2. Len(Window(w, i, j)) = Len(Window(b, x, y))
      BY <2>1, <2>2, <2>3
    <3> QED
      BY <2>2, <2>3, <3>1, <3>2, SeqEqual
  <2> QED
    BY <2>4 DEF x, y
<1> QED
  BY <1>5 DEF w

(* Adjacent windows join. *)
LEMMA WindowJoin ==
  ASSUME NEW b \in Seq(Nat), NEW from \in Nat, NEW mid \in Nat, NEW to \in Nat,
         from <= mid, mid <= to, to <= Len(b)
  PROVE  Window(b, from, mid) \o Window(b, mid, to) = Window(b, from, to)
<1>1. /\ from + 1 \in 1..Len(b) + 1
      /\ mid \in from + 1 - 1..Len(b)
      /\ to \in mid..Len(b)
  BY LenProperties
<1> QED
  BY <1>1, ConcatAdjacentSubSeq DEF Window

(* The n cells behind two indices agree. *)
SameCells(b, from, c, start, n) == \A i \in 1..n : b[from + i] = c[start + i]

(* A vector whose first cells in a window agree with another's: the shorter *)
(* window is the first part of the longer one.                             *)
LEMMA WindowPrefix ==
  ASSUME NEW b \in Seq(Nat), NEW from \in Nat, NEW to \in Nat, from <= to, to <= Len(b),
         NEW c \in Seq(Nat), NEW start \in Nat, NEW end \in Nat, start <= end, end <= Len(c),
         to - from <= end - start, SameCells(b, from, c, start, to - from)
  PROVE  Window(b, from, to) = SubSeq(Window(c, start, end), 1, to - from)
<1> DEFINE n == to - from
           w == Window(c, start, end)
<1>1. n \in Nat /\ 0 <= n /\ n <= end - start /\ 0 \in Nat
  OBVIOUS
<1>2. /\ w \in Seq(Nat) /\ Len(w) = end - start
      /\ \A i \in 1..end - start : w[i] = c[start + i]
  BY WindowProps
<1>3. /\ Window(b, from, to) \in Seq(Nat) /\ Len(Window(b, from, to)) = n
      /\ \A i \in 1..n : Window(b, from, to)[i] = b[from + i]
  BY WindowProps
<1>4. \A i \in 1..n : b[from + i] = c[start + i]
  BY DEF SameCells
<1> HIDE DEF n, w
<1>5. n <= Len(w)
  BY <1>1, <1>2
<1>6. /\ SubSeq(w, 1, n) \in Seq(Nat) /\ Len(SubSeq(w, 1, n)) = n
      /\ \A i \in 1..n : SubSeq(w, 1, n)[i] = w[i]
  BY <1>1, <1>2, <1>5, PrefixProps
<1>7. ASSUME NEW i \in 1..Len(Window(b, from, to))
      PROVE  Window(b, from, to)[i] = SubSeq(w, 1, n)[i]
  <2>1. i \in 1..n /\ i \in 1..end - start
    BY <1>1, <1>3
  <2> QED
    BY <1>2, <1>3, <1>4, <1>6, <2>1
<1>8. Window(b, from, to) = SubSeq(w, 1, n)
  <2>1. Len(Window(b, from, to)) = Len(SubSeq(w, 1, n))
    BY <1>3, <1>6
  <2> QED
    BY <1>3, <1>6, <1>7, <2>1, SeqEqual
<1> QED
  BY <1>8 DEF n, w

-----------------------------------------------------------------------------
(* Nothing can be put back while libuv may be storing bytes. *)
QueueInv == IndexInv /\ (granted # 0 => rereadable = 0)

LEMMA QueueInvStep == QueueInv /\ [Next]_vars => QueueInv'
<1> SUFFICES ASSUME QueueInv, [Next]_vars PROVE QueueInv'
  OBVIOUS
<1>1. IndexInv'
  BY IndexStep DEF QueueInv
<1>2. granted' # 0 => rereadable' = 0
  BY DEF QueueInv, Next, vars, write, on_uv_alloc, on_uv_read, on_uv_read_nothing, retrieve,
         unread, unwrite, clear, shrink, Idle
<1> QED
  BY <1>1, <1>2 DEF QueueInv

(* The byte queue in terms of windows: the unread bytes, and those that    *)
(* can still be put back.                                                  *)
Taken == SubSeq(buf, readIndex - rereadable + 1, readIndex)

LEMMA AsWindows ==
  ASSUME IndexInv
  PROVE  /\ Contents = Window(buf, readIndex, writeIndex)
         /\ Taken = Window(buf, readIndex - rereadable, readIndex)
         /\ buf \in Seq(Nat) /\ Len(buf) \in Nat
         /\ readIndex \in Nat /\ writeIndex \in Nat /\ rereadable \in Nat
         /\ readIndex <= writeIndex /\ writeIndex <= Len(buf) /\ rereadable <= readIndex
         /\ readableBytes \in Nat /\ readableBytes = writeIndex - readIndex
         /\ Len(Contents) = readableBytes
<1>1. /\ buf \in Seq(Nat) /\ Len(buf) \in Nat
      /\ readIndex \in Nat /\ writeIndex \in Nat /\ rereadable \in Nat
      /\ readIndex <= writeIndex /\ writeIndex <= Len(buf) /\ rereadable <= readIndex
      /\ readableBytes \in Nat /\ readableBytes = writeIndex - readIndex
  BY DEF IndexInv, TypeOK, IndicesOK, readableBytes
<1>2. Contents = Window(buf, readIndex, writeIndex)
  BY DEF Contents, Window
<1>3. Taken = Window(buf, readIndex - rereadable, readIndex)
  BY DEF Taken, Window
<1>4. Len(Contents) = readableBytes
  BY <1>1, <1>2, WindowProps
<1> QED
  BY <1>1, <1>2, <1>3, <1>4

(* Bytes stored behind the unread ones are the queue's Put; when there are *)
(* none the queue is unchanged.  b, r, w are the vector and the indices    *)
(* after the call.                                                         *)
LEMMA GrowthRefines ==
  ASSUME IndexInv, NEW n \in Nat,
         NEW b \in Seq(Nat), NEW r \in Nat, NEW w \in Nat, r <= w, w <= Len(b),
         buf' = b, readIndex' = r, writeIndex' = w, rereadable' = 0,
         w - r = readableBytes + n,
         \A i \in 1..readableBytes : b[r + i] = buf[readIndex + i]
  PROVE  Queue!Put \/ Queue!Drop
<1>1. /\ Contents = Window(buf, readIndex, writeIndex)
      /\ Len(Contents) = readableBytes
      /\ buf \in Seq(Nat) /\ readIndex \in Nat /\ writeIndex \in Nat
      /\ readIndex <= writeIndex /\ writeIndex <= Len(buf)
      /\ readableBytes \in Nat /\ readableBytes = writeIndex - readIndex
  BY AsWindows
<1>2. Contents' = Window(b, r, w)
  BY DEF Contents, Window
<1>3. Taken' = <<>>
  <2>1. Taken' = SubSeq(b, r - 0 + 1, r)
    BY DEF Taken
  <2>2. r - 0 + 1 \in Int /\ r \in Int /\ r < r - 0 + 1
    OBVIOUS
  <2> QED
    BY <2>1, <2>2, SubSeqEmpty
<1>4. Window(b, r, w) \in Seq(Nat) /\ Len(Window(b, r, w)) = readableBytes + n
  BY WindowProps
<1>5. Contents = SubSeq(Window(b, r, w), 1, readableBytes)
  <2>1. SameCells(buf, readIndex, b, r, writeIndex - readIndex)
    BY <1>1 DEF SameCells
  <2>2. /\ buf \in Seq(Nat) /\ readIndex \in Nat /\ writeIndex \in Nat
        /\ readIndex <= writeIndex /\ writeIndex <= Len(buf)
        /\ b \in Seq(Nat) /\ r \in Nat /\ w \in Nat /\ r <= w /\ w <= Len(b)
        /\ writeIndex - readIndex <= w - r
    BY <1>1
  <2>3. Window(buf, readIndex, writeIndex) = SubSeq(Window(b, r, w), 1, writeIndex - readIndex)
    BY ONLY <2>1, <2>2, WindowPrefix
  <2> QED
    BY <1>1, <2>3
<1>6. CASE n = 0
  <2>1. Window(b, r, w) = Contents
    BY <1>1, <1>4, <1>5, <1>6, SubSeqFull
  <2>2. Contents' = SubSeq(Contents, 1, readableBytes) /\ readableBytes \in 0..Len(Contents)
    BY <1>1, <1>2, <1>5, <2>1
  <2> QED
    BY <1>3, <2>2 DEF Queue!Drop, Taken
<1>7. CASE n # 0
  <2>1. Len(Contents') > Len(Contents) /\ SubSeq(Contents', 1, Len(Contents)) = Contents
    BY <1>1, <1>2, <1>4, <1>5, <1>7
  <2> QED
    BY <1>3, <2>1 DEF Queue!Put, Taken
<1> QED
  BY <1>6, <1>7

(* Bytes dropped from the end, with or without moving the others, are the  *)
(* queue's Drop.                                                           *)
LEMMA DropRefines ==
  ASSUME IndexInv, NEW n \in Nat, n <= readableBytes,
         NEW b \in Seq(Nat), NEW r \in Nat, NEW w \in Nat, r <= w, w <= Len(b),
         buf' = b, readIndex' = r, writeIndex' = w,
         w - r = n,
         \A i \in 1..n : b[r + i] = buf[readIndex + i],
         Taken' \in {Taken, <<>>}
  PROVE  Queue!Drop
<1>1. /\ Contents = Window(buf, readIndex, writeIndex)
      /\ Len(Contents) = readableBytes
      /\ buf \in Seq(Nat) /\ readIndex \in Nat /\ writeIndex \in Nat
      /\ readIndex <= writeIndex /\ writeIndex <= Len(buf)
      /\ readableBytes \in Nat /\ readableBytes = writeIndex - readIndex
  BY AsWindows
<1>2. Contents' = Window(b, r, w)
  BY DEF Contents, Window
<1>3. Window(b, r, w) = SubSeq(Contents, 1, w - r)
  <2>1. SameCells(b, r, buf, readIndex, w - r)
    BY DEF SameCells
  <2>2. /\ buf \in Seq(Nat) /\ readIndex \in Nat /\ writeIndex \in Nat
        /\ readIndex <= writeIndex /\ writeIndex <= Len(buf)
        /\ b \in Seq(Nat) /\ r \in Nat /\ w \in Nat /\ r <= w /\ w <= Len(b)
        /\ w - r <= writeIndex - readIndex
    BY <1>1
  <2>3. Window(b, r, w) = SubSeq(Window(buf, readIndex, writeIndex), 1, w - r)
    BY ONLY <2>1, <2>2, WindowPrefix
  <2> QED
    BY <1>1, <2>3
<1>4. n \in 0..Len(Contents) /\ Contents' = SubSeq(Contents, 1, n)
  BY <1>1, <1>2, <1>3
<1> QED
  BY <1>4 DEF Queue!Drop, Taken

(* Reading bytes is the queue's Take. *)
LEMMA RetrieveRefines ==
  ASSUME IndexInv, NEW len \in Nat, retrieve(len)
  PROVE  Queue!Take
<1> DEFINE t == readIndex - rereadable
           m == readIndex + len
<1>1. /\ Contents = Window(buf, readIndex, writeIndex)
      /\ Taken = Window(buf, readIndex - rereadable, readIndex)
      /\ Len(Contents) = readableBytes
      /\ buf \in Seq(Nat) /\ Len(buf) \in Nat
      /\ readIndex \in Nat /\ writeIndex \in Nat /\ rereadable \in Nat
      /\ readIndex <= writeIndex /\ writeIndex <= Len(buf) /\ rereadable <= readIndex
      /\ readableBytes \in Nat /\ readableBytes = writeIndex - readIndex
  BY AsWindows
<1>2. /\ len <= readableBytes
      /\ readIndex' = m /\ rereadable' = rereadable + len
      /\ buf' = buf /\ writeIndex' = writeIndex
  BY DEF retrieve
<1>3. /\ t \in Nat /\ m \in Nat /\ t <= readIndex /\ readIndex <= m /\ m <= writeIndex
      /\ m <= Len(buf) /\ m - (rereadable + len) = t
      /\ readIndex + readableBytes = writeIndex /\ readIndex + 0 = readIndex
  BY <1>1, <1>2
<1>4. Contents' = Window(buf, m, writeIndex) /\ Taken' = Window(buf, t, m)
  BY <1>2, <1>3 DEF Contents, Taken, Window
<1>5. Window(Contents, len, readableBytes) = Window(buf, m, writeIndex)
  BY <1>1, <1>2, <1>3, WindowOfWindow
<1>6. Window(Contents, 0, len) = Window(buf, readIndex, m)
  BY <1>1, <1>2, <1>3, WindowOfWindow
<1> HIDE DEF t, m
<1>7. Window(buf, t, readIndex) \o Window(buf, readIndex, m) = Window(buf, t, m)
  <2>1. /\ buf \in Seq(Nat) /\ t \in Nat /\ readIndex \in Nat /\ m \in Nat
        /\ t <= readIndex /\ readIndex <= m /\ m <= Len(buf)
    BY <1>1, <1>3
  <2> QED
    BY <2>1, WindowJoin
<1>8. /\ len \in 0..Len(Contents)
      /\ Contents' = SubSeq(Contents, len + 1, Len(Contents))
      /\ Taken' = Taken \o SubSeq(Contents, 1, len)
  <2>1. Contents' = SubSeq(Contents, len + 1, Len(Contents))
    BY <1>1, <1>4, <1>5 DEF Window
  <2>2. Window(Contents, 0, len) = SubSeq(Contents, 1, len)
    BY DEF Window
  <2>3. Taken = Window(buf, t, readIndex)
    BY <1>1 DEF t
  <2>4. Taken' = Taken \o SubSeq(Contents, 1, len)
    BY <1>4, <1>6, <1>7, <2>2, <2>3
  <2> QED
    BY <1>1, <1>2, <2>1, <2>4
<1> QED
  BY <1>8 DEF Queue!Take, Taken

(* Unreading bytes is the queue's PutBack. *)
LEMMA UnreadRefines ==
  ASSUME IndexInv, NEW len \in Nat, unread(len)
  PROVE  Queue!PutBack
<1> DEFINE t == readIndex - rereadable
           m == readIndex - len
           k == rereadable - len
<1>1. /\ Contents = Window(buf, readIndex, writeIndex)
      /\ Taken = Window(buf, t, readIndex)
      /\ buf \in Seq(Nat) /\ Len(buf) \in Nat
      /\ readIndex \in Nat /\ writeIndex \in Nat /\ rereadable \in Nat
      /\ readIndex <= writeIndex /\ writeIndex <= Len(buf) /\ rereadable <= readIndex
  BY AsWindows
<1>2. /\ len <= rereadable
      /\ readIndex' = m /\ rereadable' = k
      /\ buf' = buf /\ writeIndex' = writeIndex
  BY DEF unread
<1>3. /\ t \in Nat /\ m \in Nat /\ k \in Nat
      /\ t <= m /\ m <= readIndex /\ m <= writeIndex
      /\ readIndex <= Len(buf) /\ m <= Len(buf) /\ t <= readIndex
      /\ m - k = t /\ readIndex - t = rereadable
      /\ k <= rereadable /\ k <= readIndex - t /\ 0 <= k /\ rereadable <= readIndex - t
      /\ t + k = m /\ t + rereadable = readIndex /\ t + 0 = t
      /\ rereadable - len = k
  BY <1>1, <1>2
<1>4. Contents' = Window(buf, m, writeIndex) /\ Taken' = Window(buf, t, m)
  BY <1>2, <1>3 DEF Contents, Taken, Window
<1> HIDE DEF t, m, k
<1>5. Window(buf, m, readIndex) \o Window(buf, readIndex, writeIndex) = Window(buf, m, writeIndex)
  <2>1. /\ buf \in Seq(Nat) /\ m \in Nat /\ readIndex \in Nat /\ writeIndex \in Nat
        /\ m <= readIndex /\ readIndex <= writeIndex /\ writeIndex <= Len(buf)
    BY <1>1, <1>3
  <2> QED
    BY <2>1, WindowJoin
<1>6. Window(Taken, k, rereadable) = Window(buf, m, readIndex)
  BY <1>1, <1>3, WindowOfWindow
<1>7. Window(Taken, 0, k) = Window(buf, t, m)
  BY <1>1, <1>3, WindowOfWindow
<1>8. Len(Taken) = rereadable
  BY <1>1, <1>3, WindowProps
<1>9. /\ len \in 0..Len(Taken)
      /\ Contents' = SubSeq(Taken, Len(Taken) - len + 1, Len(Taken)) \o Contents
      /\ Taken' = SubSeq(Taken, 1, Len(Taken) - len)
  <2>1. Window(Taken, k, rereadable) = SubSeq(Taken, k + 1, rereadable)
    BY DEF Window
  <2>2. Window(Taken, 0, k) = SubSeq(Taken, 1, k)
    BY DEF Window
  <2>3. Len(Taken) - len = k
    BY <1>3, <1>8
  <2>4. Contents' = SubSeq(Taken, Len(Taken) - len + 1, Len(Taken)) \o Contents
    BY <1>1, <1>4, <1>5, <1>6, <1>8, <2>1, <2>3
  <2>5. Taken' = SubSeq(Taken, 1, Len(Taken) - len)
    BY <1>4, <1>7, <2>2, <2>3
  <2>6. len \in 0..Len(Taken)
    BY <1>1, <1>2, <1>8
  <2> QED
    BY <2>4, <2>5, <2>6
<1> QED
  BY <1>9 DEF Queue!PutBack, Taken

(* The buffer implements the byte queue: growing, compacting, unreading    *)
(* and libuv's direct writes never lose, repeat or reorder a byte.         *)
THEOREM QueueCorrect == Spec => ImplementsQueue
<1>1. Init => QueueInv /\ Queue!Init
  <2> SUFFICES ASSUME Init PROVE QueueInv /\ Queue!Init
    OBVIOUS
  <2>1. QueueInv
    BY IndexInitial DEF QueueInv, Init
  <2>2. /\ SubSeq(buf, readIndex + 1, writeIndex) = <<>>
        /\ SubSeq(buf, readIndex - rereadable + 1, readIndex) = <<>>
    BY SubSeqEmpty DEF Init
  <2> QED
    BY <2>1, <2>2 DEF Queue!Init, Contents
<1>2. QueueInv /\ [Next]_vars => [Queue!Next]_Queue!queueVars
  <2> SUFFICES ASSUME QueueInv, [Next]_vars
               PROVE  Queue!Next \/ UNCHANGED Queue!queueVars
    OBVIOUS
  <2> USE ConstantsOK DEF ConstantsOK
  <2>0. IndexInv /\ (granted # 0 => rereadable = 0)
    BY DEF QueueInv
  <2>1. /\ buf \in Seq(Nat) /\ Len(buf) \in Nat
        /\ readIndex \in Nat /\ writeIndex \in Nat /\ written \in Nat
        /\ readIndex <= writeIndex /\ writeIndex <= Len(buf)
        /\ granted \in Nat /\ granted <= Len(buf) - writeIndex
        /\ readableBytes \in Nat /\ readableBytes = writeIndex - readIndex
    BY <2>0 DEF IndexInv, TypeOK, IndicesOK, GrantFits, readableBytes, remaining
  <2>2. ASSUME NEW len \in 0..MaxLen, write(len)
        PROVE  Queue!Next
    <3> DEFINE e == ensureSpace(len)
               s == NextBytes(len)
               b == Stored(e.buf, e.writeIndex, s)
               w == e.writeIndex + len
    <3>1. len \in Nat /\ s \in Seq(Nat) /\ Len(s) = len
      BY <2>1, NextBytesProps
    <3>2. /\ e.buf \in Seq(Nat) /\ Len(e.buf) \in Nat
          /\ e.readIndex \in Nat /\ e.writeIndex \in Nat /\ e.readIndex <= e.writeIndex
          /\ e.writeIndex - e.readIndex = readableBytes
          /\ e.writeIndex + len <= Len(e.buf)
          /\ \A i \in 1..readableBytes : e.buf[e.readIndex + i] = buf[readIndex + i]
      BY <2>0, <3>1, EnsureSpaceProps
    <3>3. buf' = b /\ readIndex' = e.readIndex /\ writeIndex' = w /\ rereadable' = 0
      BY <2>2 DEF write
    <3> HIDE DEF e, s
    <3>4. /\ b \in Seq(Nat) /\ Len(b) = Len(e.buf)
          /\ \A i \in 1..e.writeIndex : b[i] = e.buf[i]
      <4>1. /\ e.buf \in Seq(Nat) /\ e.writeIndex \in Nat /\ s \in Seq(Nat)
            /\ e.writeIndex + Len(s) <= Len(e.buf)
        BY <3>1, <3>2
      <4> QED
        BY ONLY <4>1, StoredProps
    <3>5. /\ w \in Nat /\ e.readIndex <= w /\ w <= Len(b)
          /\ w - e.readIndex = readableBytes + len
      BY <3>1, <3>2, <3>4
    <3>6. \A i \in 1..readableBytes : b[e.readIndex + i] = buf[readIndex + i]
      <4> TAKE i \in 1..readableBytes
      <4>0. /\ e.readIndex \in Nat /\ e.writeIndex \in Nat /\ readableBytes \in Nat
            /\ e.writeIndex - e.readIndex = readableBytes
        BY <2>1, <3>2
      <4>1. e.readIndex + i \in 1..e.writeIndex
        BY <4>0
      <4> QED
        BY <3>2, <3>4, <4>1
    <3> HIDE DEF b, w
    <3>7. Queue!Put \/ Queue!Drop
      BY <2>0, <3>1, <3>2, <3>3, <3>4, <3>5, <3>6, GrowthRefines
    <3> QED
      BY <3>7 DEF Queue!Next
  <2>3. CASE on_uv_alloc
    <3> DEFINE e == ensureSpace(kMinWritableSize)
    <3>1. /\ e.buf \in Seq(Nat) /\ Len(e.buf) \in Nat
          /\ e.readIndex \in Nat /\ e.writeIndex \in Nat /\ e.readIndex <= e.writeIndex
          /\ e.writeIndex - e.readIndex = readableBytes
          /\ e.writeIndex + kMinWritableSize <= Len(e.buf)
          /\ \A i \in 1..readableBytes : e.buf[e.readIndex + i] = buf[readIndex + i]
      BY <2>0, EnsureSpaceProps
    <3>2. buf' = e.buf /\ readIndex' = e.readIndex /\ writeIndex' = e.writeIndex /\ rereadable' = 0
      BY <2>3 DEF on_uv_alloc
    <3> HIDE DEF e
    <3>3. e.writeIndex <= Len(e.buf) /\ e.writeIndex - e.readIndex = readableBytes + 0
      BY <2>1, <3>1
    <3>4. Queue!Put \/ Queue!Drop
      BY <2>0, <3>1, <3>2, <3>3, GrowthRefines
    <3> QED
      BY <3>4 DEF Queue!Next
  <2>4. ASSUME NEW nread \in 1..MaxBytes, on_uv_read(nread)
        PROVE  Queue!Next
    <3> DEFINE s == NextBytes(nread)
               b == Stored(buf, writeIndex, s)
               w == writeIndex + nread
    <3>1. nread \in Nat /\ s \in Seq(Nat) /\ Len(s) = nread
      BY <2>1, NextBytesProps
    <3>2. /\ nread \in 1..granted
          /\ buf' = b /\ writeIndex' = w
          /\ UNCHANGED <<readIndex, rereadable>>
      BY <2>1, <2>4 DEF on_uv_read, updateWriteIndex
    <3>3. rereadable' = 0
      BY <2>0, <2>1, <3>2
    <3> HIDE DEF s
    <3>4. /\ b \in Seq(Nat) /\ Len(b) = Len(buf)
          /\ \A i \in 1..writeIndex : b[i] = buf[i]
      <4>1. writeIndex + Len(s) <= Len(buf)
        BY <2>1, <3>1, <3>2
      <4> QED
        BY <2>1, <3>1, <4>1, StoredProps
    <3>5. /\ w \in Nat /\ readIndex <= w /\ w <= Len(b)
          /\ w - readIndex = readableBytes + nread
      BY <2>1, <3>1, <3>2, <3>4
    <3>6. \A i \in 1..readableBytes : b[readIndex + i] = buf[readIndex + i]
      <4> TAKE i \in 1..readableBytes
      <4>1. readIndex + i \in 1..writeIndex
        BY <2>1
      <4> QED
        BY <3>4, <4>1
    <3> HIDE DEF b, w
    <3>7. Queue!Put \/ Queue!Drop
      BY <2>0, <2>1, <3>1, <3>2, <3>3, <3>4, <3>5, <3>6, GrowthRefines
    <3> QED
      BY <3>7 DEF Queue!Next
  <2>5. CASE on_uv_read_nothing
    BY <2>5 DEF on_uv_read_nothing, Queue!queueVars, Contents
  <2>6. ASSUME NEW len \in 0..MaxLen, retrieve(len)
        PROVE  Queue!Next
    <3>1. len \in Nat
      OBVIOUS
    <3> QED
      BY <2>0, <2>6, <3>1, RetrieveRefines DEF Queue!Next
  <2>7. ASSUME NEW len \in 0..MaxLen, unread(len)
        PROVE  Queue!Next
    <3>1. len \in Nat
      OBVIOUS
    <3> QED
      BY <2>0, <2>7, <3>1, UnreadRefines DEF Queue!Next
  <2>8. ASSUME NEW len \in 0..MaxLen, unwrite(len)
        PROVE  Queue!Next
    <3> DEFINE w == updateWriteIndex(-len)
               n == w - readIndex
    <3>1. w \in Nat /\ readIndex <= w /\ w <= writeIndex /\ w <= Len(buf) /\ n \in Nat /\ n <= readableBytes
      BY <2>1 DEF updateWriteIndex
    <3>2. writeIndex' = w /\ UNCHANGED <<buf, readIndex, rereadable>>
      BY <2>8 DEF unwrite
    <3>3. Taken' = Taken
      BY <3>2 DEF Taken
    <3> HIDE DEF w
    <3>4. Queue!Drop
      BY <2>0, <2>1, <3>1, <3>2, <3>3, DropRefines
    <3> QED
      BY <3>4 DEF Queue!Next
  <2>9. CASE clear
    <3>1. UNCHANGED buf /\ readIndex' = 0 /\ writeIndex' = 0 /\ rereadable' = 0
      BY <2>9 DEF clear
    <3>2. SubSeq(buf, 0 + 1, 0) = <<>> /\ SubSeq(buf, 0 - 0 + 1, 0) = <<>>
      BY SubSeqEmpty
    <3>3. Contents' = <<>> /\ Taken' = <<>>
      BY <3>1, <3>2 DEF Contents, Taken
    <3>4. SubSeq(Contents, 1, 0) = <<>> /\ 0 \in 0..Len(Contents)
      BY <2>0, <2>1, AsWindows, SubSeqEmpty
    <3> QED
      BY <3>3, <3>4 DEF Queue!Next, Queue!Drop, Taken
  <2>10. ASSUME NEW len \in 0..MaxLen, shrink(len)
         PROVE  Queue!Next
    <3> DEFINE b == Resized(Compacted, len)
               n == IF readableBytes > len THEN len ELSE readableBytes
    <3>1. /\ len \in Nat /\ Compacted \in Seq(Nat) /\ Len(Compacted) = Len(buf)
          /\ \A i \in 1..readableBytes : Compacted[i] = buf[readIndex + i]
      BY <2>0, CompactedProps
    <3>2. /\ b \in Seq(Nat) /\ Len(b) = len
          /\ \A i \in 1..len : i <= Len(Compacted) => b[i] = Compacted[i]
      BY <3>1, ResizedProps
    <3>3. buf' = b /\ readIndex' = 0 /\ writeIndex' = n /\ rereadable' = 0
      BY <2>10 DEF shrink
    <3>4. n \in Nat /\ n <= readableBytes /\ n <= len /\ n - 0 = n
      BY <2>1, <3>1
    <3> HIDE DEF b, n
    <3>5. \A i \in 1..n : b[0 + i] = buf[readIndex + i]
      <4> TAKE i \in 1..n
      <4>0. /\ readableBytes \in Nat /\ len \in Nat /\ n \in Nat /\ n <= readableBytes /\ n <= len
            /\ Len(Compacted) \in Nat /\ readableBytes <= Len(Compacted)
        BY <2>1, <3>1, <3>4
      <4>1. i \in 1..readableBytes /\ i \in 1..len /\ i <= Len(Compacted) /\ 0 + i = i
        BY <4>0
      <4> QED
        BY <3>1, <3>2, <4>1
    <3>6. Taken' = <<>>
      <4>1. Taken' = SubSeq(b, 0 - 0 + 1, 0)
        BY <3>3 DEF Taken
      <4> QED
        BY <4>1, SubSeqEmpty
    <3>7. 0 \in Nat /\ 0 <= n /\ n <= Len(b)
      BY <3>2, <3>4
    <3>8. Queue!Drop
      BY <2>0, <3>2, <3>3, <3>4, <3>5, <3>6, <3>7, DropRefines
    <3> QED
      BY <3>8 DEF Queue!Next
  <2>11. CASE UNCHANGED vars
    BY <2>11 DEF vars, Queue!queueVars, Contents
  <2> QED
    BY <2>2, <2>3, <2>4, <2>5, <2>6, <2>7, <2>8, <2>9, <2>10, <2>11 DEF Next
<1> QED
  BY <1>1, <1>2, QueueInvStep, PTL DEF Spec, ImplementsQueue, Queue!Spec
=============================================================================
