---------------------- MODULE WebSocketConnectionProofs ----------------------
(***************************************************************************)
(* Theorems about WebSocketConnection for every traffic, every way to cut  *)
(* it into reads and every behaviour of the application.                   *)
(***************************************************************************)
EXTENDS WebSocketConnection, FiniteSetTheorems, SequenceTheorems, TLAPS

------------------------------------------------------------------------------
(***************************************************************************)
(* Masks, numbers, headers and sequences of frames: masking twice gives    *)
(* the payload back, a number is read as it was put, a header that is      *)
(* complete is read as the peer meant it wherever the bytes are cut, and   *)
(* what the connection sends reads back as it was meant.                   *)
(***************************************************************************)

(* Exclusive or. *)

LEMMA XorBitOf ==
  ASSUME NEW a, NEW b, NEW w
  PROVE  XorBit(a, b, w) \in {0, w}
BY DEF XorBit

LEMMA XorByte ==
  ASSUME NEW a, NEW b
  PROVE  Xor(a, b) \in Byte
<1>1. /\ XorBit(a, b, 1) \in {0, 1} /\ XorBit(a, b, 2) \in {0, 2}
      /\ XorBit(a, b, 4) \in {0, 4} /\ XorBit(a, b, 8) \in {0, 8}
      /\ XorBit(a, b, 16) \in {0, 16} /\ XorBit(a, b, 32) \in {0, 32}
      /\ XorBit(a, b, 64) \in {0, 64} /\ XorBit(a, b, 128) \in {0, 128}
  BY XorBitOf
<1> QED
  BY <1>1 DEF Xor, Byte

(* A byte is the sum of its bits. *)
LEMMA BitsOf ==
  ASSUME NEW a \in Byte
  PROVE  a = (a % 2) + 2 * ((a \div 2) % 2) + 4 * ((a \div 4) % 2) + 8 * ((a \div 8) % 2)
             + 16 * ((a \div 16) % 2) + 32 * ((a \div 32) % 2) + 64 * ((a \div 64) % 2)
             + 128 * ((a \div 128) % 2)
BY DEF Byte

(* The bits of a sum of weights. *)
LEMMA BitsOfSum ==
  ASSUME NEW x0 \in {0, 1}, NEW x1 \in {0, 2}, NEW x2 \in {0, 4}, NEW x3 \in {0, 8},
         NEW x4 \in {0, 16}, NEW x5 \in {0, 32}, NEW x6 \in {0, 64}, NEW x7 \in {0, 128},
         NEW s, s = x0 + x1 + x2 + x3 + x4 + x5 + x6 + x7
  PROVE  /\ (s \div 1) % 2 = 1 <=> x0 = 1
         /\ (s \div 2) % 2 = 1 <=> x1 = 2
         /\ (s \div 4) % 2 = 1 <=> x2 = 4
         /\ (s \div 8) % 2 = 1 <=> x3 = 8
         /\ (s \div 16) % 2 = 1 <=> x4 = 16
         /\ (s \div 32) % 2 = 1 <=> x5 = 32
         /\ (s \div 64) % 2 = 1 <=> x6 = 64
         /\ (s \div 128) % 2 = 1 <=> x7 = 128
OBVIOUS

LEMMA BackBit ==
  ASSUME NEW a \in Nat, NEW b \in Nat, NEW x \in Nat, NEW v \in Nat, NEW w \in Nat, v # 0, w # 0, w = v,
         (x \div w) % 2 = 1 <=> XorBit(a, b, w) = w
  PROVE  XorBit(x, b, w) = IF (a \div w) % 2 = 1 THEN w ELSE 0
<1>0. (x \div w) % 2 \in {0, 1} /\ (a \div w) % 2 \in {0, 1} /\ (b \div w) % 2 \in {0, 1}
  OBVIOUS
<1> QED
  BY <1>0 DEF XorBit

(* Masking twice is no masking. *)
LEMMA XorTwice ==
  ASSUME NEW a \in Byte, NEW b \in Byte
  PROVE  Xor(Xor(a, b), b) = a
<1> DEFINE x == Xor(a, b)
           W == {1, 2, 4, 8, 16, 32, 64, 128}
<1>1. x \in Byte
  BY XorByte
<1>2. a \in Nat /\ b \in Nat /\ x \in Nat
  BY <1>1 DEF Byte
<1>3. \A w \in W : (x \div w) % 2 = 1 <=> XorBit(a, b, w) = w
  <2>1. /\ XorBit(a, b, 1) \in {0, 1} /\ XorBit(a, b, 2) \in {0, 2}
        /\ XorBit(a, b, 4) \in {0, 4} /\ XorBit(a, b, 8) \in {0, 8}
        /\ XorBit(a, b, 16) \in {0, 16} /\ XorBit(a, b, 32) \in {0, 32}
        /\ XorBit(a, b, 64) \in {0, 64} /\ XorBit(a, b, 128) \in {0, 128}
    BY XorBitOf
  <2>2. x = XorBit(a, b, 1) + XorBit(a, b, 2) + XorBit(a, b, 4) + XorBit(a, b, 8)
              + XorBit(a, b, 16) + XorBit(a, b, 32) + XorBit(a, b, 64) + XorBit(a, b, 128)
    BY DEF Xor
  <2> HIDE DEF x
  <2>3. /\ (x \div 1) % 2 = 1 <=> XorBit(a, b, 1) = 1
        /\ (x \div 2) % 2 = 1 <=> XorBit(a, b, 2) = 2
        /\ (x \div 4) % 2 = 1 <=> XorBit(a, b, 4) = 4
        /\ (x \div 8) % 2 = 1 <=> XorBit(a, b, 8) = 8
        /\ (x \div 16) % 2 = 1 <=> XorBit(a, b, 16) = 16
        /\ (x \div 32) % 2 = 1 <=> XorBit(a, b, 32) = 32
        /\ (x \div 64) % 2 = 1 <=> XorBit(a, b, 64) = 64
        /\ (x \div 128) % 2 = 1 <=> XorBit(a, b, 128) = 128
    <3> DEFINE x0 == XorBit(a, b, 1)    x1 == XorBit(a, b, 2)    x2 == XorBit(a, b, 4)
               x3 == XorBit(a, b, 8)    x4 == XorBit(a, b, 16)   x5 == XorBit(a, b, 32)
               x6 == XorBit(a, b, 64)   x7 == XorBit(a, b, 128)
    <3>1. /\ x0 \in {0, 1} /\ x1 \in {0, 2} /\ x2 \in {0, 4} /\ x3 \in {0, 8}
          /\ x4 \in {0, 16} /\ x5 \in {0, 32} /\ x6 \in {0, 64} /\ x7 \in {0, 128}
      BY <2>1
    <3>2. x = x0 + x1 + x2 + x3 + x4 + x5 + x6 + x7
      BY <2>2
    <3> HIDE DEF x0, x1, x2, x3, x4, x5, x6, x7
    <3>3. /\ (x \div 1) % 2 = 1 <=> x0 = 1
          /\ (x \div 2) % 2 = 1 <=> x1 = 2
          /\ (x \div 4) % 2 = 1 <=> x2 = 4
          /\ (x \div 8) % 2 = 1 <=> x3 = 8
          /\ (x \div 16) % 2 = 1 <=> x4 = 16
          /\ (x \div 32) % 2 = 1 <=> x5 = 32
          /\ (x \div 64) % 2 = 1 <=> x6 = 64
          /\ (x \div 128) % 2 = 1 <=> x7 = 128
      BY <3>1, <3>2, BitsOfSum
    <3> QED
      BY <3>3 DEF x0, x1, x2, x3, x4, x5, x6, x7
  <2> QED
    BY <2>3
<1> HIDE DEF x
<1>4. \A w \in W : XorBit(x, b, w) = IF (a \div w) % 2 = 1 THEN w ELSE 0
  <2> TAKE w \in W
  <2>1. w \in Nat /\ w # 0
    OBVIOUS
  <2>2. (x \div w) % 2 = 1 <=> XorBit(a, b, w) = w
    BY <1>3
  <2> HIDE DEF W
  <2> QED
    BY <1>2, <2>1, <2>2, BackBit
<1>5. /\ XorBit(x, b, 1) = (a % 2) /\ XorBit(x, b, 2) = 2 * ((a \div 2) % 2)
      /\ XorBit(x, b, 4) = 4 * ((a \div 4) % 2) /\ XorBit(x, b, 8) = 8 * ((a \div 8) % 2)
      /\ XorBit(x, b, 16) = 16 * ((a \div 16) % 2) /\ XorBit(x, b, 32) = 32 * ((a \div 32) % 2)
      /\ XorBit(x, b, 64) = 64 * ((a \div 64) % 2) /\ XorBit(x, b, 128) = 128 * ((a \div 128) % 2)
  BY <1>2, <1>4
<1>6. Xor(x, b) = a
  <2>1. Xor(x, b) = XorBit(x, b, 1) + XorBit(x, b, 2) + XorBit(x, b, 4) + XorBit(x, b, 8)
              + XorBit(x, b, 16) + XorBit(x, b, 32) + XorBit(x, b, 64) + XorBit(x, b, 128)
    BY DEF Xor
  <2> QED
    BY <2>1, <1>5, BitsOf
<1> QED
  BY <1>6 DEF x

(* Masking. *)
LEMMA MaskedType ==
  ASSUME NEW p \in Seq(Byte), NEW m
  PROVE  Masked(p, m) \in Seq(Byte) /\ Len(Masked(p, m)) = Len(p)
<1>1. CASE m = <<>>
  BY <1>1 DEF Masked
<1>2. CASE m # <<>>
  <2>1. Masked(p, m) = [i \in 1..Len(p) |-> Xor(p[i], m[((i - 1) % 4) + 1])]
    BY <1>2 DEF Masked
  <2>2. \A i \in 1..Len(p) : Xor(p[i], m[((i - 1) % 4) + 1]) \in Byte
    BY XorByte
  <2> QED
    BY <2>1, <2>2
<1> QED
  BY <1>1, <1>2

LEMMA MaskedTwice ==
  ASSUME NEW p \in Seq(Byte), NEW m \in Seq(Byte), Len(m) \in {0, 4}
  PROVE  Masked(Masked(p, m), m) = p
<1>1. CASE m = <<>>
  BY <1>1 DEF Masked
<1>2. CASE m # <<>>
  <2> DEFINE k(i) == m[((i - 1) % 4) + 1]
             q == Masked(p, m)
  <2>1. q = [i \in 1..Len(p) |-> Xor(p[i], k(i))]
    BY <1>2 DEF Masked
  <2>2. Len(q) = Len(p)
    BY MaskedType
  <2>3. Masked(q, m) = [i \in 1..Len(q) |-> Xor(q[i], k(i))]
    BY <1>2 DEF Masked
  <2>4. Len(m) = 4
    <3>1. Len(m) # 0
      BY <1>2
    <3> QED
      BY <3>1
  <2>5. ASSUME NEW i \in 1..Len(p) PROVE Xor(Xor(p[i], k(i)), k(i)) = p[i]
    <3>1. k(i) \in Byte
      <4>1. ((i - 1) % 4) + 1 \in 1..4
        OBVIOUS
      <4>2. \A j \in 1..Len(m) : m[j] \in Byte
        OBVIOUS
      <4> QED
        BY <4>1, <4>2, <2>4
    <3>2. p[i] \in Byte
      OBVIOUS
    <3> HIDE DEF k
    <3> QED
      BY <3>1, <3>2, XorTwice
  <2> HIDE DEF k, q
  <2>6. Masked(q, m) = [i \in 1..Len(p) |-> p[i]]
    BY <2>1, <2>2, <2>3, <2>5
  <2>7. p = [i \in 1..Len(p) |-> p[i]]
    OBVIOUS
  <2> QED
    BY <2>6, <2>7 DEF q
<1> QED
  BY <1>1, <1>2

(* Numbers in network order. *)
LEMMA DropAfter ==
  ASSUME NEW S, NEW s \in Seq(S), NEW t \in Seq(S)
  PROVE  Drop(s \o t, Len(s)) = t
BY DEF Drop

LEMMA UInt16Bytes ==
  ASSUME NEW n \in Nat
  PROVE  PutUInt16(n) \in Seq(Byte) /\ Len(PutUInt16(n)) = 2
<1>1. (n \div 256) % 256 \in Byte /\ n % 256 \in Byte
  BY DEF Byte
<1> QED
  BY <1>1 DEF PutUInt16

LEMMA UInt32Bytes ==
  ASSUME NEW n \in Nat
  PROVE  PutUInt32(n) \in Seq(Byte) /\ Len(PutUInt32(n)) = 4
<1> DEFINE a == PutUInt16(n \div 65536)
           b == PutUInt16(n)
<1>1. n \div 65536 \in Nat
  OBVIOUS
<1>2. a \in Seq(Byte) /\ Len(a) = 2 /\ b \in Seq(Byte) /\ Len(b) = 2 
  BY <1>1, UInt16Bytes
<1>3. PutUInt32(n) = a \o b
  BY DEF PutUInt32
<1> HIDE DEF a, b
<1>4. a \o b \in Seq(Byte) /\ Len(a \o b) = Len(a) + Len(b)
  BY <1>2, ConcatProperties
<1> QED
  BY <1>2, <1>3, <1>4

LEMMA UInt64Bytes ==
  ASSUME NEW n \in Nat
  PROVE  PutUInt64(n) \in Seq(Byte) /\ Len(PutUInt64(n)) = 8
<1> DEFINE a == PutUInt32((n \div 65536) \div 65536)
           b == PutUInt32(n)
<1>1. (n \div 65536) \div 65536 \in Nat
  OBVIOUS
<1>2. a \in Seq(Byte) /\ Len(a) = 4 /\ b \in Seq(Byte) /\ Len(b) = 4 
  BY <1>1, UInt32Bytes
<1>3. PutUInt64(n) = a \o b
  BY DEF PutUInt64
<1> HIDE DEF a, b
<1>4. a \o b \in Seq(Byte) /\ Len(a \o b) = Len(a) + Len(b)
  BY <1>2, ConcatProperties
<1> QED
  BY <1>2, <1>3, <1>4

LEMMA ReadUInt16Put ==
  ASSUME NEW n \in Nat, NEW t \in Seq(Byte)
  PROVE  ReadUInt16(PutUInt16(n) \o t) = n % 65536
<1>1. (256 * ((n \div 256) % 256)) + (n % 256) = n % 65536
  OBVIOUS
<1>2. /\ (PutUInt16(n) \o t)[1] = (n \div 256) % 256
      /\ (PutUInt16(n) \o t)[2] = n % 256
  BY DEF PutUInt16
<1> QED
  BY <1>1, <1>2 DEF ReadUInt16

(* Two halves, read one behind the other. *)
LEMMA ReadUInt32Put ==
  ASSUME NEW n \in Nat, NEW t \in Seq(Byte)
  PROVE  ReadUInt32(PutUInt32(n) \o t) = (65536 * ((n \div 65536) % 65536)) + (n % 65536)
<1> DEFINE h == n \div 65536
           a == PutUInt16(h)
           b == PutUInt16(n)
           x == h % 65536
           y == n % 65536
<1>1. h \in Nat
  OBVIOUS
<1>2. PutUInt32(n) = a \o b
  BY DEF PutUInt32
<1> HIDE DEF h
<1>3. /\ a \in Seq(Byte) /\ Len(a) = 2
      /\ b \in Seq(Byte) /\ Len(b) = 2
  BY <1>1, UInt16Bytes
<1>4. \A u \in Seq(Byte) : ReadUInt16(a \o u) = x
  BY <1>1, ReadUInt16Put
<1>5. ReadUInt16(b \o t) = y
  BY ReadUInt16Put
<1> HIDE DEF a, b, x, y
<1>6. b \o t \in Seq(Byte)
  BY <1>3
<1>7. ReadUInt16(a \o (b \o t)) = x
  BY <1>4, <1>6
<1>8. Drop(a \o (b \o t), 2) = b \o t
  BY <1>3, <1>6, DropAfter
<1>9. (a \o b) \o t = a \o (b \o t)
  BY <1>3
<1>10. ReadUInt32(a \o (b \o t)) = (65536 * x) + y
  <2> DEFINE s == a \o (b \o t)
  <2>1. ReadUInt16(s) = x /\ ReadUInt16(Drop(s, 2)) = y
    BY <1>5, <1>7, <1>8
  <2> HIDE DEF s
  <2>2. ReadUInt32(s) = (65536 * x) + y
    BY <2>1 DEF ReadUInt32
  <2> QED
    BY <2>2 DEF s
<1> QED
  BY <1>2, <1>9, <1>10 DEF h, x, y

LEMMA Halves ==
  ASSUME NEW n \in Nat, NEW h \in Nat, h = (n \div 65536) \div 65536
  PROVE  65536 * (65536 * h) + ((65536 * ((n \div 65536) % 65536)) + (n % 65536)) = n
<1> DEFINE m == n \div 65536
<1>1. m \in Nat /\ n = (65536 * m) + (n % 65536) /\ n % 65536 \in Nat
  OBVIOUS
<1>2. h = m \div 65536
  OBVIOUS
<1> HIDE DEF m
<1>3. m = (65536 * h) + (m % 65536) /\ m % 65536 \in Nat
  BY <1>1, <1>2
<1>4. 65536 * (65536 * h) + ((65536 * (m % 65536)) + (n % 65536)) = n
  BY <1>1, <1>3
<1> QED
  BY <1>4 DEF m

LEMMA ReadUInt64Put ==
  ASSUME NEW n \in UInt64, NEW t \in Seq(Byte)
  PROVE  ReadUInt64(PutUInt64(n) \o t) = n
<1> DEFINE h == (n \div 65536) \div 65536
           a == PutUInt32(h)
           b == PutUInt32(n)
           x == (65536 * ((h \div 65536) % 65536)) + (h % 65536)
           y == (65536 * ((n \div 65536) % 65536)) + (n % 65536)
<1>1. n \in Nat /\ h \in Nat /\ h \div 65536 < 65536
  BY DEF UInt64
<1>2. 65536 * (65536 * h) + y = n
  BY <1>1, Halves
<1>3. PutUInt64(n) = a \o b
  BY DEF PutUInt64
<1>4. ReadUInt32(b \o t) = y
  BY <1>1, ReadUInt32Put
<1> HIDE DEF h, y
<1>5. /\ a \in Seq(Byte) /\ Len(a) = 4
      /\ b \in Seq(Byte) /\ Len(b) = 4
  BY <1>1, UInt32Bytes
<1>6. \A u \in Seq(Byte) : ReadUInt32(a \o u) = x
  BY <1>1, ReadUInt32Put
<1>7. x = h
  BY <1>1
<1> HIDE DEF a, b, x
<1>8. b \o t \in Seq(Byte)
  BY <1>5
<1>9. ReadUInt32(a \o (b \o t)) = h
  BY <1>6, <1>7, <1>8
<1>10. Drop(a \o (b \o t), 4) = b \o t
  BY <1>5, <1>8, DropAfter
<1>11. (a \o b) \o t = a \o (b \o t)
  BY <1>5
<1>12. ReadUInt64(a \o (b \o t)) = 65536 * (65536 * h) + y
  <2> DEFINE s == a \o (b \o t)
  <2>1. ReadUInt32(s) = h /\ ReadUInt32(Drop(s, 4)) = y
    BY <1>4, <1>9, <1>10
  <2> HIDE DEF s
  <2>2. ReadUInt64(s) = 65536 * (65536 * h) + y
    BY <2>1 DEF ReadUInt64
  <2> QED
    BY <2>2 DEF s
<1> QED
  BY <1>2, <1>3, <1>11, <1>12

LEMMA SubSeqOfFront ==
  ASSUME NEW S, NEW s \in Seq(S), NEW t \in Seq(S), NEW n \in 0..Len(s)
  PROVE  FirstOf(s \o t, n) = FirstOf(s, n)
<1> DEFINE c == s \o t
<1>1. /\ c \in Seq(S) /\ Len(c) = Len(s) + Len(t)
      /\ \A i \in 1..Len(s) : c[i] = s[i]
  BY ConcatProperties
<1> HIDE DEF c
<1>2. FirstOf(c, n) = FirstOf(s, n)
  BY <1>1 DEF FirstOf
<1> QED
  BY <1>2 DEF c

LEMMA Assoc ==
  ASSUME NEW a \in Seq(Byte), NEW b \in Seq(Byte), NEW c \in Seq(Byte)
  PROVE  (a \o b) \o c = a \o (b \o c)
OBVIOUS

(* Two ways to cut the same bytes. *)
IsCut(s, a, b) == s = a \o b

LEMMA CutTwice ==
  ASSUME NEW b \in Seq(Byte), NEW w \in Seq(Byte), NEW h \in Seq(Byte), NEW r \in Seq(Byte),
         NEW all, IsCut(all, b, w), IsCut(all, h, r), Len(h) <= Len(b)
  PROVE  /\ FirstOf(b, Len(h)) = h
         /\ Drop(b, Len(h)) \in Seq(Byte)
         /\ IsCut(b, h, Drop(b, Len(h)))
         /\ IsCut(r, Drop(b, Len(h)), w)
<1>a. b \o w = h \o r
  BY DEF IsCut
<1> DEFINE n == Len(h)
           u == Drop(b, n)
<1>0. n \in Nat /\ Len(b) \in Nat /\ n \in 0..Len(b) /\ n \in 0..n
  BY LenProperties
<1>1. u \in Seq(Byte) /\ FirstOf(b, n) \in Seq(Byte)
  BY <1>0 DEF Drop, FirstOf
<1>2. FirstOf(b \o w, n) = FirstOf(b, n)
  BY <1>0, SubSeqOfFront
<1>3. FirstOf(h \o r, n) = FirstOf(h, n)
  BY <1>0, SubSeqOfFront
<1>4. FirstOf(h, n) = h
  BY SubSeqFull DEF FirstOf
<1>5. FirstOf(b, n) = h
  BY <1>a, <1>2, <1>3, <1>4
<1>6. b = FirstOf(b, n) \o u
  <2>1. SubSeq(b, 1, n) \o SubSeq(b, n + 1, Len(b)) = SubSeq(b, 1, Len(b))
    <3>1. 1 \in 1 .. Len(b) + 1 /\ n \in 1 - 1 .. Len(b) /\ Len(b) \in n .. Len(b)
      BY <1>0
    <3> HIDE DEF n
    <3> QED
      BY <3>1, ConcatAdjacentSubSeq
  <2>2. SubSeq(b, 1, Len(b)) = b
    BY SubSeqFull
  <2> QED
    BY <2>1, <2>2 DEF FirstOf, Drop
<1> HIDE DEF u, n
<1>7. b = h \o u
  BY <1>5, <1>6
<1>8. h \o (u \o w) = h \o r
  <2>1. (h \o u) \o w = h \o (u \o w)
    BY <1>1, Assoc
  <2> QED
    BY <2>1, <1>7, <1>a
<1>9. u \o w \in Seq(Byte)
  BY <1>1
<1>10. Drop(h \o (u \o w), Len(h)) = u \o w
  BY <1>9, DropAfter
<1>11. Drop(h \o r, Len(h)) = r
  BY DropAfter
<1>12. u \o w = r
  BY <1>8, <1>10, <1>11
<1> QED
  BY <1>1, <1>5, <1>7, <1>12 DEF u, n, IsCut

LEMMA FrontOfBoth ==
  ASSUME NEW S, NEW b \in Seq(S), NEW w \in Seq(S), NEW h \in Seq(S), NEW r \in Seq(S),
         b \o w = h \o r, NEW i \in 1..Len(h), i <= Len(b)
  PROVE  b[i] = h[i]
<1>1. Len(b) \in Nat /\ Len(h) \in Nat /\ Len(w) \in Nat /\ Len(r) \in Nat
  BY LenProperties
<1>2. (b \o w)[i] = b[i]
  BY <1>1, ConcatProperties
<1>3. (h \o r)[i] = h[i]
  BY <1>1, ConcatProperties
<1> QED
  BY <1>2, <1>3

(* The peer's encoding. *)
ExtensionSize(f) == IF f.form = 0 THEN 0 ELSE IF f.form = 126 THEN 2 ELSE 8

LEMMA FrameFields ==
  ASSUME NEW f \in Frame
  PROVE  /\ f.fin \in BOOLEAN /\ f.rsv \in 0..7 /\ f.opcode \in 0..15
         /\ f.mask \in Seq(Byte) /\ f.payload \in Seq(Byte)
         /\ f.form \in {0, 126, 127}
         /\ Len(f.mask) \in {0, 4} /\ Len(f.payload) \in Nat /\ Len(f.payload) \in UInt64
         /\ f.form = 0 => Len(f.payload) < 126
         /\ f.form = 126 => Len(f.payload) < 65536
         /\ f.mask = <<>> <=> Len(f.mask) = 0
BY EmptySeq DEF Frame, UInt64

LEMMA ExtensionType ==
  ASSUME NEW f \in Frame
  PROVE  /\ Extension(f) \in Seq(Byte)
         /\ Len(Extension(f)) = ExtensionSize(f)
<1>1. CASE f.form = 0
  BY <1>1, EmptySeq DEF Extension, ExtensionSize
<1>2. CASE f.form = 126
  BY <1>2, FrameFields, UInt16Bytes DEF Extension, ExtensionSize
<1>3. CASE f.form = 127
  BY <1>3, FrameFields, UInt64Bytes DEF Extension, ExtensionSize
<1> QED
  BY <1>1, <1>2, <1>3, FrameFields

LEMMA FlagIs == ASSUME NEW b \in BOOLEAN PROVE Flag(b) \in {0, 1} /\ (Flag(b) = 1) = b
BY DEF Flag

LEMMA ByteFields ==
  ASSUME NEW flag \in {0, 1}, NEW hi \in 0..7, NEW lo \in 0..15, NEW x,
         x = 128 * flag + 16 * hi + lo
  PROVE  /\ x \in 0..255
         /\ (x \div 16) % 8 = hi
         /\ x % 16 = lo
         /\ x >= 128 <=> flag = 1
OBVIOUS

LEMMA ShortLength ==
  ASSUME NEW f \in Frame
  PROVE  (IF f.form = 0 THEN Len(f.payload) ELSE f.form) \in 0..127
<1>1. CASE f.form = 0
  <2> DEFINE n == Len(f.payload)
  <2>1. n \in Nat /\ n < 126
    BY <1>1, FrameFields
  <2> HIDE DEF n
  <2>2. n \in 0..127
    BY <2>1
  <2> QED
    BY <1>1, <2>2 DEF n
<1>2. CASE f.form # 0
  <2>1. f.form = 126 \/ f.form = 127
    BY <1>2, FrameFields
  <2> QED
    BY <1>2, <2>1
<1> QED
  BY <1>1, <1>2

LEMMA FirstTwoType ==
  ASSUME NEW f \in Frame
  PROVE  FirstTwo(f) \in Seq(Byte) /\ Len(FirstTwo(f)) = 2
<1> DEFINE short == IF f.form = 0 THEN Len(f.payload) ELSE f.form
           x == 128 * Flag(f.fin) + 16 * f.rsv + f.opcode
           y == 128 * Flag(f.mask # <<>>) + short
<1>1. x \in Byte
  <2>1. Flag(f.fin) \in {0, 1} /\ f.rsv \in 0..7 /\ f.opcode \in 0..15
    BY FrameFields, FlagIs
  <2> QED
    BY <2>1, ByteFields DEF Byte
<1>2. y \in Byte
  <2>1. Flag(f.mask # <<>>) \in {0, 1}
    BY FlagIs
  <2>2. short \in 0..127
    BY ShortLength
  <2> DEFINE flag == Flag(f.mask # <<>>)
  <2> HIDE DEF short, flag
  <2>3. y = 128 * flag + short
    BY DEF flag
  <2> HIDE DEF y
  <2>4. y \in 0..255
    <3>1. flag \in {0, 1}
      BY <2>1 DEF flag
    <3> QED
      BY <3>1, <2>2, <2>3
  <2> QED
    BY <2>4 DEF Byte
<1>3. FirstTwo(f) = <<x, y>>
  BY DEF FirstTwo
<1> HIDE DEF x, y
<1> QED
  BY <1>1, <1>2, <1>3

LEMMA EncodeHeaderType ==
  ASSUME NEW f \in Frame
  PROVE  /\ EncodeHeader(f) \in Seq(Byte)
         /\ Len(EncodeHeader(f)) = 2 + ExtensionSize(f) + Len(f.mask)
<1> DEFINE a == FirstTwo(f)
           b == Extension(f)
           c == f.mask
<1>1. a \in Seq(Byte) /\ b \in Seq(Byte) /\ c \in Seq(Byte)
  BY FirstTwoType, ExtensionType, FrameFields
<1>2. Len(a) = 2 /\ Len(b) = ExtensionSize(f)
  BY FirstTwoType, ExtensionType
<1>3. ExtensionSize(f) \in Nat /\ Len(c) \in Nat
  BY <1>1, LenProperties DEF ExtensionSize
<1>4. EncodeHeader(f) = a \o (b \o c)
  BY DEF EncodeHeader
<1> HIDE DEF a, b
<1>5. b \o c \in Seq(Byte) /\ Len(b \o c) = Len(b) + Len(c)
  BY <1>1, ConcatProperties
<1>6. a \o (b \o c) \in Seq(Byte) /\ Len(a \o (b \o c)) = Len(a) + Len(b \o c)
  BY <1>1, <1>5, ConcatProperties
<1> QED
  BY <1>2, <1>3, <1>4, <1>5, <1>6

LEMMA EncodeType ==
  ASSUME NEW f \in Frame
  PROVE  Encode(f) \in Seq(Byte) /\ Encode(f) # <<>>
<1>1. EncodeHeader(f) \in Seq(Byte) /\ Len(EncodeHeader(f)) >= 2
  <2>1. ExtensionSize(f) \in Nat /\ Len(f.mask) \in Nat
    BY FrameFields DEF ExtensionSize
  <2> QED
    BY <2>1, EncodeHeaderType
<1>2. Masked(f.payload, f.mask) \in Seq(Byte)
  BY FrameFields, MaskedType
<1>3. /\ Encode(f) \in Seq(Byte)
      /\ Len(Encode(f)) = Len(EncodeHeader(f)) + Len(Masked(f.payload, f.mask))
  BY <1>1, <1>2, ConcatProperties DEF Encode
<1>4. Len(Encode(f)) # 0
  BY <1>1, <1>2, <1>3, LenProperties
<1> QED
  BY <1>3, <1>4, EmptySeq

(* What decode() finds in the first two bytes. *)
LEMMA FirstByte ==
  ASSUME NEW f \in Frame, NEW b, b[1] = FirstTwo(f)[1]
  PROVE  Rsv(b) = f.rsv /\ Opcode(b) = f.opcode /\ (b[1] >= 128) = f.fin
<1>1. b[1] = 128 * Flag(f.fin) + 16 * f.rsv + f.opcode
  BY DEF FirstTwo
<1>2. Flag(f.fin) \in {0, 1} /\ (Flag(f.fin) = 1) = f.fin
  BY FrameFields, FlagIs
<1>3. f.fin \in BOOLEAN /\ f.rsv \in 0..7 /\ f.opcode \in 0..15
  BY FrameFields
<1> DEFINE x == b[1]    flag == Flag(f.fin)    hi == f.rsv    lo == f.opcode
<1>4. x = 128 * flag + 16 * hi + lo
  BY <1>1
<1>5. flag \in {0, 1} /\ hi \in 0..7 /\ lo \in 0..15
  BY <1>2, <1>3
<1> HIDE DEF x, flag, hi, lo
<1>6. (x \div 16) % 8 = hi /\ x % 16 = lo /\ (x >= 128 <=> flag = 1)
  BY <1>4, <1>5, ByteFields
<1>7. (x >= 128) = f.fin
  BY <1>2, <1>3, <1>6 DEF flag
<1> QED
  BY <1>6, <1>7 DEF x, hi, lo, Rsv, Opcode

LEMMA SecondByte ==
  ASSUME NEW f \in Frame, NEW b, b[2] = FirstTwo(f)[2]
  PROVE  /\ IsMasked(b) <=> f.mask # <<>>
         /\ Length7(b) = IF f.form = 0 THEN Len(f.payload) ELSE f.form
         /\ ExtendedBytes(b) = ExtensionSize(f)
         /\ HeaderSize(b) = Len(EncodeHeader(f))
<1> DEFINE short == IF f.form = 0 THEN Len(f.payload) ELSE f.form
           x == b[2]
           flag == Flag(f.mask # <<>>)
<1>1. x = 128 * flag + short
  BY DEF FirstTwo
<1>2. short \in 0..127
  BY ShortLength
<1>3. flag \in {0, 1} /\ (flag = 1) = (f.mask # <<>>)
  BY FlagIs
<1> HIDE DEF x, short, flag
<1>4. x % 128 = short /\ (x >= 128 <=> flag = 1)
  BY <1>1, <1>2, <1>3
<1>5. IsMasked(b) <=> f.mask # <<>>
  BY <1>3, <1>4 DEF x, IsMasked
<1>6. Length7(b) = short
  BY <1>4 DEF x, Length7
<1>7. ExtendedBytes(b) = ExtensionSize(f)
  <2>1. CASE f.form = 0
    <3> DEFINE n == Len(f.payload)
    <3>1. Length7(b) = n
      BY <2>1, <1>6 DEF short
    <3>2. n \in Nat /\ n < 126
      BY <2>1, FrameFields
    <3> HIDE DEF n
    <3>3. Length7(b) # 126 /\ Length7(b) # 127
      BY <3>1, <3>2
    <3> QED
      BY <2>1, <3>3 DEF ExtendedBytes, ExtensionSize
  <2>2. CASE f.form = 126
    <3>1. Length7(b) = 126
      BY <2>2, <1>6 DEF short
    <3> QED
      BY <2>2, <3>1 DEF ExtendedBytes, ExtensionSize
  <2>3. CASE f.form = 127
    <3>1. Length7(b) = 127
      BY <2>3, <1>6 DEF short
    <3> QED
      BY <2>3, <3>1 DEF ExtendedBytes, ExtensionSize
  <2> QED
    BY <2>1, <2>2, <2>3, FrameFields
<1>8. Len(f.mask) = 4 * Flag(IsMasked(b))
  <2>1. CASE f.mask = <<>>
    <3>1. Len(f.mask) = 0
      BY <2>1, FrameFields
    <3> QED
      BY <3>1, <2>1, <1>5 DEF Flag
  <2>2. CASE f.mask # <<>>
    <3>1. Len(f.mask) = 4
      BY <2>2, FrameFields
    <3> QED
      BY <3>1, <2>2, <1>5 DEF Flag
  <2> QED
    BY <2>1, <2>2
<1>9. HeaderSize(b) = Len(EncodeHeader(f))
  <2>1. HeaderSize(b) = 2 + ExtensionSize(f) + Len(f.mask)
    BY <1>7, <1>8 DEF HeaderSize
  <2> QED
    BY <2>1, EncodeHeaderType
<1> QED
  BY <1>5, <1>6, <1>7, <1>9 DEF short

LEMMA SmallMod == ASSUME NEW n \in Nat, n < 65536 PROVE n % 65536 = n
OBVIOUS

LEMMA Joined ==
  ASSUME NEW a \in Seq(Byte), NEW b \in Seq(Byte)
  PROVE  /\ a \o b \in Seq(Byte)
         /\ Len(a) \in Nat /\ Len(b) \in Nat
         /\ Len(a \o b) = Len(a) + Len(b)
         /\ \A i \in 1 .. Len(a) : (a \o b)[i] = a[i]
         /\ \A i \in 1 .. Len(b) : (a \o b)[Len(a) + i] = b[i]
<1>1. Len(a) \in Nat /\ Len(b) \in Nat
  BY LenProperties
<1>2. \A i \in 1 .. Len(a) + Len(b) : (a \o b)[i] = IF i <= Len(a) THEN a[i] ELSE b[i - Len(a)]
  BY ConcatProperties
<1>3. \A i \in 1 .. Len(a) : (a \o b)[i] = a[i]
  BY <1>1, <1>2
<1>4. \A i \in 1 .. Len(b) : (a \o b)[Len(a) + i] = b[i]
  <2> TAKE i \in 1..Len(b)
  <2>1. Len(a) + i \in 1 .. Len(a) + Len(b) /\ ~(Len(a) + i <= Len(a)) /\ (Len(a) + i) - Len(a) = i
    BY <1>1
  <2> QED
    BY <1>2, <2>1
<1> QED
  BY <1>1, <1>3, <1>4, ConcatProperties

LEMMA MiddleOf ==
  ASSUME NEW p \in Seq(Byte), NEW m \in Seq(Byte), NEW u \in Seq(Byte)
  PROVE  SubSeq(p \o (m \o u), Len(p) + 1, Len(p) + Len(m)) = m
<1> DEFINE c == m \o u
           d == p \o c
           r == SubSeq(d, Len(p) + 1, Len(p) + Len(m))
<1>1. Len(p) \in Nat /\ Len(m) \in Nat /\ Len(u) \in Nat
  BY LenProperties
<1>2. /\ c \in Seq(Byte) /\ Len(c) = Len(m) + Len(u)
      /\ \A i \in 1..Len(m) : c[i] = m[i]
  BY Joined
<1> HIDE DEF c
<1>3. /\ d \in Seq(Byte) /\ Len(d) = Len(p) + Len(c)
      /\ \A i \in 1..Len(c) : d[Len(p) + i] = c[i]
  BY <1>2, Joined
<1> HIDE DEF d
<1>4. \A i \in 1..Len(m) : d[Len(p) + i] = m[i]
  BY <1>1, <1>2, <1>3
<1>5. Len(p) + Len(m) <= Len(d)
  BY <1>1, <1>2, <1>3
<1>6. r \in Seq(Byte) /\ Len(r) = Len(m)
  BY <1>1, <1>3, <1>5
<1>7. \A i \in 1..Len(m) : r[i] = d[Len(p) + i]
  BY <1>1, <1>3, <1>5
<1>8. \A i \in 1..Len(r) : r[i] = m[i]
  BY <1>4, <1>6, <1>7
<1> HIDE DEF r
<1>9. r = m
  BY <1>6, <1>8, SeqEqual
<1> QED
  BY <1>9 DEF r, d, c

(* A complete header is read as it was meant. *)
LEMMA HeaderDecoded ==
  ASSUME NEW f \in Frame, NEW u \in Seq(Byte), NEW b, b = EncodeHeader(f) \o u
  PROVE  /\ ReadHeader(b) = HeaderOf(f)
         /\ HeaderSize(b) = Len(EncodeHeader(f))
         /\ b[1] = FirstTwo(f)[1] /\ b[2] = FirstTwo(f)[2]
<1> DEFINE two == FirstTwo(f)
           ext == Extension(f)
           mask == f.mask
           t == mask \o u
<1>1. /\ two \in Seq(Byte) /\ Len(two) = 2
      /\ ext \in Seq(Byte) /\ Len(ext) = ExtensionSize(f)
      /\ mask \in Seq(Byte)
  BY FirstTwoType, ExtensionType, FrameFields
<1>2. t \in Seq(Byte)
  BY <1>1
<1>3. EncodeHeader(f) = two \o (ext \o mask)
  BY DEF EncodeHeader
<1> HIDE DEF two, ext, mask
<1>4. b = two \o (ext \o t) /\ b = (two \o ext) \o t /\ ext \o t \in Seq(Byte)
  <2> DEFINE em == ext \o mask
  <2>1. em \in Seq(Byte) /\ ext \o t \in Seq(Byte)
    BY <1>1, <1>2, Joined
  <2>3. em \o u = ext \o t
    BY <1>1, Assoc
  <2> HIDE DEF em, t
  <2>2. (two \o em) \o u = two \o (em \o u)
    BY <1>1, <2>1, Assoc
  <2>4. (two \o ext) \o t = two \o (ext \o t)
    BY <1>1, <1>2, Assoc
  <2>5. b = (two \o em) \o u
    BY <1>3 DEF em
  <2> QED
    BY <2>1, <2>2, <2>3, <2>4, <2>5
<1>5. b[1] = two[1] /\ b[2] = two[2]
  <2> DEFINE x == ext \o t
  <2>1. b = two \o x /\ x \in Seq(Byte)
    BY <1>4
  <2> HIDE DEF x, t
  <2>2. \A i \in 1 .. Len(two) : (two \o x)[i] = two[i]
    BY <1>1, <2>1, Joined
  <2>3. 1 \in 1 .. Len(two) /\ 2 \in 1 .. Len(two)
    BY <1>1
  <2>4. (two \o x)[1] = two[1] /\ (two \o x)[2] = two[2]
    BY <2>2, <2>3, Zenon
  <2> QED
    BY <2>1, <2>4, Zenon
<1>6. Drop(b, 2) = ext \o t
  <2> HIDE DEF t
  <2>1. Drop(two \o (ext \o t), Len(two)) = ext \o t
    BY <1>1, <1>4, DropAfter
  <2> QED
    BY <1>1, <1>4, <2>1
<1>7. Opcode(b) = f.opcode /\ (b[1] >= 128) = f.fin
  BY <1>5, FirstByte DEF two
<1>8. /\ IsMasked(b) <=> f.mask # <<>>
      /\ Length7(b) = IF f.form = 0 THEN Len(f.payload) ELSE f.form
      /\ ExtendedBytes(b) = ExtensionSize(f)
      /\ HeaderSize(b) = Len(EncodeHeader(f))
  BY <1>5, SecondByte DEF two
<1>9. IsMasked(b) => SubSeq(b, 3 + ExtendedBytes(b), 6 + ExtendedBytes(b)) = f.mask
  <2> SUFFICES ASSUME IsMasked(b) PROVE SubSeq(b, 3 + ExtendedBytes(b), 6 + ExtendedBytes(b)) = f.mask
    OBVIOUS
  <2>1. Len(mask) = 4
    BY <1>8, FrameFields DEF mask
  <2> DEFINE p == two \o ext
  <2>2. p \in Seq(Byte) /\ Len(p) = 2 + ExtensionSize(f)
    <3>1. p \in Seq(Byte) /\ Len(p) = Len(two) + Len(ext)
      BY <1>1, Joined
    <3> QED
      BY <3>1, <1>1
  <2> HIDE DEF p
  <2>3. SubSeq(p \o (mask \o u), Len(p) + 1, Len(p) + Len(mask)) = mask
    BY <2>2, <1>1, MiddleOf
  <2>4. ExtensionSize(f) \in Nat
    BY DEF ExtensionSize
  <2>5. Len(p) + 1 = 3 + ExtendedBytes(b) /\ Len(p) + Len(mask) = 6 + ExtendedBytes(b)
    BY <2>1, <2>2, <2>4, <1>8
  <2>6. b = p \o (mask \o u)
    BY <1>4 DEF p
  <2> QED
    BY <2>3, <2>5, <2>6 DEF mask
<1>10. ReadHeader(b).length = Len(f.payload)
  <2>1. CASE f.form = 0
    <3>1. ExtendedBytes(b) = 0 /\ Length7(b) = Len(f.payload)
      BY <2>1, <1>8 DEF ExtensionSize
    <3> QED
      BY <3>1 DEF ReadHeader, PayloadLength
  <2>2. CASE f.form = 126
    <3>1. ExtendedBytes(b) = 2 /\ ext = PutUInt16(Len(f.payload))
      BY <2>2, <1>8 DEF ExtensionSize, ext, Extension
    <3> DEFINE n == Len(f.payload)
    <3>2. n \in Nat /\ n < 65536
      BY <2>2, FrameFields
    <3> HIDE DEF n, t
    <3>3. n % 65536 = n
      BY <3>2, SmallMod
    <3>4. ReadUInt16(PutUInt16(n) \o t) = n
      BY <3>2, <3>3, <1>2, ReadUInt16Put
    <3>5. PayloadLength(b) = n
      <4>1. ReadUInt16(Drop(b, 2)) = n
        BY <3>1, <3>4, <1>6 DEF n
      <4> QED
        BY <3>1, <4>1 DEF PayloadLength
    <3> QED
      BY <3>5 DEF ReadHeader, n
  <2>3. CASE f.form = 127
    <3>1. ExtendedBytes(b) = 8 /\ ext = PutUInt64(Len(f.payload))
      BY <2>3, <1>8 DEF ExtensionSize, ext, Extension
    <3> DEFINE n == Len(f.payload)
    <3>2. n \in UInt64
      BY FrameFields
    <3> HIDE DEF n, t
    <3>3. ReadUInt64(PutUInt64(n) \o t) = n
      BY <3>2, <1>2, ReadUInt64Put
    <3>4. PayloadLength(b) = n
      <4>1. ReadUInt64(Drop(b, 2)) = n
        BY <3>1, <3>3, <1>6 DEF n
      <4> QED
        BY <3>1, <4>1 DEF PayloadLength
    <3> QED
      BY <3>4 DEF ReadHeader, n
  <2> QED
    BY <2>1, <2>2, <2>3, FrameFields
<1>11. ReadHeader(b).mask = f.mask
  BY <1>8, <1>9 DEF ReadHeader
<1>12. ReadHeader(b).fin = f.fin /\ ReadHeader(b).opcode = f.opcode
  BY <1>7 DEF ReadHeader
<1>13. ReadHeader(b) = HeaderOf(f)
  BY <1>10, <1>11, <1>12 DEF ReadHeader, HeaderOf
<1> QED
  BY <1>5, <1>8, <1>13 DEF two

(* What decode() makes of the bytes it has, when a frame comes next.       *)
LEMMA HeaderAhead ==
  ASSUME NEW f \in Frame, NEW b \in Seq(Byte), NEW w \in Seq(Byte), NEW rest \in Seq(Byte),
         b # <<>>, b \o w = Encode(f) \o rest
  PROVE  /\ Rsv(b) = f.rsv
         /\ HeaderWants(b) = 0 =>
              /\ ReadHeader(b) = HeaderOf(f)
              /\ Drop(b, HeaderSize(b)) \in Seq(Byte)
              /\ IsCut(Masked(f.payload, f.mask) \o rest, Drop(b, HeaderSize(b)), w)
<1> DEFINE h == EncodeHeader(f)
           m == Masked(f.payload, f.mask)
           r == m \o rest
<1>0. ASSUME NEW u \in Seq(Byte), NEW c, IsCut(c, h, u)
      PROVE  ReadHeader(c) = HeaderOf(f) /\ c[1] = FirstTwo(f)[1] /\ c[2] = FirstTwo(f)[2]
  <2>1. c = EncodeHeader(f) \o u
    BY <1>0 DEF IsCut
  <2> QED
    BY <2>1, HeaderDecoded
<1>1. h \in Seq(Byte) /\ Len(h) = 2 + ExtensionSize(f) + Len(f.mask) /\ Len(h) >= 2
  <2>1. ExtensionSize(f) \in Nat /\ Len(f.mask) \in Nat
    BY FrameFields DEF ExtensionSize
  <2> QED
    BY <2>1, EncodeHeaderType
<1>2. m \in Seq(Byte)
  BY FrameFields, MaskedType
<1>3. h[1] = FirstTwo(f)[1] /\ h[2] = FirstTwo(f)[2]
  <2>1. PICK e \in Seq(Byte) : IsCut(h, h, e)
    <3>1. <<>> \in Seq(Byte) /\ h = h \o <<>>
      BY <1>1
    <3> QED
      BY <3>1 DEF IsCut
  <2> HIDE DEF h
  <2> QED
    BY <2>1, <1>0
<1>4. Encode(f) = h \o m
  BY DEF Encode
<1> HIDE DEF h, m
<1>5. b \o w = h \o r /\ r \in Seq(Byte)
  <2>1. (h \o m) \o rest = h \o (m \o rest)
    BY <1>1, <1>2, Assoc
  <2>2. m \o rest \in Seq(Byte)
    BY <1>2
  <2> QED
    BY <1>4, <2>1, <2>2
<1>6. Len(b) \in Nat /\ Len(b) >= 1
  <2>1. Len(b) # 0 /\ Len(b) \in Nat
    BY EmptySeq
  <2> QED
    BY <2>1
<1> HIDE DEF r
<1>7. b[1] = FirstTwo(f)[1]
  BY <1>1, <1>3, <1>5, <1>6, FrontOfBoth
<1>8. Rsv(b) = f.rsv
  BY <1>7, FirstByte
<1>9. ASSUME HeaderWants(b) = 0
      PROVE  /\ ReadHeader(b) = HeaderOf(f)
             /\ Drop(b, HeaderSize(b)) \in Seq(Byte)
             /\ IsCut(r, Drop(b, HeaderSize(b)), w)
  <2>1. Len(b) >= 2
    BY <1>6, <1>9 DEF HeaderWants
  <2>2. b[2] = FirstTwo(f)[2]
    BY <1>1, <1>3, <1>5, <2>1, FrontOfBoth
  <2>3. /\ IsMasked(b) <=> f.mask # <<>>
        /\ ExtendedBytes(b) = ExtensionSize(f)
        /\ HeaderSize(b) = Len(h)
    BY <2>2, SecondByte DEF h
  <2>4. Len(h) <= Len(b)
    <3>1. ExtensionSize(f) \in Nat
      BY DEF ExtensionSize
    <3>2. Len(b) >= 2 + ExtensionSize(f)
      <4>1. ~(Len(b) < 2) /\ 2 + ExtensionSize(f) # 0
        BY <2>1, <1>6, <3>1
      <4> QED
        BY <4>1, <1>6, <1>9, <2>3, <3>1 DEF HeaderWants
    <3>3. IsMasked(b) => Len(b) >= 2 + ExtensionSize(f) + 4
      <4>1. ~(Len(b) < 2) /\ ~(Len(b) < 2 + ExtensionSize(f)) /\ 2 + ExtensionSize(f) + 4 # 0
        BY <2>1, <1>6, <3>1, <3>2
      <4> QED
        BY <4>1, <1>6, <1>9, <2>3, <3>1 DEF HeaderWants
    <3>4. CASE f.mask = <<>>
      BY <3>4, <3>2, <1>1, <3>1, FrameFields
    <3>5. CASE f.mask # <<>>
      <4>1. Len(f.mask) = 4
        BY <3>5, FrameFields
      <4> QED
        BY <4>1, <3>5, <3>3, <2>3, <1>1
    <3> QED
      BY <3>4, <3>5
  <2>0. h \in Seq(Byte) /\ IsCut(b \o w, b, w) /\ IsCut(b \o w, h, r)
    BY <1>1, <1>5 DEF IsCut
  <2>5. /\ FirstOf(b, Len(h)) = h
        /\ Drop(b, Len(h)) \in Seq(Byte)
        /\ IsCut(b, h, Drop(b, Len(h)))
        /\ IsCut(r, Drop(b, Len(h)), w)
    BY <2>0, <1>5, <2>4, CutTwice
  <2>6. ReadHeader(b) = HeaderOf(f)
    BY <2>5, <1>0
  <2> QED
    BY <2>3, <2>5, <2>6
<1> QED
  BY <1>8, <1>9 DEF r, m

(* The sizes of a frame as decode() counts them.                            *)
LEMMA FrameSize ==
  ASSUME NEW f \in Frame
  PROVE  /\ Len(EncodeHeader(f)) \in Nat /\ Len(EncodeHeader(f)) >= 2
         /\ Len(f.payload) \in Nat
         /\ SizeLeft(f, TRUE) = Len(f.payload) /\ SizeLeft(f, TRUE) \in Nat
         /\ SizeLeft(f, FALSE) \in Nat /\ SizeLeft(f, FALSE) >= 2
         /\ Len(EncodeHeader(f)) <= SizeLeft(f, FALSE)
<1> DEFINE h == EncodeHeader(f)
           m == Masked(f.payload, f.mask)
           e == Encode(f)
<1>1. h \in Seq(Byte) /\ Len(h) >= 2
  <2>1. ExtensionSize(f) \in Nat /\ Len(f.mask) \in Nat
    BY FrameFields DEF ExtensionSize
  <2> QED
    BY <2>1, EncodeHeaderType
<1>2. m \in Seq(Byte) /\ Len(m) = Len(f.payload)
  BY FrameFields, MaskedType
<1>3. HeaderSize(e) = Len(h)
  <2>1. e = EncodeHeader(f) \o m
    BY DEF Encode
  <2> HIDE DEF m, e
  <2> QED
    BY <1>2, <2>1, HeaderDecoded
<1>4. e = h \o m
  BY DEF Encode
<1> HIDE DEF h, m, e
<1>5. Len(e) = Len(h) + Len(m) /\ Len(h) \in Nat /\ Len(m) \in Nat
  BY <1>1, <1>2, <1>4, Joined
<1>6. SizeLeft(f, TRUE) = Len(e) - Len(h) /\ SizeLeft(f, FALSE) = Len(e) - 0
  BY <1>3 DEF SizeLeft, e
<1> DEFINE known == SizeLeft(f, TRUE)
           all == SizeLeft(f, FALSE)
           k == Len(f.payload)
           x == Len(h)
           y == Len(e)
<1>7. x \in Nat /\ x >= 2 /\ k \in Nat /\ y = x + k /\ known = y - x /\ all = y - 0
  BY <1>1, <1>2, <1>5, <1>6
<1> HIDE DEF known, all, k, x, y
<1>8. known = k /\ all \in Nat /\ all >= 2 /\ x <= all
  BY <1>7
<1> QED
  BY <1>7, <1>8 DEF known, all, k, x, h

(* As long as a header is incomplete decode() asks for bytes that belong   *)
(* to it, and for more than it has.                                        *)
LEMMA HeaderWaits ==
  ASSUME NEW f \in Frame, NEW b \in Seq(Byte), NEW w \in Seq(Byte), NEW rest \in Seq(Byte),
         b # <<>>, b \o w = Encode(f) \o rest, HeaderWants(b) # 0
  PROVE  /\ HeaderWants(b) \in Nat
         /\ Len(b) < HeaderWants(b)
         /\ HeaderWants(b) <= Len(EncodeHeader(f))
<1> DEFINE h == EncodeHeader(f)
           m == Masked(f.payload, f.mask)
           r == m \o rest
           x == ExtensionSize(f)
<1>1. /\ h \in Seq(Byte) /\ Len(h) = 2 + x + Len(f.mask)
      /\ x \in Nat /\ Len(f.mask) \in Nat
  <2>1. x \in Nat /\ Len(f.mask) \in Nat
    BY FrameFields DEF ExtensionSize
  <2> QED
    BY <2>1, EncodeHeaderType
<1>2. m \in Seq(Byte)
  BY FrameFields, MaskedType
<1>3. Len(b) \in Nat
  OBVIOUS
<1>4. CASE Len(b) < 2
  <2>1. HeaderWants(b) = 2
    BY <1>4 DEF HeaderWants
  <2> DEFINE k == Len(f.mask)
             n == Len(b)
             y == Len(h)
  <2>2. y = 2 + x + k /\ x \in Nat /\ k \in Nat /\ n \in Nat /\ n < 2
    BY <1>1, <1>3, <1>4
  <2> HIDE DEF x, y, k, n
  <2>3. n < 2 /\ 2 <= y
    BY <2>2
  <2> QED
    BY <2>1, <2>3 DEF h, y, n
<1>5. CASE Len(b) >= 2
  <2>1. b \o w = h \o r /\ r \in Seq(Byte)
    <3>1. Encode(f) = h \o m
      BY DEF Encode
    <3> HIDE DEF h, m
    <3>2. (h \o m) \o rest = h \o (m \o rest)
      BY <1>1, <1>2, Assoc
    <3>3. m \o rest \in Seq(Byte)
      BY <1>2
    <3> QED
      BY <3>1, <3>2, <3>3
  <2>2. h[2] = FirstTwo(f)[2]
    <3>1. ASSUME NEW u \in Seq(Byte), NEW c, IsCut(c, h, u) PROVE c[2] = FirstTwo(f)[2]
      <4>1. c = EncodeHeader(f) \o u
        BY <3>1 DEF IsCut
      <4> QED
        BY <4>1, HeaderDecoded
    <3>2. PICK u \in Seq(Byte) : IsCut(h, h, u)
      <4>1. <<>> \in Seq(Byte) /\ h = h \o <<>>
        BY <1>1
      <4> QED
        BY <4>1 DEF IsCut
    <3> HIDE DEF h
    <3> QED
      BY <3>1, <3>2
  <2>3. b[2] = h[2]
    <3> DEFINE k == Len(f.mask)
               y == Len(h)
    <3>1. y = 2 + x + k /\ x \in Nat /\ k \in Nat
      BY <1>1
    <3> HIDE DEF x, y, k
    <3>2. y >= 2
      BY <3>1
    <3>3. Len(h) >= 2
      BY <3>2 DEF y
    <3>4. h \in Seq(Byte)
      BY <1>1
    <3> HIDE DEF h, r
    <3> QED
      BY <1>3, <1>5, <2>1, <3>3, <3>4, FrontOfBoth
  <2>4. (IsMasked(b) <=> f.mask # <<>>) /\ ExtendedBytes(b) = x
    BY <2>2, <2>3, SecondByte
  <2> HIDE DEF h, x
  <2>5. CASE Len(b) < 2 + x
    <3>1. HeaderWants(b) = 2 + x
      BY <1>1, <1>3, <1>5, <2>4, <2>5 DEF HeaderWants
    <3> DEFINE k == Len(f.mask)
               y == Len(h)
    <3>2. y = 2 + x + k /\ x \in Nat /\ k \in Nat
      BY <1>1
    <3> HIDE DEF y, k
    <3>3. 2 + x <= y /\ 2 + x \in Nat
      BY <3>2
    <3> QED
      BY <2>5, <3>1, <3>3 DEF h, y
  <2>6. CASE ~(Len(b) < 2 + x)
    <3>1. IsMasked(b) /\ Len(b) < 2 + x + 4 /\ HeaderWants(b) = 2 + x + 4
      BY <1>1, <1>3, <1>5, <2>4, <2>6 DEF HeaderWants
    <3>2. Len(f.mask) = 4
      BY <2>4, <3>1, FrameFields
    <3>3. Len(h) = 2 + x + 4
      BY <1>1, <3>2
    <3>4. 2 + x + 4 \in Nat /\ 2 + x + 4 <= 2 + x + 4
      BY <1>1
    <3> QED
      BY <3>1, <3>3, <3>4 DEF h
  <2> QED
    BY <2>5, <2>6
<1> QED
  BY <1>3, <1>4, <1>5

LEMMA PayloadAhead ==
  ASSUME NEW f \in Frame, NEW b \in Seq(Byte), NEW w \in Seq(Byte), NEW rest \in Seq(Byte),
         IsCut(Masked(f.payload, f.mask) \o rest, b, w), Len(f.payload) <= Len(b)
  PROVE  /\ Masked(FirstOf(b, Len(f.payload)), f.mask) = f.payload
         /\ Drop(b, Len(f.payload)) \in Seq(Byte)
         /\ IsCut(rest, Drop(b, Len(f.payload)), w)
<1> DEFINE m == Masked(f.payload, f.mask)
           all == m \o rest
<1>0. m \in Seq(Byte)
  BY FrameFields, MaskedType
<1>1. Len(m) = Len(f.payload)
  BY FrameFields, MaskedType
<1>2. Masked(m, f.mask) = f.payload
  BY FrameFields, MaskedTwice
<1>3. IsCut(all, b, w) /\ IsCut(all, m, rest) /\ Len(m) <= Len(b)
  BY <1>1 DEF IsCut
<1> HIDE DEF m, all
<1>4. FirstOf(b, Len(m)) = m /\ Drop(b, Len(m)) \in Seq(Byte) /\ IsCut(rest, Drop(b, Len(m)), w)
  BY <1>0, <1>3, CutTwice
<1> QED
  BY <1>1, <1>2, <1>4

(* Induction over the natural numbers with a set in place of a predicate:  *)
(* among the intervals that end at a counterexample one is minimal.        *)
LEMMA SetInduction ==
  ASSUME NEW T, 0 \in T, \A n \in Nat : n \in T => n + 1 \in T
  PROVE  Nat \subseteq T
<1> DEFINE R == StrictSubsetOrdering(Nat)
           F == FiniteSubsetsOf(Nat)
           U == {1..n : n \in Nat \ T}
<1>1. SUFFICES ASSUME U # {} PROVE FALSE
  OBVIOUS
<1>2. U \subseteq F
  <2> SUFFICES ASSUME NEW n \in Nat \ T PROVE 1..n \in F
    OBVIOUS
  <2>1. 1..n \in SUBSET Nat
    OBVIOUS
  <2>2. IsFiniteSet(1..n)
    BY FS_Interval
  <2> QED
    BY <2>1, <2>2 DEF FiniteSubsetsOf
<1>3. IsWellFoundedOn(R, F)
  BY FS_StrictSubsetOrderingWellFounded
<1>4. \E x \in U : \A y \in U : ~ (<<y, x>> \in R)
  <2> HIDE DEF U, R, F
  <2> QED
    BY <1>1, <1>2, <1>3, WFMin
<1>5. PICK m \in Nat \ T : \A n \in Nat \ T : ~ (<<1..n, 1..m>> \in R)
  BY <1>4
<1>6. m # 0 /\ m \in Nat /\ m - 1 \in Nat
  BY <1>5
<1>7. /\ 1 .. m - 1 \in SUBSET Nat /\ 1..m \in SUBSET Nat
      /\ 1 .. m - 1 \subseteq 1..m
      /\ m \in 1..m /\ m \notin 1 .. m - 1
  BY <1>6
<1>8. <<1 .. m - 1, 1..m>> \in R
  BY <1>7 DEF StrictSubsetOrdering
<1>9. m - 1 \in T
  BY <1>5, <1>6, <1>8
<1>10. (m - 1) + 1 \in T
  BY <1>6, <1>9
<1> QED
  BY <1>6, <1>5, <1>10

(* The bytes of all frames from each on. *)
Suffixes(fs, g) ==
  g = [i \in 1..Len(fs) + 1 |-> IF i > Len(fs) THEN <<>> ELSE Encode(fs[i]) \o g[i + 1]]
Shift(g, n) == [i \in 1..n |-> g[i + 1]]

LEMMA SuffixesTail ==
  ASSUME NEW fs \in Seq(Frame), fs # <<>>, NEW g, Suffixes(fs, g)
  PROVE  /\ Suffixes(Tail(fs), Shift(g, Len(fs)))
         /\ g[1] = Encode(Head(fs)) \o Shift(g, Len(fs))[1]
<1> DEFINE n == Len(fs)
           t == Tail(fs)
           h == Shift(g, n)
<1>1. n \in Nat /\ n >= 1
  <2>1. n \in Nat \ {0}
    BY EmptySeq
  <2> QED
    BY <2>1
<1>2. Len(t) + 1 = n /\ \A i \in 1..Len(t) : t[i] = fs[i + 1]
  BY <1>1, HeadTailProperties
<1>3. Head(fs) = fs[1]
  OBVIOUS
<1>4. g = [i \in 1..n + 1 |-> IF i > n THEN <<>> ELSE Encode(fs[i]) \o g[i + 1]]
  BY DEF Suffixes
<1> HIDE DEF n, t
<1>5. ASSUME NEW i \in 1..n + 1
      PROVE  g[i] = IF i > n THEN <<>> ELSE Encode(fs[i]) \o g[i + 1]
  BY <1>4, Zenon
<1>6. ASSUME NEW i \in 1..n
      PROVE  h[i] = IF i > Len(t) THEN <<>> ELSE Encode(t[i]) \o h[i + 1]
  <2>0. h[i] = g[i + 1] /\ i + 1 \in 1..n + 1 /\ i \in Nat
    BY <1>1 DEF Shift
  <2>1. CASE i = n
    <3>1. i > Len(t) /\ i + 1 > n
      BY <2>1, <1>1, <1>2
    <3> QED
      BY <3>1, <2>0, <1>5
  <2>2. CASE i # n
    <3>1. ~(i > Len(t)) /\ ~(i + 1 > n) /\ i \in 1..Len(t) /\ i + 1 \in 1..n
      BY <2>2, <1>1, <1>2
    <3>2. g[i + 1] = Encode(fs[i + 1]) \o g[(i + 1) + 1]
      BY <2>0, <3>1, <1>5
    <3>3. h[i + 1] = g[(i + 1) + 1]
      BY <3>1 DEF Shift
    <3>4. t[i] = fs[i + 1]
      BY <3>1, <1>2
    <3> QED
      BY <2>0, <3>1, <3>2, <3>3, <3>4
  <2> QED
    BY <2>1, <2>2
<1>7. h = [i \in 1..n |-> IF i > Len(t) THEN <<>> ELSE Encode(t[i]) \o h[i + 1]]
  <2>1. h = [i \in 1..n |-> h[i]]
    BY DEF Shift
  <2> HIDE DEF h
  <2>2. [i \in 1..n |-> h[i]] = [i \in 1..n |-> IF i > Len(t) THEN <<>> ELSE Encode(t[i]) \o h[i + 1]]
    BY <1>6, Zenon
  <2> QED
    BY <2>1, <2>2, Zenon
<1>8. Suffixes(t, h)
  <2> HIDE DEF h
  <2>1. Len(t) + 1 = n
    BY <1>2
  <2> QED
    BY <1>7, <2>1 DEF Suffixes
<1>9. g[1] = Encode(fs[1]) \o h[1]
  <2>1. 1 \in 1..n + 1 /\ ~(1 > n) /\ 1 \in 1..n
    BY <1>1
  <2>2. g[1] = Encode(fs[1]) \o g[1 + 1]
    BY <2>1, <1>5
  <2>3. h[1] = g[1 + 1]
    BY <2>1 DEF Shift
  <2> QED
    BY <2>2, <2>3
<1> QED
  BY <1>3, <1>8, <1>9 DEF n, t

LEMMA SuffixesExist ==
  ASSUME NEW fs \in Seq(Frame), fs # <<>>, NEW h, Suffixes(Tail(fs), h)
  PROVE  \E g : Suffixes(fs, g)
<1> DEFINE n == Len(fs)
           t == Tail(fs)
           g == [i \in 1..n + 1 |-> IF i = 1 THEN Encode(fs[1]) \o h[1] ELSE h[i - 1]]
<1>1. n \in Nat /\ n >= 1
  <2>1. n \in Nat \ {0}
    BY EmptySeq
  <2> QED
    BY <2>1
<1>2. Len(t) + 1 = n /\ \A i \in 1..Len(t) : t[i] = fs[i + 1]
  BY <1>1, HeadTailProperties
<1>4. h = [i \in 1..n |-> IF i > Len(t) THEN <<>> ELSE Encode(t[i]) \o h[i + 1]]
  <2>1. h = [i \in 1..Len(t) + 1 |-> IF i > Len(t) THEN <<>> ELSE Encode(t[i]) \o h[i + 1]]
    BY DEF Suffixes
  <2>2. Len(t) + 1 = n
    BY <1>2
  <2> HIDE DEF n, t
  <2> QED
    BY <2>1, <2>2
<1> HIDE DEF n, t
<1>5. ASSUME NEW i \in 1..n
      PROVE  h[i] = IF i > Len(t) THEN <<>> ELSE Encode(t[i]) \o h[i + 1]
  BY <1>4, Zenon
<1>6. ASSUME NEW i \in 1..n + 1
      PROVE  g[i] = IF i > n THEN <<>> ELSE Encode(fs[i]) \o g[i + 1]
  <2>1. CASE i = 1
    <3>1. ~(i > n) /\ 2 \in 1..n + 1 /\ 2 # 1 /\ i + 1 = 2 /\ 2 - 1 = 1
      BY <2>1, <1>1
    <3>2. g[2] = h[1]
      BY <3>1
    <3> QED
      BY <2>1, <3>1, <3>2
  <2>2. CASE i # 1
    <3> DEFINE j == i - 1
    <3>1. j \in 1..n /\ i = j + 1 /\ j \in Nat /\ (i > n <=> j > Len(t))
      BY <2>2, <1>1, <1>2
    <3>2. g[i] = h[j]
      BY <2>2
    <3>3. CASE i > n
      BY <3>1, <3>2, <3>3, <1>5
    <3>4. CASE ~(i > n)
      <4>1. j \in 1..Len(t) /\ i + 1 \in 1..n + 1 /\ i + 1 # 1 /\ (i + 1) - 1 = j + 1
        BY <3>4, <3>1, <1>1, <1>2
      <4>2. h[j] = Encode(t[j]) \o h[j + 1]
        BY <3>1, <3>4, <1>5
      <4>3. t[j] = fs[i]
        BY <4>1, <3>1, <1>2
      <4>4. g[i + 1] = h[j + 1]
        BY <4>1
      <4> HIDE DEF j, g
      <4> QED
        BY <3>2, <3>4, <4>2, <4>3, <4>4
    <3> QED
      BY <3>3, <3>4
  <2> QED
    BY <2>1, <2>2
<1>7. g = [i \in 1..n + 1 |-> IF i > n THEN <<>> ELSE Encode(fs[i]) \o g[i + 1]]
  <2>1. g = [i \in 1..n + 1 |-> g[i]]
    OBVIOUS
  <2> HIDE DEF g
  <2>2. [i \in 1..n + 1 |-> g[i]] = [i \in 1..n + 1 |-> IF i > n THEN <<>> ELSE Encode(fs[i]) \o g[i + 1]]
    BY <1>6, Zenon
  <2> QED
    BY <2>1, <2>2, Zenon
<1>8. Suffixes(fs, g)
  <2> HIDE DEF g
  <2> QED
    BY <1>7 DEF Suffixes, n
<1> QED
  BY <1>8

LEMMA SuffixesOfNone ==
  ASSUME NEW fs \in Seq(Frame), fs = <<>>
  PROVE  \A g : Suffixes(fs, g) <=> g = [i \in 1..1 |-> <<>>]
<1>1. Len(fs) = 0
  OBVIOUS
<1>2. TAKE g
<1>3. [i \in 1..1 |-> IF i > 0 THEN <<>> ELSE Encode(fs[i]) \o g[i + 1]] = [i \in 1..1 |-> <<>>]
  <2>1. \A i \in 1..1 : i > 0
    OBVIOUS
  <2>2. \A i \in 1..1 : (IF i > 0 THEN <<>> ELSE Encode(fs[i]) \o g[i + 1]) = <<>>
    BY <2>1, Zenon
  <2> QED
    BY <2>2, Zenon
<1>4. Suffixes(fs, g) <=> g = [i \in 1..0 + 1 |-> IF i > 0 THEN <<>> ELSE Encode(fs[i]) \o g[i + 1]]
  BY <1>1, Zenon DEF Suffixes
<1>5. 0 + 1 = 1
  OBVIOUS
<1> QED
  BY <1>3, <1>4, <1>5, Zenon

LEMMA SameSuffixes ==
  ASSUME NEW fs \in Seq(Frame), fs # <<>>, NEW g, NEW h, Suffixes(fs, g), Suffixes(fs, h),
         Shift(g, Len(fs)) = Shift(h, Len(fs))
  PROVE  g = h
<1> DEFINE n == Len(fs)
<1>1. n \in Nat
  OBVIOUS
<1>2. g[1] = h[1]
  <2>1. g[1] = Encode(Head(fs)) \o Shift(g, Len(fs))[1]
    BY SuffixesTail
  <2>2. h[1] = Encode(Head(fs)) \o Shift(h, Len(fs))[1]
    BY SuffixesTail
  <2> QED
    BY <2>1, <2>2, Zenon
<1>3. ASSUME NEW i \in 1..n + 1 PROVE g[i] = h[i]
  <2>1. CASE i = 1
    BY <1>2, <2>1
  <2>2. CASE i # 1
    <3> DEFINE j == i - 1
    <3>1. j \in 1..n /\ j + 1 = i
      BY <1>1, <2>2
    <3> HIDE DEF j, n
    <3>2. Shift(g, n)[j] = g[j + 1] /\ Shift(h, n)[j] = h[j + 1]
      BY <3>1 DEF Shift
    <3> QED
      BY <3>1, <3>2 DEF n
  <2> QED
    BY <2>1, <2>2
<1>4. g = [i \in 1..n + 1 |-> g[i]] /\ h = [i \in 1..n + 1 |-> h[i]]
  BY DEF Suffixes
<1> HIDE DEF n
<1> QED
  BY <1>3, <1>4, Zenon

(* There is exactly one function as EncodeAll defines it. *)
LEMMA SuffixesUnique ==
  ASSUME NEW fs \in Seq(Frame)
  PROVE  /\ \E g : Suffixes(fs, g)
         /\ \A g, h : Suffixes(fs, g) /\ Suffixes(fs, h) => g = h
<1> DEFINE Good(s) == /\ \E g : Suffixes(s, g)
                      /\ \A g, h : Suffixes(s, g) /\ Suffixes(s, h) => g = h
           T == {n \in Nat : \A s \in Seq(Frame) : Len(s) = n => Good(s)}
<1>1. 0 \in T
  <2> SUFFICES ASSUME NEW s \in Seq(Frame), Len(s) = 0 PROVE Good(s)
    OBVIOUS
  <2>1. s = <<>>
    BY EmptySeq
  <2> QED
    BY <2>1, SuffixesOfNone, Zenon
<1>2. ASSUME NEW n \in Nat, n \in T PROVE n + 1 \in T
  <2> SUFFICES ASSUME NEW s \in Seq(Frame), Len(s) = n + 1 PROVE Good(s)
    OBVIOUS
  <2>0. Len(s) # 0
    OBVIOUS
  <2>1. s # <<>>
    BY <2>0, EmptySeq
  <2>2. Tail(s) \in Seq(Frame) /\ Len(Tail(s)) = n
    BY <2>1, HeadTailProperties
  <2>3. Good(Tail(s))
    BY <1>2, <2>2
  <2>4. \E g : Suffixes(s, g)
    BY <2>1, <2>3, SuffixesExist
  <2>5. ASSUME NEW g, NEW h, Suffixes(s, g), Suffixes(s, h) PROVE g = h
    <3>1. Suffixes(Tail(s), Shift(g, Len(s))) /\ Suffixes(Tail(s), Shift(h, Len(s)))
      BY <2>1, <2>5, SuffixesTail
    <3>2. Shift(g, Len(s)) = Shift(h, Len(s))
      BY <2>3, <3>1, Zenon
    <3> QED
      BY <2>1, <2>5, <3>2, SameSuffixes
  <2> QED
    BY <2>4, <2>5
<1>3. Nat \subseteq T
  <2> HIDE DEF T
  <2> QED
    BY <1>1, <1>2, SetInduction
<1>4. Len(fs) \in T
  <2>1. Len(fs) \in Nat
    OBVIOUS
  <2> QED
    BY <1>3, <2>1
<1> QED
  BY <1>4

LEMMA EncodeAllIs ==
  ASSUME NEW fs \in Seq(Frame)
  PROVE  \E g : Suffixes(fs, g) /\ EncodeAll(fs) = g[1]
<1> DEFINE from == CHOOSE g : g = [i \in 1..Len(fs) + 1 |-> IF i > Len(fs) THEN <<>> ELSE Encode(fs[i]) \o g[i + 1]]
<1>1. EncodeAll(fs) = from[1]
  BY DEF EncodeAll
<1>2. \E g : g = [i \in 1..Len(fs) + 1 |-> IF i > Len(fs) THEN <<>> ELSE Encode(fs[i]) \o g[i + 1]]
  BY SuffixesUnique DEF Suffixes
<1>3. from = [i \in 1..Len(fs) + 1 |-> IF i > Len(fs) THEN <<>> ELSE Encode(fs[i]) \o from[i + 1]]
  BY <1>2
<1> HIDE DEF from
<1>4. Suffixes(fs, from)
  BY <1>3 DEF Suffixes
<1> QED
  BY <1>1, <1>4

(* The bytes of a sequence of frames: those of the first, and the others'. *)
LEMMA EncodeAllNone == EncodeAll(<<>>) = <<>>
<1>1. <<>> \in Seq(Frame)
  OBVIOUS
<1>2. PICK g : Suffixes(<<>>, g) /\ EncodeAll(<<>>) = g[1]
  BY <1>1, EncodeAllIs
<1>3. g = [i \in 1..1 |-> <<>>]
  BY <1>1, <1>2, SuffixesOfNone, Zenon
<1>4. 1 \in 1..1
  OBVIOUS
<1> QED
  BY <1>2, <1>3, <1>4, Zenon

LEMMA EncodeAllStep ==
  ASSUME NEW fs \in Seq(Frame), fs # <<>>
  PROVE  EncodeAll(fs) = Encode(Head(fs)) \o EncodeAll(Tail(fs))
<1>1. Tail(fs) \in Seq(Frame)
  BY HeadTailProperties
<1>2. PICK g : Suffixes(fs, g) /\ EncodeAll(fs) = g[1]
  BY EncodeAllIs
<1>3. PICK h : Suffixes(Tail(fs), h) /\ EncodeAll(Tail(fs)) = h[1]
  BY <1>1, EncodeAllIs
<1>4. Suffixes(Tail(fs), Shift(g, Len(fs))) /\ g[1] = Encode(Head(fs)) \o Shift(g, Len(fs))[1]
  BY <1>2, SuffixesTail
<1>5. h = Shift(g, Len(fs))
  BY <1>1, <1>3, <1>4, SuffixesUnique
<1> QED
  BY <1>2, <1>3, <1>4, <1>5, Zenon

LEMMA EncodeAllType ==
  ASSUME NEW fs \in Seq(Frame)
  PROVE  EncodeAll(fs) \in Seq(Byte)
<1> DEFINE T == {n \in Nat : \A s \in Seq(Frame) : Len(s) = n => EncodeAll(s) \in Seq(Byte)}
<1>1. 0 \in T
  <2> SUFFICES ASSUME NEW s \in Seq(Frame), Len(s) = 0 PROVE EncodeAll(s) \in Seq(Byte)
    OBVIOUS
  <2>1. s = <<>>
    BY EmptySeq
  <2> QED
    BY <2>1, EncodeAllNone, EmptySeq, Zenon
<1>2. ASSUME NEW n \in Nat, n \in T PROVE n + 1 \in T
  <2> SUFFICES ASSUME NEW s \in Seq(Frame), Len(s) = n + 1 PROVE EncodeAll(s) \in Seq(Byte)
    OBVIOUS
  <2>0. Len(s) # 0
    OBVIOUS
  <2>1. s # <<>>
    BY <2>0, EmptySeq
  <2>2. Head(s) \in Frame /\ Tail(s) \in Seq(Frame) /\ Len(Tail(s)) = n
    BY <2>1, HeadTailProperties
  <2>3. EncodeAll(Tail(s)) \in Seq(Byte)
    BY <1>2, <2>2
  <2>4. Encode(Head(s)) \in Seq(Byte)
    BY <2>2, EncodeType
  <2> QED
    BY <2>1, <2>3, <2>4, EncodeAllStep, Joined
<1>3. Nat \subseteq T
  <2> HIDE DEF T
  <2> QED
    BY <1>1, <1>2, SetInduction
<1>4. Len(fs) \in T
  <2>1. Len(fs) \in Nat
    OBVIOUS
  <2> QED
    BY <1>3, <2>1
<1> QED
  BY <1>4

LEMMA TwoSingles == ASSUME NEW x \in Byte, NEW y \in Byte PROVE <<x>> \o <<y>> = <<x, y>>
<1> DEFINE a == <<x>>
           c == <<y>>
           s == a \o c
           t == <<x, y>>
<1>1. a \in Seq(Byte) /\ c \in Seq(Byte) /\ t \in Seq(Byte)
  OBVIOUS
<1>2. Len(a) = 1 /\ Len(c) = 1 /\ Len(t) = 2 /\ a[1] = x /\ c[1] = y /\ t[1] = x /\ t[2] = y
  OBVIOUS
<1> HIDE DEF a, c, t
<1>3. /\ s \in Seq(Byte) /\ Len(s) = Len(a) + Len(c)
      /\ \A i \in 1..Len(a) : s[i] = a[i]
      /\ \A i \in 1..Len(c) : s[Len(a) + i] = c[i]
  BY <1>1, Joined
<1> HIDE DEF s
<1>4. Len(s) = 2 /\ s[1] = x /\ s[2] = y
  BY <1>2, <1>3
<1>5. \A i \in 1..2 : s[i] = t[i]
  BY <1>2, <1>4
<1>6. s = t
  BY <1>1, <1>2, <1>3, <1>4, <1>5, SeqEqual
<1> QED
  BY <1>6 DEF s, a, c, t

LEMMA ReadBack ==
  ASSUME NEW n \in Nat, n < 65536
  PROVE  ReadUInt16(PutUInt16(n)) = n
<1> DEFINE b == PutUInt16(n)
           hi == (n \div 256) % 256
           lo == n % 256
<1>1. b[1] = hi /\ b[2] = lo
  BY DEF PutUInt16
<1>2. 256 * hi + lo = n
  OBVIOUS
<1> HIDE DEF b, hi, lo
<1> QED
  BY <1>1, <1>2 DEF ReadUInt16, b

(* Two bytes and what follows them. *)
LEMMA Prefixed ==
  ASSUME NEW x \in Byte, NEW y \in Byte, NEW ext \in Seq(Byte), NEW b, IsCut(b, <<x, y>>, ext)
  PROVE  /\ b \in Seq(Byte) /\ b # <<>>
         /\ b[1] = x /\ b[2] = y /\ Drop(b, 2) = ext
<1> DEFINE two == <<x, y>>
<1>1. two \in Seq(Byte)
  OBVIOUS
<1>2. Len(two) = 2 /\ two[1] = x /\ two[2] = y
  OBVIOUS
<1>3. b = two \o ext
  BY DEF IsCut
<1> HIDE DEF two
<1>4. /\ two \o ext \in Seq(Byte)
      /\ \A i \in 1..Len(two) : (two \o ext)[i] = two[i]
  BY <1>1, Joined
<1>5. 1 \in 1..Len(two) /\ 2 \in 1..Len(two)
  BY <1>2
<1>6. Drop(two \o ext, Len(two)) = ext
  BY <1>1, DropAfter
<1>7. two \o ext # <<>>
  <2>1. Len(two \o ext) = Len(two) + Len(ext) /\ Len(ext) \in Nat
    BY <1>1, Joined
  <2>2. Len(two \o ext) # 0
    BY <1>2, <2>1
  <2> QED
    BY <2>2, EmptySeq, Zenon
<1> QED
  BY <1>2, <1>3, <1>4, <1>5, <1>6, <1>7, Zenon

LEMMA CloseFrameIs ==
  ASSUME NEW code \in Nat, code < 65536
  PROVE  /\ CloseFrame(code) \in Seq(Byte)
         /\ CloseFrame(code) # <<>>
         /\ CloseFrame(code)[1] = 136
         /\ CloseFrame(code)[2] = 2
         /\ Drop(CloseFrame(code), 2) = PutUInt16(code)
<1>1. 136 \in Byte /\ 2 \in Byte
  BY DEF Byte
<1>3. PutUInt16(code) \in Seq(Byte)
  BY UInt16Bytes
<1>4. IsCut(CloseFrame(code), <<136, 2>>, PutUInt16(code))
  BY DEF CloseFrame, IsCut
<1> QED
  BY <1>1, <1>3, <1>4, Prefixed

(* What is sent is read as it was meant. *)
LEMMA CloseRead ==
  ASSUME NEW code \in Nat, code < 65536
  PROVE  FrameEvent(Sent(CloseFrame(code))) = Event("sentClose", <<code>>)
<1> DEFINE b == CloseFrame(code)
<1>1. b[1] = 136 /\ b[2] = 2 /\ Drop(b, 2) = PutUInt16(code)
  BY CloseFrameIs
<1>2. ReadUInt16(Drop(b, 2)) = code
  <2>1. ReadUInt16(PutUInt16(code)) = code
    BY ReadBack
  <2> DEFINE p == PutUInt16(code)
             d == Drop(b, 2)
  <2>2. d = p /\ ReadUInt16(p) = code
    BY <1>1, <2>1
  <2> HIDE DEF d, p
  <2>3. ReadUInt16(d) = code
    BY <2>2
  <2> QED
    BY <2>3 DEF d
<1> HIDE DEF b
<1>5. Opcode(b) = 8
  BY <1>1 DEF Opcode
<1>6. HeaderSize(b) = 2
  BY <1>1 DEF HeaderSize, ExtendedBytes, Length7, IsMasked, Flag
<1>8. Sent(b).what = "sent" /\ Sent(b).data = b
  BY DEF Sent, Event
<1>9. ReadHeader(b).opcode = 8
  BY <1>5 DEF ReadHeader
<1> QED
  BY <1>2, <1>6, <1>8, <1>9 DEF FrameEvent, b

LEMMA ControlFrameIs ==
  ASSUME NEW first \in {137, 138}, NEW message \in Seq(Byte), Len(message) < kControlLimit
  PROVE  /\ ControlFrame(first, message) \in Seq(Byte)
         /\ ControlFrame(first, message)[1] = first
         /\ ControlFrame(first, message)[2] = Len(message)
         /\ Drop(ControlFrame(first, message), 2) = message
<1> DEFINE n == Len(message)
<1>1. n \in Nat /\ n < 126
  BY DEF kControlLimit
<1> HIDE DEF n
<1>2. first \in Byte /\ n \in Byte
  BY <1>1 DEF Byte
<1>3. IsCut(ControlFrame(first, message), <<first, n>>, message)
  BY DEF ControlFrame, IsCut, n
<1> QED
  BY <1>2, <1>3, Prefixed DEF n

LEMMA ControlRead ==
  ASSUME NEW first \in {137, 138}, NEW message \in Seq(Byte), Len(message) < kControlLimit
  PROVE  FrameEvent(Sent(ControlFrame(first, message)))
           = Event(IF first = 137 THEN "sentPing" ELSE "sentPong", message)
<1> DEFINE b == ControlFrame(first, message)
           n == Len(message)
<1>1. b[1] = first /\ b[2] = n /\ Drop(b, 2) = message
  BY ControlFrameIs
<1>2. n \in Nat /\ n < 126
  BY DEF kControlLimit
<1> HIDE DEF b, n
<1>3. Opcode(b) = first - 128
  BY <1>1 DEF Opcode
<1>4. HeaderSize(b) = 2
  <2>1. n % 128 = n /\ ~(n >= 128) /\ n # 126 /\ n # 127
    BY <1>2
  <2>2. ExtendedBytes(b) = 0
    BY <1>1, <2>1 DEF ExtendedBytes, Length7
  <2> QED
    BY <1>1, <2>1, <2>2 DEF HeaderSize, IsMasked, Flag
<1>5. Sent(b).what = "sent" /\ Sent(b).data = b
  BY DEF Sent, Event
<1>6. ReadHeader(b).opcode = first - 128
  BY <1>3 DEF ReadHeader
<1>7. CASE first = 137
  <2>1. ReadHeader(b).opcode = 9
    BY <1>6, <1>7
  <2> QED
    BY <1>1, <1>4, <1>5, <1>7, <2>1 DEF FrameEvent, b
<1>8. CASE first = 138
  <2>1. ReadHeader(b).opcode = 10
    BY <1>6, <1>8
  <2> QED
    BY <1>1, <1>4, <1>5, <1>8, <2>1 DEF FrameEvent, b
<1> QED
  BY <1>7, <1>8

LEMMA WriteHeaderIs ==
  ASSUME NEW opcode \in {1, 2}, NEW len \in UInt64
  PROVE  /\ WriteHeader(opcode, len) \in Seq(Byte)
         /\ WriteHeader(opcode, len)[1] = 128 + opcode
         /\ PayloadLength(WriteHeader(opcode, len)) = len
<1> DEFINE b == WriteHeader(opcode, len)
<1>1. len \in Nat /\ 128 + opcode \in Byte
  BY DEF UInt64, Byte
<1>2. CASE len < 126
  <2>0. len \in Byte
    BY <1>1, <1>2 DEF Byte
  <2>1. b = <<128 + opcode, len>>
    <3> DEFINE x == 128 + opcode
    <3>1. b = <<x>> \o <<len>>
      BY <1>2 DEF WriteHeader
    <3> HIDE DEF x
    <3>2. <<x>> \o <<len>> = <<x, len>>
      BY <1>1, <2>0, TwoSingles DEF x
    <3> QED
      BY <3>1, <3>2, Zenon DEF x
  <2>2. b \in Seq(Byte) /\ b[1] = 128 + opcode /\ b[2] = len
    BY <1>1, <2>0, <2>1
  <2> HIDE DEF b
  <2>3. len % 128 = len /\ len # 126 /\ len # 127
    BY <1>1, <1>2
  <2>4. Length7(b) = len
    BY <2>2, <2>3 DEF Length7
  <2>5. ExtendedBytes(b) = 0
    BY <2>3, <2>4 DEF ExtendedBytes
  <2>6. PayloadLength(b) = len
    BY <2>4, <2>5 DEF PayloadLength
  <2> QED
    BY <2>2, <2>6 DEF b
<1>3. CASE ~(len < 126) /\ len <= 65535
  <2> DEFINE ext == PutUInt16(len)
             x == 128 + opcode
  <2>0. 126 \in Byte
    BY DEF Byte
  <2>2. ext \in Seq(Byte)
    BY <1>1, UInt16Bytes
  <2>3. IsCut(b, <<x, 126>>, ext)
    <3>1. b = <<x>> \o (<<126>> \o ext)
      BY <1>3 DEF WriteHeader
    <3> HIDE DEF ext, x, b
    <3>2. <<x>> \o (<<126>> \o ext) = <<x, 126>> \o ext
      BY <1>1, <2>0, <2>2 DEF x
    <3> QED
      BY <3>1, <3>2 DEF IsCut
  <2>4. x \in Byte
    BY <1>1
  <2> HIDE DEF ext, b
  <2>5. b \in Seq(Byte) /\ b[1] = x /\ b[2] = 126 /\ Drop(b, 2) = ext
    BY <2>0, <2>2, <2>3, <2>4, Prefixed
  <2>7. b[2] = 126
    BY <2>5
  <2>8. Drop(b, 2) = ext
    BY <2>5
  <2>9. ReadUInt16(ext) = len
    <3>1. len < 65536
      BY <1>1, <1>3
    <3> QED
      BY <1>1, <3>1, ReadBack DEF ext
  <2>10. ExtendedBytes(b) = 2
    BY <2>7 DEF ExtendedBytes, Length7
  <2>11. PayloadLength(b) = len
    BY <2>8, <2>9, <2>10 DEF PayloadLength
  <2> QED
    BY <2>5, <2>11 DEF b
<1>4. CASE ~(len <= 65535)
  <2> DEFINE ext == PutUInt64(len)
             x == 128 + opcode
  <2>0. 127 \in Byte
    BY DEF Byte
  <2>2. ext \in Seq(Byte)
    BY <1>1, UInt64Bytes
  <2>3. IsCut(b, <<x, 127>>, ext)
    <3>1. b = <<x>> \o (<<127>> \o ext)
      <4>1. ~(len < 126)
        BY <1>1, <1>4
      <4> QED
        BY <1>4, <4>1 DEF WriteHeader
    <3> HIDE DEF ext, x, b
    <3>2. <<x>> \o (<<127>> \o ext) = <<x, 127>> \o ext
      BY <1>1, <2>0, <2>2 DEF x
    <3> QED
      BY <3>1, <3>2 DEF IsCut
  <2>4. x \in Byte
    BY <1>1
  <2> HIDE DEF ext, b
  <2>5. b \in Seq(Byte) /\ b[1] = x /\ b[2] = 127 /\ Drop(b, 2) = ext
    BY <2>0, <2>2, <2>3, <2>4, Prefixed
  <2>7. b[2] = 127
    BY <2>5
  <2>8. Drop(b, 2) = ext
    BY <2>5
  <2>9. ReadUInt64(ext) = len
    <3>1. ReadUInt64(ext \o <<>>) = len
      BY ReadUInt64Put, EmptySeq DEF ext
    <3>2. ext \o <<>> = ext
      BY <2>2
    <3> QED
      BY <3>1, <3>2, Zenon
  <2>10. ExtendedBytes(b) = 8
    BY <2>7 DEF ExtendedBytes, Length7
  <2>11. PayloadLength(b) = len
    BY <2>8, <2>9, <2>10 DEF PayloadLength
  <2> QED
    BY <2>5, <2>11 DEF b
<1> QED
  BY <1>2, <1>3, <1>4

LEMMA HeaderRead ==
  ASSUME NEW opcode \in {1, 2}, NEW len \in UInt64
  PROVE  FrameEvent(Sent(WriteHeader(opcode, len))) = Event("sentMessage", <<opcode, len>>)
<1> DEFINE b == WriteHeader(opcode, len)
<1>1. b[1] = 128 + opcode /\ PayloadLength(b) = len
  BY WriteHeaderIs
<1> HIDE DEF b
<1>2. Opcode(b) = opcode
  BY <1>1 DEF Opcode
<1>3. ReadHeader(b).opcode = opcode /\ ReadHeader(b).length = len
  BY <1>1, <1>2 DEF ReadHeader
<1>4. Sent(b).what = "sent" /\ Sent(b).data = b
  BY DEF Sent, Event
<1>5. opcode # 8 /\ opcode # 9 /\ opcode # 10
  OBVIOUS
<1> QED
  BY <1>3, <1>4, <1>5 DEF FrameEvent, b

------------------------------------------------------------------------------
(***************************************************************************)
(* The connection.                                                         *)
(***************************************************************************)

(* Legal headers. *)
LEMMA HeaderLength ==
  ASSUME NEW b \in Seq(Byte), HeaderWants(b) = 0
  PROVE  /\ Len(b) >= 2 + ExtendedBytes(b)
         /\ IsMasked(b) => Len(b) >= 6 + ExtendedBytes(b)
         /\ ExtendedBytes(b) \in {0, 2, 8}
         /\ b[1] \in Byte /\ b[2] \in Byte
<1>1. ExtendedBytes(b) \in {0, 2, 8}
  BY Zenon DEF ExtendedBytes
<1>2. Len(b) \in Nat
  OBVIOUS
<1>3. Len(b) >= 2
  BY <1>2 DEF HeaderWants
<1>4. Len(b) >= 2 + ExtendedBytes(b)
  BY <1>1, <1>2, <1>3 DEF HeaderWants
<1>5. IsMasked(b) => Len(b) >= 6 + ExtendedBytes(b)
  BY <1>1, <1>2, <1>3, <1>4 DEF HeaderWants
<1> QED
  BY <1>1, <1>2, <1>3, <1>4, <1>5

LEMMA ByteIsNat == ASSUME NEW x \in Byte PROVE x \in Nat /\ x < 256
BY DEF Byte

LEMMA ReadType ==
  ASSUME NEW s \in Seq(Byte)
  PROVE  /\ Len(s) >= 2 => ReadUInt16(s) \in Nat
         /\ Len(s) >= 4 => ReadUInt32(s) \in Nat
         /\ Len(s) >= 8 => ReadUInt64(s) \in Nat
<1> DEFINE t == Drop(s, 2)
<1> DEFINE u == Drop(s, 4)
<1>1. ASSUME NEW r \in Seq(Byte), Len(r) >= 2 PROVE ReadUInt16(r) \in Nat
  <2>1. r[1] \in Byte /\ r[2] \in Byte
    BY <1>1
  <2> QED
    BY <2>1, ByteIsNat DEF ReadUInt16
<1>2. ASSUME NEW r \in Seq(Byte), Len(r) >= 4 PROVE ReadUInt32(r) \in Nat
  <2>1. Drop(r, 2) \in Seq(Byte) /\ Len(Drop(r, 2)) >= 2
    BY <1>2 DEF Drop
  <2>2. ReadUInt16(r) \in Nat /\ ReadUInt16(Drop(r, 2)) \in Nat
    BY <1>1, <1>2, <2>1
  <2> QED
    BY <2>2 DEF ReadUInt32
<1>3. ASSUME Len(s) >= 8 PROVE ReadUInt64(s) \in Nat
  <2>1. Drop(s, 4) \in Seq(Byte) /\ Len(Drop(s, 4)) >= 4
    BY <1>3 DEF Drop
  <2>2. ReadUInt32(s) \in Nat /\ ReadUInt32(Drop(s, 4)) \in Nat
    BY <1>2, <1>3, <2>1
  <2> QED
    BY <2>2 DEF ReadUInt64
<1> QED
  BY <1>1, <1>2, <1>3

LEMMA HeaderType ==
  ASSUME NEW b \in Seq(Byte), HeaderWants(b) = 0
  PROVE  /\ ReadHeader(b) \in HeaderFields
         /\ Drop(b, HeaderSize(b)) \in Seq(Byte)
         /\ Length7(b) \in Nat
<1> DEFINE e == ExtendedBytes(b)
<1> DEFINE v == Drop(b, 2)
<1>1. /\ Len(b) >= 2 + e
      /\ IsMasked(b) => Len(b) >= 6 + e
      /\ e \in {0, 2, 8}
      /\ b[1] \in Byte /\ b[2] \in Byte
  BY HeaderLength
<1>2. Length7(b) \in Nat
  <2>1. b[2] \in Nat
    BY <1>1, ByteIsNat
  <2> QED
    BY <2>1 DEF Length7
<1>3. Opcode(b) \in 0..15
  <2>1. b[1] \in Nat
    BY <1>1, ByteIsNat
  <2>2. b[1] % 16 \in 0..15
    BY <2>1
  <2> QED
    BY <2>2 DEF Opcode
<1>4. v \in Seq(Byte) /\ Len(v) >= e
  <2> HIDE DEF e
  <2> QED
    BY <1>1 DEF Drop
<1>5. PayloadLength(b) \in Nat
  <2> HIDE DEF v
  <2>1. CASE e = 0
    <3>1. e # 2 /\ e # 8
      BY <2>1
    <3> QED
      BY <1>2, <2>1, <3>1, Zenon DEF PayloadLength
  <2>2. CASE e = 2
    <3>1. ReadUInt16(v) \in Nat
      BY <1>4, <2>2, ReadType
    <3>2. ReadUInt16(Drop(b, 2)) \in Nat
      BY <3>1 DEF v
    <3>3. e # 0 /\ e # 8
      BY <2>2
    <3> QED
      BY <2>2, <3>2, <3>3, Zenon DEF PayloadLength
  <2>3. CASE e = 8
    <3>1. ReadUInt64(v) \in Nat
      BY <1>4, <2>3, ReadType
    <3>2. ReadUInt64(Drop(b, 2)) \in Nat
      BY <3>1 DEF v
    <3>3. e # 0 /\ e # 2
      BY <2>3
    <3> QED
      BY <2>3, <3>2, <3>3, Zenon DEF PayloadLength
  <2> QED
    BY <1>1, <2>1, <2>2, <2>3
<1>6. (IF IsMasked(b) THEN SubSeq(b, 3 + e, 6 + e) ELSE <<>>) \in Seq(Byte)
  <2> HIDE DEF e
  <2>1. CASE IsMasked(b)
    <3>1. SubSeq(b, 3 + e, 6 + e) \in Seq(Byte)
      BY <1>1, <2>1, SubSeqProperties
    <3> QED
      BY <2>1, <3>1
  <2>2. CASE ~IsMasked(b)
    BY <2>2
  <2> QED
    BY <2>1, <2>2
<1>7. Drop(b, HeaderSize(b)) \in Seq(Byte)
  <2> HIDE DEF e
  <2>1. HeaderSize(b) \in Nat /\ HeaderSize(b) <= Len(b)
    <3>1. HeaderSize(b) = 2 + e + 4 * Flag(IsMasked(b))
      BY DEF HeaderSize, e
    <3>2. CASE IsMasked(b)
      BY <1>1, <3>1, <3>2 DEF Flag
    <3>3. CASE ~IsMasked(b)
      BY <1>1, <3>1, <3>3 DEF Flag
    <3> QED
      BY <3>2, <3>3
  <2> HIDE DEF HeaderSize
  <2> QED
    BY <2>1 DEF Drop
<1>8. (b[1] >= 128) \in BOOLEAN
  OBVIOUS
<1>9. ReadHeader(b) \in HeaderFields
  BY <1>3, <1>5, <1>6, <1>8, Zenon DEF ReadHeader, HeaderFields
<1> QED
  BY <1>2, <1>7, <1>9

-----------------------------------------------------------------------------
(* Types. *)

TypeInv == TypeOK /\ (busy => headerRead \/ input # <<>>)

LEMMA EventIs ==
  ASSUME NEW what \in EventKinds, NEW data \in Seq(Byte)
  PROVE  Event(what, data) \in EventRecords
BY Zenon DEF Event, EventRecords

LEMMA EventsJoined ==
  ASSUME NEW a \in Seq(EventRecords), NEW b \in Seq(EventRecords)
  PROVE  a \o b \in Seq(EventRecords)
OBVIOUS

LEMMA SentIs ==
  ASSUME NEW bytes \in Seq(Byte)
  PROVE  Sent(bytes) \in EventRecords
<1>1. "sent" \in EventKinds
  BY DEF EventKinds
<1> QED
  BY <1>1, EventIs DEF Sent

LEMMA One == ASSUME NEW e \in EventRecords PROVE <<e>> \in Seq(EventRecords)
OBVIOUS

LEMMA TypeInit == Init => TypeInv
<1> SUFFICES ASSUME Init PROVE TypeInv
  OBVIOUS
<1>1. pending \in Seq(Frame)
  <2>1. pending \in Traffic
    BY DEF Init
  <2>2. Traffic \subseteq Seq(Frame)
    BY ConstantsOK DEF ConstantsOK
  <2> QED
    BY <2>1, <2>2, Zenon
<1> DEFINE bytes == EncodeAll(pending)
<1>2. bytes \in Seq(Byte)
  BY <1>1, EncodeAllType
<1>3. PICK n \in 0..(IF Early THEN Len(bytes) ELSE 0) :
        input = FirstOf(bytes, n) /\ wire = Drop(bytes, n)
  BY Zenon DEF Init
<1>4. input \in Seq(Byte) /\ wire \in Seq(Byte)
  <2> HIDE DEF bytes
  <2>1. n \in 0..Len(bytes)
    BY <1>2
  <2> QED
    BY <1>2, <1>3, <2>1 DEF FirstOf, Drop
<1>5. NoHeader \in HeaderFields
  BY DEF NoHeader, HeaderFields
<1>6. sends \in 0..MaxSends
  BY ConstantsOK DEF ConstantsOK, Init
<1>7. events \in Seq(EventRecords) /\ decodeBuf \in Seq(Byte) /\ outputBuf \in Seq(Byte)
  BY DEF Init
<1> QED
  <2>1. header \in HeaderFields /\ wanted \in Nat /\ fragmentedOpCode \in 0..2
    BY <1>5 DEF Init
  <2>2. status \in {"CONNECT", "CLOSING", "CLOSED"} /\ headerRead \in BOOLEAN
    BY DEF Init
  <2>3. reading \in BOOLEAN /\ busy \in BOOLEAN /\ failedAssert \in BOOLEAN /\ ~busy
    BY DEF Init
  <2> QED
    BY <1>1, <1>4, <1>6, <1>7, <2>1, <2>2, <2>3 DEF TypeInv, TypeOK

(* The frame at hand. *)
LEMMA FrameTypes ==
  ASSUME TypeInv, busy, HeaderComplete
  PROVE  /\ Header \in HeaderFields
         /\ Body \in Seq(Byte)
         /\ ~headerRead => Length7(input) \in Nat
         /\ Header.length <= Len(Body) =>
              /\ Payload \in Seq(Byte) /\ Len(Payload) = Header.length
              /\ Drop(Body, Header.length) \in Seq(Byte)
<1>1. input \in Seq(Byte) /\ header \in HeaderFields
  BY DEF TypeInv, TypeOK
<1>4. /\ Header \in HeaderFields /\ Body \in Seq(Byte)
      /\ ~headerRead => Length7(input) \in Nat
  <2>1. CASE headerRead
    BY <1>1, <2>1 DEF Header, Body
  <2>2. CASE ~headerRead
    <3>1. HeaderWants(input) = 0
      BY <2>2 DEF HeaderComplete
    <3> QED
      BY <1>1, <2>2, <3>1, HeaderType DEF Header, Body
  <2> QED
    BY <2>1, <2>2
<1>5. ASSUME Header.length <= Len(Body)
      PROVE  /\ Payload \in Seq(Byte) /\ Len(Payload) = Header.length
             /\ Drop(Body, Header.length) \in Seq(Byte)
  <2> DEFINE n == Header.length
  <2> DEFINE b == Body
  <2>1. n \in Nat /\ b \in Seq(Byte) /\ n <= Len(b)
    BY <1>4, <1>5 DEF HeaderFields
  <2>2. FirstOf(b, n) \in Seq(Byte) /\ Len(FirstOf(b, n)) = n /\ Drop(b, n) \in Seq(Byte)
    <3> HIDE DEF n, b
    <3> QED
      BY <2>1 DEF FirstOf, Drop
  <2>3. Masked(FirstOf(b, n), Header.mask) \in Seq(Byte) /\ Len(Masked(FirstOf(b, n), Header.mask)) = n
    BY <2>2, MaskedType
  <2> QED
    BY <2>2, <2>3 DEF Payload
<1> QED
  BY <1>4, <1>5

LEMMA CloseTypes ==
  ASSUME TypeInv, NEW code \in Nat, code < 65536, NEW told \in Seq(EventRecords),
         CloseWith(code, told)
  PROVE  /\ outputBuf' \in Seq(Byte) /\ events' \in Seq(EventRecords)
         /\ status' = "CLOSING" /\ reading' \in BOOLEAN
<1>1. CloseFrame(code) \in Seq(Byte)
  BY CloseFrameIs
<1>2. <<Sent(CloseFrame(code))>> \in Seq(EventRecords)
  BY <1>1, SentIs, One
<1>3. events \o told \o <<Sent(CloseFrame(code))>> \in Seq(EventRecords)
  BY <1>2, EventsJoined DEF TypeInv, TypeOK
<1> QED
  BY <1>1, <1>3 DEF TypeOK, CloseWith, TypeInv

LEMMA ControlTypes ==
  ASSUME TypeInv, NEW first \in {137, 138}, NEW message \in Seq(Byte), Len(message) < kControlLimit,
         NEW told \in Seq(EventRecords), SendControl(first, message, told)
  PROVE  outputBuf' \in Seq(Byte) /\ events' \in Seq(EventRecords)
<1>1. ControlFrame(first, message) \in Seq(Byte)
  BY ControlFrameIs
<1>2. outputBuf \o ControlFrame(first, message) \in Seq(Byte)
  BY <1>1, Joined DEF TypeInv, TypeOK
<1>3. <<Sent(outputBuf \o ControlFrame(first, message))>> \in Seq(EventRecords)
  BY <1>2, SentIs, One
<1>4. events \o told \o <<Sent(outputBuf \o ControlFrame(first, message))>> \in Seq(EventRecords)
  BY <1>3, EventsJoined DEF TypeInv, TypeOK
<1> QED
  BY <1>4 DEF SendControl

LEMMA RefuseTypes ==
  ASSUME TypeInv, busy, HeaderComplete, Header.length <= Len(Body), Refuse
  PROVE  /\ decodeBuf' \in Seq(Byte) /\ outputBuf' \in Seq(Byte) /\ events' \in Seq(EventRecords)
         /\ status' = "CLOSING" /\ reading' \in BOOLEAN
         /\ wanted' \in Nat /\ headerRead' = TRUE /\ busy' = FALSE
         /\ fragmentedOpCode' = fragmentedOpCode
<1>1. Payload \in Seq(Byte) /\ (~headerRead => Length7(input) \in Nat)
  BY FrameTypes
<1>2. decodeBuf \o Payload \in Seq(Byte) /\ wanted \in Nat
  BY <1>1, Joined DEF TypeInv, TypeOK
<1>3. PROTOCOL_ERROR \in Nat /\ PROTOCOL_ERROR < 65536 /\ <<>> \in Seq(EventRecords)
  BY DEF PROTOCOL_ERROR
<1>4. CloseWith(PROTOCOL_ERROR, <<>>)
  BY DEF Refuse
<1>5. /\ outputBuf' \in Seq(Byte) /\ events' \in Seq(EventRecords)
      /\ status' = "CLOSING" /\ reading' \in BOOLEAN
  <2> DEFINE code == PROTOCOL_ERROR
  <2> DEFINE told == <<>>
  <2>1. code \in Nat /\ code < 65536 /\ told \in Seq(EventRecords) /\ CloseWith(code, told)
    BY <1>3, <1>4
  <2> HIDE DEF code, told
  <2> QED
    BY <2>1, CloseTypes
<1> QED
  BY <1>1, <1>2, <1>5 DEF Refuse

LEMMA DeliverTypes ==
  ASSUME TypeInv, NEW opcode, Payload \in Seq(Byte), Deliver(opcode)
  PROVE  decodeBuf' \in Seq(Byte) /\ events' \in Seq(EventRecords)
<1> DEFINE what == IF opcode = 2 THEN "binary" ELSE "text"
<1>1. what \in EventKinds
  BY DEF EventKinds
<1>2. decodeBuf \o Payload \in Seq(Byte)
  BY Joined DEF TypeInv, TypeOK
<1>3. Event(what, decodeBuf \o Payload) \in EventRecords
  BY <1>1, <1>2, EventIs
<1> DEFINE told == IF OnMessage THEN <<Event(what, decodeBuf \o Payload)>> ELSE <<>>
<1>4. told \in Seq(EventRecords)
  BY <1>3
<1>5. events \o told \in Seq(EventRecords)
  BY <1>4, EventsJoined DEF TypeInv, TypeOK
<1> QED
  BY <1>5 DEF Deliver

(* What every frame that is taken leaves of the right type. *)
LEMMA TakenTypes ==
  ASSUME TypeInv, NEW opcodes, TakeFrame(opcodes)
  PROVE  /\ wire' \in Seq(Byte) /\ input' \in Seq(Byte)
         /\ header' \in HeaderFields
         /\ failedAssert' \in BOOLEAN
         /\ pending' \in Seq(Frame)
         /\ sends' \in 0..MaxSends
         /\ Header \in HeaderFields /\ Payload \in Seq(Byte)
         /\ Len(Payload) = Header.length
         /\ decodeBuf \o Payload \in Seq(Byte)
         /\ ~headerRead => Length7(input) \in Nat
<1>1. busy /\ HeaderComplete /\ Header.length <= Len(Body)
  BY DEF TakeFrame
<1>2. /\ Header \in HeaderFields /\ Payload \in Seq(Byte) /\ Len(Payload) = Header.length
      /\ Drop(Body, Header.length) \in Seq(Byte)
      /\ ~headerRead => Length7(input) \in Nat
  BY <1>1, FrameTypes
<1>3. decodeBuf \o Payload \in Seq(Byte)
  BY <1>2, Joined DEF TypeInv, TypeOK
<1>4. pending' \in Seq(Frame)
  <2>1. pending \in Seq(Frame)
    BY DEF TypeInv, TypeOK
  <2>2. pending # <<>> => Tail(pending) \in Seq(Frame)
    BY <2>1
  <2> QED
    BY <2>1, <2>2 DEF TakeFrame, Handled
<1> QED
  BY <1>2, <1>3, <1>4 DEF TypeInv, TypeOK, TakeFrame

LEMMA TypeRead ==
  ASSUME TypeInv, NEW n \in 1..Len(wire), Read(n)
  PROVE  TypeInv'
<1>1. wire \in Seq(Byte) /\ input \in Seq(Byte)
  BY DEF TypeInv, TypeOK
<1>2. FirstOf(wire, n) \in Seq(Byte) /\ Drop(wire, n) \in Seq(Byte) /\ Len(FirstOf(wire, n)) = n
  BY <1>1 DEF FirstOf, Drop
<1>3. /\ input \o FirstOf(wire, n) \in Seq(Byte)
      /\ Len(input \o FirstOf(wire, n)) = Len(input) + n
      /\ Len(input) \in Nat
  BY <1>1, <1>2, Joined
<1>4. wire' \in Seq(Byte) /\ input' \in Seq(Byte)
  BY <1>2, <1>3 DEF Read
<1>5. input' # <<>>
  <2>1. Len(input') # 0
    BY <1>3 DEF Read
  <2> QED
    BY <2>1, EmptySeq, Zenon
<1>6. busy' \in BOOLEAN
  <2>1. busy' = (Len(input') >= wanted /\ status \in {"CONNECT", "CLOSING"})
    BY DEF Read
  <2> QED
    BY <2>1, Zenon
<1> QED
  BY <1>4, <1>5, <1>6 DEF TypeInv, TypeOK, Read

LEMMA TypeRsv == TypeInv /\ DecodeRsv => TypeInv'
<1> SUFFICES ASSUME TypeInv, DecodeRsv PROVE TypeInv'
  OBVIOUS
<1>1. input \in Seq(Byte) /\ input # <<>>
  BY DEF TypeInv, TypeOK, DecodeRsv
<1>2. Tail(input) \in Seq(Byte)
  BY <1>1
<1> DEFINE code == PROTOCOL_ERROR
<1> DEFINE told == <<>>
<1>3. code \in Nat /\ code < 65536 /\ told \in Seq(EventRecords) /\ CloseWith(code, told)
  BY DEF PROTOCOL_ERROR, DecodeRsv
<1>4. /\ outputBuf' \in Seq(Byte) /\ events' \in Seq(EventRecords)
      /\ status' = "CLOSING" /\ reading' \in BOOLEAN
  <2> HIDE DEF code, told
  <2> QED
    BY <1>3, CloseTypes
<1>5. pending' \in Seq(Frame)
  <2>1. pending \in Seq(Frame)
    BY DEF TypeInv, TypeOK
  <2>2. pending # <<>> => Tail(pending) \in Seq(Frame)
    BY <2>1
  <2> QED
    BY <2>1, <2>2 DEF DecodeRsv, Handled
<1> QED
  BY <1>2, <1>4, <1>5 DEF TypeInv, TypeOK, DecodeRsv

LEMMA TypeShortHeader == TypeInv /\ DecodeShortHeader => TypeInv'
<1> SUFFICES ASSUME TypeInv, DecodeShortHeader PROVE TypeInv'
  OBVIOUS
<1>1. input \in Seq(Byte) /\ Len(input) \in Nat
  BY DEF TypeInv, TypeOK
<1>2. ExtendedBytes(input) \in {0, 2, 8}
  BY Zenon DEF ExtendedBytes
<1>3. HeaderWants(input) \in Nat
  BY <1>1, <1>2 DEF HeaderWants
<1> QED
  BY <1>3 DEF TypeInv, TypeOK, DecodeShortHeader

LEMMA TypeShortPayload == TypeInv /\ DecodeShortPayload => TypeInv'
<1> SUFFICES ASSUME TypeInv, DecodeShortPayload PROVE TypeInv'
  OBVIOUS
<1>1. busy /\ HeaderComplete
  BY DEF DecodeShortPayload
<1>2. Header \in HeaderFields /\ Body \in Seq(Byte)
  BY <1>1, FrameTypes
<1>3. Header.length \in Nat
  BY <1>2 DEF HeaderFields
<1> QED
  BY <1>2, <1>3 DEF TypeInv, TypeOK, DecodeShortPayload

(* What the cases of decode() that refuse the frame have in common. *)
LEMMA TypeRefuse ==
  ASSUME TypeInv, NEW opcodes, TakeFrame(opcodes), Refuse
  PROVE  TypeInv'
<1>1. /\ wire' \in Seq(Byte) /\ input' \in Seq(Byte) /\ header' \in HeaderFields
      /\ failedAssert' \in BOOLEAN /\ pending' \in Seq(Frame) /\ sends' \in 0..MaxSends
  BY TakenTypes
<1>2. busy /\ HeaderComplete /\ Header.length <= Len(Body)
  BY DEF TakeFrame
<1>3. /\ decodeBuf' \in Seq(Byte) /\ outputBuf' \in Seq(Byte) /\ events' \in Seq(EventRecords)
      /\ status' = "CLOSING" /\ reading' \in BOOLEAN
      /\ wanted' \in Nat /\ headerRead' = TRUE /\ busy' = FALSE
      /\ fragmentedOpCode' = fragmentedOpCode
  BY <1>2, RefuseTypes
<1> QED
  BY <1>1, <1>3 DEF TypeInv, TypeOK

(* And those that go on. *)
LEMMA TypeGoOn ==
  ASSUME TypeInv, NEW opcodes, TakeFrame(opcodes), clearDecodeStatus, GoOn,
         decodeBuf' \in Seq(Byte), events' \in Seq(EventRecords), outputBuf' \in Seq(Byte),
         fragmentedOpCode' \in 0..2, status' \in {"CONNECT", "CLOSING", "CLOSED"},
         reading' \in BOOLEAN
  PROVE  TypeInv'
<1>1. /\ wire' \in Seq(Byte) /\ input' \in Seq(Byte) /\ header' \in HeaderFields
      /\ failedAssert' \in BOOLEAN /\ pending' \in Seq(Frame) /\ sends' \in 0..MaxSends
  BY TakenTypes
<1>2. headerRead' \in BOOLEAN /\ wanted' \in Nat
  BY DEF clearDecodeStatus
<1>3. busy' \in BOOLEAN /\ (busy' => input' # <<>>)
  BY Zenon DEF GoOn
<1> QED
  BY <1>1, <1>2, <1>3 DEF TypeInv, TypeOK

LEMMA TypeContinuation == TypeInv /\ DecodeContinuation => TypeInv'
<1> SUFFICES ASSUME TypeInv, DecodeContinuation PROVE TypeInv'
  OBVIOUS
<1> DEFINE opcodes == {0}
<1>1. TakeFrame(opcodes)
  BY DEF DecodeContinuation
<1> HIDE DEF opcodes
<1>2. Payload \in Seq(Byte) /\ decodeBuf \o Payload \in Seq(Byte)
  BY <1>1, TakenTypes
<1>3. CASE Refuse
  BY <1>1, <1>3, TypeRefuse
<1>4. CASE ~Refuse
  <2>1. clearDecodeStatus /\ GoOn /\ UNCHANGED <<status, outputBuf, reading>>
    BY <1>4 DEF DecodeContinuation
  <2>2. /\ fragmentedOpCode' \in 0..2
        /\ decodeBuf' \in Seq(Byte) /\ events' \in Seq(EventRecords)
    <3>1. CASE Deliver(fragmentedOpCode) /\ fragmentedOpCode' = 0
      <4>1. Deliver(fragmentedOpCode)
        BY <3>1
      <4>2. decodeBuf' \in Seq(Byte) /\ events' \in Seq(EventRecords)
        BY <1>2, <4>1, DeliverTypes
      <4> QED
        BY <3>1, <4>2
    <3>2. CASE decodeBuf' = decodeBuf \o Payload /\ UNCHANGED <<fragmentedOpCode, events>>
      BY <1>2, <3>2 DEF TypeInv, TypeOK
    <3> QED
      BY <1>4, <3>1, <3>2 DEF DecodeContinuation
  <2>3. outputBuf' \in Seq(Byte) /\ status' \in {"CONNECT", "CLOSING", "CLOSED"} /\ reading' \in BOOLEAN
    BY <2>1 DEF TypeInv, TypeOK
  <2> QED
    BY <1>1, <2>1, <2>2, <2>3, TypeGoOn
<1> QED
  BY <1>3, <1>4

LEMMA TypeData == TypeInv /\ DecodeData => TypeInv'
<1> SUFFICES ASSUME TypeInv, DecodeData PROVE TypeInv'
  OBVIOUS
<1> DEFINE opcodes == {1, 2}
<1>1. TakeFrame(opcodes)
  BY DEF DecodeData
<1>0. Header.opcode \in {1, 2}
  BY DEF DecodeData, TakeFrame
<1> HIDE DEF opcodes
<1>2. Payload \in Seq(Byte) /\ decodeBuf \o Payload \in Seq(Byte)
  BY <1>1, TakenTypes
<1>3. CASE Refuse
  BY <1>1, <1>3, TypeRefuse
<1>4. CASE ~Refuse
  <2>1. clearDecodeStatus /\ GoOn /\ UNCHANGED <<status, outputBuf, reading>>
    BY <1>4 DEF DecodeData
  <2>2. /\ fragmentedOpCode' \in 0..2
        /\ decodeBuf' \in Seq(Byte) /\ events' \in Seq(EventRecords)
    <3>1. CASE Deliver(Header.opcode) /\ UNCHANGED fragmentedOpCode
      <4>1. Deliver(Header.opcode)
        BY <3>1
      <4>2. decodeBuf' \in Seq(Byte) /\ events' \in Seq(EventRecords)
        BY <1>2, <4>1, DeliverTypes
      <4> QED
        BY <3>1, <4>2 DEF TypeInv, TypeOK
    <3>2. CASE decodeBuf' = decodeBuf \o Payload /\ fragmentedOpCode' = Header.opcode /\ UNCHANGED events
      BY <1>0, <1>2, <3>2 DEF TypeInv, TypeOK
    <3> QED
      BY <1>4, <3>1, <3>2 DEF DecodeData
  <2>3. outputBuf' \in Seq(Byte) /\ status' \in {"CONNECT", "CLOSING", "CLOSED"} /\ reading' \in BOOLEAN
    BY <2>1 DEF TypeInv, TypeOK
  <2> QED
    BY <1>1, <2>1, <2>2, <2>3, TypeGoOn
<1> QED
  BY <1>3, <1>4

LEMMA TypeClose == TypeInv /\ DecodeClose => TypeInv'
<1> SUFFICES ASSUME TypeInv, DecodeClose PROVE TypeInv'
  OBVIOUS
<1> DEFINE opcodes == {8}
<1>1. TakeFrame(opcodes)
  BY DEF DecodeClose
<1> HIDE DEF opcodes
<1>2. /\ wire' \in Seq(Byte) /\ input' \in Seq(Byte) /\ header' \in HeaderFields
      /\ failedAssert' \in BOOLEAN /\ pending' \in Seq(Frame) /\ sends' \in 0..MaxSends
      /\ decodeBuf \o Payload \in Seq(Byte)
      /\ ~headerRead => Length7(input) \in Nat
  BY <1>1, TakenTypes
<1>3. outputBuf' \in Seq(Byte) /\ events' \in Seq(EventRecords)
  <2> DEFINE frame == CloseFrame(NORMAL_CLOSE)
  <2>1. frame \in Seq(Byte)
    <3>1. NORMAL_CLOSE \in Nat /\ NORMAL_CLOSE < 65536
      BY DEF NORMAL_CLOSE
    <3> HIDE DEF NORMAL_CLOSE
    <3> QED
      BY <3>1, CloseFrameIs
  <2>2. Sent(frame) \in EventRecords
    BY <2>1, SentIs
  <2>3. Event("tcpClose", <<>>) \in EventRecords
    <3>1. "tcpClose" \in EventKinds /\ <<>> \in Seq(Byte)
      BY DEF EventKinds
    <3> QED
      BY <3>1, EventIs, Zenon
  <2> DEFINE told == <<Sent(frame), Event("tcpClose", <<>>)>>
  <2>4. told \in Seq(EventRecords)
    BY <2>2, <2>3
  <2>5. events \o told \in Seq(EventRecords)
    BY <2>4, EventsJoined DEF TypeInv, TypeOK
  <2> QED
    BY <2>1, <2>5 DEF DecodeClose, TypeInv, TypeOK
<1>4. status' \in {"CONNECT", "CLOSING", "CLOSED"}
  BY DEF DecodeClose, TypeInv, TypeOK
<1>5. wanted' \in Nat
  BY <1>2 DEF DecodeClose, TypeInv, TypeOK
<1>6. busy' \in BOOLEAN /\ headerRead' = TRUE
  BY Zenon DEF DecodeClose, GoOn
<1>7. decodeBuf' \in Seq(Byte) /\ UNCHANGED <<fragmentedOpCode, reading>>
  BY <1>2 DEF DecodeClose
<1> QED
  BY <1>2, <1>3, <1>4, <1>5, <1>6, <1>7 DEF TypeInv, TypeOK

LEMMA TypePing == TypeInv /\ DecodePing => TypeInv'
<1> SUFFICES ASSUME TypeInv, DecodePing PROVE TypeInv'
  OBVIOUS
<1> DEFINE opcodes == {9}
<1>1. TakeFrame(opcodes)
  BY DEF DecodePing
<1> HIDE DEF opcodes
<1>2. Payload \in Seq(Byte) /\ Len(Payload) = Header.length
  BY <1>1, TakenTypes
<1>3. CASE Refuse
  BY <1>1, <1>3, TypeRefuse
<1>4. CASE ~Refuse
  <2>1. clearDecodeStatus /\ GoOn /\ UNCHANGED fragmentedOpCode /\ KeepMessage
    BY <1>4 DEF DecodePing
  <2>2. decodeBuf' \in Seq(Byte) /\ fragmentedOpCode' \in 0..2
    BY <1>2, <2>1 DEF KeepMessage, TypeInv, TypeOK
  <2> DEFINE told == <<Event("ping", Payload)>>
  <2>3. told \in Seq(EventRecords)
    BY <1>2, EventIs, One DEF EventKinds
  <2>4. /\ outputBuf' \in Seq(Byte) /\ events' \in Seq(EventRecords)
        /\ status' \in {"CONNECT", "CLOSING", "CLOSED"} /\ reading' \in BOOLEAN
    <3>1. CASE Header.length < kControlLimit /\ SendControl(138, Payload, told)
      <4>1. SendControl(138, Payload, told) /\ Len(Payload) < kControlLimit
        BY <1>2, <3>1
      <4>2. outputBuf' \in Seq(Byte) /\ events' \in Seq(EventRecords)
        <5> HIDE DEF told
        <5> QED
          BY <1>2, <2>3, <4>1, ControlTypes
      <4> QED
        BY <4>1, <4>2 DEF SendControl, TypeInv, TypeOK
    <3>2. CASE CloseWith(PROTOCOL_ERROR, told)
      <4> DEFINE code == PROTOCOL_ERROR
      <4>1. code \in Nat /\ code < 65536 /\ CloseWith(code, told)
        BY <3>2 DEF PROTOCOL_ERROR
      <4> HIDE DEF code, told
      <4> QED
        BY <2>3, <4>1, CloseTypes
    <3> QED
      BY <1>4, <3>1, <3>2 DEF DecodePing
  <2> QED
    BY <1>1, <2>1, <2>2, <2>4, TypeGoOn
<1> QED
  BY <1>3, <1>4

LEMMA TypePong == TypeInv /\ DecodePong => TypeInv'
<1> SUFFICES ASSUME TypeInv, DecodePong PROVE TypeInv'
  OBVIOUS
<1> DEFINE opcodes == {10}
<1>1. TakeFrame(opcodes)
  BY DEF DecodePong
<1> HIDE DEF opcodes
<1>2. Payload \in Seq(Byte)
  BY <1>1, TakenTypes
<1>3. CASE Refuse
  BY <1>1, <1>3, TypeRefuse
<1>4. CASE ~Refuse
  <2>1. /\ clearDecodeStatus /\ GoOn /\ KeepMessage
        /\ UNCHANGED <<fragmentedOpCode, status, outputBuf, reading>>
    BY <1>4 DEF DecodePong
  <2>2. decodeBuf' \in Seq(Byte) /\ fragmentedOpCode' \in 0..2
    BY <1>2, <2>1 DEF KeepMessage, TypeInv, TypeOK
  <2>3. Event("pong", Payload) \in EventRecords
    BY <1>2, EventIs DEF EventKinds
  <2>4. events' \in Seq(EventRecords)
    <3>1. events' = Append(events, Event("pong", Payload))
      BY <1>4 DEF DecodePong
    <3>2. events \in Seq(EventRecords)
      BY DEF TypeInv, TypeOK
    <3> QED
      BY <2>3, <3>1, <3>2
  <2>5. outputBuf' \in Seq(Byte) /\ status' \in {"CONNECT", "CLOSING", "CLOSED"} /\ reading' \in BOOLEAN
    BY <2>1 DEF TypeInv, TypeOK
  <2> QED
    BY <1>1, <2>1, <2>2, <2>4, <2>5, TypeGoOn
<1> QED
  BY <1>3, <1>4

LEMMA TypeUnknown == TypeInv /\ DecodeUnknown => TypeInv'
BY TypeRefuse DEF DecodeUnknown

LEMMA TypeApp == TypeInv /\ App => TypeInv'
<1> SUFFICES ASSUME TypeInv, App PROVE TypeInv'
  OBVIOUS
<1>1. ASSUME NEW call, AppTurn(call)
      PROVE  /\ UNCHANGED <<wire, input, header, headerRead, wanted, decodeBuf, fragmentedOpCode,
                            busy, pending>>
             /\ sends' \in 0..MaxSends
  BY <1>1, ConstantsOK DEF AppTurn, TypeInv, TypeOK, ConstantsOK
<1> DEFINE Kept == /\ wire' \in Seq(Byte) /\ input' \in Seq(Byte) /\ decodeBuf' \in Seq(Byte)
                   /\ header' \in HeaderFields /\ headerRead' \in BOOLEAN /\ wanted' \in Nat
                   /\ fragmentedOpCode' \in 0..2 /\ busy' \in BOOLEAN /\ pending' \in Seq(Frame)
                   /\ sends' \in 0..MaxSends /\ (busy' => headerRead' \/ input' # <<>>)
<1>2. ASSUME NEW call, AppTurn(call) PROVE Kept
  BY <1>1, <1>2 DEF TypeInv, TypeOK
<1> DEFINE Told == /\ outputBuf' \in Seq(Byte) /\ events' \in Seq(EventRecords)
                   /\ status' \in {"CONNECT", "CLOSING", "CLOSED"} /\ reading' \in BOOLEAN
                   /\ failedAssert' \in BOOLEAN
<1>3. ASSUME Kept, Told PROVE TypeInv'
  BY <1>3 DEF TypeInv, TypeOK
<1>4. ASSUME NEW code \in Nat, code < 65536, CloseWith(code, <<>>), UNCHANGED failedAssert PROVE Told
  <2> DEFINE told == <<>>
  <2>1. told \in Seq(EventRecords) /\ CloseWith(code, told)
    BY <1>4
  <2>2. /\ outputBuf' \in Seq(Byte) /\ events' \in Seq(EventRecords)
        /\ status' = "CLOSING" /\ reading' \in BOOLEAN
    <3> HIDE DEF told
    <3> QED
      BY <1>4, <2>1, CloseTypes
  <2> QED
    BY <1>4, <2>2 DEF TypeInv, TypeOK
<1>5. ASSUME NEW opcode \in {1, 2}, NEW len \in SendLengths, SendMessage(opcode, len) PROVE TypeInv'
  <2>1. Kept
    BY <1>2, <1>5 DEF SendMessage
  <2>2. len \in UInt64
    BY ConstantsOK DEF ConstantsOK
  <2>3. WriteHeader(opcode, len) \in Seq(Byte)
    BY <2>2, WriteHeaderIs
  <2>4. Sent(WriteHeader(opcode, len)) \in EventRecords
    BY <2>3, SentIs
  <2>5. Append(events, Sent(WriteHeader(opcode, len))) \in Seq(EventRecords)
    BY <2>4 DEF TypeInv, TypeOK
  <2>6. events' \in Seq(EventRecords) /\ failedAssert' \in BOOLEAN
    BY <1>5, <2>5 DEF SendMessage, TypeInv, TypeOK
  <2>7. outputBuf' \in Seq(Byte) /\ status' \in {"CONNECT", "CLOSING", "CLOSED"} /\ reading' \in BOOLEAN
    BY <1>5 DEF SendMessage, TypeInv, TypeOK
  <2> QED
    BY <1>3, <2>1, <2>6, <2>7
<1>6. CASE SendPing
  <2>1. Kept
    BY <1>2, <1>6 DEF SendPing
  <2> DEFINE none == <<>>
  <2>2. PICK first \in {137, 138} : SendControl(first, none, none)
    BY <1>6 DEF SendPing
  <2>3. none \in Seq(Byte) /\ none \in Seq(EventRecords) /\ Len(none) < kControlLimit
    BY DEF kControlLimit
  <2>4. UNCHANGED <<status, reading, failedAssert>>
    BY <1>6, <2>2 DEF SendPing, SendControl
  <2> HIDE DEF none
  <2>5. outputBuf' \in Seq(Byte) /\ events' \in Seq(EventRecords)
    BY <2>2, <2>3, ControlTypes
  <2>6. Told
    BY <2>4, <2>5 DEF TypeInv, TypeOK
  <2> QED
    BY <1>3, <2>1, <2>6
<1>7. CASE SendLongPing
  <2>1. Kept
    BY <1>2, <1>7 DEF SendLongPing
  <2>2. PROTOCOL_ERROR \in Nat /\ PROTOCOL_ERROR < 65536
    BY DEF PROTOCOL_ERROR
  <2>3. Told
    BY <1>4, <1>7, <2>2 DEF SendLongPing
  <2> QED
    BY <1>3, <2>1, <2>3
<1>8. ASSUME NEW code \in CloseCodes, Close(code) PROVE TypeInv'
  <2>1. Kept
    BY <1>2, <1>8 DEF Close
  <2>2. code \in Nat /\ code < 65536
    BY ConstantsOK DEF ConstantsOK
  <2>3. Told
    BY <1>4, <1>8, <2>2 DEF Close
  <2> QED
    BY <1>3, <2>1, <2>3
<1> QED
  BY <1>5, <1>6, <1>7, <1>8 DEF App

LEMMA TypeStep == TypeInv /\ [Next]_vars => TypeInv'
<1> SUFFICES ASSUME TypeInv, [Next]_vars PROVE TypeInv'
  OBVIOUS
<1>1. CASE UNCHANGED vars
  BY <1>1 DEF TypeInv, TypeOK, vars
<1> QED
  BY <1>1, TypeRead, TypeRsv, TypeShortHeader, TypeShortPayload, TypeContinuation, TypeData,
     TypeClose, TypePing, TypePong, TypeUnknown, TypeApp DEF Next, Decode

(* The members keep their types: every number that decode() reads off the  *)
(* wire fits its variable, and every byte that is sent is a byte.          *)
THEOREM TypeCorrect == Spec => []TypeOK
<1>1. Init => TypeInv
  BY TypeInit
<1>2. TypeInv /\ [Next]_vars => TypeInv'
  BY TypeStep
<1>3. TypeInv => TypeOK
  BY DEF TypeInv
<1> QED
  BY <1>1, <1>2, <1>3, PTL DEF Spec

-----------------------------------------------------------------------------
(* Why assert(outputBuf_.empty()) holds: only close() leaves something in  *)
(* outputBuf_, and it ends CONNECT.                                        *)
SendInv == ~failedAssert /\ (outputBuf # <<>> => status # "CONNECT")

LEMMA SendStep ==
  ASSUME "sendAfterClose" \notin Calls
  PROVE  SendInv /\ [Next]_vars => SendInv'
<1> SUFFICES ASSUME SendInv, [Next]_vars PROVE SendInv'
  OBVIOUS
<1> USE DEF SendInv
<1>1. ASSUME NEW n \in 1..Len(wire), Read(n) PROVE SendInv'
  BY <1>1 DEF Read
<1>2. ASSUME NEW code, NEW told, CloseWith(code, told), UNCHANGED failedAssert PROVE SendInv'
  BY <1>2 DEF CloseWith
<1>3. ASSUME NEW first, NEW message, NEW told, SendControl(first, message, told), UNCHANGED failedAssert
      PROVE SendInv'
  BY <1>3 DEF SendControl
<1>4. ASSUME NEW opcodes, TakeFrame(opcodes) PROVE UNCHANGED failedAssert
  BY <1>4 DEF TakeFrame
<1>5. ASSUME Refuse, UNCHANGED failedAssert PROVE SendInv'
  BY <1>2, <1>5 DEF Refuse
<1>6. CASE DecodeRsv
  BY <1>2, <1>6 DEF DecodeRsv
<1>7. CASE DecodeShortHeader \/ DecodeShortPayload
  BY <1>7 DEF DecodeShortHeader, DecodeShortPayload
<1>8. CASE DecodeContinuation
  BY <1>4, <1>5, <1>8 DEF DecodeContinuation
<1>9. CASE DecodeData
  BY <1>4, <1>5, <1>9 DEF DecodeData
<1>10. CASE DecodeClose
  BY <1>4, <1>10 DEF DecodeClose
<1>11. CASE DecodePing
  BY <1>2, <1>3, <1>4, <1>5, <1>11 DEF DecodePing
<1>12. CASE DecodePong
  BY <1>4, <1>5, <1>12 DEF DecodePong
<1>13. CASE DecodeUnknown
  BY <1>4, <1>5, <1>13 DEF DecodeUnknown
<1>14. ASSUME NEW opcode, NEW len, SendMessage(opcode, len) PROVE SendInv'
  <2>1. status = "CONNECT"
    BY <1>14 DEF SendMessage, AppTurn
  <2> QED
    BY <1>14, <2>1 DEF SendMessage
<1>15. CASE SendPing
  BY <1>3, <1>15 DEF SendPing
<1>16. CASE SendLongPing
  BY <1>2, <1>16 DEF SendLongPing
<1>17. ASSUME NEW code, Close(code) PROVE SendInv'
  BY <1>2, <1>17 DEF Close
<1>18. CASE UNCHANGED vars
  BY <1>18 DEF vars
<1> QED
  BY <1>1, <1>6, <1>7, <1>8, <1>9, <1>10, <1>11, <1>12, <1>13, <1>14, <1>15, <1>16, <1>17, <1>18
     DEF Next, Decode, App

(* An application that sends nothing after it has closed the connection    *)
(* never meets assert(outputBuf_.empty()) with the close frame still in    *)
(* outputBuf_ (WebSocketConnection.cpp:134, 153).                          *)
THEOREM OutputBufAssertCorrect ==
  ASSUME "sendAfterClose" \notin Calls
  PROVE  Spec => []OutputBufAssert
<1>1. Init => SendInv
  BY DEF Init, SendInv
<1>2. SendInv /\ [Next]_vars => SendInv'
  BY SendStep
<1>3. SendInv => OutputBufAssert
  BY DEF SendInv, OutputBufAssert
<1> QED
  BY <1>1, <1>2, <1>3, PTL DEF Spec

-----------------------------------------------------------------------------
(* Why a closed connection is quiet: the close frame leaves headerRead_    *)
(* and opcode_ as they are, so that decode() takes whatever follows for    *)
(* more close frames.                                                      *)
ClosedInv == status = "CLOSED" => headerRead /\ header.opcode = 8

LEMMA ClosedInit == Init => ClosedInv
BY DEF Init, ClosedInv

(* A step that ends in CLOSED leaves a close frame as the frame at hand.   *)
LEMMA ClosedStep == ClosedInv /\ [Next]_vars => ClosedInv'
<1> SUFFICES ASSUME ClosedInv, [Next]_vars PROVE ClosedInv'
  OBVIOUS
<1> USE DEF ClosedInv
<1>1. ASSUME NEW n \in 1..Len(wire), Read(n) PROVE ClosedInv'
  BY <1>1 DEF Read
<1>2. CASE DecodeRsv
  BY <1>2 DEF DecodeRsv, CloseWith
<1>3. CASE DecodeShortHeader
  BY <1>3 DEF DecodeShortHeader
<1>4. CASE DecodeShortPayload
  BY <1>4 DEF DecodeShortPayload, Header
<1>5. ASSUME TakeFrame({8}) PROVE Header.opcode = 8
  BY <1>5 DEF TakeFrame
<1>6. CASE DecodeClose
  BY <1>5, <1>6 DEF DecodeClose, TakeFrame
<1>7. ASSUME NEW opcodes, 8 \notin opcodes, TakeFrame(opcodes) PROVE status # "CLOSED"
  BY <1>7 DEF TakeFrame, Header
<1>8. CASE DecodeContinuation
  <2>1. status # "CLOSED"
    BY <1>7, <1>8 DEF DecodeContinuation
  <2> QED
    BY <1>8, <2>1 DEF DecodeContinuation, Refuse, CloseWith
<1>9. CASE DecodeData
  <2>1. status # "CLOSED"
    BY <1>7, <1>9 DEF DecodeData
  <2> QED
    BY <1>9, <2>1 DEF DecodeData, Refuse, CloseWith
<1>10. CASE DecodePing
  <2>1. status # "CLOSED"
    BY <1>7, <1>10 DEF DecodePing
  <2> QED
    BY <1>10, <2>1 DEF DecodePing, Refuse, CloseWith, SendControl
<1>11. CASE DecodePong
  <2>1. status # "CLOSED"
    BY <1>7, <1>11 DEF DecodePong
  <2> QED
    BY <1>11, <2>1 DEF DecodePong, Refuse, CloseWith
<1>12. CASE DecodeUnknown
  BY <1>12 DEF DecodeUnknown, Refuse, CloseWith
<1>13. CASE App
  BY <1>13 DEF App, SendMessage, SendPing, SendLongPing, Close, AppTurn, SendControl, CloseWith
<1>14. CASE UNCHANGED vars
  BY <1>14 DEF vars
<1> QED
  BY <1>1, <1>2, <1>3, <1>4, <1>6, <1>8, <1>9, <1>10, <1>11, <1>12, <1>13, <1>14 DEF Next, Decode

(* From a closed connection every step leaves status_ and what was told    *)
(* and sent alone.                                                         *)
LEMMA ClosedQuietStep ==
  ClosedInv /\ [Next]_vars => (status = "CLOSED" => UNCHANGED <<status, events>>)
<1> SUFFICES ASSUME ClosedInv, status = "CLOSED", [Next]_vars PROVE UNCHANGED <<status, events>>
  OBVIOUS
<1>1. headerRead /\ header.opcode = 8
  BY DEF ClosedInv
<1>2. ASSUME NEW opcodes, TakeFrame(opcodes) PROVE 8 \in opcodes
  BY <1>1, <1>2 DEF TakeFrame, Header
<1>3. ASSUME NEW n \in 1..Len(wire), Read(n) PROVE UNCHANGED <<status, events>>
  BY <1>3 DEF Read
<1>4. CASE DecodeShortPayload
  BY <1>4 DEF DecodeShortPayload
<1>5. CASE DecodeClose
  BY <1>5 DEF DecodeClose
<1>6. ~DecodeRsv /\ ~DecodeShortHeader
  BY <1>1 DEF DecodeRsv, DecodeShortHeader
<1>7. ~DecodeContinuation /\ ~DecodeData /\ ~DecodePing /\ ~DecodePong
  BY <1>2 DEF DecodeContinuation, DecodeData, DecodePing, DecodePong
<1>8. ~DecodeUnknown
  BY <1>2 DEF DecodeUnknown
<1>9. ~App
  BY DEF App, SendMessage, SendPing, SendLongPing, Close, AppTurn
<1>10. CASE UNCHANGED vars
  BY <1>10 DEF vars
<1> QED
  BY <1>3, <1>4, <1>5, <1>6, <1>7, <1>8, <1>9, <1>10 DEF Next, Decode

(* Once the peer's close frame was answered nothing is told to the         *)
(* application or sent any more, whatever bytes follow it                  *)
(* (WebSocketConnection.cpp:358-367, 405-420).                             *)
THEOREM ClosedIsQuietCorrect == Spec => ClosedIsQuiet
<1>1. Init => ClosedInv
  BY ClosedInit
<1>2. ClosedInv /\ [Next]_vars => ClosedInv'
  BY ClosedStep
<1>3. ClosedInv /\ [Next]_vars => [status = "CLOSED" => UNCHANGED <<status, events>>]_vars
  BY ClosedQuietStep
<1> QED
  BY <1>1, <1>2, <1>3, PTL DEF Spec, ClosedIsQuiet

-----------------------------------------------------------------------------
(* Tidy traffic stays tidy when its first frame is taken.                  *)
LEMMA TidyTail ==
  ASSUME NEW fs \in Seq(Frame), fs # <<>>, NEW open \in BOOLEAN, Tidy(fs, open),
         NEW left \in BOOLEAN,
         left <=> /\ open \/ (IsData(Head(fs)) /\ Head(fs).payload # <<>>)
                  /\ ~(IsData(Head(fs)) /\ Head(fs).fin)
  PROVE  Tidy(Tail(fs), left)
<1> DEFINE ts == Tail(fs)
<1> DEFINE n == Len(ts)
<1>1. /\ n \in Nat /\ Len(fs) = n + 1
      /\ \A i \in 1..n : ts[i] = fs[i + 1]
      /\ Head(fs) = fs[1]
  OBVIOUS
<1> HIDE DEF ts
<1>2. SUFFICES ASSUME NEW i \in 1..Len(ts)
               PROVE  /\ Ends(ts[i]) => i = Len(ts)
                      /\ Injected(ts[i]) => InMessage(ts, i, left)
  BY Zenon DEF Tidy, ts
<1>3. i \in 1..n /\ i + 1 \in 1..Len(fs) /\ ts[i] = fs[i + 1]
  BY <1>1
<1>4. /\ Ends(fs[i + 1]) => i + 1 = Len(fs)
      /\ Injected(fs[i + 1]) => InMessage(fs, i + 1, open)
  BY <1>3, Zenon DEF Tidy
<1>5. Ends(ts[i]) => i = Len(ts)
  BY <1>1, <1>3, <1>4
<1>6. ASSUME Injected(ts[i]) PROVE InMessage(ts, i, left)
  <2>1. InMessage(fs, i + 1, open)
    BY <1>3, <1>4, <1>6
  <2>2. ASSUME NEW a \in 1..i, Unfinished(fs, (a + 1)..i) PROVE Unfinished(ts, a..(i - 1))
    <3>1. SUFFICES ASSUME NEW k \in a..(i - 1), IsData(ts[k]) PROVE ~ts[k].fin
      BY Zenon DEF Unfinished
    <3>2. k + 1 \in (a + 1)..i /\ ts[k] = fs[k + 1]
      BY <1>1, <1>3
    <3> QED
      BY <2>2, <3>1, <3>2, Zenon DEF Unfinished
  <2>3. ASSUME NEW a \in 1..i, Unfinished(fs, a..i)
        PROVE  /\ \A k \in a..i : IsData(fs[k]) => ~fs[k].fin
               /\ Unfinished(fs, (a + 1)..i)
    <3>1. \A k \in a..i : IsData(fs[k]) => ~fs[k].fin
      BY <2>3 DEF Unfinished
    <3>2. (a + 1)..i \subseteq a..i
      BY <1>3
    <3> QED
      BY <3>1, <3>2 DEF Unfinished
  <2>4. i + 1 - 1 = i /\ 1 \in 1..i
    BY <1>3
  <2>5. CASE open /\ Unfinished(fs, 1..i)
    <3>1. /\ \A k \in 1..i : IsData(fs[k]) => ~fs[k].fin
          /\ Unfinished(fs, (1 + 1)..i)
      BY <2>3, <2>4, <2>5
    <3>2. IsData(fs[1]) => ~fs[1].fin
      BY <2>4, <3>1
    <3>3. left
      BY <1>1, <2>5, <3>2
    <3>4. Unfinished(ts, 1..(i - 1))
      BY <2>2, <2>4, <3>1
    <3> QED
      BY <3>3, <3>4 DEF InMessage
  <2>6. ASSUME NEW j \in 1..i, IsData(fs[j]), fs[j].payload # <<>>, Unfinished(fs, j..i)
        PROVE  InMessage(ts, i, left)
    <3>1. /\ \A k \in j..i : IsData(fs[k]) => ~fs[k].fin
          /\ Unfinished(fs, (j + 1)..i)
      BY <2>3, <2>6
    <3>2. Unfinished(ts, j..(i - 1))
      BY <2>2, <3>1
    <3>3. CASE j = 1
      <4>1. IsData(fs[1]) /\ ~fs[1].fin
        BY <2>4, <2>6, <3>1, <3>3
      <4>2. left
        BY <1>1, <2>6, <3>3, <4>1
      <4> QED
        BY <3>2, <3>3, <4>2 DEF InMessage
    <3>4. CASE j # 1
      <4> DEFINE m == j - 1
      <4>1. m \in 1..(i - 1) /\ m + 1 = j /\ m \in 1..i /\ m \in 1..n
        BY <1>3, <3>4
      <4>2. ts[m] = fs[j]
        BY <1>1, <4>1
      <4>3. Unfinished(ts, m..(i - 1))
        <5> HIDE DEF m
        <5> QED
          BY <2>2, <2>6, <4>1
      <4>4. IsData(ts[m]) /\ ts[m].payload # <<>> /\ Unfinished(ts, m..(i - 1))
        BY <2>6, <4>2, <4>3
      <4> HIDE DEF m
      <4> QED
        BY <4>1, <4>4, Zenon DEF InMessage
    <3> QED
      BY <3>3, <3>4
  <2> QED
    BY <2>1, <2>4, <2>5, <2>6 DEF InMessage
<1> QED
  BY <1>5, <1>6

(* The frame at the front of the bytes that decode() works on.             *)
LEMMA FrameNext ==
  ASSUME TypeInv, ReceiveInv, busy
  PROVE  /\ Accepting /\ pending # <<>>
         /\ Head(pending) \in Frame /\ Tail(pending) \in Seq(Frame)
         /\ EncodeAll(Tail(pending)) \in Seq(Byte)
         /\ input \in Seq(Byte) /\ wire \in Seq(Byte)
         /\ ~headerRead =>
              /\ input # <<>>
              /\ input \o wire = Encode(Head(pending)) \o EncodeAll(Tail(pending))
              /\ Rsv(input) = Head(pending).rsv
<1>1. Accepting /\ InStep
  BY DEF ReceiveInv
<1>2. pending \in Seq(Frame) /\ input \in Seq(Byte) /\ wire \in Seq(Byte)
  BY DEF TypeInv, TypeOK
<1>3. pending # <<>>
  <2>1. CASE headerRead
    BY <1>1, <2>1 DEF InStep
  <2>2. CASE ~headerRead
    <3>1. input # <<>> /\ input \o wire = EncodeAll(pending)
      BY <1>1, <2>2 DEF InStep, TypeInv
    <3>2. Len(input) # 0
      BY <1>2, <3>1
    <3>3. Len(input \o wire) # 0
      BY <1>2, <3>2, Joined
    <3>4. EncodeAll(pending) # <<>>
      BY <3>1, <3>3, EmptySeq, Zenon
    <3> QED
      BY <3>4, EncodeAllNone
  <2> QED
    BY <2>1, <2>2
<1>4. Head(pending) \in Frame /\ Tail(pending) \in Seq(Frame)
  BY <1>2, <1>3
<1>5. EncodeAll(Tail(pending)) \in Seq(Byte)
  BY <1>4, EncodeAllType
<1>6. ASSUME ~headerRead
      PROVE  /\ input # <<>>
             /\ input \o wire = Encode(Head(pending)) \o EncodeAll(Tail(pending))
             /\ Rsv(input) = Head(pending).rsv
  <2>1. input # <<>> /\ input \o wire = EncodeAll(pending)
    BY <1>1, <1>6 DEF InStep, TypeInv
  <2>2. EncodeAll(pending) = Encode(Head(pending)) \o EncodeAll(Tail(pending))
    BY <1>2, <1>3, EncodeAllStep
  <2>3. input \o wire = Encode(Head(pending)) \o EncodeAll(Tail(pending))
    BY <2>1, <2>2, Zenon
  <2> DEFINE f == Head(pending)
  <2> DEFINE rest == EncodeAll(Tail(pending))
  <2>4. f \in Frame /\ rest \in Seq(Byte) /\ input \o wire = Encode(f) \o rest
    BY <1>4, <1>5, <2>3
  <2>5. Rsv(input) = f.rsv
    <3> HIDE DEF f, rest
    <3> QED
      BY <1>2, <2>1, <2>4, HeaderAhead, Zenon
  <2> QED
    BY <2>1, <2>3, <2>5
<1> QED
  BY <1>1, <1>2, <1>3, <1>4, <1>5, <1>6

(* Whenever its header is complete it is read as the peer meant it.        *)
LEMMA FrameHeader ==
  ASSUME TypeInv, ReceiveInv, busy, HeaderComplete
  PROVE  /\ Head(pending).rsv = 0
         /\ Header = HeaderOf(Head(pending))
         /\ Body \in Seq(Byte)
         /\ IsCut(Masked(Head(pending).payload, Head(pending).mask) \o EncodeAll(Tail(pending)),
                  Body, wire)
<1> DEFINE f == Head(pending)
<1> DEFINE rest == EncodeAll(Tail(pending))
<1>1. /\ f \in Frame /\ rest \in Seq(Byte) /\ input \in Seq(Byte) /\ wire \in Seq(Byte)
      /\ ~headerRead => /\ input # <<>>
                        /\ input \o wire = Encode(f) \o rest
                        /\ Rsv(input) = f.rsv
  BY FrameNext
<1>2. CASE headerRead
  <2>1. /\ f.rsv = 0 /\ header = HeaderOf(f)
        /\ input \o wire = Masked(f.payload, f.mask) \o rest
    <3>1. InStep
      BY DEF ReceiveInv
    <3> QED
      BY <1>2, <3>1 DEF InStep
  <2>2. IsCut(Masked(f.payload, f.mask) \o rest, input, wire)
    BY <2>1, Zenon DEF IsCut
  <2>3. Header = header /\ Body = input
    BY <1>2 DEF Header, Body
  <2> QED
    BY <1>1, <2>1, <2>2, <2>3, Zenon
<1>3. CASE ~headerRead
  <2>1. Rsv(input) = 0 /\ HeaderWants(input) = 0
    BY <1>3 DEF HeaderComplete
  <2>2. /\ ReadHeader(input) = HeaderOf(f)
        /\ Drop(input, HeaderSize(input)) \in Seq(Byte)
        /\ IsCut(Masked(f.payload, f.mask) \o rest, Drop(input, HeaderSize(input)), wire)
    <3> HIDE DEF f, rest
    <3> QED
      BY <1>1, <1>3, <2>1, HeaderAhead, Zenon
  <2>3. Header = ReadHeader(input) /\ Body = Drop(input, HeaderSize(input))
    BY <1>3 DEF Header, Body
  <2> QED
    BY <1>1, <1>3, <2>1, <2>2, <2>3, Zenon
<1> QED
  BY <1>2, <1>3

(* And when its payload is there, that is what decode() makes of it, and   *)
(* the bytes behind it are those of the frames that follow.                *)
LEMMA FrameTaken ==
  ASSUME TypeInv, ReceiveInv, NEW opcodes, TakeFrame(opcodes)
  PROVE  /\ Accepting /\ pending # <<>> /\ Head(pending) \in Frame
         /\ Tail(pending) \in Seq(Frame) /\ pending' = Tail(pending)
         /\ Head(pending).rsv = 0 /\ Header = HeaderOf(Head(pending))
         /\ Head(pending).opcode \in opcodes
         /\ Payload = Head(pending).payload
         /\ input' \o wire' = EncodeAll(pending')
<1> DEFINE f == Head(pending)
<1> DEFINE rest == EncodeAll(Tail(pending))
<1> DEFINE b == Body
<1>1. busy /\ HeaderComplete /\ Header.length <= Len(b) /\ Header.opcode \in opcodes
  BY DEF TakeFrame
<1>2. /\ Accepting /\ pending # <<>> /\ f \in Frame /\ Tail(pending) \in Seq(Frame)
      /\ rest \in Seq(Byte) /\ wire \in Seq(Byte)
  BY <1>1, FrameNext
<1>3. /\ f.rsv = 0 /\ Header = HeaderOf(f) /\ b \in Seq(Byte)
      /\ IsCut(Masked(f.payload, f.mask) \o rest, b, wire)
  BY <1>1, FrameHeader
<1>4. Header.length = Len(f.payload) /\ Header.opcode = f.opcode /\ Header.mask = f.mask
  BY <1>3 DEF HeaderOf
<1>5. /\ Masked(FirstOf(b, Len(f.payload)), f.mask) = f.payload
      /\ IsCut(rest, Drop(b, Len(f.payload)), wire)
  <2>1. Len(f.payload) <= Len(b)
    BY <1>1, <1>4
  <2> HIDE DEF f, rest, b
  <2> QED
    BY <1>2, <1>3, <2>1, PayloadAhead, Zenon
<1>6. Payload = f.payload
  BY <1>4, <1>5, Zenon DEF Payload
<1>7. pending' = Tail(pending) /\ input' = Drop(b, Len(f.payload)) /\ wire' = wire
  BY <1>2, <1>4 DEF TakeFrame, Handled
<1>8. input' \o wire' = EncodeAll(pending')
  BY <1>5, <1>7, Zenon DEF IsCut
<1> QED
  BY <1>1, <1>2, <1>3, <1>4, <1>6, <1>7, <1>8

(* Nothing is left behind the last frame.                                  *)
LEMMA LastFrame ==
  ASSUME TypeInv, ReceiveInv, NEW opcodes, TakeFrame(opcodes), Ends(Head(pending))
  PROVE  pending' = <<>> /\ input' = <<>> /\ wire' = <<>>
<1>1. /\ Accepting /\ pending # <<>> /\ pending' = Tail(pending)
      /\ input' \o wire' = EncodeAll(pending')
  BY FrameTaken
<1>2. pending \in Seq(Frame) /\ input' \in Seq(Byte) /\ wire' \in Seq(Byte)
  BY TakenTypes DEF TypeInv, TypeOK
<1>3. 1 \in 1..Len(pending) /\ Head(pending) = pending[1]
  BY <1>1, <1>2
<1>4. Tidy(pending, decodeBuf # <<>>)
  BY <1>1 DEF ReceiveInv
<1>5. Ends(pending[1]) => 1 = Len(pending)
  BY <1>3, <1>4, Zenon DEF Tidy
<1>6. Len(pending) = 1
  BY <1>3, <1>5
<1>7. Tail(pending) = <<>>
  <2>1. Len(Tail(pending)) = 0 /\ Tail(pending) \in Seq(Frame)
    BY <1>1, <1>2, <1>6
  <2> QED
    BY <2>1, EmptySeq
<1>8. input' \o wire' = <<>>
  BY <1>1, <1>7, EncodeAllNone, Zenon
<1>9. Len(input') = 0 /\ Len(wire') = 0
  <2>1. Len(input' \o wire') = 0
    BY <1>8
  <2> QED
    BY <1>2, <2>1, Joined
<1> QED
  BY <1>1, <1>2, <1>7, <1>9, EmptySeq

(* A protocol error ends everything.                                       *)
LEMMA Stopped ==
  ASSUME NEW told, CloseWith(PROTOCOL_ERROR, told)
  PROVE  ~reading' /\ ~Accepting'
<1>1. ~(PROTOCOL_ERROR = NORMAL_CLOSE)
  BY DEF PROTOCOL_ERROR, NORMAL_CLOSE
<1>2. reading' = (reading /\ PROTOCOL_ERROR = NORMAL_CLOSE)
  BY DEF CloseWith
<1>3. ~reading'
  BY <1>1, <1>2, Zenon
<1> QED
  BY <1>3, Zenon DEF Accepting

LEMMA ReceiveRefuse ==
  ASSUME Refuse
  PROVE  ReceiveInv'
<1>1. ~reading' /\ ~Accepting' /\ ~busy'
  BY Stopped DEF Refuse
<1> QED
  BY <1>1 DEF ReceiveInv

(* A frame that is accepted leaves the bytes of the others.                *)
LEMMA ReceiveGoOn ==
  ASSUME TypeInv, ReceiveInv, NEW opcodes, TakeFrame(opcodes), clearDecodeStatus,
         UNCHANGED reading,
         (decodeBuf' # <<>>) <=>
            /\ decodeBuf # <<>> \/ (IsData(Head(pending)) /\ Head(pending).payload # <<>>)
            /\ ~(IsData(Head(pending)) /\ Head(pending).fin),
         decodeBuf' # <<>> => fragmentedOpCode' # 0
  PROVE  ReceiveInv'
<1>1. /\ Accepting /\ pending # <<>> /\ pending' = Tail(pending)
      /\ input' \o wire' = EncodeAll(pending')
  BY FrameTaken
<1>2. ~headerRead' /\ reading'
  BY <1>1 DEF clearDecodeStatus, Accepting
<1>3. Accepting' /\ InStep'
  BY <1>1, <1>2 DEF Accepting, InStep
<1>4. Tidy(pending, decodeBuf # <<>>) /\ pending \in Seq(Frame)
  BY <1>1 DEF ReceiveInv, TypeInv, TypeOK
<1>5. Tidy(Tail(pending), decodeBuf' # <<>>)
  <2> DEFINE open == decodeBuf # <<>>
  <2> DEFINE left == decodeBuf' # <<>>
  <2>1. open \in BOOLEAN /\ left \in BOOLEAN /\ Tidy(pending, open)
    BY <1>4, Zenon
  <2>2. left <=> /\ open \/ (IsData(Head(pending)) /\ Head(pending).payload # <<>>)
                 /\ ~(IsData(Head(pending)) /\ Head(pending).fin)
    OBVIOUS
  <2> HIDE DEF open, left
  <2>3. Tidy(Tail(pending), left)
    BY <1>1, <1>4, <2>1, <2>2, TidyTail, Zenon
  <2> QED
    BY <2>3 DEF left
<1>6. Tidy(pending', decodeBuf' # <<>>)
  BY <1>1, <1>5, Zenon
<1> QED
  BY <1>3, <1>6, Zenon DEF ReceiveInv

LEMMA CutAt ==
  ASSUME NEW s \in Seq(Byte), NEW n \in 0..Len(s)
  PROVE  /\ FirstOf(s, n) \in Seq(Byte) /\ Drop(s, n) \in Seq(Byte)
         /\ IsCut(s, FirstOf(s, n), Drop(s, n))
<1> DEFINE a == FirstOf(s, n)
<1> DEFINE b == Drop(s, n)
<1>1. /\ a \in Seq(Byte) /\ Len(a) = n /\ (\A i \in 1..n : a[i] = s[i])
      /\ b \in Seq(Byte) /\ Len(b) = Len(s) - n
      /\ (\A i \in 1 .. Len(s) - n : b[i] = s[n + i])
  BY DEF FirstOf, Drop
<1> HIDE DEF a, b
<1>2. /\ Len(a \o b) = Len(s) /\ a \o b \in Seq(Byte)
      /\ \A i \in 1..n : (a \o b)[i] = s[i]
      /\ \A i \in 1 .. Len(s) - n : (a \o b)[n + i] = s[n + i]
  BY <1>1, Joined
<1>3. ASSUME NEW i \in 1..Len(s) PROVE (a \o b)[i] = s[i]
  <2>1. CASE i <= n
    BY <1>2, <2>1
  <2>2. CASE i > n
    <3>1. PICK k \in 1 .. Len(s) - n : i = n + k
      <4>1. i - n \in 1 .. Len(s) - n /\ i = n + (i - n)
        BY <2>2
      <4> QED
        BY <4>1
    <3> QED
      BY <1>2, <3>1
  <2>3. i <= n \/ i > n
    <3>1. i \in Int /\ n \in Int
      OBVIOUS
    <3> QED
      BY <3>1
  <2> QED
    BY <2>1, <2>2, <2>3
<1>4. a \o b = s
  BY <1>2, <1>3, SeqEqual
<1> QED
  BY <1>1, <1>4 DEF IsCut, a, b

LEMMA ReceiveRead ==
  ASSUME TypeInv, ReceiveInv, NEW n \in 1..Len(wire), Read(n)
  PROVE  ReceiveInv'
<1>1. wire \in Seq(Byte) /\ input \in Seq(Byte) /\ n \in Nat /\ n <= Len(wire) /\ wire # <<>>
  BY DEF TypeInv, TypeOK
<1>2. Accepting /\ Accepting'
  BY <1>1, Zenon DEF ReceiveInv, Read, Accepting
<1>3. IsCut(wire, FirstOf(wire, n), Drop(wire, n))
      /\ FirstOf(wire, n) \in Seq(Byte) /\ Drop(wire, n) \in Seq(Byte)
  BY <1>1, CutAt
<1>4. input' \o wire' = input \o wire
  <2>1. (input \o FirstOf(wire, n)) \o Drop(wire, n) = input \o (FirstOf(wire, n) \o Drop(wire, n))
    BY <1>1, <1>3, Assoc
  <2>2. FirstOf(wire, n) \o Drop(wire, n) = wire
    BY <1>3 DEF IsCut
  <2> QED
    BY <2>1, <2>2, Zenon DEF Read
<1>5. UNCHANGED <<header, headerRead, pending, decodeBuf, fragmentedOpCode>>
  BY DEF Read
<1> QED
  BY <1>2, <1>4, <1>5, Zenon DEF ReceiveInv, InStep

LEMMA ReceiveShortPayload ==
  ASSUME TypeInv, ReceiveInv, DecodeShortPayload
  PROVE  ReceiveInv'
<1>1. busy /\ HeaderComplete
  BY DEF DecodeShortPayload
<1>2. Accepting /\ pending # <<>>
  BY <1>1, FrameNext
<1>3. /\ Head(pending).rsv = 0 /\ Header = HeaderOf(Head(pending))
      /\ IsCut(Masked(Head(pending).payload, Head(pending).mask) \o EncodeAll(Tail(pending)),
               Body, wire)
  BY <1>1, FrameHeader
<1>4. /\ header' = Header /\ input' = Body /\ headerRead' = TRUE /\ wire' = wire
      /\ UNCHANGED <<pending, reading, decodeBuf, fragmentedOpCode>>
  BY DEF DecodeShortPayload
<1>5. Accepting'
  BY <1>2, <1>4 DEF Accepting
<1>6. InStep'
  BY <1>2, <1>3, <1>4, Zenon DEF InStep, IsCut
<1> QED
  BY <1>2, <1>4, <1>5, <1>6, Zenon DEF ReceiveInv

(* Appending to a buffer: is it still empty?                               *)
LEMMA EmptyJoin ==
  ASSUME NEW a \in Seq(Byte), NEW b \in Seq(Byte)
  PROVE  (a \o b # <<>>) <=> (a # <<>> \/ b # <<>>)
<1>1. Len(a \o b) = Len(a) + Len(b) /\ Len(a) \in Nat /\ Len(b) \in Nat /\ a \o b \in Seq(Byte)
  BY Joined
<1>2. ASSUME NEW s \in Seq(Byte) PROVE (s # <<>>) <=> (Len(s) # 0)
  BY <1>2, EmptySeq
<1>3. /\ (a # <<>>) <=> (Len(a) # 0)
      /\ (b # <<>>) <=> (Len(b) # 0)
      /\ (a \o b # <<>>) <=> (Len(a \o b) # 0)
  BY <1>1, <1>2
<1> QED
  BY <1>1, <1>3

LEMMA ReceiveContinuation ==
  ASSUME TypeInv, ReceiveInv, DecodeContinuation
  PROVE  ReceiveInv'
<1> DEFINE opcodes == {0}
<1>1. TakeFrame(opcodes)
  BY DEF DecodeContinuation
<1>2. Head(pending).opcode \in opcodes /\ Payload = Head(pending).payload
      /\ Header = HeaderOf(Head(pending)) /\ Accepting
  BY <1>1, FrameTaken
<1>3. IsData(Head(pending)) /\ Header.fin = Head(pending).fin
  BY <1>2 DEF IsData, HeaderOf
<1> HIDE DEF opcodes
<1>4. Payload \in Seq(Byte) /\ decodeBuf \in Seq(Byte)
  BY <1>1, TakenTypes DEF TypeInv, TypeOK
<1>5. CASE ~Refuse
  <2>1. fragmentedOpCode # 0 /\ clearDecodeStatus /\ UNCHANGED reading
    BY <1>5 DEF DecodeContinuation
  <2>2. CASE Header.fin /\ Deliver(fragmentedOpCode)
    <3>1. decodeBuf' = <<>>
      BY <2>2 DEF Deliver
    <3> QED
      BY <1>1, <1>3, <2>1, <2>2, <3>1, ReceiveGoOn
  <2>3. CASE ~Header.fin /\ decodeBuf' = decodeBuf \o Payload /\ UNCHANGED fragmentedOpCode
    <3>1. decodeBuf' # <<>> <=> decodeBuf # <<>> \/ Head(pending).payload # <<>>
      BY <1>2, <1>4, <2>3, EmptyJoin
    <3> QED
      BY <1>1, <1>3, <2>1, <2>3, <3>1, ReceiveGoOn
  <2> QED
    BY <1>5, <2>2, <2>3 DEF DecodeContinuation
<1> QED
  BY <1>5, ReceiveRefuse

LEMMA ReceiveData ==
  ASSUME TypeInv, ReceiveInv, DecodeData
  PROVE  ReceiveInv'
<1> DEFINE opcodes == {1, 2}
<1>1. TakeFrame(opcodes)
  BY DEF DecodeData
<1>2. Head(pending).opcode \in opcodes /\ Payload = Head(pending).payload
      /\ Header = HeaderOf(Head(pending)) /\ Accepting
  BY <1>1, FrameTaken
<1>3. IsData(Head(pending)) /\ Header.fin = Head(pending).fin /\ Header.opcode # 0
  BY <1>2 DEF IsData, HeaderOf
<1> HIDE DEF opcodes
<1>4. Payload \in Seq(Byte) /\ decodeBuf \in Seq(Byte)
  BY <1>1, TakenTypes DEF TypeInv, TypeOK
<1>5. CASE ~Refuse
  <2>1. fragmentedOpCode = 0 /\ clearDecodeStatus /\ UNCHANGED reading
    BY <1>5 DEF DecodeData
  <2>2. CASE Header.fin /\ Deliver(Header.opcode)
    <3>1. decodeBuf' = <<>>
      BY <2>2 DEF Deliver
    <3> QED
      BY <1>1, <1>3, <2>1, <2>2, <3>1, ReceiveGoOn
  <2>3. CASE ~Header.fin /\ decodeBuf' = decodeBuf \o Payload /\ fragmentedOpCode' = Header.opcode
    <3>1. decodeBuf' # <<>> <=> decodeBuf # <<>> \/ Head(pending).payload # <<>>
      BY <1>2, <1>4, <2>3, EmptyJoin
    <3> QED
      BY <1>1, <1>3, <2>1, <2>3, <3>1, ReceiveGoOn
  <2> QED
    BY <1>5, <2>2, <2>3 DEF DecodeData
<1> QED
  BY <1>5, ReceiveRefuse

(* Its payload does not get into decodeBuf_ when the peer is tidy.         *)
LEMMA KeepsMessage ==
  ASSUME TypeInv, ReceiveInv, TakeFrame({9}) \/ TakeFrame({10})
  PROVE  /\ ~IsData(Head(pending)) /\ Head(pending).opcode \in {9, 10}
         /\ KeepMessage => decodeBuf' = decodeBuf
<1>1. /\ Accepting /\ pending # <<>> /\ Head(pending).opcode \in {9, 10}
      /\ Payload = Head(pending).payload
  BY FrameTaken
<1>2. pending \in Seq(Frame) /\ Tidy(pending, decodeBuf # <<>>)
  BY <1>1 DEF ReceiveInv, TypeInv, TypeOK
<1>3. 1 \in 1..Len(pending) /\ Head(pending) = pending[1]
  BY <1>1, <1>2
<1>4. Injected(Head(pending)) => InMessage(pending, 1, decodeBuf # <<>>)
  BY <1>2, <1>3, Zenon DEF Tidy
<1>5. ~\E j \in 1..(1 - 1) : TRUE
  OBVIOUS
<1>6. Injected(Head(pending)) => decodeBuf # <<>>
  BY <1>4, <1>5, Zenon DEF InMessage
<1>7. decodeBuf = <<>> => Payload = <<>>
  BY <1>1, <1>6 DEF Injected
<1> QED
  BY <1>1, <1>7 DEF KeepMessage, IsData

LEMMA ReceiveClose ==
  ASSUME TypeInv, ReceiveInv, DecodeClose
  PROVE  ReceiveInv' /\ ~Accepting'
<1> DEFINE opcodes == {8}
<1>1. TakeFrame(opcodes)
  BY DEF DecodeClose
<1>2. Header.opcode = 8 /\ header' = Header /\ Header = HeaderOf(Head(pending))
  BY <1>1, FrameTaken DEF TakeFrame
<1>3. Ends(Head(pending))
  BY <1>2 DEF Ends, HeaderOf
<1> HIDE DEF opcodes
<1>4. pending' = <<>> /\ input' = <<>> /\ wire' = <<>>
  BY <1>1, <1>3, LastFrame
<1>5. headerRead' /\ ~busy'
  BY <1>4 DEF DecodeClose, GoOn
<1>6. ~Accepting'
  BY <1>2, <1>4, <1>5 DEF Accepting
<1> QED
  BY <1>4, <1>5, <1>6, Zenon DEF ReceiveInv

LEMMA ReceivePing ==
  ASSUME TypeInv, ReceiveInv, DecodePing
  PROVE  ReceiveInv'
<1> DEFINE opcodes == {9}
<1>1. TakeFrame(opcodes)
  BY DEF DecodePing
<1>2. ~IsData(Head(pending)) /\ (KeepMessage => decodeBuf' = decodeBuf)
  BY <1>1, KeepsMessage
<1>3. Accepting /\ Header = HeaderOf(Head(pending)) /\ Head(pending).opcode \in opcodes
  BY <1>1, FrameTaken
<1>4. CASE ~Refuse
  <2>1. KeepMessage /\ clearDecodeStatus /\ GoOn /\ UNCHANGED fragmentedOpCode
    BY <1>4 DEF DecodePing
  <2>2. CASE Header.length < kControlLimit /\ UNCHANGED reading
    <3>1. decodeBuf' # <<>> => fragmentedOpCode' # 0
      BY <1>2, <1>3, <2>1 DEF ReceiveInv
    <3> HIDE DEF opcodes
    <3> QED
      BY <1>1, <1>2, <2>1, <2>2, <3>1, ReceiveGoOn
  <2>3. CASE Header.length >= kControlLimit /\ CloseWith(PROTOCOL_ERROR, <<Event("ping", Payload)>>)
    <3>1. Ends(Head(pending))
      BY <1>3, <2>3 DEF Ends, HeaderOf
    <3> HIDE DEF opcodes
    <3>2. input' = <<>>
      BY <1>1, <3>1, LastFrame
    <3>3. ~busy' /\ ~reading' /\ ~Accepting'
      BY <2>1, <2>3, <3>2, Stopped DEF GoOn
    <3> QED
      BY <3>3 DEF ReceiveInv
  <2> QED
    BY <1>4, <2>2, <2>3 DEF DecodePing, SendControl
<1> QED
  BY <1>4, ReceiveRefuse

LEMMA ReceivePong ==
  ASSUME TypeInv, ReceiveInv, DecodePong
  PROVE  ReceiveInv'
<1> DEFINE opcodes == {10}
<1>1. TakeFrame(opcodes)
  BY DEF DecodePong
<1>2. ~IsData(Head(pending)) /\ (KeepMessage => decodeBuf' = decodeBuf)
  BY <1>1, KeepsMessage
<1>3. Accepting
  BY <1>1, FrameTaken
<1>4. CASE ~Refuse
  <2>1. KeepMessage /\ clearDecodeStatus /\ UNCHANGED <<fragmentedOpCode, reading>>
    BY <1>4 DEF DecodePong
  <2>2. decodeBuf' # <<>> => fragmentedOpCode' # 0
    BY <1>2, <1>3, <2>1 DEF ReceiveInv
  <2> HIDE DEF opcodes
  <2> QED
    BY <1>1, <1>2, <2>1, <2>2, ReceiveGoOn
<1> QED
  BY <1>4, ReceiveRefuse

LEMMA ReceiveApp ==
  ASSUME TypeInv, ReceiveInv, App
  PROVE  ReceiveInv'
<1>1. /\ ~busy
      /\ UNCHANGED <<wire, input, header, headerRead, decodeBuf, fragmentedOpCode, busy, pending>>
  BY DEF App, SendMessage, SendPing, SendLongPing, Close, AppTurn
<1>2. reading' => reading
  BY DEF App, SendMessage, SendPing, SendLongPing, Close, CloseWith, SendControl
<1>3. CASE Accepting'
  <2>1. Accepting
    BY <1>1, <1>2, <1>3 DEF Accepting
  <2>2. InStep'
    BY <1>1, <2>1 DEF ReceiveInv, InStep
  <2> QED
    BY <1>1, <1>3, <2>1, <2>2, Zenon DEF ReceiveInv
<1>4. CASE ~Accepting'
  <2>1. reading' => ~Accepting
    BY <1>1, <1>2, <1>4 DEF Accepting
  <2> QED
    BY <1>1, <1>2, <1>4, <2>1 DEF ReceiveInv
<1> QED
  BY <1>3, <1>4

LEMMA ReceiveStep ==
  ASSUME TypeInv, ReceiveInv, [Next]_vars
  PROVE  ReceiveInv'
<1>1. ASSUME DecodeRsv PROVE ReceiveInv'
  <2>1. ~busy' /\ ~reading' /\ ~Accepting'
    BY <1>1, Stopped DEF DecodeRsv
  <2> QED
    BY <2>1 DEF ReceiveInv
<1>2. CASE DecodeShortHeader
  BY <1>2, Zenon DEF DecodeShortHeader, ReceiveInv, InStep, Accepting
<1>3. CASE DecodeUnknown
  BY <1>3, ReceiveRefuse DEF DecodeUnknown
<1>4. CASE UNCHANGED vars
  BY <1>4, Zenon DEF vars, ReceiveInv, InStep, Accepting
<1> QED
  BY <1>1, <1>2, <1>3, <1>4, ReceiveRead, ReceiveShortPayload, ReceiveContinuation, ReceiveData,
     ReceiveClose, ReceivePing, ReceivePong, ReceiveApp DEF Next, Decode

LEMMA ReceiveInit ==
  ASSUME TidyPeer, Init
  PROVE  ReceiveInv
<1>1. pending \in Seq(Frame) /\ pending \in Traffic
  BY TypeInit DEF TypeInv, TypeOK, Init
<1> DEFINE bytes == EncodeAll(pending)
<1>2. bytes \in Seq(Byte)
  BY <1>1, EncodeAllType
<1>3. PICK n \in 0..(IF Early THEN Len(bytes) ELSE 0) :
        input = FirstOf(bytes, n) /\ wire = Drop(bytes, n)
  BY Zenon DEF Init
<1>4. input \o wire = EncodeAll(pending)
  <2>1. n \in 0..Len(bytes)
    BY <1>2
  <2>2. FirstOf(bytes, n) \o Drop(bytes, n) = bytes
    <3> HIDE DEF bytes
    <3> QED
      BY <1>2, <2>1, CutAt, Zenon DEF IsCut
  <2> QED
    BY <1>3, <2>2, Zenon
<1>5. ~headerRead /\ reading /\ decodeBuf = <<>>
  BY DEF Init
<1>6. Tidy(pending, decodeBuf # <<>>)
  <2>1. Tidy(pending, FALSE)
    BY <1>1 DEF TidyPeer
  <2>2. (decodeBuf # <<>>) = FALSE
    BY <1>5
  <2> QED
    BY <2>1, <2>2, Zenon
<1> QED
  BY <1>4, <1>5, <1>6, Zenon DEF ReceiveInv, InStep, Accepting

(* decodeBuf_ holds data of a fragmented message and nothing else, when a  *)
(* tidy peer sends pings and pongs with a payload only inside a message    *)
(* (WebSocketConnection.cpp:376-383, 396-398).                             *)
THEOREM ControlDataApartCorrect ==
  ASSUME TidyPeer
  PROVE  Spec => []ControlDataApart
<1>1. Init => TypeInv /\ ReceiveInv
  BY TypeInit, ReceiveInit
<1>2. TypeInv /\ ReceiveInv /\ [Next]_vars => TypeInv' /\ ReceiveInv'
  BY TypeStep, ReceiveStep
<1>3. ReceiveInv => ControlDataApart
  BY DEF ReceiveInv, ControlDataApart
<1> QED
  BY <1>1, <1>2, <1>3, PTL DEF Spec

-----------------------------------------------------------------------------
(* Why nothing is handled after a protocol error: what is sent is never    *)
(* mistaken for the close frame of an error, and after that frame the      *)
(* connection does not read.                                               *)
LEMMA AnswerStep ==
  ASSUME AnswerInv, [Next]_vars
  PROVE  AnswerInv'
<1>0. PROTOCOL_ERROR \in 1000..1003 /\ NORMAL_CLOSE \in 1000..1003 /\ CloseCodes \subseteq 1000..1003
  BY ConstantsOK DEF ConstantsOK, PROTOCOL_ERROR, NORMAL_CLOSE
<1>1. ASSUME UNCHANGED <<outputBuf, status>> PROVE AnswerInv'
  BY <1>1 DEF AnswerInv
<1>2. ASSUME NEW code \in 1000..1003, NEW told, CloseWith(code, told) PROVE AnswerInv'
  <2>1. outputBuf' = CloseFrame(code) /\ status' # "CONNECT"
    BY <1>2 DEF CloseWith
  <2> QED
    BY <2>1 DEF AnswerInv
<1>3. ASSUME NEW first, NEW message, NEW told, SendControl(first, message, told) PROVE AnswerInv'
  BY <1>3 DEF SendControl, AnswerInv
<1>4. ASSUME Refuse PROVE AnswerInv'
  BY <1>0, <1>2, <1>4 DEF Refuse
<1>5. ASSUME NEW n \in 1..Len(wire), Read(n) PROVE AnswerInv'
  BY <1>1, <1>5 DEF Read
<1>6. CASE DecodeRsv
  BY <1>0, <1>2, <1>6 DEF DecodeRsv
<1>7. CASE DecodeShortHeader \/ DecodeShortPayload
  BY <1>1, <1>7 DEF DecodeShortHeader, DecodeShortPayload
<1>8. CASE DecodeContinuation \/ DecodeData \/ DecodePong \/ DecodeUnknown
  BY <1>1, <1>4, <1>8 DEF DecodeContinuation, DecodeData, DecodePong, DecodeUnknown
<1>9. CASE DecodeClose
  <2>1. CASE UNCHANGED <<outputBuf, status>>
    BY <1>1, <2>1
  <2>2. CASE outputBuf' = CloseFrame(NORMAL_CLOSE) /\ status' = "CLOSED"
    BY <1>0, <2>2 DEF AnswerInv
  <2> QED
    BY <1>9, <2>1, <2>2 DEF DecodeClose
<1>10. CASE DecodePing
  BY <1>0, <1>2, <1>3, <1>4, <1>10 DEF DecodePing
<1>11. ASSUME NEW opcode, NEW len, SendMessage(opcode, len) PROVE AnswerInv'
  BY <1>1, <1>11 DEF SendMessage
<1>12. CASE SendPing
  BY <1>3, <1>12 DEF SendPing
<1>13. CASE SendLongPing
  BY <1>0, <1>2, <1>13 DEF SendLongPing
<1>14. ASSUME NEW code \in CloseCodes, Close(code) PROVE AnswerInv'
  BY <1>0, <1>2, <1>14 DEF Close
<1>15. CASE UNCHANGED vars
  BY <1>1, <1>15 DEF vars
<1> QED
  BY <1>5, <1>6, <1>7, <1>8, <1>9, <1>10, <1>11, <1>12, <1>13, <1>14, <1>15 DEF Next, Decode, App

ErrorClose == Sent(CloseFrame(PROTOCOL_ERROR))
ErrorInv == Refused => ~reading

LEMMA EventFields ==
  ASSUME NEW a, NEW b, NEW c, NEW d
  PROVE  /\ Event(a, b) = Event(c, d) => a = c /\ b = d
         /\ Event(a, b).what = a /\ Event(a, b).data = b
BY DEF Event

LEMMA ErrorCloseRead == FrameEvent(ErrorClose) = Event("sentClose", <<PROTOCOL_ERROR>>)
<1>1. PROTOCOL_ERROR \in Nat /\ PROTOCOL_ERROR < 65536
  BY DEF PROTOCOL_ERROR
<1> HIDE DEF PROTOCOL_ERROR
<1> QED
  BY <1>1, CloseRead DEF ErrorClose

LEMMA NormalIsNoError == Sent(CloseFrame(NORMAL_CLOSE)) # ErrorClose
<1>1. NORMAL_CLOSE \in Nat /\ NORMAL_CLOSE < 65536 /\ NORMAL_CLOSE # PROTOCOL_ERROR
  BY DEF NORMAL_CLOSE, PROTOCOL_ERROR
<1>2. FrameEvent(Sent(CloseFrame(NORMAL_CLOSE))) = Event("sentClose", <<NORMAL_CLOSE>>)
  BY <1>1, CloseRead
<1>3. Event("sentClose", <<NORMAL_CLOSE>>) # Event("sentClose", <<PROTOCOL_ERROR>>)
  BY <1>1, EventFields
<1> QED
  BY <1>2, <1>3, ErrorCloseRead, Zenon

LEMMA HeaderIsNoError ==
  ASSUME NEW opcode \in {1, 2}, NEW len \in UInt64
  PROVE  Sent(WriteHeader(opcode, len)) # ErrorClose
<1>1. FrameEvent(Sent(WriteHeader(opcode, len))) = Event("sentMessage", <<opcode, len>>)
  BY HeaderRead
<1>2. Event("sentMessage", <<opcode, len>>) # Event("sentClose", <<PROTOCOL_ERROR>>)
  BY EventFields
<1> QED
  BY <1>1, <1>2, ErrorCloseRead, Zenon

(* Not even behind a close frame that was left in outputBuf_.              *)
LEMMA ControlIsNoError ==
  ASSUME TypeInv, AnswerInv, NEW first \in {137, 138}, NEW message \in Seq(Byte),
         Len(message) < kControlLimit
  PROVE  Sent(outputBuf \o ControlFrame(first, message)) # ErrorClose
<1> DEFINE c == ControlFrame(first, message)
<1>1. c \in Seq(Byte) /\ outputBuf \in Seq(Byte)
  BY ControlFrameIs DEF TypeInv, TypeOK
<1>2. CASE outputBuf = <<>>
  <2>1. outputBuf \o c = c
    <3> HIDE DEF c
    <3> QED
      BY <1>1, <1>2
  <2>2. FrameEvent(Sent(c)) = Event(IF first = 137 THEN "sentPing" ELSE "sentPong", message)
    BY ControlRead
  <2>3. (IF first = 137 THEN "sentPing" ELSE "sentPong") # "sentClose"
    OBVIOUS
  <2>4. FrameEvent(Sent(c)) # FrameEvent(ErrorClose)
    <3> DEFINE kind == IF first = 137 THEN "sentPing" ELSE "sentPong"
    <3> HIDE DEF kind
    <3>1. Event(kind, message).what # Event("sentClose", <<PROTOCOL_ERROR>>).what
      BY <2>3, EventFields DEF kind
    <3> QED
      BY <2>2, <3>1, ErrorCloseRead DEF kind
  <2> QED
    BY <2>1, <2>4, Zenon
<1>3. CASE outputBuf # <<>>
  <2>1. PICK code \in 1000..1003 : outputBuf = CloseFrame(code)
    BY <1>3 DEF AnswerInv
  <2>2. ASSUME NEW n \in Nat PROVE Len(CloseFrame(n)) = 4
    BY <2>2 DEF CloseFrame, PutUInt16
  <2>3. Len(outputBuf) = 4
    BY <2>1, <2>2
  <2>4. Len(c) = 2 + Len(message) /\ Len(message) \in Nat
    BY DEF ControlFrame
  <2>5. Len(outputBuf \o c) = 4 + Len(c)
    <3> HIDE DEF c
    <3>1. Len(outputBuf \o c) = Len(outputBuf) + Len(c)
      BY <1>1, Joined
    <3> QED
      BY <2>3, <3>1
  <2>6. PROTOCOL_ERROR \in Nat
    BY DEF PROTOCOL_ERROR
  <2>7. Len(CloseFrame(PROTOCOL_ERROR)) = 4
    BY <2>2, <2>6
  <2>8. Len(outputBuf \o c) # Len(CloseFrame(PROTOCOL_ERROR))
    <3> HIDE DEF c
    <3> QED
      BY <2>4, <2>5, <2>7
  <2> QED
    <3>1. ErrorClose.data = CloseFrame(PROTOCOL_ERROR)
      BY DEF ErrorClose, Sent, Event
    <3>2. Sent(outputBuf \o c).data = outputBuf \o c
      BY DEF Sent, Event
    <3> QED
      BY <2>8, <3>1, <3>2, Zenon
<1> QED
  BY <1>2, <1>3

LEMMA OthersAreNoError ==
  ASSUME NEW what, what # "sent", NEW data
  PROVE  Event(what, data) # ErrorClose
BY DEF ErrorClose, Sent, Event

(* Events that are no such close frame do not matter.                      *)
LEMMA NotRefused ==
  ASSUME TypeInv, ErrorInv, NEW told \in Seq(EventRecords), events' = events \o told,
         \A i \in DOMAIN told : told[i] # ErrorClose, UNCHANGED reading
  PROVE  ErrorInv'
<1>1. SUFFICES ASSUME Refused' PROVE Refused
  BY Zenon DEF ErrorInv
<1>2. events \in Seq(EventRecords)
  BY DEF TypeInv, TypeOK
<1>3. PICK i \in DOMAIN (events \o told) : (events \o told)[i] = ErrorClose
  BY <1>1, Zenon DEF Refused, ErrorClose
<1>4. CASE i <= Len(events)
  <2>1. i \in DOMAIN events /\ events[i] = ErrorClose
    BY <1>2, <1>3, <1>4
  <2> QED
    BY <2>1, Zenon DEF Refused, ErrorClose
<1>5. CASE ~(i <= Len(events))
  <2> DEFINE k == i - Len(events)
  <2>1. k \in DOMAIN told /\ told[k] = ErrorClose
    BY <1>2, <1>3, <1>5
  <2> QED
    BY <2>1
<1> QED
  BY <1>4, <1>5

LEMMA ErrorClosed ==
  ASSUME TypeInv, ErrorInv, NEW code \in {PROTOCOL_ERROR, NORMAL_CLOSE} \cup CloseCodes,
         CloseWith(code, <<>>)
  PROVE  ErrorInv'
<1>1. CASE code = NORMAL_CLOSE
  <2> DEFINE told == <<Sent(CloseFrame(NORMAL_CLOSE))>>
  <2>1. events' = events \o told
    BY <1>1 DEF CloseWith, TypeInv, TypeOK
  <2>2. told \in Seq(EventRecords) /\ \A i \in DOMAIN told : told[i] # ErrorClose
    <3>1. NORMAL_CLOSE \in Nat /\ NORMAL_CLOSE < 65536
      BY DEF NORMAL_CLOSE
    <3>2. CloseFrame(NORMAL_CLOSE) \in Seq(Byte)
      BY <3>1, CloseFrameIs
    <3>3. Sent(CloseFrame(NORMAL_CLOSE)) \in EventRecords
      BY <3>2, SentIs
    <3> QED
      BY <3>3, NormalIsNoError
  <2>3. UNCHANGED reading
    <3>1. reading' = (reading /\ code = NORMAL_CLOSE) /\ reading \in BOOLEAN
      BY DEF CloseWith, TypeInv, TypeOK
    <3> QED
      BY <1>1, <3>1, Zenon
  <2> HIDE DEF told
  <2> QED
    BY <2>1, <2>2, <2>3, NotRefused
<1>2. CASE code # NORMAL_CLOSE
  <2>1. reading' = (reading /\ code = NORMAL_CLOSE)
    BY DEF CloseWith
  <2>2. ~reading'
    BY <1>2, <2>1, Zenon
  <2> QED
    BY <2>2, Zenon DEF ErrorInv
<1> QED
  BY <1>1, <1>2

LEMMA ErrorRefused == ASSUME Refuse PROVE ErrorInv'
<1>1. ~reading'
  BY Stopped DEF Refuse
<1> QED
  BY <1>1, Zenon DEF ErrorInv

LEMMA ErrorControl ==
  ASSUME TypeInv, AnswerInv, ErrorInv, NEW first \in {137, 138}, NEW message \in Seq(Byte),
         Len(message) < kControlLimit, NEW told \in Seq(EventRecords),
         \A i \in DOMAIN told : told[i] # ErrorClose, SendControl(first, message, told)
  PROVE  ErrorInv'
<1> DEFINE bytes == outputBuf \o ControlFrame(first, message)
<1>1. ControlFrame(first, message) \in Seq(Byte)
  BY ControlFrameIs
<1>2. bytes \in Seq(Byte)
  BY <1>1, Joined DEF TypeInv, TypeOK
<1>3. Sent(bytes) \in EventRecords /\ Sent(bytes) # ErrorClose
  <2>1. Sent(bytes) # ErrorClose
    BY ControlIsNoError
  <2>2. Sent(bytes) \in EventRecords
    <3> HIDE DEF bytes
    <3> QED
      BY <1>2, SentIs
  <2> QED
    BY <2>1, <2>2
<1> DEFINE more == told \o <<Sent(bytes)>>
<1>4. more \in Seq(EventRecords) /\ \A i \in DOMAIN more : more[i] # ErrorClose
  <2> HIDE DEF bytes
  <2> QED
    BY <1>3
<1>5. events' = events \o more
  <2> DEFINE last == Sent(bytes)
  <2>1. events' = (events \o told) \o <<last>>
    BY DEF SendControl
  <2>2. last \in EventRecords
    BY <1>3
  <2> HIDE DEF last
  <2>3. (events \o told) \o <<last>> = events \o (told \o <<last>>)
    BY <2>2 DEF TypeInv, TypeOK
  <2> QED
    BY <2>1, <2>3 DEF last
<1>6. UNCHANGED reading
  BY DEF SendControl
<1> HIDE DEF more
<1> QED
  BY <1>4, <1>5, <1>6, NotRefused

(* One event that is no such close frame.                                  *)
LEMMA ErrorAppend ==
  ASSUME TypeInv, ErrorInv, NEW e \in EventRecords, e # ErrorClose,
         events' = events \o <<e>> \/ events' = Append(events, e), UNCHANGED reading
  PROVE  ErrorInv'
<1> DEFINE told == <<e>>
<1>1. told \in Seq(EventRecords) /\ \A i \in DOMAIN told : told[i] # ErrorClose
  OBVIOUS
<1>2. Append(events, e) = events \o told
  <2>1. events \in Seq(EventRecords)
    BY DEF TypeInv, TypeOK
  <2> QED
    BY <2>1
<1>3. events' = events \o told
  BY <1>2
<1> HIDE DEF told
<1> QED
  BY <1>1, <1>3, NotRefused

LEMMA ErrorSame == ErrorInv /\ UNCHANGED <<events, reading>> => ErrorInv'
BY Zenon DEF ErrorInv, Refused

LEMMA ErrorDeliver ==
  ASSUME TypeInv, ErrorInv, NEW opcode, Payload \in Seq(Byte), Deliver(opcode), UNCHANGED reading
  PROVE  ErrorInv'
<1> DEFINE what == IF opcode = 2 THEN "binary" ELSE "text"
<1> DEFINE e == Event(what, decodeBuf \o Payload)
<1>1. what \in EventKinds /\ what # "sent"
  BY DEF EventKinds
<1>2. decodeBuf \o Payload \in Seq(Byte)
  BY Joined DEF TypeInv, TypeOK
<1>3. e \in EventRecords /\ e # ErrorClose
  <2> HIDE DEF what
  <2> QED
    BY <1>1, <1>2, EventIs, OthersAreNoError
<1>4. CASE OnMessage
  <2>1. events' = events \o <<e>>
    BY <1>4 DEF Deliver
  <2> HIDE DEF e
  <2> QED
    BY <1>3, <2>1, ErrorAppend
<1>5. CASE ~OnMessage
  <2>1. events' = events
    BY <1>5 DEF Deliver, TypeInv, TypeOK
  <2> QED
    BY <2>1, ErrorSame
<1> QED
  BY <1>4, <1>5

LEMMA ErrorStep ==
  ASSUME TypeInv, AnswerInv, ErrorInv, [Next]_vars
  PROVE  ErrorInv'
<1>1. ASSUME UNCHANGED <<events, reading>> PROVE ErrorInv'
  BY <1>1, ErrorSame
<1>2. ASSUME NEW told, CloseWith(PROTOCOL_ERROR, told) PROVE ErrorInv'
  BY <1>2, Stopped, Zenon DEF ErrorInv
<1>3. ASSUME NEW n \in 1..Len(wire), Read(n) PROVE ErrorInv'
  BY <1>1, <1>3 DEF Read
<1>4. CASE DecodeRsv
  BY <1>2, <1>4 DEF DecodeRsv
<1>5. CASE DecodeShortHeader \/ DecodeShortPayload
  BY <1>1, <1>5 DEF DecodeShortHeader, DecodeShortPayload
<1>6. ASSUME NEW opcodes, TakeFrame(opcodes)
      PROVE  Payload \in Seq(Byte) /\ Len(Payload) = Header.length
  BY <1>6, TakenTypes
<1>7. CASE DecodeContinuation
  BY <1>1, <1>6, <1>7, ErrorDeliver, ErrorRefused DEF DecodeContinuation
<1>8. CASE DecodeData
  BY <1>1, <1>6, <1>8, ErrorDeliver, ErrorRefused DEF DecodeData
<1>9. CASE DecodeClose
  <2>1. UNCHANGED reading
    BY <1>9 DEF DecodeClose
  <2>2. CASE UNCHANGED events
    BY <1>1, <2>1, <2>2
  <2>3. CASE ~UNCHANGED events
    <3> DEFINE answer == Sent(CloseFrame(NORMAL_CLOSE))
    <3> DEFINE over == Event("tcpClose", <<>>)
    <3>1. events' = events \o <<answer, over>>
      BY <1>9, <2>3 DEF DecodeClose
    <3>2. answer \in EventRecords /\ answer # ErrorClose
      <4>1. NORMAL_CLOSE \in Nat /\ NORMAL_CLOSE < 65536
        BY DEF NORMAL_CLOSE
      <4>2. CloseFrame(NORMAL_CLOSE) \in Seq(Byte)
        BY <4>1, CloseFrameIs
      <4> QED
        BY <4>2, SentIs, NormalIsNoError
    <3>3. over \in EventRecords /\ over # ErrorClose
      <4>1. "tcpClose" \in EventKinds /\ "tcpClose" # "sent" /\ <<>> \in Seq(Byte)
        BY DEF EventKinds
      <4> QED
        BY <4>1, EventIs, OthersAreNoError, Zenon
    <3> HIDE DEF answer, over
    <3> DEFINE told == <<answer, over>>
    <3>4. told \in Seq(EventRecords) /\ \A i \in DOMAIN told : told[i] # ErrorClose
      BY <3>2, <3>3
    <3>5. events' = events \o told
      BY <3>1
    <3> HIDE DEF told
    <3> QED
      BY <2>1, <3>4, <3>5, NotRefused
  <2> QED
    BY <2>2, <2>3
<1>10. CASE DecodePing
  <2> DEFINE opcodes == {9}
  <2>1. TakeFrame(opcodes)
    BY <1>10 DEF DecodePing
  <2> HIDE DEF opcodes
  <2>2. Payload \in Seq(Byte) /\ Len(Payload) = Header.length
    BY <1>6, <2>1
  <2> DEFINE e == Event("ping", Payload)
  <2>3. e \in EventRecords /\ e # ErrorClose
    <3>1. "ping" \in EventKinds /\ "ping" # "sent"
      BY DEF EventKinds
    <3> QED
      BY <2>2, <3>1, EventIs, OthersAreNoError, Zenon
  <2> DEFINE told == <<e>>
  <2>4. told \in Seq(EventRecords) /\ \A i \in DOMAIN told : told[i] # ErrorClose
    <3> HIDE DEF e
    <3> QED
      BY <2>3
  <2>5. CASE Header.length < kControlLimit /\ SendControl(138, Payload, told)
    <3>1. Len(Payload) < kControlLimit /\ 138 \in {137, 138} /\ SendControl(138, Payload, told)
      BY <2>2, <2>5
    <3> HIDE DEF told
    <3> QED
      BY <2>2, <2>4, <3>1, ErrorControl
  <2> QED
    BY <1>2, <1>10, <2>5, ErrorRefused DEF DecodePing
<1>11. CASE DecodePong
  <2>1. CASE Refuse
    BY <2>1, ErrorRefused
  <2>2. CASE ~Refuse
    <3>1. events' = Append(events, Event("pong", Payload)) /\ UNCHANGED reading
      BY <1>11, <2>2 DEF DecodePong
    <3>2. Payload \in Seq(Byte)
      BY <1>6, <1>11 DEF DecodePong
    <3> DEFINE e == Event("pong", Payload)
    <3>3. e \in EventRecords /\ e # ErrorClose
      <4>1. "pong" \in EventKinds /\ "pong" # "sent"
        BY DEF EventKinds
      <4> QED
        BY <3>2, <4>1, EventIs, OthersAreNoError, Zenon
    <3> HIDE DEF e
    <3> QED
      BY <3>1, <3>3, ErrorAppend DEF e
  <2> QED
    BY <2>1, <2>2
<1>12. CASE DecodeUnknown
  BY <1>12, ErrorRefused DEF DecodeUnknown
<1>13. ASSUME NEW opcode \in {1, 2}, NEW len \in SendLengths, SendMessage(opcode, len) PROVE ErrorInv'
  <2>1. UNCHANGED reading
    BY <1>13 DEF SendMessage
  <2>2. CASE UNCHANGED events
    BY <1>1, <2>1, <2>2
  <2>3. CASE events' = Append(events, Sent(WriteHeader(opcode, len)))
    <3> DEFINE e == Sent(WriteHeader(opcode, len))
    <3>1. len \in UInt64
      BY ConstantsOK DEF ConstantsOK
    <3>2. WriteHeader(opcode, len) \in Seq(Byte)
      BY <3>1, WriteHeaderIs
    <3>3. e \in EventRecords /\ e # ErrorClose
      BY <3>1, <3>2, SentIs, HeaderIsNoError
    <3>4. events' = Append(events, e)
      BY <2>3
    <3> HIDE DEF e
    <3> QED
      BY <2>1, <3>3, <3>4, ErrorAppend
  <2> QED
    BY <1>13, <2>2, <2>3 DEF SendMessage
<1>14. CASE SendPing
  <2> DEFINE message == <<>>
  <2> DEFINE told == <<>>
  <2>1. PICK first \in {137, 138} : SendControl(first, message, told)
    BY <1>14 DEF SendPing
  <2>2. /\ message \in Seq(Byte) /\ Len(message) < kControlLimit
        /\ told \in Seq(EventRecords) /\ \A i \in DOMAIN told : told[i] # ErrorClose
    BY DEF kControlLimit
  <2> HIDE DEF message, told
  <2> QED
    BY <2>1, <2>2, ErrorControl
<1>15. CASE SendLongPing
  BY <1>2, <1>15 DEF SendLongPing
<1>16. ASSUME NEW code \in CloseCodes, Close(code) PROVE ErrorInv'
  BY <1>16, ErrorClosed DEF Close
<1>17. CASE UNCHANGED vars
  BY <1>1, <1>17 DEF vars
<1> QED
  BY <1>3, <1>4, <1>5, <1>7, <1>8, <1>9, <1>10, <1>11, <1>12, <1>13, <1>14, <1>15, <1>16, <1>17
     DEF Next, Decode, App

LEMMA ErrorQuietStep ==
  ASSUME ReceiveInv, ErrorInv, [Next]_vars, Refused
  PROVE  pending' = pending
<1>1. ~busy
  BY DEF ErrorInv, ReceiveInv, Accepting
<1>2. ~Decode
  BY <1>1 DEF Decode, DecodeRsv, DecodeShortHeader, DecodeShortPayload, DecodeContinuation,
              DecodeData, DecodeClose, DecodePing, DecodePong, DecodeUnknown, TakeFrame
<1>3. ASSUME NEW n \in 1..Len(wire), Read(n) PROVE pending' = pending
  BY <1>3 DEF Read
<1>4. CASE App
  BY <1>4 DEF App, SendMessage, SendPing, SendLongPing, Close, AppTurn
<1>5. CASE UNCHANGED vars
  BY <1>5 DEF vars
<1> QED
  BY <1>2, <1>3, <1>4, <1>5 DEF Next

(* Once a frame was refused, or the application has closed with the code   *)
(* of a protocol error, no further frame is handled, although bytes of it  *)
(* may be in the buffer already (WebSocketConnection.cpp:219-222).         *)
THEOREM NothingAfterErrorCorrect ==
  ASSUME TidyPeer
  PROVE  Spec => NothingAfterError
<1>1. Init => TypeInv /\ ReceiveInv /\ AnswerInv /\ ErrorInv
  <2>1. Init => AnswerInv /\ ErrorInv
    BY DEF Init, AnswerInv, ErrorInv, Refused
  <2> QED
    BY <2>1, TypeInit, ReceiveInit
<1>2. TypeInv /\ ReceiveInv /\ AnswerInv /\ ErrorInv /\ [Next]_vars
        => TypeInv' /\ ReceiveInv' /\ AnswerInv' /\ ErrorInv'
  BY TypeStep, ReceiveStep, AnswerStep, ErrorStep
<1>3. ReceiveInv /\ ErrorInv /\ [Next]_vars => [Refused => pending' = pending]_vars
  BY ErrorQuietStep
<1> QED
  BY <1>1, <1>2, <1>3, PTL DEF Spec, NothingAfterError

-----------------------------------------------------------------------------
(* Why a frame that is there is handled at once: decode() waits for its     *)
(* header, or for its payload, and never for more.                         *)
LEMMA WaitShortHeader ==
  ASSUME TypeInv, ReceiveInv, DecodeShortHeader
  PROVE  /\ Accepting /\ pending # <<>> /\ Head(pending) \in Frame
         /\ wanted' \in Nat /\ Len(input) < wanted'
         /\ wanted' <= SizeLeft(Head(pending), FALSE)
<1> DEFINE f == Head(pending)
           rest == EncodeAll(Tail(pending))
<1>1. busy /\ ~headerRead /\ HeaderWants(input) # 0 /\ wanted' = HeaderWants(input)
  BY DEF DecodeShortHeader
<1>2. /\ Accepting /\ pending # <<>> /\ f \in Frame /\ rest \in Seq(Byte)
      /\ input \in Seq(Byte) /\ wire \in Seq(Byte) /\ input # <<>>
      /\ input \o wire = Encode(f) \o rest
  BY <1>1, FrameNext
<1> HIDE DEF f, rest
<1>3. /\ HeaderWants(input) \in Nat /\ Len(input) < HeaderWants(input)
      /\ HeaderWants(input) <= Len(EncodeHeader(f))
  BY <1>1, <1>2, HeaderWaits
<1>4. /\ Len(EncodeHeader(f)) \in Nat /\ SizeLeft(f, FALSE) \in Nat
      /\ Len(EncodeHeader(f)) <= SizeLeft(f, FALSE)
  BY <1>2, FrameSize
<1>5. HeaderWants(input) <= SizeLeft(f, FALSE)
  <2> DEFINE a == HeaderWants(input)
             c == Len(EncodeHeader(f))
             d == SizeLeft(f, FALSE)
  <2>1. a \in Nat /\ c \in Nat /\ d \in Nat /\ a <= c /\ c <= d
    BY <1>3, <1>4
  <2> HIDE DEF a, c, d
  <2>2. a <= d
    BY <2>1
  <2> QED
    BY <2>2 DEF a, d
<1> QED
  BY <1>1, <1>2, <1>3, <1>5, Zenon DEF f

LEMMA WaitShortPayload ==
  ASSUME TypeInv, ReceiveInv, DecodeShortPayload
  PROVE  /\ Accepting /\ pending # <<>> /\ Head(pending) \in Frame
         /\ wanted' \in Nat /\ Len(input') < wanted'
         /\ wanted' = SizeLeft(Head(pending), TRUE)
<1> DEFINE f == Head(pending)
<1>1. busy /\ HeaderComplete /\ Header.length > Len(Body) /\ wanted' = Header.length /\ input' = Body
  BY DEF DecodeShortPayload
<1>2. Accepting /\ pending # <<>> /\ f \in Frame
  BY <1>1, FrameNext
<1>3. Header.length = Len(f.payload) /\ Body \in Seq(Byte)
  BY <1>1, FrameHeader DEF HeaderOf
<1> HIDE DEF f
<1>4. Len(f.payload) \in Nat /\ SizeLeft(f, TRUE) = Len(f.payload)
  BY <1>2, FrameSize
<1>5. wanted' = Len(f.payload) /\ Len(input') < Len(f.payload)
  <2> DEFINE n == Len(Body)
             k == Header.length
  <2>1. n \in Nat /\ k \in Nat /\ k > n
    BY <1>1, <1>3, <1>4
  <2> HIDE DEF n, k
  <2>2. n < k
    BY <2>1
  <2> QED
    BY <1>1, <1>3, <2>2 DEF n, k
<1> QED
  BY <1>2, <1>4, <1>5 DEF f

(* After a frame was taken the next one starts with its header.            *)
LEMMA WaitGoOn ==
  ASSUME TypeInv, ReceiveInv, NEW opcodes, TakeFrame(opcodes), clearDecodeStatus,
         WaitInv, status' = status
  PROVE  WaitInv'
<1>1. Accepting /\ Tail(pending) \in Seq(Frame) /\ pending' = Tail(pending)
  BY FrameTaken
<1>2. ~headerRead' /\ wanted' = 0 /\ status' # "CLOSED"
  BY <1>1 DEF clearDecodeStatus, WaitInv
<1>3. ASSUME pending' # <<>> PROVE wanted' <= SizeLeft(Head(pending'), headerRead')
  <2>1. pending' \in Seq(Frame)
    BY <1>1, Zenon
  <2>2. Head(pending') \in Frame
    BY <1>3, <2>1
  <2>3. PICK f \in Frame : f = Head(pending')
    BY <2>2
  <2>4. 0 <= SizeLeft(f, FALSE)
    <3> DEFINE left == SizeLeft(f, FALSE)
    <3>1. left \in Nat
      BY FrameSize
    <3> HIDE DEF left
    <3>2. 0 <= left
      BY <3>1
    <3> QED
      BY <3>2 DEF left
  <2>5. headerRead' = FALSE
    BY DEF clearDecodeStatus
  <2> QED
    BY <1>2, <2>3, <2>4, <2>5, Zenon
<1> QED
  BY <1>2, <1>3, Zenon DEF WaitInv

LEMMA WaitStep ==
  ASSUME TypeInv, ReceiveInv, WaitInv, [Next]_vars
  PROVE  WaitInv'
<1>1. ASSUME ~Accepting' PROVE WaitInv'
  BY <1>1, Zenon DEF WaitInv
<1>2. ASSUME NEW told, CloseWith(PROTOCOL_ERROR, told) PROVE WaitInv'
  BY <1>1, <1>2, Stopped
<1>3. ASSUME Refuse PROVE WaitInv'
  BY <1>2, <1>3 DEF Refuse
<1>4. ASSUME UNCHANGED <<header, headerRead, pending, wanted>>, reading' => reading,
             status' = status \/ status' = "CLOSING"
      PROVE  WaitInv'
  <2>1. Accepting' => Accepting
    BY <1>4, Zenon DEF Accepting
  <2>2. Accepting' => status' # "CLOSED"
    BY <1>4, <2>1 DEF WaitInv
  <2> QED
    BY <1>4, <2>1, <2>2, Zenon DEF WaitInv
<1>5. ASSUME NEW n \in 1..Len(wire), Read(n) PROVE WaitInv'
  BY <1>4, <1>5 DEF Read
<1>6. CASE DecodeRsv
  BY <1>2, <1>6 DEF DecodeRsv
<1>7. CASE DecodeShortHeader
  <2>1. Accepting /\ wanted' <= SizeLeft(Head(pending), FALSE)
    BY <1>7, WaitShortHeader
  <2>2. status # "CLOSED"
    BY <2>1 DEF WaitInv
  <2>3. status' = status /\ pending' = pending /\ headerRead' = FALSE
    BY <1>7 DEF DecodeShortHeader, TypeInv, TypeOK
  <2> QED
    BY <2>1, <2>2, <2>3, Zenon DEF WaitInv
<1>8. CASE DecodeShortPayload
  <2>1. Accepting /\ wanted' \in Nat /\ wanted' = SizeLeft(Head(pending), TRUE)
    BY <1>8, WaitShortPayload
  <2>2. wanted' <= SizeLeft(Head(pending), TRUE)
    <3> DEFINE left == SizeLeft(Head(pending), TRUE)
    <3>1. wanted' = left /\ wanted' \in Nat
      BY <2>1
    <3> HIDE DEF left
    <3>2. wanted' <= left
      BY <3>1
    <3> QED
      BY <3>2 DEF left
  <2>3. status # "CLOSED"
    BY <2>1 DEF WaitInv
  <2>4. status' = status /\ pending' = pending /\ headerRead' = TRUE
    BY <1>8 DEF DecodeShortPayload
  <2> QED
    BY <2>2, <2>3, <2>4, Zenon DEF WaitInv
<1>9. CASE DecodeContinuation
  <2> DEFINE opcodes == {0}
  <2>1. TakeFrame(opcodes) /\ (Refuse \/ (clearDecodeStatus /\ status' = status))
    BY <1>9 DEF DecodeContinuation
  <2> HIDE DEF opcodes
  <2> QED
    BY <1>3, <2>1, WaitGoOn
<1>10. CASE DecodeData
  <2> DEFINE opcodes == {1, 2}
  <2>1. TakeFrame(opcodes) /\ (Refuse \/ (clearDecodeStatus /\ status' = status))
    BY <1>10 DEF DecodeData
  <2> HIDE DEF opcodes
  <2> QED
    BY <1>3, <2>1, WaitGoOn
<1>11. CASE DecodeClose
  BY <1>1, <1>11, ReceiveClose
<1>12. CASE DecodePing
  <2> DEFINE opcodes == {9}
             told == <<Event("ping", Payload)>>
  <2>1. /\ TakeFrame(opcodes)
        /\ \/ Refuse
           \/ clearDecodeStatus /\ (status' = status \/ CloseWith(PROTOCOL_ERROR, told))
    BY <1>12 DEF DecodePing, SendControl
  <2> HIDE DEF opcodes, told
  <2> QED
    BY <1>2, <1>3, <2>1, WaitGoOn
<1>13. CASE DecodePong
  <2> DEFINE opcodes == {10}
  <2>1. TakeFrame(opcodes) /\ (Refuse \/ (clearDecodeStatus /\ status' = status))
    BY <1>13 DEF DecodePong
  <2> HIDE DEF opcodes
  <2> QED
    BY <1>3, <2>1, WaitGoOn
<1>14. CASE DecodeUnknown
  BY <1>3, <1>14 DEF DecodeUnknown
<1>15. CASE App
  <2>1. UNCHANGED <<header, headerRead, pending, wanted>>
    BY <1>15 DEF App, SendMessage, SendPing, SendLongPing, Close, AppTurn
  <2>2. reading' => reading
    BY <1>15 DEF App, SendMessage, SendPing, SendLongPing, Close, CloseWith, SendControl
  <2>3. status' = status \/ status' = "CLOSING"
    BY <1>15 DEF App, SendMessage, SendPing, SendLongPing, Close, CloseWith, SendControl
  <2> QED
    BY <1>4, <2>1, <2>2, <2>3
<1>16. CASE UNCHANGED vars
  BY <1>4, <1>16 DEF vars
<1> QED
  BY <1>5, <1>6, <1>7, <1>8, <1>9, <1>10, <1>11, <1>12, <1>13, <1>14, <1>15, <1>16 DEF Next, Decode

(* Whoever returns has too little for the frame that comes next.           *)
LEMMA PromptStep ==
  ASSUME TypeInv, ReceiveInv, WaitInv, Next, busy \/ input' # input, ~busy', Accepting'
  PROVE  ~FrameAtHand'
<1>1. ASSUME NEW left \in Int, NEW k \in Nat, left = SizeLeft(Head(pending'), headerRead'),
             Len(input') = k, k < left
      PROVE  ~FrameAtHand'
  <2>1. ~(k >= left)
    BY <1>1
  <2> QED
    BY <1>1, <2>1, Zenon DEF FrameAtHand
<1>2. ASSUME NEW n \in 1..Len(wire), Read(n) PROVE ~FrameAtHand'
  <2>1. UNCHANGED <<wanted, status, pending, headerRead, header, reading>>
    BY <1>2 DEF Read
  <2>2. Accepting
    BY <2>1 DEF Accepting
  <2>3. status \in {"CONNECT", "CLOSING"}
    BY <2>2 DEF WaitInv, TypeInv, TypeOK
  <2>4. ~(Len(input') >= wanted)
    BY <1>2, <2>3 DEF Read
  <2>5. input' \in Seq(Byte)
    BY <1>2, TypeRead DEF TypeInv, TypeOK
  <2>6. CASE pending = <<>>
    BY <2>1, <2>6 DEF FrameAtHand
  <2>7. CASE pending # <<>>
    <3>1. wanted <= SizeLeft(Head(pending), headerRead)
      BY <2>2, <2>7 DEF WaitInv
    <3>2. Head(pending) \in Frame /\ headerRead \in BOOLEAN
      BY <2>7 DEF TypeInv, TypeOK
    <3>3. PICK left \in Int : left = SizeLeft(Head(pending), headerRead)
      <4> DEFINE f == Head(pending)
      <4>1. f \in Frame
        BY <3>2
      <4> HIDE DEF f
      <4>2. SizeLeft(f, TRUE) \in Int /\ SizeLeft(f, FALSE) \in Int
        <5>1. SizeLeft(f, TRUE) \in Nat /\ SizeLeft(f, FALSE) \in Nat
          BY <4>1, FrameSize
        <5>2. Nat \subseteq Int
          OBVIOUS
        <5> QED
          BY <5>1, <5>2, Zenon
      <4>3. SizeLeft(f, headerRead) \in Int
        BY <3>2, <4>2
      <4> QED
        BY <4>3 DEF f
    <3>4. PICK k \in Nat : k = Len(input')
      BY <2>5
    <3>5. k < left
      <4>1. wanted \in Nat
        BY DEF TypeInv, TypeOK
      <4>2. ~(k >= wanted) /\ wanted <= left
        BY <2>4, <3>1, <3>3, <3>4
      <4> QED
        BY <4>1, <4>2
    <3>6. left = SizeLeft(Head(pending'), headerRead')
      BY <2>1, <3>3
    <3> QED
      BY <1>1, <3>4, <3>5, <3>6
  <2> QED
    BY <2>6, <2>7
<1>3. ASSUME NEW opcodes, TakeFrame(opcodes), clearDecodeStatus, GoOn PROVE ~FrameAtHand'
  <2>1. Tail(pending) \in Seq(Frame) /\ pending' = Tail(pending)
    BY <1>3, FrameTaken
  <2>2. input' = <<>> /\ headerRead' = FALSE
    BY <1>3 DEF clearDecodeStatus, GoOn
  <2>3. CASE pending' = <<>>
    BY <2>3 DEF FrameAtHand
  <2>4. CASE pending' # <<>>
    <3>1. Head(pending') \in Frame
      BY <2>1, <2>4
    <3>2. PICK f \in Frame : f = Head(pending')
      BY <3>1
    <3>3. PICK left \in Int : left = SizeLeft(f, FALSE) /\ 0 < left
      <4> DEFINE d == SizeLeft(f, FALSE)
      <4>1. d \in Nat /\ d >= 2
        BY FrameSize
      <4> HIDE DEF d
      <4>2. d \in Int /\ 0 < d
        BY <4>1
      <4> QED
        BY <4>2, Zenon DEF d
    <3>4. Len(input') = 0
      BY <2>2
    <3> QED
      BY <1>1, <2>2, <3>2, <3>3, <3>4
  <2> QED
    BY <2>3, <2>4
<1>4. ASSUME NEW told, CloseWith(PROTOCOL_ERROR, told) PROVE FALSE
  BY <1>4, Stopped
<1>5. ASSUME Refuse PROVE FALSE
  BY <1>4, <1>5 DEF Refuse
<1>6. CASE DecodeRsv
  BY <1>4, <1>6 DEF DecodeRsv
<1>7. CASE DecodeShortHeader
  <2>1. /\ wanted' \in Nat /\ Len(input) < wanted' /\ Head(pending) \in Frame
        /\ wanted' <= SizeLeft(Head(pending), FALSE)
    BY <1>7, WaitShortHeader
  <2>2. input' = input /\ pending' = pending /\ headerRead' = FALSE
    BY <1>7 DEF DecodeShortHeader, TypeInv, TypeOK
  <2>3. PICK f \in Frame : f = Head(pending)
    BY <2>1
  <2>4. PICK left \in Int : left = SizeLeft(f, FALSE)
    <3>1. SizeLeft(f, FALSE) \in Nat
      BY FrameSize
    <3>2. Nat \subseteq Int
      OBVIOUS
    <3> QED
      BY <3>1, <3>2, Zenon
  <2>5. PICK k \in Nat : k = Len(input)
    BY DEF TypeInv, TypeOK
  <2>6. k < left
    <3>1. PICK wants \in Nat : wants = wanted'
      BY <2>1
    <3>2. k < wants /\ wants <= left
      BY <2>1, <2>3, <2>4, <2>5, <3>1
    <3> QED
      BY <3>2
  <2> QED
    BY <1>1, <2>2, <2>3, <2>4, <2>5, <2>6
<1>8. CASE DecodeShortPayload
  <2>1. wanted' \in Nat /\ Len(input') < wanted' /\ wanted' = SizeLeft(Head(pending), TRUE)
    BY <1>8, WaitShortPayload
  <2>2. pending' = pending /\ headerRead' = TRUE
    BY <1>8 DEF DecodeShortPayload
  <2>3. input' \in Seq(Byte)
    BY <1>8, TypeShortPayload DEF TypeInv, TypeOK
  <2>4. PICK left \in Int : left = wanted'
    <3>1. Nat \subseteq Int
      OBVIOUS
    <3> QED
      BY <2>1, <3>1, Zenon
  <2>5. PICK k \in Nat : k = Len(input')
    BY <2>3
  <2> QED
    BY <1>1, <2>1, <2>2, <2>4, <2>5
<1>9. CASE DecodeContinuation
  BY <1>3, <1>5, <1>9 DEF DecodeContinuation
<1>10. CASE DecodeData
  BY <1>3, <1>5, <1>10 DEF DecodeData
<1>11. CASE DecodeClose
  BY <1>11, ReceiveClose
<1>12. CASE DecodePing
  BY <1>3, <1>5, <1>12 DEF DecodePing
<1>13. CASE DecodePong
  BY <1>3, <1>5, <1>13 DEF DecodePong
<1>14. CASE DecodeUnknown
  BY <1>5, <1>14 DEF DecodeUnknown
<1>15. CASE App
  BY <1>15 DEF App, SendMessage, SendPing, SendLongPing, Close, AppTurn
<1> QED
  BY <1>2, <1>6, <1>7, <1>8, <1>9, <1>10, <1>11, <1>12, <1>13, <1>14, <1>15 DEF Next, Decode

(* A read that completes a frame of a tidy peer handles it at once:        *)
(* wanted_ never makes parse() wait for bytes that the frame at hand does  *)
(* not need (WebSocketConnection.cpp:248, 262, 273, 284, 411-416).         *)
THEOREM PromptCorrect ==
  ASSUME TidyPeer
  PROVE  Spec => Prompt
<1> DEFINE Inv == TypeInv /\ ReceiveInv /\ WaitInv
<1>1. Init => Inv
  <2> SUFFICES ASSUME Init PROVE Inv
    OBVIOUS
  <2>1. TypeInv /\ ReceiveInv
    BY TypeInit, ReceiveInit
  <2>2. status # "CLOSED" /\ wanted = 0 /\ headerRead = FALSE
    BY DEF Init
  <2>3. ASSUME pending # <<>> PROVE wanted <= SizeLeft(Head(pending), headerRead)
    <3>1. Head(pending) \in Frame
      BY <2>1, <2>3 DEF TypeInv, TypeOK
    <3>2. PICK f \in Frame : f = Head(pending)
      BY <3>1
    <3>4. 0 <= SizeLeft(f, FALSE)
      <4> DEFINE left == SizeLeft(f, FALSE)
      <4>1. left \in Nat
        BY FrameSize
      <4> HIDE DEF left
      <4>2. 0 <= left
        BY <4>1
      <4> QED
        BY <4>2 DEF left
    <3> QED
      BY <2>2, <3>2, <3>4
  <2> QED
    BY <2>1, <2>2, <2>3 DEF WaitInv
<1>2. Inv /\ [Next]_vars => Inv'
  BY TypeStep, ReceiveStep, WaitStep
<1>3. Inv /\ [Next]_vars => [(busy \/ input' # input) /\ ~busy' /\ Accepting' => ~FrameAtHand']_vars
  BY PromptStep
<1> QED
  BY <1>1, <1>2, <1>3, PTL DEF Spec, Prompt

-----------------------------------------------------------------------------
(* The bytes, their chunks and the buffers of WebSocketConnection are      *)
(* invisible: it implements FrameReceiver, for every tidy peer and every   *)
(* application that is silent after close().                               *)

(* Why the connection receives frames: an application that is silent after *)
(* close() leaves nothing in outputBuf_ that an answer could be sent with. *)
LEMMA SilentStep ==
  ASSUME SilentApp, TypeInv, ReceiveInv, SilentInv, [Next]_vars
  PROVE  SilentInv'
<1>1. SUFFICES ASSUME Accepting'
               PROVE  /\ status' # "CONNECT" => MayClose /\ status' = "CLOSING"
                      /\ MayClose => NoPings(pending')
  BY Zenon DEF SilentInv
<1>2. reading'
  BY <1>1 DEF Accepting
<1>3. ASSUME UNCHANGED <<header, headerRead, pending, reading>> PROVE Accepting
  BY <1>1, <1>3, Zenon DEF Accepting
<1>4. ASSUME Accepting, UNCHANGED <<status, pending>>
      PROVE  /\ status' # "CONNECT" => MayClose /\ status' = "CLOSING"
             /\ MayClose => NoPings(pending')
  BY <1>4 DEF SilentInv
<1>5. ASSUME NEW told, CloseWith(PROTOCOL_ERROR, told) PROVE FALSE
  BY <1>1, <1>5, Stopped
<1>6. ASSUME Refuse PROVE FALSE
  BY <1>5, <1>6 DEF Refuse
<1>7. ASSUME NEW opcodes, TakeFrame(opcodes), UNCHANGED status
      PROVE  /\ status' # "CONNECT" => MayClose /\ status' = "CLOSING"
             /\ MayClose => NoPings(pending')
  <2>1. Accepting /\ pending # <<>> /\ pending' = Tail(pending) /\ pending \in Seq(Frame)
    BY <1>7, FrameTaken DEF TypeInv, TypeOK
  <2>2. ASSUME NoPings(pending) PROVE NoPings(Tail(pending))
    <3>1. \A i \in 1..Len(Tail(pending)) : Tail(pending)[i] = pending[i + 1] /\ i + 1 \in 1..Len(pending)
      BY <2>1
    <3> QED
      BY <2>2, <3>1, Zenon DEF NoPings
  <2> QED
    BY <1>7, <2>1, <2>2 DEF SilentInv
<1>8. ASSUME NEW n \in 1..Len(wire), Read(n)
      PROVE  UNCHANGED <<header, headerRead, pending, reading, status>>
  BY <1>8 DEF Read
<1>9. CASE DecodeRsv
  BY <1>5, <1>9 DEF DecodeRsv
<1>10. CASE DecodeShortHeader
  BY <1>3, <1>4, <1>10 DEF DecodeShortHeader
<1>11. CASE DecodeShortPayload
  <2>1. Accepting
    BY <1>11, FrameNext DEF DecodeShortPayload
  <2> QED
    BY <1>4, <1>11, <2>1 DEF DecodeShortPayload
<1>12. CASE DecodeContinuation
  BY <1>6, <1>7, <1>12 DEF DecodeContinuation
<1>13. CASE DecodeData
  BY <1>6, <1>7, <1>13 DEF DecodeData
<1>14. ~DecodeClose
  <2> SUFFICES ASSUME DecodeClose PROVE FALSE
    OBVIOUS
  <2> DEFINE opcodes == {8}
  <2>1. TakeFrame(opcodes)
    BY DEF DecodeClose
  <2>2. Header.opcode = 8 /\ header' = Header /\ Header = HeaderOf(Head(pending))
    BY <2>1, FrameTaken DEF TakeFrame
  <2>3. Ends(Head(pending))
    BY <2>2 DEF Ends, HeaderOf
  <2> HIDE DEF opcodes
  <2>4. pending' = <<>>
    BY <2>1, <2>3, LastFrame
  <2>5. headerRead'
    BY DEF DecodeClose
  <2> QED
    BY <1>1, <2>2, <2>4, <2>5 DEF Accepting
<1>15. CASE DecodePing
  BY <1>5, <1>6, <1>7, <1>15 DEF DecodePing, SendControl
<1>16. CASE DecodePong
  BY <1>6, <1>7, <1>16 DEF DecodePong
<1>17. ~DecodeUnknown
  BY <1>6 DEF DecodeUnknown
<1>18. ASSUME NEW call, AppTurn(call) PROVE UNCHANGED <<header, headerRead, pending>>
  BY <1>18 DEF AppTurn
<1>19. ASSUME NEW opcode, NEW len, SendMessage(opcode, len)
       PROVE  UNCHANGED <<header, headerRead, pending, reading, status>>
  BY <1>18, <1>19 DEF SendMessage
<1>20. CASE SendPing
  BY <1>3, <1>4, <1>18, <1>20 DEF SendPing, SendControl
<1>21. ~SendLongPing
  BY <1>5 DEF SendLongPing
<1>22. ASSUME NEW code \in CloseCodes, Close(code)
       PROVE  /\ status' # "CONNECT" => MayClose /\ status' = "CLOSING"
              /\ MayClose => NoPings(pending')
  <2>1. reading' = (reading /\ code = NORMAL_CLOSE) /\ status' = "CLOSING" /\ "close" \in Calls
    BY <1>22 DEF Close, CloseWith, AppTurn
  <2>2. reading /\ code = NORMAL_CLOSE
    BY <1>2, <2>1, Zenon
  <2>3. MayClose
    BY <2>1, <2>2 DEF MayClose
  <2>4. UNCHANGED <<header, headerRead, pending>>
    BY <1>18, <1>22 DEF Close
  <2>5. reading /\ reading'
    BY <1>2, <2>2
  <2>6. Accepting
    BY <1>1, <2>4, <2>5, Zenon DEF Accepting
  <2> QED
    BY <2>1, <2>3, <2>4, <2>6 DEF SilentInv
<1>23. CASE UNCHANGED vars
  BY <1>3, <1>4, <1>23 DEF vars
<1> QED
  BY <1>3, <1>4, <1>8, <1>9, <1>10, <1>11, <1>12, <1>13, <1>14, <1>15, <1>16, <1>17, <1>19, <1>20,
     <1>21, <1>22, <1>23 DEF Next, Decode, App

LEMMA SilentInit ==
  ASSUME SilentApp, Init
  PROVE  SilentInv
BY DEF Init, SilentApp, SilentInv

(* What events mean, one behind the other.                                 *)
LEMMA MeaningJoined ==
  ASSUME NEW a \in Seq(EventRecords), NEW b \in Seq(EventRecords)
  PROVE  Meaning(a \o b) = Meaning(a) \o Meaning(b)
<1> DEFINE S == {FrameEvent(e) : e \in EventRecords}
<1>1. ASSUME NEW s \in Seq(EventRecords)
      PROVE  /\ Meaning(s) \in Seq(S) /\ Len(Meaning(s)) = Len(s)
             /\ \A i \in 1..Len(s) : Meaning(s)[i] = FrameEvent(s[i])
  BY <1>1 DEF Meaning
<1>2. a \o b \in Seq(EventRecords) /\ Len(a \o b) = Len(a) + Len(b)
  OBVIOUS
<1>3. /\ Meaning(a) \in Seq(S) /\ Len(Meaning(a)) = Len(a)
      /\ Meaning(b) \in Seq(S) /\ Len(Meaning(b)) = Len(b)
      /\ Meaning(a \o b) \in Seq(S) /\ Len(Meaning(a \o b)) = Len(a \o b)
      /\ \A i \in 1..Len(a) : Meaning(a)[i] = FrameEvent(a[i])
      /\ \A i \in 1..Len(b) : Meaning(b)[i] = FrameEvent(b[i])
      /\ \A i \in 1..Len(a \o b) : Meaning(a \o b)[i] = FrameEvent((a \o b)[i])
  BY <1>1, <1>2
<1> HIDE DEF S
<1> DEFINE joined == Meaning(a) \o Meaning(b)
<1>4. joined \in Seq(S) /\ Len(joined) = Len(a) + Len(b)
  <2> DEFINE x == Meaning(a)
  <2> DEFINE y == Meaning(b)
  <2>1. x \in Seq(S) /\ y \in Seq(S)
    BY <1>3
  <2>2. x \o y \in Seq(S) /\ Len(x \o y) = Len(x) + Len(y)
    <3> HIDE DEF x, y
    <3> QED
      BY <2>1, ConcatProperties
  <2> QED
    BY <1>3, <2>2
<1>5. ASSUME NEW i \in 1 .. Len(a) + Len(b) PROVE Meaning(a \o b)[i] = joined[i]
  <2>1. CASE i <= Len(a)
    <3>1. i \in 1..Len(a) /\ (a \o b)[i] = a[i] /\ joined[i] = Meaning(a)[i]
      BY <1>3, <2>1
    <3> QED
      BY <1>2, <1>3, <3>1
  <2>2. CASE ~(i <= Len(a))
    <3> DEFINE k == i - Len(a)
    <3>1. k \in 1..Len(b) /\ (a \o b)[i] = b[k] /\ joined[i] = Meaning(b)[k]
      BY <1>3, <2>2
    <3>2. Meaning(b)[k] = FrameEvent(b[k])
      <4> HIDE DEF k
      <4> QED
        BY <1>3, <3>1
    <3>3. Meaning(a \o b)[i] = FrameEvent((a \o b)[i])
      BY <1>2, <1>3
    <3> HIDE DEF k, joined
    <3> QED
      BY <3>1, <3>2, <3>3, Zenon
  <2> QED
    BY <2>1, <2>2
<1> HIDE DEF joined
<1>6. Meaning(a \o b) = joined
  BY <1>2, <1>3, <1>4, <1>5, SeqEqual
<1> QED
  BY <1>6 DEF joined

LEMMA MeaningOne ==
  ASSUME NEW e
  PROVE  Meaning(<<e>>) = <<FrameEvent(e)>>
BY DEF Meaning

LEMMA MeaningTwo ==
  ASSUME NEW d, NEW e
  PROVE  Meaning(<<d, e>>) = <<FrameEvent(d), FrameEvent(e)>>
<1>1. DOMAIN <<d, e>> = 1..2 /\ <<d, e>>[1] = d /\ <<d, e>>[2] = e
  OBVIOUS
<1> QED
  BY <1>1 DEF Meaning

(* Told the application: what it says.                                     *)
LEMMA ToldMeans ==
  ASSUME NEW what, what # "sent", NEW data
  PROVE  FrameEvent(Event(what, data)) = Event(what, data)
<1>1. Event(what, data).what = what
  BY DEF Event
<1> QED
  BY <1>1, Zenon DEF FrameEvent

LEMMA MeaningAppend ==
  ASSUME NEW es \in Seq(EventRecords), NEW e \in EventRecords
  PROVE  /\ es \o <<e>> = Append(es, e)
         /\ Meaning(Append(es, e)) = Append(Meaning(es), FrameEvent(e))
<1> DEFINE S == {FrameEvent(d) : d \in EventRecords}
<1>1. es \o <<e>> = Append(es, e)
  OBVIOUS
<1>2. Meaning(es) \in Seq(S) /\ FrameEvent(e) \in S
  BY DEF Meaning
<1>3. Append(Meaning(es), FrameEvent(e)) = Meaning(es) \o <<FrameEvent(e)>>
  <2> DEFINE s == Meaning(es)
  <2> DEFINE x == FrameEvent(e)
  <2>1. s \in Seq(S) /\ x \in S
    BY <1>2
  <2> HIDE DEF S, s, x
  <2>2. Append(s, x) = s \o <<x>>
    BY <2>1
  <2> QED
    BY <2>2 DEF s, x
<1>4. <<e>> \in Seq(EventRecords)
  OBVIOUS
<1>5. Meaning(es \o <<e>>) = Meaning(es) \o Meaning(<<e>>)
  BY <1>4, MeaningJoined
<1> QED
  BY <1>1, <1>3, <1>5, MeaningOne, Zenon

-----------------------------------------------------------------------------
(* Step by step, the connection does what FrameReceiver does.              *)

LEMMA SameEvent == ASSUME NEW what, NEW data PROVE Receiver!Event(what, data) = Event(what, data)
BY DEF Event, Receiver!Event

LEMMA TakeRefines ==
  ASSUME TypeInv, ReceiveInv, NEW opcodes, TakeFrame(opcodes)
  PROVE  Receiver!Take
<1>1. Accepting /\ pending # <<>> /\ pending' = Tail(pending)
  BY FrameTaken
<1> QED
  BY <1>1 DEF Receiver!Take

(* A refused frame: the close frame of a protocol error is all it causes.  *)
LEMMA RejectRefines ==
  ASSUME TypeInv, Receiver!Take, ~Receiver!Legal(Head(pending)), CloseWith(PROTOCOL_ERROR, <<>>),
         UNCHANGED fragmentedOpCode
  PROVE  Receiver!Reject
<1> DEFINE answer == Receiver!Event("sentClose", <<1002>>)
<1>1. ErrorClose \in EventRecords
  <2>1. PROTOCOL_ERROR \in Nat /\ PROTOCOL_ERROR < 65536
    BY DEF PROTOCOL_ERROR
  <2>2. CloseFrame(PROTOCOL_ERROR) \in Seq(Byte)
    BY <2>1, CloseFrameIs
  <2> QED
    BY <2>2, SentIs DEF ErrorClose
<1>2. events \in Seq(EventRecords)
  BY DEF TypeInv, TypeOK
<1>3. events' = Append(events, ErrorClose)
  <2>1. events' = events \o <<>> \o <<ErrorClose>>
    BY DEF CloseWith, ErrorClose
  <2> QED
    BY <1>1, <1>2, <2>1
<1>4. Meaning(events') = Append(Meaning(events), FrameEvent(ErrorClose))
  BY <1>1, <1>2, <1>3, MeaningAppend
<1>5. FrameEvent(ErrorClose) = answer
  BY ErrorCloseRead, SameEvent DEF PROTOCOL_ERROR
<1>6. Meaning(events)' = Append(Meaning(events), answer)
  BY <1>4, <1>5
<1>7. Accepting' = FALSE
  BY Stopped, Zenon DEF Accepting
<1>8. Partial' = <<>>
  BY <1>7 DEF Partial
<1>9. status' = "CLOSING"
  BY DEF CloseWith
<1> HIDE DEF answer
<1> QED
  BY <1>6, <1>7, <1>8, <1>9, Zenon DEF Receiver!Reject, Receiver!Frame, answer

(* A fragment or a message.                                                *)
LEMMA DeliverMeans ==
  ASSUME TypeInv, NEW opcode, Payload \in Seq(Byte), Deliver(opcode)
  PROVE  Meaning(events)' = Meaning(events) \o Receiver!Message(opcode, decodeBuf \o Payload)
<1> DEFINE what == IF opcode = 2 THEN "binary" ELSE "text"
<1> DEFINE e == Event(what, decodeBuf \o Payload)
<1>1. what \in EventKinds /\ what # "sent"
  BY DEF EventKinds
<1>2. decodeBuf \o Payload \in Seq(Byte) /\ events \in Seq(EventRecords)
  BY Joined DEF TypeInv, TypeOK
<1>3. e \in EventRecords /\ FrameEvent(e) = e
  <2> HIDE DEF what
  <2> QED
    BY <1>1, <1>2, EventIs, ToldMeans
<1>4. Receiver!Event(what, decodeBuf \o Payload) = e
  BY SameEvent
<1>5. CASE OnMessage
  <2>1. events' = events \o <<e>>
    BY <1>5 DEF Deliver
  <2>2. <<e>> \in Seq(EventRecords)
    BY <1>3, One
  <2>3. Meaning(events') = Meaning(events) \o <<e>>
    <3> HIDE DEF e
    <3>1. Meaning(events \o <<e>>) = Meaning(events) \o Meaning(<<e>>)
      BY <1>2, <2>2, MeaningJoined
    <3> QED
      BY <1>3, <2>1, <3>1, MeaningOne
  <2>4. Receiver!Message(opcode, decodeBuf \o Payload) = <<e>>
    BY <1>4, <1>5 DEF Receiver!Message
  <2> QED
    BY <2>3, <2>4
<1>6. CASE ~OnMessage
  <2>1. events' = events
    BY <1>2, <1>6 DEF Deliver
  <2>2. Receiver!Message(opcode, decodeBuf \o Payload) = <<>>
    BY <1>6 DEF Receiver!Message
  <2>3. Meaning(events) \o <<>> = Meaning(events)
    <3> DEFINE S == {FrameEvent(d) : d \in EventRecords}
    <3>1. Meaning(events) \in Seq(S)
      BY <1>2 DEF Meaning
    <3> HIDE DEF S
    <3> QED
      BY <3>1, ConcatEmptySeq
  <2> QED
    BY <2>1, <2>2, <2>3
<1> QED
  BY <1>5, <1>6

(* What a frame that is accepted looks like from outside.                  *)
LEMMA GoesOn ==
  ASSUME TypeInv, ReceiveInv, NEW opcodes, TakeFrame(opcodes), clearDecodeStatus, UNCHANGED reading
  PROVE  /\ Accepting /\ Accepting' /\ Accepting' = Accepting
         /\ Partial = decodeBuf /\ Partial' = decodeBuf'
<1>1. Accepting
  BY FrameTaken
<1>2. Accepting'
  BY <1>1 DEF Accepting, clearDecodeStatus
<1>3. Accepting' = Accepting
  BY <1>1, <1>2, Zenon DEF Accepting
<1> QED
  BY <1>1, <1>2, <1>3 DEF Partial

LEMMA DataRefines ==
  ASSUME TypeInv, ReceiveInv, DecodeContinuation \/ DecodeData, ~Refuse
  PROVE  Receiver!Data
<1> DEFINE f == Head(pending)
<1>1. ASSUME NEW opcodes, TakeFrame(opcodes)
      PROVE  /\ Receiver!Take /\ f.rsv = 0 /\ f.opcode \in opcodes
             /\ Header.fin = f.fin /\ Header.opcode = f.opcode /\ Payload = f.payload
             /\ Payload \in Seq(Byte) /\ f.fin \in BOOLEAN
  <2>1. /\ f.rsv = 0 /\ f.opcode \in opcodes /\ Header = HeaderOf(f) /\ Payload = f.payload
        /\ f \in Frame
    BY <1>1, FrameTaken
  <2>2. Payload \in Seq(Byte) /\ Header \in HeaderFields
    BY <1>1, TakenTypes
  <2>3. Header.fin = f.fin /\ Header.opcode = f.opcode /\ Header.fin \in BOOLEAN
    BY <2>1, <2>2 DEF HeaderOf, HeaderFields
  <2> QED
    BY <1>1, <2>1, <2>2, <2>3, TakeRefines
<1> DEFINE opcode == IF f.opcode = 0 THEN fragmentedOpCode ELSE f.opcode
<1> DEFINE data == decodeBuf \o f.payload
<1>2. PICK opcodes : /\ TakeFrame(opcodes) /\ opcodes \in {{0}, {1, 2}}
                     /\ 0 \in opcodes => fragmentedOpCode # 0
                     /\ 0 \notin opcodes => fragmentedOpCode = 0
                     /\ clearDecodeStatus /\ UNCHANGED <<status, reading>>
  <2>1. CASE DecodeContinuation
    <3>1. /\ TakeFrame({0}) /\ fragmentedOpCode # 0
          /\ clearDecodeStatus /\ UNCHANGED <<status, reading>>
      BY <2>1 DEF DecodeContinuation
    <3> QED
      BY <3>1
  <2>2. CASE DecodeData
    <3>1. /\ TakeFrame({1, 2}) /\ fragmentedOpCode = 0
          /\ clearDecodeStatus /\ UNCHANGED <<status, reading>>
      BY <2>2 DEF DecodeData
    <3> QED
      BY <3>1
  <2> QED
    BY <2>1, <2>2
<1>3. /\ Receiver!Take /\ f.rsv = 0 /\ f.opcode \in opcodes
      /\ Header.fin = f.fin /\ Header.opcode = f.opcode /\ Payload = f.payload
      /\ Payload \in Seq(Byte) /\ f.fin \in BOOLEAN
  BY <1>1, <1>2
<1>4. Receiver!Legal(f) /\ f.opcode \in {0, 1, 2}
  BY <1>2, <1>3 DEF Receiver!Legal
<1>5. Accepting' = Accepting /\ Partial = decodeBuf /\ Partial' = decodeBuf'
  BY <1>2, GoesOn
<1>6. \/ f.fin /\ Deliver(opcode) /\ fragmentedOpCode' = 0
      \/ ~f.fin /\ decodeBuf' = data /\ fragmentedOpCode' = opcode /\ UNCHANGED events
  <2>1. CASE DecodeContinuation
    <3>1. f.opcode = 0 /\ opcode = fragmentedOpCode
      <4>1. TakeFrame({0})
        BY <2>1 DEF DecodeContinuation
      <4> QED
        BY <1>1, <4>1
    <3>2. \/ Header.fin /\ Deliver(fragmentedOpCode) /\ fragmentedOpCode' = 0
          \/ ~Header.fin /\ decodeBuf' = decodeBuf \o Payload /\ UNCHANGED <<fragmentedOpCode, events>>
      BY <2>1 DEF DecodeContinuation
    <3> QED
      BY <1>3, <3>1, <3>2
  <2>2. CASE DecodeData
    <3>1. f.opcode # 0 /\ opcode = Header.opcode /\ fragmentedOpCode = 0
      <4>1. TakeFrame({1, 2}) /\ fragmentedOpCode = 0
        BY <2>2 DEF DecodeData
      <4>2. f.opcode \in {1, 2}
        BY <1>1, <4>1
      <4> QED
        BY <1>3, <4>1, <4>2
    <3>2. \/ Header.fin /\ Deliver(Header.opcode) /\ UNCHANGED fragmentedOpCode
          \/ ~Header.fin /\ decodeBuf' = decodeBuf \o Payload /\ fragmentedOpCode' = Header.opcode
               /\ UNCHANGED events
      BY <2>2 DEF DecodeData
    <3> QED
      BY <1>3, <3>1, <3>2
  <2> QED
    BY <2>1, <2>2
<1> HIDE DEF opcode
<1>7. CASE f.fin /\ Deliver(opcode) /\ fragmentedOpCode' = 0
  <2>1. Meaning(events)' = Meaning(events) \o Receiver!Message(opcode, data)
    <3>1. Deliver(opcode)
      BY <1>7
    <3> QED
      BY <1>3, <3>1, DeliverMeans
  <2>2. decodeBuf' = <<>>
    BY <1>7 DEF Deliver
  <2> QED
    BY <1>2, <1>3, <1>4, <1>5, <1>7, <2>1, <2>2
       DEF Receiver!Data, Receiver!Frame, opcode
<1>8. CASE ~f.fin /\ decodeBuf' = data /\ fragmentedOpCode' = opcode /\ UNCHANGED events
  <2>1. Meaning(events)' = Meaning(events)
    BY <1>8
  <2> QED
    BY <1>2, <1>3, <1>4, <1>5, <1>8, <2>1
       DEF Receiver!Data, Receiver!Frame, opcode
<1> QED
  BY <1>6, <1>7, <1>8

(* A ping is answered with its payload and nothing else: outputBuf_ was    *)
(* empty.                                                                  *)
LEMMA PingMeans ==
  ASSUME TypeInv, NEW first \in {137, 138}, NEW message \in Seq(Byte),
         Len(message) < kControlLimit, NEW told \in Seq(EventRecords), outputBuf = <<>>,
         SendControl(first, message, told)
  PROVE  Meaning(events)'
           = Meaning(events \o told)
               \o <<Event(IF first = 137 THEN "sentPing" ELSE "sentPong", message)>>
<1> DEFINE c == ControlFrame(first, message)
<1> DEFINE before == events \o told
<1>1. c \in Seq(Byte) /\ FrameEvent(Sent(c))
                           = Event(IF first = 137 THEN "sentPing" ELSE "sentPong", message)
  BY ControlFrameIs, ControlRead
<1>2. Sent(c) \in EventRecords /\ <<Sent(c)>> \in Seq(EventRecords)
  <2> HIDE DEF c
  <2> QED
    BY <1>1, SentIs
<1>3. before \in Seq(EventRecords)
  BY EventsJoined DEF TypeInv, TypeOK
<1>4. events' = before \o <<Sent(c)>>
  <2>1. <<>> \o c = c
    <3> HIDE DEF c
    <3> QED
      BY <1>1
  <2> QED
    BY <2>1, Zenon DEF SendControl
<1> HIDE DEF c, before
<1>5. Meaning(before \o <<Sent(c)>>) = Meaning(before) \o <<FrameEvent(Sent(c))>>
  BY <1>2, <1>3, MeaningJoined, MeaningOne
<1> QED
  BY <1>1, <1>4, <1>5 DEF before

LEMMA PingRefines ==
  ASSUME TypeInv, ReceiveInv, AnswerInv, SilentInv, DecodePing, SilentApp
  PROVE  Receiver!Ping \/ Receiver!Reject
<1> DEFINE f == Head(pending)
<1> DEFINE opcodes == {9}
<1>1. TakeFrame(opcodes)
  BY DEF DecodePing
<1>2. /\ Accepting /\ pending # <<>> /\ f \in Frame /\ f.rsv = 0 /\ f.opcode = 9
      /\ Header = HeaderOf(f) /\ Payload = f.payload
  BY <1>1, FrameTaken
<1>3. Header.fin = f.fin /\ Header.length = Len(f.payload)
  BY <1>2 DEF HeaderOf
<1> HIDE DEF opcodes
<1>4. Receiver!Take /\ Payload \in Seq(Byte) /\ events \in Seq(EventRecords)
  BY <1>1, TakeRefines, TakenTypes DEF TypeInv, TypeOK
<1>5. CASE Refuse
  <2>1. CASE ~Header.fin
    <3>1. ~Receiver!Legal(f)
      BY <1>2, <1>3, <2>1 DEF Receiver!Legal
    <3> QED
      BY <1>4, <1>5, <3>1, RejectRefines DEF Refuse
  <2>2. CASE Header.fin
    <3>1. headerRead' = FALSE /\ headerRead' = TRUE
      BY <1>5, <2>2 DEF DecodePing, clearDecodeStatus, Refuse
    <3> QED
      BY <3>1
  <2> QED
    BY <2>1, <2>2
<1>6. CASE ~Refuse
  <2>1. Header.fin /\ KeepMessage /\ clearDecodeStatus /\ UNCHANGED fragmentedOpCode
    BY <1>6 DEF DecodePing
  <2>2. Receiver!Legal(f)
    BY <1>2, <1>3, <2>1 DEF Receiver!Legal
  <2>3. decodeBuf' = decodeBuf
    <3>1. TakeFrame({9})
      BY <1>1 DEF opcodes
    <3> QED
      BY <2>1, <3>1, KeepsMessage
  <2>4. outputBuf = <<>>
    <3>1. pending \in Seq(Frame)
      BY DEF TypeInv, TypeOK
    <3>2. ~NoPings(pending)
      <4>1. 1 \in 1..Len(pending) /\ pending[1] = f
        BY <1>2, <3>1
      <4> QED
        BY <1>2, <1>3, <2>1, <4>1 DEF NoPings
    <3>3. status = "CONNECT"
      BY <1>2, <3>2 DEF SilentInv
    <3> QED
      BY <3>3 DEF AnswerInv
  <2> DEFINE e == Event("ping", Payload)
  <2> DEFINE told == <<e>>
  <2>5. e \in EventRecords /\ FrameEvent(e) = e
    <3>1. "ping" \in EventKinds /\ "ping" # "sent"
      BY DEF EventKinds
    <3> QED
      BY <1>4, <3>1, EventIs, ToldMeans
  <2>6. e = Receiver!Told
    BY <1>2, SameEvent DEF Receiver!Told, Receiver!Frame
  <2>7. told \in Seq(EventRecords)
    BY <2>5, One
  <2>8. CASE Header.length < kControlLimit /\ SendControl(138, Payload, told)
    <3>1. /\ Len(Payload) < kControlLimit /\ 138 \in {137, 138} /\ SendControl(138, Payload, told)
          /\ Len(f.payload) < kControlLimit
      BY <1>2, <1>3, <2>8
    <3> DEFINE answer == Event("sentPong", Payload)
    <3>2. Meaning(events)' = Meaning(events \o told) \o <<answer>>
      <4> HIDE DEF told
      <4> QED
        BY <1>4, <2>4, <2>7, <3>1, PingMeans
    <3>3. Meaning(events \o told) = Meaning(events) \o <<e>>
      <4> HIDE DEF e
      <4> QED
        BY <1>4, <2>5, <2>7, MeaningJoined, MeaningOne
    <3>4. Meaning(events)' = Meaning(events) \o <<e, answer>>
      <4> DEFINE S == {FrameEvent(d) : d \in EventRecords} \cup {answer}
      <4>1. Meaning(events) \in Seq(S) /\ e \in S /\ answer \in S
        BY <1>4, <2>5 DEF Meaning
      <4> DEFINE m == Meaning(events)
      <4>2. (m \o <<e>>) \o <<answer>> = m \o <<e, answer>>
        <5> HIDE DEF S, e, answer, m
        <5> QED
          BY <4>1 DEF m
      <4> HIDE DEF e, answer
      <4> QED
        BY <3>2, <3>3, <4>2
    <3>5. answer = Receiver!Event("sentPong", f.payload)
      BY <1>2, SameEvent
    <3>6. UNCHANGED <<status, reading>>
      BY <2>8 DEF SendControl
    <3>7. Accepting' = Accepting /\ Partial = decodeBuf /\ Partial' = decodeBuf'
      BY <1>1, <2>1, <3>6, GoesOn
    <3>8. Receiver!IsPing
      BY <1>2, <2>2 DEF Receiver!IsPing, Receiver!Frame
    <3> HIDE DEF e, answer, told
    <3> QED
      BY <1>4, <2>1, <2>3, <2>6, <3>1, <3>4, <3>5, <3>6, <3>7, <3>8
         DEF Receiver!Ping, Receiver!Frame
  <2>9. CASE Header.length >= kControlLimit /\ CloseWith(PROTOCOL_ERROR, told)
    <3>1. events' = (events \o told) \o <<ErrorClose>> /\ status' = "CLOSING"
      BY <2>9 DEF CloseWith, ErrorClose
    <3>2. ErrorClose \in EventRecords
      <4>1. PROTOCOL_ERROR \in Nat /\ PROTOCOL_ERROR < 65536
        BY DEF PROTOCOL_ERROR
      <4>2. CloseFrame(PROTOCOL_ERROR) \in Seq(Byte)
        BY <4>1, CloseFrameIs
      <4> QED
        BY <4>2, SentIs DEF ErrorClose
    <3> DEFINE both == <<e, ErrorClose>>
    <3>3. events' = events \o both /\ both \in Seq(EventRecords)
      <4> DEFINE x == ErrorClose
      <4>1. x \in EventRecords
        BY <3>2
      <4> HIDE DEF e, x
      <4>2. (events \o <<e>>) \o <<x>> = events \o <<e, x>> /\ <<e, x>> \in Seq(EventRecords)
        BY <1>4, <2>5, <4>1
      <4> QED
        BY <3>1, <4>2 DEF x
    <3> DEFINE answer == Receiver!Event("sentClose", <<1002>>)
    <3>4. FrameEvent(ErrorClose) = answer
      BY ErrorCloseRead, SameEvent DEF PROTOCOL_ERROR
    <3>5. Meaning(events)' = Meaning(events) \o <<e, answer>>
      <4>1. Meaning(both) = <<e, answer>>
        <5> HIDE DEF e, answer
        <5> QED
          BY <2>5, <3>4, MeaningTwo
      <4> HIDE DEF both, e, answer
      <4> QED
        BY <1>4, <3>3, <4>1, MeaningJoined
    <3>6. Accepting' = FALSE
      BY <2>9, Stopped, Zenon DEF Accepting
    <3>7. Partial' = <<>>
      BY <3>6 DEF Partial
    <3>8. Receiver!IsPing /\ Len(f.payload) >= kControlLimit
      BY <1>2, <1>3, <2>2, <2>9 DEF Receiver!IsPing, Receiver!Frame
    <3> HIDE DEF e, answer
    <3>9. Meaning(events)' = Meaning(events) \o <<Receiver!Told, answer>>
      BY <2>6, <3>5
    <3> QED
      BY <1>4, <2>1, <3>1, <3>6, <3>7, <3>8, <3>9, Zenon
         DEF Receiver!Reject, Receiver!Frame, answer
  <2> QED
    BY <1>6, <2>8, <2>9 DEF DecodePing
<1> QED
  BY <1>5, <1>6

LEMMA PongRefines ==
  ASSUME TypeInv, ReceiveInv, DecodePong
  PROVE  Receiver!Pong \/ Receiver!Reject
<1> DEFINE f == Head(pending)
<1> DEFINE opcodes == {10}
<1>1. TakeFrame(opcodes)
  BY DEF DecodePong
<1>2. /\ Accepting /\ pending # <<>> /\ f \in Frame /\ f.rsv = 0 /\ f.opcode = 10
      /\ Header = HeaderOf(f) /\ Payload = f.payload
  BY <1>1, FrameTaken
<1>3. Header.fin = f.fin
  BY <1>2 DEF HeaderOf
<1> HIDE DEF opcodes
<1>4. Receiver!Take /\ Payload \in Seq(Byte) /\ events \in Seq(EventRecords)
  BY <1>1, TakeRefines, TakenTypes DEF TypeInv, TypeOK
<1>5. CASE Refuse
  <2>1. CASE ~Header.fin
    <3>1. ~Receiver!Legal(f)
      BY <1>2, <1>3, <2>1 DEF Receiver!Legal
    <3> QED
      BY <1>4, <1>5, <3>1, RejectRefines DEF Refuse
  <2>2. CASE Header.fin
    <3>1. headerRead' = FALSE /\ headerRead' = TRUE
      BY <1>5, <2>2 DEF DecodePong, clearDecodeStatus, Refuse
    <3> QED
      BY <3>1
  <2> QED
    BY <2>1, <2>2
<1>6. CASE ~Refuse
  <2> DEFINE e == Event("pong", Payload)
  <2>1. /\ Header.fin /\ KeepMessage /\ clearDecodeStatus /\ events' = Append(events, e)
        /\ UNCHANGED <<fragmentedOpCode, status, reading>>
    BY <1>6 DEF DecodePong
  <2>2. Receiver!Legal(f)
    BY <1>2, <1>3, <2>1 DEF Receiver!Legal
  <2>3. decodeBuf' = decodeBuf
    <3>1. TakeFrame({10})
      BY <1>1 DEF opcodes
    <3> QED
      BY <2>1, <3>1, KeepsMessage
  <2>4. e \in EventRecords /\ FrameEvent(e) = e
    <3>1. "pong" \in EventKinds /\ "pong" # "sent"
      BY DEF EventKinds
    <3> QED
      BY <1>4, <3>1, EventIs, ToldMeans
  <2>5. Meaning(events)' = Append(Meaning(events), e)
    <3> HIDE DEF e
    <3> QED
      BY <1>4, <2>1, <2>4, MeaningAppend
  <2>6. e = Receiver!Event("pong", f.payload)
    BY <1>2, SameEvent
  <2>7. Accepting' = Accepting /\ Partial = decodeBuf /\ Partial' = decodeBuf'
    BY <1>1, <2>1, GoesOn
  <2> HIDE DEF e
  <2> QED
    BY <1>2, <1>4, <2>1, <2>2, <2>3, <2>5, <2>6, <2>7 DEF Receiver!Pong, Receiver!Frame
<1> QED
  BY <1>5, <1>6

LEMMA CloseRefines ==
  ASSUME TypeInv, ReceiveInv, DecodeClose
  PROVE  Receiver!PeerClose
<1> DEFINE f == Head(pending)
<1> DEFINE opcodes == {8}
<1>1. TakeFrame(opcodes)
  BY DEF DecodeClose
<1>2. /\ f.rsv = 0 /\ f.opcode = 8 /\ Header = HeaderOf(f)
  BY <1>1, FrameTaken
<1>3. Header.opcode = 8 /\ header' = Header /\ Ends(f)
  BY <1>1, <1>2 DEF HeaderOf, TakeFrame, Ends
<1> HIDE DEF opcodes
<1>4. Receiver!Take /\ events \in Seq(EventRecords) /\ pending' = <<>>
  BY <1>1, <1>3, TakeRefines, LastFrame DEF TypeInv, TypeOK
<1>5. Receiver!Legal(f)
  BY <1>2 DEF Receiver!Legal
<1>6. headerRead' /\ UNCHANGED fragmentedOpCode
  BY DEF DecodeClose
<1>7. Accepting' = FALSE
  BY <1>3, <1>4, <1>6, Zenon DEF Accepting
<1>8. Partial' = <<>>
  BY <1>7 DEF Partial
<1> DEFINE answer == Sent(CloseFrame(NORMAL_CLOSE))
<1> DEFINE over == Event("tcpClose", <<>>)
<1>9. CASE status = "CONNECT"
  <2>1. events' = events \o <<answer, over>> /\ status' = "CLOSED"
    BY <1>9 DEF DecodeClose
  <2>2. NORMAL_CLOSE \in Nat /\ NORMAL_CLOSE < 65536
    BY DEF NORMAL_CLOSE
  <2>3. answer \in EventRecords /\ FrameEvent(answer) = Event("sentClose", <<NORMAL_CLOSE>>)
    <3>1. CloseFrame(NORMAL_CLOSE) \in Seq(Byte)
      BY <2>2, CloseFrameIs
    <3> QED
      BY <2>2, <3>1, SentIs, CloseRead
  <2>4. over \in EventRecords /\ FrameEvent(over) = over
    <3>1. "tcpClose" \in EventKinds /\ "tcpClose" # "sent" /\ <<>> \in Seq(Byte)
      BY DEF EventKinds
    <3> QED
      BY <3>1, EventIs, ToldMeans, Zenon
  <2> DEFINE seen == <<Receiver!Event("sentClose", <<1000>>), Receiver!Event("tcpClose", <<>>)>>
  <2>5. Meaning(<<answer, over>>) = seen
    <3>1. FrameEvent(answer) = Receiver!Event("sentClose", <<1000>>)
      BY <2>3, SameEvent DEF NORMAL_CLOSE
    <3>2. FrameEvent(over) = Receiver!Event("tcpClose", <<>>)
      BY <2>4, SameEvent
    <3> HIDE DEF answer, over
    <3> QED
      BY <3>1, <3>2, MeaningTwo
  <2>6. Meaning(events)' = Meaning(events) \o seen
    <3> DEFINE told == <<answer, over>>
    <3>1. told \in Seq(EventRecords)
      <4> HIDE DEF answer, over
      <4> QED
        BY <2>3, <2>4
    <3>2. events' = events \o told /\ Meaning(told) = seen
      BY <2>1, <2>5
    <3> HIDE DEF told, seen
    <3> QED
      BY <1>4, <3>1, <3>2, MeaningJoined
  <2> HIDE DEF seen
  <2> QED
    BY <1>2, <1>4, <1>5, <1>6, <1>7, <1>8, <1>9, <2>1, <2>6, Zenon
       DEF Receiver!PeerClose, Receiver!Frame, seen
<1>10. CASE status # "CONNECT"
  <2>1. UNCHANGED <<events, status>>
    BY <1>10 DEF DecodeClose
  <2> QED
    BY <1>2, <1>4, <1>5, <1>6, <1>7, <1>8, <1>10, <2>1 DEF Receiver!PeerClose, Receiver!Frame
<1> QED
  BY <1>9, <1>10

LEMMA RsvRefines ==
  ASSUME TypeInv, ReceiveInv, DecodeRsv
  PROVE  Receiver!Reject
<1>1. busy /\ ~headerRead /\ Rsv(input) # 0 /\ CloseWith(PROTOCOL_ERROR, <<>>) /\ Handled
  BY DEF DecodeRsv
<1>2. Accepting /\ pending # <<>> /\ Rsv(input) = Head(pending).rsv
  BY <1>1, FrameNext
<1>3. Receiver!Take
  BY <1>1, <1>2 DEF Receiver!Take, Handled
<1>4. ~Receiver!Legal(Head(pending))
  BY <1>1, <1>2 DEF Receiver!Legal
<1>5. UNCHANGED fragmentedOpCode
  BY DEF DecodeRsv
<1> QED
  BY <1>1, <1>3, <1>4, <1>5, RejectRefines

LEMMA RefuseRefines ==
  ASSUME TypeInv, ReceiveInv, DecodeContinuation \/ DecodeData \/ DecodeUnknown, Refuse
  PROVE  Receiver!Reject
<1> DEFINE f == Head(pending)
<1>1. ASSUME NEW opcodes, TakeFrame(opcodes) PROVE Receiver!Take /\ f.opcode \in opcodes
  BY <1>1, FrameTaken, TakeRefines
<1>2. headerRead' = TRUE /\ CloseWith(PROTOCOL_ERROR, <<>>) /\ UNCHANGED fragmentedOpCode
  BY DEF Refuse
<1>3. Receiver!Take /\ ~Receiver!Legal(f)
  <2>1. CASE DecodeContinuation
    <3>1. TakeFrame({0}) /\ fragmentedOpCode = 0
      BY <1>2, <2>1 DEF DecodeContinuation, clearDecodeStatus
    <3>2. Receiver!Take /\ f.opcode \in {0}
      BY <1>1, <3>1
    <3> QED
      BY <3>1, <3>2 DEF Receiver!Legal
  <2>2. CASE DecodeData
    <3>1. TakeFrame({1, 2}) /\ fragmentedOpCode # 0
      BY <1>2, <2>2 DEF DecodeData, clearDecodeStatus
    <3>2. Receiver!Take /\ f.opcode \in {1, 2}
      BY <1>1, <3>1
    <3> QED
      BY <3>1, <3>2 DEF Receiver!Legal
  <2>3. CASE DecodeUnknown
    <3>1. Receiver!Take /\ f.opcode \in (3..7) \cup (11..15)
      BY <1>1, <2>3 DEF DecodeUnknown
    <3>2. f.opcode \notin {0, 1, 2, 8, 9, 10}
      BY <3>1
    <3> QED
      BY <3>1, <3>2 DEF Receiver!Legal
  <2> QED
    BY <2>1, <2>2, <2>3
<1> QED
  BY <1>2, <1>3, RejectRefines

(* The application sends, and nothing else is in what is sent.             *)
LEMMA SendRefines ==
  ASSUME TypeInv, AnswerInv, SilentApp,
         SendPing \/ \E opcode \in {1, 2}, len \in SendLengths : SendMessage(opcode, len)
  PROVE  Receiver!AppSend
<1>1. ASSUME NEW call, call # "close", AppTurn(call)
      PROVE  /\ status = "CONNECT" /\ outputBuf = <<>>
             /\ UNCHANGED <<header, headerRead, pending, decodeBuf, fragmentedOpCode>>
  <2>1. status = "CONNECT"
    BY <1>1 DEF AppTurn, SilentApp
  <2> QED
    BY <1>1, <2>1 DEF AppTurn, AnswerInv
<1>2. events \in Seq(EventRecords)
  BY DEF TypeInv, TypeOK
<1>3. ASSUME UNCHANGED <<header, headerRead, pending, decodeBuf, reading>>
      PROVE  Accepting' = Accepting /\ Partial' = Partial
  BY <1>3, Zenon DEF Accepting, Partial
<1>4. ASSUME NEW opcode \in {1, 2}, NEW len \in SendLengths, SendMessage(opcode, len)
      PROVE  Receiver!AppSend
  <2> DEFINE e == Sent(WriteHeader(opcode, len))
  <2>1. /\ status = "CONNECT" /\ outputBuf = <<>>
        /\ UNCHANGED <<header, headerRead, pending, decodeBuf, fragmentedOpCode>>
    BY <1>1, <1>4 DEF SendMessage
  <2>2. events' = Append(events, e) /\ UNCHANGED <<status, reading>>
    BY <1>4, <2>1 DEF SendMessage
  <2>3. len \in UInt64
    BY ConstantsOK DEF ConstantsOK
  <2>4. e \in EventRecords
    <3>1. WriteHeader(opcode, len) \in Seq(Byte)
      BY <2>3, WriteHeaderIs
    <3> QED
      BY <3>1, SentIs
  <2>5. FrameEvent(e) = Receiver!Event("sentMessage", <<opcode, len>>)
    BY <2>3, HeaderRead, SameEvent
  <2> HIDE DEF e
  <2>6. Meaning(events)' = Append(Meaning(events), Receiver!Event("sentMessage", <<opcode, len>>))
    BY <1>2, <2>2, <2>4, <2>5, MeaningAppend
  <2>7. Accepting' = Accepting /\ Partial' = Partial
    BY <1>3, <2>1, <2>2
  <2> QED
    BY <2>1, <2>2, <2>6, <2>7 DEF Receiver!AppSend
<1>5. CASE SendPing
  <2> DEFINE none == <<>>
  <2>1. PICK first \in {137, 138} : SendControl(first, none, none)
    BY <1>5 DEF SendPing
  <2>2. /\ status = "CONNECT" /\ outputBuf = <<>>
        /\ UNCHANGED <<header, headerRead, pending, decodeBuf, fragmentedOpCode>>
    BY <1>1, <1>5 DEF SendPing
  <2>3. none \in Seq(Byte) /\ none \in Seq(EventRecords) /\ Len(none) < kControlLimit
    BY DEF kControlLimit
  <2> DEFINE what == IF first = 137 THEN "sentPing" ELSE "sentPong"
  <2> DEFINE answer == Event(what, none)
  <2>4. Meaning(events)' = Meaning(events \o none) \o <<answer>>
    <3> HIDE DEF none
    <3> QED
      BY <2>1, <2>2, <2>3, PingMeans
  <2>5. events \o none = events
    BY <1>2
  <2>6. Meaning(events) \o <<answer>> = Append(Meaning(events), answer)
    <3> DEFINE m == Meaning(events)
    <3> DEFINE S == {FrameEvent(d) : d \in EventRecords} \cup {answer}
    <3>1. m \in Seq(S) /\ answer \in S
      BY <1>2 DEF Meaning
    <3> HIDE DEF S, answer, m
    <3>2. m \o <<answer>> = Append(m, answer)
      BY <3>1
    <3> QED
      BY <3>2 DEF m
  <2>7. Meaning(events)' = Append(Meaning(events), Receiver!Event(what, <<>>))
    <3>1. answer = Receiver!Event(what, <<>>)
      BY SameEvent
    <3> HIDE DEF answer, none, what
    <3> QED
      BY <2>4, <2>5, <2>6, <3>1, Zenon
  <2>8. UNCHANGED <<status, reading>>
    BY <2>1 DEF SendControl
  <2>9. Accepting' = Accepting /\ Partial' = Partial
    BY <1>3, <2>2, <2>8
  <2>10. what \in {"sentPing", "sentPong"}
    OBVIOUS
  <2> HIDE DEF what
  <2> QED
    BY <2>2, <2>7, <2>8, <2>9, <2>10 DEF Receiver!AppSend
<1> QED
  BY <1>4, <1>5

LEMMA SameTruth ==
  ASSUME NEW a \in BOOLEAN, NEW b \in BOOLEAN, NEW c \in BOOLEAN, a <=> (b /\ c)
  PROVE  a = (b /\ c)
<1>1. CASE a = TRUE
  BY <1>1
<1>2. CASE a = FALSE
  BY <1>2
<1> QED
  BY <1>1, <1>2

LEMMA AppCloseRefines ==
  ASSUME TypeInv, SendLongPing \/ \E code \in CloseCodes : Close(code)
  PROVE  Receiver!AppClose
<1>1. PICK code \in CloseCodes \cup {1002}, call \in CallChoices : AppTurn(call) /\ CloseWith(code, <<>>)
  BY DEF SendLongPing, Close, PROTOCOL_ERROR, CallChoices
<1>2. status # "CLOSED" /\ UNCHANGED <<header, headerRead, pending, decodeBuf, fragmentedOpCode>>
  BY <1>1 DEF AppTurn
<1>3. code \in Nat /\ code < 65536
  BY ConstantsOK DEF ConstantsOK
<1>4. status' = "CLOSING" /\ reading' = (reading /\ code = NORMAL_CLOSE)
  BY <1>1 DEF CloseWith
<1>5. Accepting' = (Accepting /\ code = 1000)
  <2>1. reading' = (reading /\ code = 1000)
    BY <1>4, Zenon DEF NORMAL_CLOSE
  <2>2. /\ Accepting = (reading /\ ~(headerRead /\ header.opcode = 8 /\ pending = <<>>))
        /\ Accepting' = (reading' /\ ~(headerRead /\ header.opcode = 8 /\ pending = <<>>))
    <3>1. Accepting = (reading /\ ~(headerRead /\ header.opcode = 8 /\ pending = <<>>))
      BY Zenon DEF Accepting
    <3>2. headerRead' = headerRead /\ header' = header /\ pending' = pending
      BY <1>2
    <3> QED
      BY <3>1, <3>2, Zenon DEF Accepting
  <2> DEFINE ended == headerRead /\ header.opcode = 8 /\ pending = <<>>
  <2>3. Accepting = (reading /\ ~ended) /\ Accepting' = (reading' /\ ~ended)
    BY <2>2
  <2> HIDE DEF ended
  <2> DEFINE normal == code = 1000
             before == Accepting
             after == Accepting'
  <2>4. /\ reading' = (reading /\ normal)
        /\ before = (reading /\ ~ended) /\ after = (reading' /\ ~ended)
    BY <2>1, <2>3
  <2>5. normal \in BOOLEAN
    BY Zenon
  <2> HIDE DEF normal, before, after
  <2>6. before \in BOOLEAN /\ after \in BOOLEAN
    BY <2>4, Zenon
  <2>7. after <=> (before /\ normal)
    BY <2>4, Zenon
  <2>8. after = (before /\ normal)
    BY <2>5, <2>6, <2>7, SameTruth
  <2> QED
    BY <2>8 DEF normal, before, after
<1> DEFINE e == Sent(CloseFrame(code))
<1>6. e \in EventRecords /\ FrameEvent(e) = Receiver!Event("sentClose", <<code>>)
  <2>1. CloseFrame(code) \in Seq(Byte)
    BY <1>3, CloseFrameIs
  <2>2. FrameEvent(e) = Event("sentClose", <<code>>)
    BY <1>3, CloseRead
  <2> QED
    BY <2>1, <2>2, SentIs, SameEvent
<1>7. events' = events \o <<>> \o <<e>>
  BY <1>1 DEF CloseWith
<1> HIDE DEF e
<1>8. Meaning(events)' = Append(Meaning(events), Receiver!Event("sentClose", <<code>>))
  <2>1. events \in Seq(EventRecords)
    BY DEF TypeInv, TypeOK
  <2>2. events' = Append(events, e)
    BY <1>6, <1>7, <2>1
  <2> QED
    BY <1>6, <2>1, <2>2, MeaningAppend
<1>9. Partial' = IF Accepting' THEN Partial ELSE <<>>
  <2>1. Accepting' => Accepting
    BY <1>5, Zenon
  <2> QED
    BY <1>2, <2>1 DEF Partial
<1> QED
  <2>1. \E c \in CloseCodes \cup {1002} :
          /\ Meaning(events)' = Append(Meaning(events), Receiver!Event("sentClose", <<c>>))
          /\ Accepting' = (Accepting /\ c = 1000)
    <3> DEFINE P(c) == /\ Meaning(events)' = Append(Meaning(events), Receiver!Event("sentClose", <<c>>))
                       /\ Accepting' = (Accepting /\ c = 1000)
    <3>1. P(code)
      BY <1>5, <1>8
    <3> HIDE DEF P
    <3>2. \E c \in CloseCodes \cup {1002} : P(c)
      BY <3>1, Zenon
    <3> QED
      BY <3>2 DEF P
  <2>2. UNCHANGED <<pending, fragmentedOpCode>>
    BY <1>2
  <2> QED
    BY <1>2, <1>4, <1>9, <2>1, <2>2, ZenonT(60) DEF Receiver!AppClose

LEMMA ReceiverStep ==
  ASSUME SilentApp, TypeInv, ReceiveInv, AnswerInv, SilentInv, [Next]_vars
  PROVE  [Receiver!Next]_(Receiver!recvVars)
<1>1. ASSUME UNCHANGED <<pending, fragmentedOpCode, status, events, decodeBuf>>,
             Accepting' = Accepting
      PROVE  UNCHANGED Receiver!recvVars
  <2>1. Partial' = Partial
    BY <1>1 DEF Partial
  <2> QED
    BY <1>1, <2>1 DEF Receiver!recvVars
<1>2. ASSUME UNCHANGED <<header, headerRead, pending, reading>> PROVE Accepting' = Accepting
  BY <1>2, Zenon DEF Accepting
<1>3. ASSUME NEW n \in 1..Len(wire), Read(n) PROVE UNCHANGED Receiver!recvVars
  <2>1. Accepting' = Accepting
    BY <1>2, <1>3 DEF Read
  <2> QED
    BY <1>1, <1>3, <2>1 DEF Read
<1>4. CASE DecodeShortHeader
  <2>1. Accepting' = Accepting
    BY <1>2, <1>4 DEF DecodeShortHeader
  <2> QED
    BY <1>1, <1>4, <2>1 DEF DecodeShortHeader
<1>5. CASE DecodeShortPayload
  <2>1. Accepting /\ pending # <<>>
    BY <1>5, FrameNext DEF DecodeShortPayload
  <2>2. Accepting' = Accepting
    BY <1>5, <2>1, Zenon DEF DecodeShortPayload, Accepting
  <2> QED
    BY <1>1, <1>5, <2>2 DEF DecodeShortPayload
<1>6. CASE UNCHANGED vars
  <2>1. Accepting' = Accepting
    BY <1>2, <1>6 DEF vars
  <2> QED
    BY <1>1, <1>6, <2>1 DEF vars
<1>7. ASSUME DecodeRsv \/ DecodeContinuation \/ DecodeData \/ DecodeClose \/ DecodePing
               \/ DecodePong \/ DecodeUnknown
      PROVE  Receiver!Handle
  BY <1>7, RsvRefines, RefuseRefines, DataRefines, CloseRefines, PingRefines, PongRefines
     DEF DecodeUnknown, Receiver!Handle
<1>8. ASSUME App PROVE Receiver!AppSend \/ Receiver!AppClose
  BY <1>8, SendRefines, AppCloseRefines DEF App
<1> QED
  BY <1>3, <1>4, <1>5, <1>6, <1>7, <1>8 DEF Next, Decode, Receiver!Next

(* The bytes, their chunks and the buffers are invisible: for a tidy peer  *)
(* and an application that is silent after close(), the connection tells   *)
(* the application and the peer what the receiver of whole frames would    *)
(* (WebSocketConnection.cpp:205-420).                                      *)
THEOREM ReceivesFramesCorrect ==
  ASSUME TidyPeer, SilentApp
  PROVE  Spec => ReceivesFrames
<1> DEFINE Inv == TypeInv /\ ReceiveInv /\ AnswerInv /\ SilentInv
<1>1. Init => Inv
  <2>1. Init => AnswerInv
    BY DEF Init, AnswerInv
  <2> QED
    BY <2>1, TypeInit, ReceiveInit, SilentInit
<1>2. Inv /\ [Next]_vars => Inv'
  BY TypeStep, ReceiveStep, AnswerStep, SilentStep
<1>3. Init => Receiver!Init
  <2> SUFFICES ASSUME Init PROVE Receiver!Init
    OBVIOUS
  <2>1. Accepting = TRUE
    BY Zenon DEF Init, Accepting
  <2>2. Meaning(events) = <<>>
    BY DEF Init, Meaning
  <2>3. Partial = <<>>
    BY DEF Init, Partial
  <2> QED
    BY <2>1, <2>2, <2>3 DEF Init, Receiver!Init
<1>4. Inv /\ [Next]_vars => [Receiver!Next]_(Receiver!recvVars)
  BY ReceiverStep
<1> HIDE DEF Inv
<1> QED
  BY <1>1, <1>2, <1>3, <1>4, PTL DEF Spec, ReceivesFrames, Receiver!Spec
=============================================================================
