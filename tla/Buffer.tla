------------------------------- MODULE Buffer -------------------------------
(***************************************************************************)
(* ws::Buffer: a vector of bytes with a read and a write index, grown and  *)
(* compacted on demand, and the way TcpConnection lets libuv write into    *)
(* it: on_uv_alloc grants the space behind writeIndex_, on_uv_read claims  *)
(* the part that was filled.                                               *)
(*                                                                         *)
(* The i-th byte ever written has the value i; cells that hold no byte     *)
(* have the value 0.  Lengths that callers pass are bounded by MaxLen.     *)
(***************************************************************************)
EXTENDS Integers, Sequences

CONSTANTS
  InitialSizes,      \* sizes a Buffer is constructed with (64, 1024, 65536)
  kMinWritableSize,  \* TcpConnection.cpp: space requested for a read
  kExpandThreshold,  \* growths after which extra space is added
  kExpandSize,       \* the extra space
  MaxBytes,          \* bound: bytes ever written
  MaxLen             \* bound: length of one call

ASSUME ConstantsOK ==
  /\ InitialSizes \subseteq Nat
  /\ kMinWritableSize \in Nat \ {0}
  /\ kExpandThreshold \in Nat
  /\ kExpandSize \in Nat
  /\ MaxBytes \in Nat
  /\ MaxLen \in Nat

VARIABLES
  buf,         \* buf_
  readIndex,   \* readIndex_
  writeIndex,  \* writeIndex_
  lastExpand,  \* lastExpand_
  granted,     \* space on_uv_alloc has handed to libuv, 0 outside a read
  rereadable,  \* history: bytes read since the last write
  written      \* history: bytes ever written

vars == <<buf, readIndex, writeIndex, lastExpand, granted, rereadable, written>>

Init ==
  /\ \E n \in InitialSizes : buf = [i \in 1..n |-> 0]
  /\ readIndex = 0
  /\ writeIndex = 0
  /\ lastExpand = 0
  /\ granted = 0
  /\ rereadable = 0
  /\ written = 0

-----------------------------------------------------------------------------
readableBytes == writeIndex - readIndex
remaining == Len(buf) - writeIndex
available == Len(buf) - writeIndex + readIndex

(* The unread bytes. *)
Contents == SubSeq(buf, readIndex + 1, writeIndex)

(* Mutant: the indices are moved but the bytes are not. *)
Compacted_NoCopy == buf

(* buf_ after std::copy of the unread bytes to its front. *)
Compacted == Contents \o SubSeq(buf, readableBytes + 1, Len(buf))

(* std::vector::resize. *)
Resized(b, n) ==
  IF n <= Len(b) THEN SubSeq(b, 1, n) ELSE b \o [i \in 1..(n - Len(b)) |-> 0]

(* b with the bytes s stored behind the first at cells. *)
Stored(b, at, s) == SubSeq(b, 1, at) \o s \o SubSeq(b, at + Len(s) + 1, Len(b))

(* The next n bytes a caller or the network supplies. *)
NextBytes(n) == [i \in 1..n |-> written + i]

(* What a call leaves in the buffer, with its result. *)
Effect(b, r, w, e, res) ==
  [buf |-> b, readIndex |-> r, writeIndex |-> w, lastExpand |-> e, result |-> res]

(* ensureSpace(len) when even compaction does not help: grow by what is    *)
(* missing, and by kExpandSize when the buffer has grown often.            *)
Grown(len) ==
  LET extra == lastExpand + 1 > kExpandThreshold
      size == Len(buf) + (len - remaining) + (IF extra THEN kExpandSize ELSE 0)
  IN  Effect(Resized(buf, size), readIndex, writeIndex,
             IF extra THEN 0 ELSE lastExpand + 1,
             IF extra THEN size - writeIndex ELSE len)

(* Mutant: what is available, not what remains, is granted. *)
ensureSpace_Overgrants(len) ==
  IF available >= len THEN Effect(buf, readIndex, writeIndex, lastExpand, available)
  ELSE Grown(len)

(* Mutant: the buffer grows without trying to compact first. *)
ensureSpace_NoCompaction(len) ==
  IF remaining >= len THEN Effect(buf, readIndex, writeIndex, lastExpand, remaining)
  ELSE Grown(len)

(* ensureSpace(len): nothing to do, or compact, or grow. *)
ensureSpace(len) ==
  IF remaining >= len THEN Effect(buf, readIndex, writeIndex, lastExpand, remaining)
  ELSE IF available >= len THEN Effect(Compacted, 0, readableBytes, lastExpand, len)
  ELSE Grown(len)

(* Mutant: the index is taken back without regard to readIndex_. *)
updateWriteIndex_NoClamp(delta) == writeIndex + delta

(* updateWriteIndex(delta), for the deltas the program passes: a negative  *)
(* one is clamped at readIndex_, a positive one fits in remaining().       *)
updateWriteIndex(delta) ==
  IF delta < 0 /\ writeIndex + delta < readIndex THEN readIndex ELSE writeIndex + delta

-----------------------------------------------------------------------------
Idle == granted = 0

(* write(buf, len), and what is built on it: write(Buffer&), writeString,  *)
(* putByte, putUInt16, putUInt32, putUInt64.                               *)
write(len) ==
  /\ Idle
  /\ written + len <= MaxBytes
  /\ LET e == ensureSpace(len)
     IN  /\ buf' = Stored(e.buf, e.writeIndex, NextBytes(len))
         /\ readIndex' = e.readIndex
         /\ writeIndex' = e.writeIndex + len
         /\ lastExpand' = e.lastExpand
  /\ written' = written + len
  /\ rereadable' = 0
  /\ UNCHANGED granted

(* on_uv_alloc: libuv may store up to granted bytes at writeStart().       *)
on_uv_alloc ==
  /\ Idle
  /\ LET e == ensureSpace(kMinWritableSize)
     IN  /\ buf' = e.buf
         /\ readIndex' = e.readIndex
         /\ writeIndex' = e.writeIndex
         /\ lastExpand' = e.lastExpand
         /\ granted' = e.result
  /\ rereadable' = 0
  /\ UNCHANGED written

(* on_uv_read with nread bytes, which libuv has stored at writeStart().    *)
on_uv_read(nread) ==
  /\ nread \in 1..granted
  /\ written + nread <= MaxBytes
  /\ buf' = Stored(buf, writeIndex, NextBytes(nread))
  /\ writeIndex' = updateWriteIndex(nread)
  /\ written' = written + nread
  /\ granted' = 0
  /\ UNCHANGED <<readIndex, lastExpand, rereadable>>

(* on_uv_read with nread <= 0: nothing was stored. *)
on_uv_read_nothing ==
  /\ ~Idle
  /\ granted' = 0
  /\ UNCHANGED <<buf, readIndex, writeIndex, lastExpand, rereadable, written>>

(* retrieve(len), read(dst, len), read(len), readString, readTypedNumber:  *)
(* callers keep to readableBytes(), which the code asserts.                *)
retrieve(len) ==
  /\ Idle
  /\ len <= readableBytes
  /\ readIndex' = readIndex + len
  /\ rereadable' = rereadable + len
  /\ UNCHANGED <<buf, writeIndex, lastExpand, granted, written>>

(* unread(len): the decoder returns bytes it has read since the last write. *)
unread(len) ==
  /\ Idle
  /\ len <= rereadable
  /\ readIndex' = readIndex - len
  /\ rereadable' = rereadable - len
  /\ UNCHANGED <<buf, writeIndex, lastExpand, granted, written>>

(* unwrite(len): at most what is readable is dropped from the end. *)
unwrite(len) ==
  /\ Idle
  /\ writeIndex' = updateWriteIndex(-len)
  /\ UNCHANGED <<buf, readIndex, lastExpand, granted, rereadable, written>>

clear ==
  /\ Idle
  /\ readIndex' = 0
  /\ writeIndex' = 0
  /\ rereadable' = 0
  /\ UNCHANGED <<buf, lastExpand, granted, written>>

(* shrink(len): compact, drop what exceeds len, resize to len. *)
shrink(len) ==
  /\ Idle
  /\ buf' = Resized(Compacted, len)
  /\ readIndex' = 0
  /\ writeIndex' = IF readableBytes > len THEN len ELSE readableBytes
  /\ rereadable' = 0
  /\ UNCHANGED <<lastExpand, granted, written>>

Next ==
  \/ \E len \in 0..MaxLen : write(len) \/ retrieve(len) \/ unread(len) \/ unwrite(len) \/ shrink(len)
  \/ \E nread \in 1..MaxBytes : on_uv_read(nread)
  \/ on_uv_alloc \/ on_uv_read_nothing \/ clear

Spec == Init /\ [][Next]_vars

-----------------------------------------------------------------------------
TypeOK ==
  /\ buf \in Seq(Nat)
  /\ readIndex \in Nat
  /\ writeIndex \in Nat
  /\ lastExpand \in 0..kExpandThreshold
  /\ granted \in Nat
  /\ rereadable \in Nat
  /\ written \in 0..MaxBytes

(* The indices delimit a part of buf_, and what may be unread lies before  *)
(* it: no call the program makes fails an assert of Buffer.h or reads or   *)
(* writes outside the vector (Buffer.h:59-67, 142-158).                    *)
IndicesOK == rereadable <= readIndex /\ readIndex <= writeIndex /\ writeIndex <= Len(buf)

(* The space that ensureSpace() promises libuv exists behind writeIndex_   *)
(* (TcpConnection.cpp:11-16).                                              *)
GrantFits == granted <= remaining

(* The vector grows only when the unread bytes and the request together    *)
(* do not fit in it; otherwise it is compacted                             *)
(* (test/buffer_test.cpp:21-26, Buffer.h:88-93).                           *)
GrowsOnlyWhenFull ==
  [][\A len \in 0..MaxLen : write(len) /\ Len(buf') > Len(buf) => readableBytes + len > Len(buf)]_vars

(* Growing, compacting, unreading and libuv's direct writes are invisible: *)
(* the buffer is a queue of bytes.                                         *)
Queue == INSTANCE ByteQueue WITH
  queue <- Contents,
  taken <- SubSeq(buf, readIndex - rereadable + 1, readIndex)

ImplementsQueue == Queue!Spec
=============================================================================
