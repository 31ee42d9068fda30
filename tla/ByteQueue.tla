----------------------------- MODULE ByteQueue -----------------------------
(***************************************************************************)
(* What the users of ws::Buffer rely on: a queue of bytes, from whose      *)
(* front bytes are taken, and to which bytes just taken can be returned    *)
(* until the next time something is added.                                 *)
(***************************************************************************)
EXTENDS Integers, Sequences

VARIABLES
  queue,   \* the unread bytes, oldest first
  taken    \* bytes that may still be put back, oldest first

queueVars == <<queue, taken>>

Init == queue = <<>> /\ taken = <<>>

(* New bytes arrive at the end. *)
Put ==
  /\ Len(queue') > Len(queue)
  /\ SubSeq(queue', 1, Len(queue)) = queue
  /\ taken' = <<>>

(* The first n bytes are read. *)
Take ==
  \E n \in 0..Len(queue) :
    /\ queue' = SubSeq(queue, n + 1, Len(queue))
    /\ taken' = taken \o SubSeq(queue, 1, n)

(* The n bytes read last are put back. *)
PutBack ==
  \E n \in 0..Len(taken) :
    /\ queue' = SubSeq(taken, Len(taken) - n + 1, Len(taken)) \o queue
    /\ taken' = SubSeq(taken, 1, Len(taken) - n)

(* The newest bytes are dropped. *)
Drop ==
  /\ \E n \in 0..Len(queue) : queue' = SubSeq(queue, 1, n)
  /\ taken' \in {taken, <<>>}

Next == Put \/ Take \/ PutBack \/ Drop

Spec == Init /\ [][Next]_queueVars
=============================================================================
