-------------------------- MODULE GracefulChannel --------------------------
(***************************************************************************)
(* What a user of one TCP connection is promised, with nothing said about  *)
(* how: messages handed to the connection while it is open reach the peer  *)
(* in order, none twice and none missing, and a connection that is asked   *)
(* to close does so only after everything accepted has been delivered.     *)
(***************************************************************************)
EXTENDS Naturals, Sequences

VARIABLES
  accepted,   \* every message send() has taken, in order
  delivered,  \* what has been handed to the network, in order
  phase       \* "open", "closing" (asked to close, still flushing), "closed"

chanVars == <<accepted, delivered, phase>>

Init ==
  /\ accepted = <<>>
  /\ delivered = <<>>
  /\ phase = "open"

(* The next message is accepted; messages are numbered by acceptance. *)
Accept ==
  /\ phase = "open"
  /\ accepted' = Append(accepted, Len(accepted) + 1)
  /\ UNCHANGED <<delivered, phase>>

(* Asked to close: at once when nothing is outstanding, else after a flush. *)
RequestClose ==
  /\ phase = "open"
  /\ phase' = IF delivered = accepted THEN "closed" ELSE "closing"
  /\ UNCHANGED <<accepted, delivered>>

(* A non-empty run of outstanding messages is delivered; the delivery that *)
(* empties a closing channel closes it.                                    *)
Deliver ==
  /\ \E n \in Len(delivered) + 1 .. Len(accepted) :
       delivered' = SubSeq(accepted, 1, n)
  /\ phase' = IF phase = "closing" /\ delivered' = accepted THEN "closed" ELSE phase
  /\ UNCHANGED accepted

Next == Accept \/ RequestClose \/ Deliver

Spec == Init /\ [][Next]_chanVars

FairSpec == Spec /\ WF_chanVars(Deliver)
=============================================================================
