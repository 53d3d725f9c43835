-------------------------- MODULE ReliableDelivery --------------------------
(***************************************************************************)
(* What a link with retry promises one direction of traffic: payloads are  *)
(* accepted one by one and delivered once each, in the order accepted.     *)
(* Payloads are numbered 1, 2, 3, ... in the order they are accepted.      *)
(***************************************************************************)
EXTENDS Naturals, Sequences

VARIABLES
    accepted,   \* how many payloads the sending end has taken over
    delivered   \* the payloads handed out at the receiving end, in order

RDInit == accepted = 0 /\ delivered = <<>>

Accept == accepted' = accepted + 1 /\ UNCHANGED delivered

Deliver ==
    /\ Len(delivered) < accepted
    /\ delivered' = Append(delivered, Len(delivered) + 1)
    /\ UNCHANGED accepted

RDSpec == RDInit /\ [][Accept \/ Deliver]_<<accepted, delivered>>
=============================================================================
