---------------------------- MODULE DLReplayLink ----------------------------
(***************************************************************************)
(* Two DLReplayScheduler ends joined by two wires of fixed latency.  Time  *)
(* advances in flit slots: in each slot both ends consume the flit that    *)
(* arrives, then both ends send one flit.  A flit may arrive with a bad    *)
(* CRC, or be discarded because the storage behind the receiver is full;   *)
(* both are bounded per direction by MaxErrors.                            *)
(***************************************************************************)
EXTENDS Integers, Sequences, FiniteSets

CONSTANTS
    MaxSeq, LowMod, Window, Capacity, IgnoreWindow, BadLimit, CountMax,
    ReplayLimits, ExplicitPeriod, RequestCopies,
    Delay,       \* slots between the sending and the arrival of a flit
    GroupSpan,   \* flits of one FEC codeword group
    OfferA, OfferB,  \* payloads each end is offered (bound)
    MaxErrorsA, MaxErrorsB   \* flits lost on the way to A and to B (bounds)

\* What one end assumes of its parameters; an INSTANCE assumes nothing.
ASSUME EndAssumption ==
    /\ {MaxSeq, LowMod, Window, Capacity, BadLimit, CountMax,
        ExplicitPeriod, RequestCopies} \subseteq Nat \ {0}
    /\ 2 * Window < MaxSeq
    /\ IgnoreWindow \in Nat
    /\ ReplayLimits \subseteq 0 .. CountMax

ASSUME LinkAssumption ==
    /\ Delay \in Nat \ {0}
    /\ GroupSpan \in Nat \ {0}
    /\ {OfferA, OfferB, MaxErrorsA, MaxErrorsB} \subseteq Nat

VARIABLES
    txA, rxA, schedA,       \* end A
    txB, rxB, schedB,       \* end B
    wireAB, wireBA,         \* flits under way, oldest first
    acceptedA, acceptedB,   \* payloads each end has accepted
    deliveredA, deliveredB, \* payloads delivered AT each end
    errorsA, errorsB,       \* flits lost so far on the way to A and to B
    phase,                  \* which step of the slot is next
    groupPos                \* position of the slot in its codeword group

endA == <<txA, rxA, schedA>>
endB == <<txB, rxB, schedB>>
vars == <<endA, endB, wireAB, wireBA, acceptedA, acceptedB, deliveredA,
          deliveredB, errorsA, errorsB, phase, groupPos>>

Payloads == 1 .. (IF OfferA > OfferB THEN OfferA ELSE OfferB)

A == INSTANCE DLReplayScheduler WITH tx <- txA, rx <- rxA, sched <- schedA
B == INSTANCE DLReplayScheduler WITH tx <- txB, rx <- rxB, sched <- schedB

NoContent == 0
NewGroup == groupPos = 0

Init ==
    /\ A!SchedInit
    /\ B!SchedInit
    /\ wireAB = <<>> /\ wireBA = <<>>
    /\ acceptedA = 0 /\ acceptedB = 0
    /\ deliveredA = <<>> /\ deliveredB = <<>>
    /\ errorsA = 0 /\ errorsB = 0
    /\ phase = "receiveA"
    /\ groupPos = 0

\* A flit of the first slots has not travelled the wire yet.
Arrived(wire) == Len(wire) = Delay

ArriveAtA ==
    /\ phase = "receiveA" /\ phase' = "receiveB"
    /\ \/ /\ Arrived(wireBA)
          /\ wireBA' = Tail(wireBA)
          /\ LET flit == Head(wireBA) IN
             \/ /\ A!Receive(flit.word, TRUE)
                /\ deliveredA' = IF A!Delivers(rxA, flit.word, TRUE)
                                 THEN Append(deliveredA, flit.content) ELSE deliveredA
                /\ UNCHANGED errorsA
             \/ /\ errorsA < MaxErrorsA /\ errorsA' = errorsA + 1
                /\ A!Receive(flit.word, FALSE) \/ A!DiscardFlit
                /\ UNCHANGED deliveredA
       \/ ~Arrived(wireBA) /\ UNCHANGED <<endA, wireBA, deliveredA, errorsA>>
    /\ UNCHANGED <<endB, wireAB, acceptedA, acceptedB, deliveredB, errorsB, groupPos>>

ArriveAtB ==
    /\ phase = "receiveB" /\ phase' = "sendA"
    /\ \/ /\ Arrived(wireAB)
          /\ wireAB' = Tail(wireAB)
          /\ LET flit == Head(wireAB) IN
             \/ /\ B!Receive(flit.word, TRUE)
                /\ deliveredB' = IF B!Delivers(rxB, flit.word, TRUE)
                                 THEN Append(deliveredB, flit.content) ELSE deliveredB
                /\ UNCHANGED errorsB
             \/ /\ errorsB < MaxErrorsB /\ errorsB' = errorsB + 1
                /\ B!Receive(flit.word, FALSE) \/ B!DiscardFlit
                /\ UNCHANGED deliveredB
       \/ ~Arrived(wireAB) /\ UNCHANGED <<endB, wireAB, deliveredB, errorsB>>
    /\ UNCHANGED <<endA, wireBA, acceptedA, acceptedB, deliveredA, errorsA, groupPos>>

\* The application keeps offering its next payload until it is accepted.
SendFromA ==
    /\ phase = "sendA" /\ phase' = "sendB"
    /\ LET offered == acceptedA < OfferA
           p == acceptedA + 1
           has == A!HasPayload(offered)
       IN  /\ A!Send(offered, p, NewGroup)
           /\ acceptedA' = IF A!AcceptsOffer(offered) THEN p ELSE acceptedA
           /\ wireAB' = Append(wireAB,
                 [word |-> A!OutgoingWord(offered, p, NewGroup),
                  content |-> IF has THEN A!CarriedEntry(offered, p).payload
                              ELSE NoContent])
    /\ UNCHANGED <<endB, wireBA, acceptedB, deliveredA, deliveredB, errorsA,
                   errorsB, groupPos>>

SendFromB ==
    /\ phase = "sendB" /\ phase' = "receiveA"
    /\ LET offered == acceptedB < OfferB
           p == acceptedB + 1
           has == B!HasPayload(offered)
       IN  /\ B!Send(offered, p, NewGroup)
           /\ acceptedB' = IF B!AcceptsOffer(offered) THEN p ELSE acceptedB
           /\ wireBA' = Append(wireBA,
                 [word |-> B!OutgoingWord(offered, p, NewGroup),
                  content |-> IF has THEN B!CarriedEntry(offered, p).payload
                              ELSE NoContent])
    /\ groupPos' = (groupPos + 1) % GroupSpan
    /\ UNCHANGED <<endA, wireAB, acceptedA, deliveredA, deliveredB, errorsA, errorsB>>

Next == ArriveAtA \/ ArriveAtB \/ SendFromA \/ SendFromB

Spec == Init /\ [][Next]_vars

\* The flit stream never pauses: every slot eventually takes place.
FairSpec == Spec /\ WF_vars(Next)
-----------------------------------------------------------------------------
\* test_dl_replay_scheduler.py:155 - what has been delivered at a side is a prefix
\* of what the other side offered.  Both directions deliver exactly the accepted payloads, in order.
InOrder ==
    /\ \A i \in 1 .. Len(deliveredB) : deliveredB[i] = i
    /\ \A i \in 1 .. Len(deliveredA) : deliveredA[i] = i
    /\ Len(deliveredB) <= acceptedA
    /\ Len(deliveredA) <= acceptedB

\* An Ack releases (dl_replay_transmitter.py:132-138) what the receiver's
\* last_sequence covers: a payload leaves its sender's buffer only once the peer has delivered it.
ReleasedWasDelivered ==
    /\ acceptedA - Len(txA.buffer) <= Len(deliveredB)
    /\ acceptedB - Len(txB.buffer) <= Len(deliveredA)

\* Neither end stores more payloads than its capacity (dl_replay_transmitter.py:75-83),
\* counting those the peer has acknowledged while a replay still has to send them.
StorageBounded == A!CapacityRespected /\ B!CapacityRespected

\* Everything offered is accepted and delivered, and its buffer entry released.
Drained ==
    /\ acceptedA = OfferA /\ Len(deliveredB) = OfferA /\ txA.buffer = <<>>
    /\ acceptedB = OfferB /\ Len(deliveredA) = OfferB /\ txB.buffer = <<>>

\* Once losses end, the retries of both ends (dl_replay_receiver.py:111-126,
\* dl_replay_scheduler.py:107-122) drain the link for good.
EventuallyDrained == <>[]Drained

\* Refinement (dl_replay_scheduler.py): each direction is a reliable first-in first-out delivery.
AtoB == INSTANCE ReliableDelivery WITH accepted <- acceptedA, delivered <- deliveredB
BtoA == INSTANCE ReliableDelivery WITH accepted <- acceptedB, delivered <- deliveredA

\* From A to B: accepted payloads are delivered once each and in order.
ReliableAtoB == AtoB!RDSpec

\* From B to A, at the same time.
ReliableBtoA == BtoA!RDSpec
=============================================================================
