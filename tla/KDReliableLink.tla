--------------------------- MODULE KDReliableLink ---------------------------
(***************************************************************************)
(* One direction of a link between two endpoints                           *)
(* (kdlink_reliable_endpoint.v): the replay window and the credits of the  *)
(* sender, the receive commit of the other end, the forward link and the   *)
(* way back of the answers, each with its CDC FIFO.  The two ends have     *)
(* clocks of their own, so an edge of either is a step.  A flit may be     *)
(* damaged and an answer lost; nothing is reordered.  A packet is the      *)
(* number of its place in the stream of normal traffic.                    *)
(***************************************************************************)
EXTENDS KDReplayWindow, KDCreditBank, KDRxCommit, Functions

CONSTANTS
    Lengths,       \* flits of each packet, a sequence
    SeqSpace,      \* sequence numbers (4096)
    ForwardDepth,  \* flits under way at most (bound)
    ReverseDepth,  \* answers under way at most
    MaxDamaged,    \* damaged flits (bound)
    MaxLost,       \* lost answers (bound)
    PromptConsumer \* is a packet handed over before a copy of it arrives

ASSUME LinkAssumption ==
    /\ Lengths \in Seq(1 .. MaxFlits)
    /\ SeqSpace \in Nat \ {0}
    /\ Channels = {"data", "replay"}
    /\ ForwardDepth \in Nat \ {0} /\ ReverseDepth \in Nat \ {0}
    /\ MaxDamaged \in Nat /\ MaxLost \in Nat
    /\ PromptConsumer \in BOOLEAN

VARIABLES
    win, bank, rx,
    next,        \* packet and flit the sender has to send next
    wire,        \* flits under way
    reverse,     \* answers under way
    damaged, lost,
    deliveries   \* history: how often each packet was handed over

sender   == <<win, bank, next>>
receiver == <<rx, deliveries>>
vars     == <<sender, receiver, wire, reverse, damaged, lost>>

Packets == 0 .. (Len(Lengths) - 1)

Flit(p, k) ==
    [vc |-> "data", seq |-> p % SeqSpace, sop |-> k = 0, eop |-> k + 1 = Lengths[p + 1], index |-> k,
     load |-> p, good |-> TRUE]

Init ==
    /\ win = WindowReset /\ bank = BankReset /\ rx = RxReset
    /\ next = [packet |-> 0, flit |-> 0]
    /\ wire = <<>> /\ reverse = <<>> /\ damaged = 0 /\ lost = 0
    /\ deliveries = [p \in Packets |-> 0]

Optional(S) == {<<>>} \cup {<<x>> : x \in S}

\* What the ingress offers: packets in their order, flits of one without others between.
Offer == IF next.packet \in Packets THEN <<Flit(next.packet, next.flit)>> ELSE <<>>

\* A replayed flit comes before normal traffic, also within a packet of it, and holds
\* it up while the replay channel has no credit.
NormalSend(grant) ==
    /\ Offer # <<>> /\ win.out = <<>> /\ grant /\ Admits(bank, "data")
    /\ StoreReady(win, Offer[1])

ReplaySend(grant) == win.out # <<>> /\ grant /\ Admits(bank, "replay")

\* tx_service_grant_i, which the arbiter of the shared line may withhold.
Grants == IF Len(wire) < ForwardDepth THEN BOOLEAN ELSE {FALSE}

\* A timer outlasts the way of a packet to its consumer and of the answer back.
UnderWay(seq) ==
    \/ \E n \in 1 .. Len(wire) : wire[n].seq = seq
    \/ \E n \in 1 .. Len(rx.contexts) : rx.contexts[n].flits[1].seq = seq
    \/ \E n \in 1 .. Len(rx.responses) : rx.responses[n].seq = seq
    \/ \E n \in 1 .. Len(reverse) : reverse[n].seq = seq

Overdue == {k \in Slots : win.slots[k].complete /\ ~UnderWay(win.slots[k].seq)}

\* Of the next answer, the sender gets its type and its number, or nothing.
Named(message, type) ==
    IF message # <<>> /\ message[1].type = type THEN <<message[1].seq>> ELSE <<>>

Following(n) ==
    IF n.flit + 1 < Lengths[n.packet + 1] THEN [n EXCEPT !.flit = @ + 1]
    ELSE [packet |-> n.packet + 1, flit |-> 0]

Counted(message) ==
    IF message = <<>> THEN <<>> ELSE <<[vc |-> message[1].vc, value |-> message[1].total]>>

SenderEdge(grant, message, due) ==
    LET sends == NormalSend(grant) IN
    /\ bank' = BankEdge(bank, [send |-> IF ReplaySend(grant) THEN <<"replay">>
                                       ELSE IF sends THEN <<"data">> ELSE <<>>,
                               total |-> Counted(message)])
    /\ win' = WindowEdge(win, [store |-> IF sends THEN Offer ELSE <<>>,
                               ack |-> Named(message, "ack"), nack |-> Named(message, "nack"),
                               due |-> due, ready |-> ReplaySend(grant)])
    /\ next' = IF sends THEN Following(next) ELSE next
    /\ wire' = IF ReplaySend(grant) THEN wire \o win.out
               ELSE IF sends THEN wire \o Offer ELSE wire

\* The sender's edge: an answer may arrive at it, or be lost on the way.
Transmit ==
    /\ \E grant \in Grants, due \in Optional(Overdue) :
        \/ SenderEdge(grant, <<>>, due) /\ UNCHANGED reverse
        \/ /\ reverse # <<>>
           /\ SenderEdge(grant, <<Head(reverse)>>, due)
           /\ reverse' = Tail(reverse)
    /\ UNCHANGED <<receiver, damaged, lost>>

LoseAnswer ==
    /\ reverse # <<>> /\ lost < MaxLost
    /\ reverse' = Tail(reverse)
    /\ lost' = lost + 1
    /\ UNCHANGED <<sender, receiver, wire, damaged>>

\* Damage leaves any number and end of packet in the header.  The channel is left as
\* it was: a flit counted for another channel costs a credit of its own.
Misread(flit, e, s) == [flit EXCEPT !.good = FALSE, !.eop = e, !.seq = s]
Damaged(flit) ==
    {Misread(flit, e, s) : e \in BOOLEAN, s \in {p % SeqSpace : p \in Packets}}

Arrivals ==
    IF wire = <<>> THEN {<<>>}
    ELSE LET flit == Head(wire) IN
         IF PromptConsumer /\ \E n \in 1 .. Len(rx.contexts) : rx.contexts[n].flits[1].seq = flit.seq
         THEN {<<>>}
         ELSE Optional({flit} \cup (IF damaged < MaxDamaged THEN Damaged(flit) ELSE {}))

\* The packet that leaves the context FIFO, by what its flits carry.
HandedOver(i) ==
    IF Dequeues(rx, i)
    THEN {f.load : f \in Range(rx.contexts[1].flits)} ELSE {}

ReceiverEdge(flit, ready) ==
    LET i == [flit |-> flit, ready |-> ready,
              pop |-> rx.responses # <<>> /\ Len(reverse) < ReverseDepth]
    IN
    /\ rx' = RxEdge(rx, i)
    /\ wire' = IF Takes(rx, i) THEN Tail(wire) ELSE wire
    /\ reverse' = IF i.pop THEN Append(reverse, Head(rx.responses)) ELSE reverse
    /\ damaged' = IF Takes(rx, i) /\ ~flit[1].good THEN damaged + 1 ELSE damaged
    /\ deliveries' = [p \in Packets |->
                        deliveries[p] + (IF p \in HandedOver(i) THEN 1 ELSE 0)]

Receive ==
    /\ \E flit \in Arrivals, ready \in BOOLEAN : ReceiverEdge(flit, ready)
    /\ UNCHANGED <<sender, lost>>

Next == Transmit \/ LoseAnswer \/ Receive

Spec == Init /\ [][Next]_vars

\* Both clocks run; the ingress, the grant and the consumer are not withheld forever.
FairSpec == Spec /\ WF_vars(Transmit) /\ WF_vars(Receive)
-----------------------------------------------------------------------------
Begun == {p \in Packets : next.packet > p \/ (next.packet = p /\ next.flit > 0)}

Retained(p) == \E k \in Slots : win.slots[k].valid /\ win.slots[k].flits[1].load = p

\* KDL-LINK-006 and -007: every packet is handed over once, whole, and its slot is
\* released after that, whatever copies of it, broken packets and late answers do.
Service == INSTANCE KDDeliveryService WITH
    Txn <- Packets, issued <- Begun,
    completions <- [p \in Packets |-> IF p \in Begun /\ ~Retained(p) THEN 1 ELSE 0]
ExactlyOnce == Service!SSpec

\* A packet is answered in the end, or the sender reports, again and again, that its
\* retries are used up: lost answers, ignored NACKs and replays that break into
\* packets strand none.
CompletesOrReports ==
    []<>(win.exhausted \/ \A p \in Packets : p \in Begun /\ ~Retained(p))
=============================================================================
