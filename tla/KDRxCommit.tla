----------------------------- MODULE KDRxCommit -----------------------------
(***************************************************************************)
(* kdlink_rx_commit.v: flits are gathered to packets in a FIFO of context  *)
(* slots, handed to the consumer flit by flit, and answered.  A packet is  *)
(* entered into the history of committed packets, which later copies of it *)
(* are compared with, when its last flit has been handed over.  A step is  *)
(* one edge of the core clock; the state is a record:                      *)
(*   contexts   complete packets waiting for the consumer: their flits and *)
(*              the credit total at the last of them                       *)
(*   gathered   the flits of the packet being received, <<>> between       *)
(*              packets (rx_active, rx_slot, rx_header, the flit counters) *)
(*   duplicate  the history knew the packet whose first flit came last     *)
(*   drain      flits are dropped up to the next end of packet             *)
(*   output     flits of the head packet handed over                       *)
(*   history    sequence number last committed in each entry, or none      *)
(*   totals     flits taken of each channel, modulo TotalModulus           *)
(*   responses  answers on their way back, oldest first                    *)
(* The inputs of an edge: flit (at most one), ready (of the consumer) and  *)
(* pop (the oldest answer leaves).  The diagnostic outputs are left out.   *)
(***************************************************************************)
EXTENDS KDLinkChannels

CONSTANTS
    HistorySlots,      \* entries of the history (512)
    ContextCount,      \* packets that can wait for the consumer
    MaxFlits,          \* flits of a packet at most (16)
    ResponseCapacity   \* answers that can wait

ASSUME RxCommitAssumption ==
    /\ HistorySlots \in Nat \ {0}
    /\ ContextCount \in Nat \ {0}
    /\ MaxFlits \in Nat \ {0}
    /\ ResponseCapacity \in Nat /\ ResponseCapacity > 1

HistoryEntries == 0 .. (HistorySlots - 1)

RxReset ==
    [contexts |-> <<>>, gathered |-> <<>>, duplicate |-> FALSE, drain |-> FALSE, output |-> 0,
     history |-> [h \in HistoryEntries |-> <<>>], totals |-> [v \in Channels |-> 0],
     responses |-> <<>>]

\* Both sides need room for two answers: one edge can add that many.
ResponseSpace(r) == Len(r.responses) < ResponseCapacity - 1

CommitValid(r) == r.contexts # <<>> /\ ResponseSpace(r)
Outputs(r, i)  == CommitValid(r) /\ i.ready
Dequeues(r, i) == Outputs(r, i) /\ r.output + 1 = Len(r.contexts[1].flits)

FlitReady(r, i) ==
    /\ ResponseSpace(r)
    /\ r.drain \/ r.gathered # <<>> \/ Len(r.contexts) < ContextCount \/ Dequeues(r, i)

Takes(r, i) == i.flit # <<>> /\ FlitReady(r, i)

\* A flit that cannot be part of a packet: bad CRC, or not the one that follows.
Misplaced(r, flit) ==
    IF r.gathered = <<>> THEN ~flit.sop
    ELSE \/ flit.sop
         \/ flit.seq # r.gathered[1].seq
         \/ flit.index # Len(r.gathered)
         \/ Len(r.gathered) = MaxFlits - 1 /\ ~flit.eop

Erroneous(r, flit) == ~flit.good \/ Misplaced(r, flit)

\* Variant: the identity in the entry is not compared.
KnownByEntry(r, flit) == r.history[flit.seq % HistorySlots] # <<>>

Known(r, flit) == r.history[flit.seq % HistorySlots] = <<flit.seq>>

\* The history is consulted at the first flit, for the whole packet.  At a first
\* flit that is also the last, duplicate still speaks of the packet before.
Repeats(r, flit) == r.duplicate \/ (r.gathered = <<>> /\ Known(r, flit))

Joins(r, i)    == Takes(r, i) /\ ~r.drain /\ ~Erroneous(r, i.flit[1])
Enqueues(r, i) == Joins(r, i) /\ i.flit[1].eop /\ ~Repeats(r, i.flit[1])

\* The answer to a flit: a credit alone, a NACK that names the packet being received
\* or else the flit's own, an ACK for a repeated packet.  A new packet is answered
\* when it is handed over, with the total it had when it was complete.  A NACK has
\* the channel of the packet it names, and the total of the flit's.
Total(r, flit) == NextTotal(r.totals[flit.vc])

Answer(type, about, total) == <<[type |-> type, seq |-> about.seq, vc |-> about.vc, total |-> total]>>

InputResponse(r, i) ==
    IF ~Takes(r, i) THEN <<>>
    ELSE LET flit == i.flit[1]
             named == IF r.gathered # <<>> THEN r.gathered[1] ELSE flit
         IN
         IF r.drain THEN Answer("credit", flit, Total(r, flit))
         ELSE IF Erroneous(r, flit) THEN Answer("nack", named, Total(r, flit))
         ELSE IF ~flit.eop THEN Answer("credit", flit, Total(r, flit))
         ELSE IF Repeats(r, flit) THEN Answer("ack", flit, Total(r, flit))
         ELSE <<>>

OutputResponse(r, i) ==
    IF Dequeues(r, i) THEN Answer("ack", r.contexts[1].flits[1], r.contexts[1].total) ELSE <<>>

ContextsAfter(r, i) ==
    (IF Dequeues(r, i) THEN Tail(r.contexts) ELSE r.contexts)
    \o (IF Enqueues(r, i)
        THEN <<[flits |-> Append(r.gathered, i.flit[1]), total |-> Total(r, i.flit[1])]>>
        ELSE <<>>)

TotalsAfter(r, i) ==
    IF Takes(r, i) THEN [r.totals EXCEPT ![i.flit[1].vc] = Total(r, i.flit[1])] ELSE r.totals

GatheredAfter(r, i) ==
    IF ~Takes(r, i) \/ r.drain THEN r.gathered
    ELSE IF Erroneous(r, i.flit[1]) \/ i.flit[1].eop THEN <<>>
    ELSE Append(r.gathered, i.flit[1])

DuplicateAfter(r, i) ==
    IF Joins(r, i) /\ r.gathered = <<>> THEN Known(r, i.flit[1]) ELSE r.duplicate

DrainAfter(r, i) ==
    IF ~Takes(r, i) THEN r.drain
    ELSE IF r.drain \/ Erroneous(r, i.flit[1]) THEN ~i.flit[1].eop
    ELSE FALSE

HistoryAfter(r, i) ==
    IF Dequeues(r, i)
    THEN LET seq == r.contexts[1].flits[1].seq IN [r.history EXCEPT ![seq % HistorySlots] = <<seq>>]
    ELSE r.history

RxEdge(r, i) ==
    [contexts  |-> ContextsAfter(r, i),
     gathered  |-> GatheredAfter(r, i),
     duplicate |-> DuplicateAfter(r, i),
     drain     |-> DrainAfter(r, i),
     output    |-> IF Dequeues(r, i) THEN 0 ELSE IF Outputs(r, i) THEN r.output + 1 ELSE r.output,
     history   |-> HistoryAfter(r, i),
     totals    |-> TotalsAfter(r, i),
     responses |-> (IF i.pop THEN Tail(r.responses) ELSE r.responses)
                   \o InputResponse(r, i) \o OutputResponse(r, i)]
=============================================================================
