------------------------ MODULE DLReplayTransmitter ------------------------
(***************************************************************************)
(* DLReplayTransmitter (dl_replay_transmitter.py): the TxReplay buffer of  *)
(* one end of a link and its handling of incoming Ack / Replay Request     *)
(* commands.  The state is the record tx:                                  *)
(*   buffer      unacknowledged entries in committed order                 *)
(*   scheduled   entries still to be replayed, a fixed order that later    *)
(*               Acks do not shorten                                       *)
(*   last_sequence, last_ack, ignore_count, replay, first_replay: TxState  *)
(***************************************************************************)
EXTENDS DLReplayHeader, Sequences, FiniteSets

CONSTANTS
    Capacity,      \* resident entries the implementation can hold
    IgnoreWindow,  \* ingress flits a repeated request is ignored for (12)
    Payloads       \* opaque payload contents

ASSUME TransmitterAssumption ==
    /\ Capacity \in Nat \ {0}
    /\ IgnoreWindow \in Nat

VARIABLE tx

Entry == [sequence : SeqNum, payload : Payloads]

TxState ==
    [last_sequence : SeqNum, last_ack : SeqNum, ignore_count : 0 .. IgnoreWindow,
     replay : BOOLEAN, first_replay : BOOLEAN,
     buffer : Seq(Entry), scheduled : Seq(Entry)]

TxReset ==
    [last_sequence |-> MaxSeq, last_ack |-> MaxSeq, ignore_count |-> 0,
     replay |-> FALSE, first_replay |-> FALSE, buffer |-> <<>>, scheduled |-> <<>>]

\* Entries the storage must hold: a schedule references buffer entries.
Entries(q) == {q[i] : i \in 1 .. Len(q)}
Resident(t) == Cardinality(Entries(t.buffer) \cup Entries(t.scheduled))

\* Variant: storage is not consulted.
CanEnqueueUnbounded(t) == ~t.replay /\ Len(t.buffer) < Window

CanEnqueue(t) == ~t.replay /\ Len(t.buffer) < Window /\ Resident(t) < Capacity

\* enqueue: commit the next normal payload under the next sequence number.
NewEntry(t, p) == [sequence |-> NextSeq(t.last_sequence), payload |-> p]

Enqueue(p) ==
    /\ CanEnqueue(tx)
    /\ tx' = [tx EXCEPT !.buffer = Append(@, NewEntry(tx, p)),
                        !.last_sequence = NextSeq(@)]

\* _age_ignore: every ingress flit ages the request-ignore window by one.
Aged(t) == [t EXCEPT !.ignore_count = IF @ = 0 THEN 0 ELSE @ - 1]

DiscardIngress == tx' = Aged(tx)

\* Variant: a request is held to the wider window of an Ack.
RequestExpectedAsAck(t, target) ==
    /\ Dist(target, t.last_ack) <= Window
    /\ Dist(t.last_sequence, target) <= Window

\* A Replay Request names an entry after the last Ack and not after the tail;
\* an Ack may also repeat the last one.
RequestExpected(t, target) ==
    /\ Dist(target, t.last_ack + 1) <= Window - 1
    /\ Dist(t.last_sequence, target) <= Window - 1

AckExpected(t, target) ==
    /\ Dist(target, t.last_ack) <= Window
    /\ Dist(t.last_sequence, target) <= Window

\* The part of the buffer that starts at the entry numbered target.
BufferFrom(t, target) ==
    LET start == CHOOSE i \in 1 .. Len(t.buffer) :
                    /\ t.buffer[i].sequence = target
                    /\ \A j \in 1 .. (i - 1) : t.buffer[j].sequence # target
    IN  SubSeq(t.buffer, start, Len(t.buffer))

\* receive, by outcome: a flit without a usable command only ages the window,
UnusableFlit(word, crc_ok) == ~crc_ok \/ ~ValidHeader(word) \/ ~IsCommand(word)

\* a request inside the ignore window or outside the buffer does no more,
RequestRefused(t, word) ==
    /\ word.op = 3
    /\ Aged(t).ignore_count # 0 \/ ~RequestExpected(t, word.ack_request)

\* an Ack outside the unacknowledged range neither,
AckRefused(t, word) == word.op = 2 /\ ~AckExpected(t, word.ack_request)

ReceiveNothing(word, crc_ok) ==
    /\ \/ UnusableFlit(word, crc_ok)
       \/ RequestRefused(tx, word)
       \/ AckRefused(tx, word)
    /\ tx' = Aged(tx)

\* Variant: only the entry a request names is scheduled.
ReceiveRequestSelective(word, crc_ok) ==
    /\ ~UnusableFlit(word, crc_ok)
    /\ word.op = 3 /\ ~RequestRefused(tx, word)
    /\ tx' = [tx EXCEPT !.scheduled = <<Head(BufferFrom(tx, word.ack_request))>>,
                        !.replay = TRUE, !.first_replay = TRUE,
                        !.ignore_count = IgnoreWindow]

\* an accepted request schedules the buffer from its target on,
ReceiveRequest(word, crc_ok) ==
    /\ ~UnusableFlit(word, crc_ok)
    /\ word.op = 3 /\ ~RequestRefused(tx, word)
    /\ tx' = [tx EXCEPT !.scheduled = BufferFrom(tx, word.ack_request),
                        !.replay = TRUE, !.first_replay = TRUE,
                        !.ignore_count = IgnoreWindow]

\* Variant: an Ack keeps the entry it names.
ReceiveAckKeepsTarget(word, crc_ok) ==
    /\ ~UnusableFlit(word, crc_ok)
    /\ word.op = 2 /\ ~AckRefused(tx, word)
    /\ word.ack_request # tx.last_ack
    /\ tx' = [Aged(tx) EXCEPT
                !.buffer = SubSeq(@, Dist(word.ack_request, tx.last_ack), Len(@)),
                !.last_ack = word.ack_request]

\* and an accepted Ack releases every entry up to its target.
ReceiveAck(word, crc_ok) ==
    /\ ~UnusableFlit(word, crc_ok)
    /\ word.op = 2 /\ ~AckRefused(tx, word)
    /\ tx' = [Aged(tx) EXCEPT
                !.buffer = SubSeq(@, Dist(word.ack_request, tx.last_ack) + 1, Len(@)),
                !.last_ack = word.ack_request]

TxReceive(word, crc_ok) ==
    \/ ReceiveNothing(word, crc_ok)
    \/ ReceiveRequest(word, crc_ok)
    \/ ReceiveAck(word, crc_ok)

\* Variant: the last scheduled entry does not end the replay.
NextReplayNeverEnds ==
    /\ tx.scheduled # <<>>
    /\ tx' = [tx EXCEPT !.scheduled = Tail(@), !.first_replay = FALSE]

\* next_replay: commit the next scheduled entry; the last one ends replay.
NextReplay ==
    /\ tx.scheduled # <<>>
    /\ tx' = [tx EXCEPT !.scheduled = Tail(@),
                        !.replay = Len(tx.scheduled) > 1, !.first_replay = FALSE]

TxInit == tx = TxReset
ResetTransmitter == tx' = TxReset

TxNext ==
    \/ \E p \in Payloads : Enqueue(p)
    \/ DiscardIngress
    \/ \E word \in Words, crc_ok \in BOOLEAN : TxReceive(word, crc_ok)
    \/ NextReplay
    \/ ResetTransmitter

TxSpec == TxInit /\ [][TxNext]_tx
-----------------------------------------------------------------------------
\* The transmitter's state is well typed.
TxTypeOK == tx \in TxState

\* The position of a sequence number k places after s.
Advance(s, k) == IF s + k <= MaxSeq THEN s + k ELSE s + k - MaxSeq

\* The buffer is exactly the run of sequence numbers after last_ack up to
\* last_sequence, in order, across the 511 -> 1 wrap: Acks that release by
\* count (buffer[count:]) and requests that search by number agree.
BufferContiguous ==
    /\ Len(tx.buffer) <= Window
    /\ Len(tx.buffer) = Dist(tx.last_sequence, tx.last_ack)
    /\ \A i \in 1 .. Len(tx.buffer) :
          tx.buffer[i].sequence = Advance(tx.last_ack, i)

\* Whatever request a peer sends, if the transmitter accepts it the named
\* entry is in the buffer: next(...) in receive never raises StopIteration.
ReplayTargetResident ==
    \A target \in SeqNum :
        RequestExpected(tx, target) =>
            \E i \in 1 .. Len(tx.buffer) : tx.buffer[i].sequence = target

\* Live and scheduled entries together fit the storage, also while Acks
\* release entries that the running replay still has to send.
CapacityRespected == Resident(tx) <= Capacity

\* The replay flags agree with the schedule: replay (which blocks enqueue)
\* holds exactly while something is scheduled, and first_replay only then.
ReplayFlagsAgree ==
    /\ tx.replay <=> tx.scheduled # <<>>
    /\ tx.first_replay => tx.replay

\* The schedule still ends at the tail: no payload is committed during a
\* replay, so replay leaves the receiver at the newest payload.
ScheduleEndsAtTail ==
    tx.scheduled # <<>> =>
        tx.scheduled[Len(tx.scheduled)].sequence = tx.last_sequence
=============================================================================
