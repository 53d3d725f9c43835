------------------------- MODULE DLReplayScheduler -------------------------
(***************************************************************************)
(* DLReplayScheduler (dl_replay_scheduler.py): one end of a link.  It owns *)
(* a transmitter and a receiver, decides the header of every outgoing flit *)
(* and hands every incoming flit to both.  The state is the record sched:  *)
(*   explicit_count    flits until the next explicit header                *)
(*   replay_requests   copies of the Replay Request still to send          *)
(*   request_sequence  the target those copies name, 0 while none will be  *)
(*                     sent that has to repeat it                          *)
(*   requested         a request was sent in the present codeword group:   *)
(*                     last_request_group = last_flit_group                *)
(* Codeword groups are nondecreasing ordinals that are only compared for   *)
(* equality, so a send says whether it opens a new group.                  *)
(***************************************************************************)
EXTENDS DLReplayTransmitter, DLReplayReceiver

CONSTANTS
    ExplicitPeriod,  \* an explicit header at least every so many flits (7)
    RequestCopies    \* copies of one Replay Request (3)

ASSUME SchedulerAssumption ==
    /\ ExplicitPeriod \in Nat \ {0}
    /\ RequestCopies \in Nat \ {0}

VARIABLE sched

SchedState ==
    [explicit_count : 0 .. ExplicitPeriod, replay_requests : 0 .. RequestCopies,
     request_sequence : 0 .. MaxSeq, requested : BOOLEAN]

SchedReset ==
    [explicit_count |-> ExplicitPeriod, replay_requests |-> 0,
     request_sequence |-> 0, requested |-> FALSE]

NoteRequests(requests) ==
    sched' = IF requests THEN [sched EXCEPT !.replay_requests = RequestCopies,
                                            !.request_sequence = 0]
             ELSE sched

\* receive: both consumers see the flit, then new requests are noted.
Receive(word, crc_ok) ==
    /\ RxReceive(word, crc_ok)
    /\ TxReceive(word, crc_ok)
    /\ NoteRequests(RequestsReplay(rx, word, crc_ok))

\* discard_ingress: one storage discard counts for both consumers.
DiscardFlit ==
    /\ DiscardForBackpressure
    /\ DiscardIngress
    /\ NoteRequests(rx.replay /\ RequestDue(rx))

\* send: a scheduled replay comes first, then the offered payload, then a NOP.
Replaying == tx.scheduled # <<>>
AcceptsOffer(offered) == offered /\ ~Replaying /\ CanEnqueue(tx)
FirstReplay == Replaying /\ tx.first_replay

\* Variant: a NOP announces the number of the next payload.
CarriedEntryNopAhead(offered, p) ==
    IF Replaying THEN Head(tx.scheduled)
    ELSE [sequence |-> NextSeq(tx.last_sequence), payload |-> p]

\* The entry the flit carries; a NOP repeats the number of the newest payload.
CarriedEntry(offered, p) ==
    IF Replaying THEN Head(tx.scheduled)
    ELSE [sequence |-> IF AcceptsOffer(offered) THEN NextSeq(tx.last_sequence)
                       ELSE tx.last_sequence,
          payload  |-> p]

HasPayload(offered) == Replaying \/ AcceptsOffer(offered)

\* An explicit header is due on the first replayed flit and every
\* ExplicitPeriod-th flit; otherwise a pending request goes out, one copy per
\* codeword group; otherwise the flit carries an Ack.
ExplicitDue == FirstReplay \/ sched.explicit_count <= 1
RequestDueNow(newGroup) ==
    /\ ~ExplicitDue
    /\ sched.replay_requests > 0
    /\ newGroup \/ ~sched.requested

\* Variants: the target forgets the 511 -> 1 wrap; it is captured a copy late.
RequestTargetNoWrap ==
    IF sched.replay_requests = RequestCopies
    THEN rx.last_sequence + 1 ELSE sched.request_sequence

RequestTargetLate ==
    IF sched.replay_requests = RequestCopies - 1
    THEN NextSeq(rx.last_sequence) ELSE sched.request_sequence

\* The request target is captured when the first copy is actually sent.
RequestTarget ==
    IF sched.replay_requests = RequestCopies
    THEN NextSeq(rx.last_sequence) ELSE sched.request_sequence

\* Variant: the Ack names the next expected payload instead of the last one.
OutgoingWordAcksNext(offered, p, newGroup) ==
    LET seq == CarriedEntry(offered, p).sequence
        has == HasPayload(offered)
    IN  IF ExplicitDue THEN EncodeExplicit(seq, has, Replaying)
        ELSE IF RequestDueNow(newGroup) THEN EncodeCommand(seq, RequestTarget, has, TRUE)
        ELSE EncodeCommand(seq, NextSeq(rx.last_sequence), has, FALSE)

OutgoingWord(offered, p, newGroup) ==
    LET seq == CarriedEntry(offered, p).sequence
        has == HasPayload(offered)
    IN  IF ExplicitDue THEN EncodeExplicit(seq, has, Replaying)
        ELSE IF RequestDueNow(newGroup) THEN EncodeCommand(seq, RequestTarget, has, TRUE)
        ELSE EncodeCommand(seq, rx.last_sequence, has, FALSE)

Send(offered, p, newGroup) ==
    /\ \/ NextReplay
       \/ AcceptsOffer(offered) /\ Enqueue(p)
       \/ ~HasPayload(offered) /\ UNCHANGED tx
    /\ sched' = [explicit_count |-> IF ExplicitDue THEN ExplicitPeriod
                                    ELSE sched.explicit_count - 1,
                 replay_requests |-> IF RequestDueNow(newGroup)
                                     THEN sched.replay_requests - 1
                                     ELSE sched.replay_requests,
                 request_sequence |-> IF ~RequestDueNow(newGroup) THEN sched.request_sequence
                                      ELSE IF sched.replay_requests > 1 THEN RequestTarget
                                      ELSE 0,
                 requested |-> RequestDueNow(newGroup) \/ (sched.requested /\ ~newGroup)]
    /\ UNCHANGED rx

ResetScheduler == ResetTransmitter /\ ResetReceiver /\ sched' = SchedReset

\* receiver.configure_replay_limit is public, and the only call past the scheduler.
Configure == \E value \in ReplayLimits : ConfigureReplayLimit(value) /\ UNCHANGED <<tx, sched>>

SchedInit == TxInit /\ RxInit /\ sched = SchedReset

\* Neither consumer reads a header whose CRC is bad, so that one stands for all.
CorruptedWord == CHOOSE word \in Words : TRUE

\* One end against an arbitrary peer: any header, any loss, any grouping.
SchedNext ==
    \/ \E word \in Words : Receive(word, TRUE)
    \/ Receive(CorruptedWord, FALSE)
    \/ DiscardFlit
    \/ \E offered, newGroup \in BOOLEAN, p \in Payloads : Send(offered, p, newGroup)
    \/ Configure
    \/ ResetScheduler

SchedSpec == SchedInit /\ [][SchedNext]_<<tx, rx, sched>>
-----------------------------------------------------------------------------
\* The scheduler's state is well typed.
SchedTypeOK == TxTypeOK /\ RxTypeOK /\ sched \in SchedState

\* Whatever the peer has sent, the next flit has a legal header, so neither
\* encoder raises: a request names a real sequence number even though copies
\* outlive the replay that caused them, and a replay flit carries a payload.
SendsLegalWord ==
    \A offered, newGroup \in BOOLEAN, p \in Payloads :
        LET word == OutgoingWord(offered, p, newGroup)
        IN  word \in Words /\ ValidHeader(word)

\* A flit never claims a payload the transmitter has not committed: its
\* sequence number lies on the run the peer may still be missing, or is one
\* that the peer acknowledged while the replay that repeats it was running.
SendsKnownSequence ==
    \A p \in Payloads :
        LET entry == CarriedEntry(FALSE, p)
        IN  \/ Dist(tx.last_sequence, entry.sequence) <= Len(tx.buffer)
            \/ tx.replay /\ Dist(tx.last_ack, entry.sequence) < Window
=============================================================================
