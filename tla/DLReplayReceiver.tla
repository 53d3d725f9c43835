-------------------------- MODULE DLReplayReceiver --------------------------
(***************************************************************************)
(* DLReplayReceiver (dl_replay_receiver.py): sequence acceptance, the      *)
(* ambiguity counter and the replay state of one end of a link.  Each      *)
(* action is one classified ingress flit.  The state is the record rx:     *)
(* RxState plus the programmed replay_limit.                               *)
(***************************************************************************)
EXTENDS DLReplayHeader

CONSTANTS
    BadLimit,      \* discards after which low sequence bits are ambiguous (7)
    CountMax,      \* saturation of the unexpected-flit counter (255)
    ReplayLimits   \* values software programs into the 8-bit threshold

ASSUME ReceiverAssumption ==
    /\ BadLimit \in Nat \ {0}
    /\ CountMax \in Nat \ {0}
    /\ ReplayLimits \subseteq 0 .. CountMax

VARIABLE rx

RxState ==
    [last_sequence : SeqNum, bad_crc_count : 0 .. BadLimit,
     unexpected_count : 0 .. CountMax, ambiguous : BOOLEAN, replay : BOOLEAN,
     replay_limit : ReplayLimits]

\* RxState(last_sequence = seq): every counter and flag at its default.
Fresh(seq, limit) ==
    [last_sequence |-> seq, bad_crc_count |-> 0, unexpected_count |-> 0,
     ambiguous |-> FALSE, replay |-> FALSE, replay_limit |-> limit]

SaturatingIncr(n, max) == IF n < max THEN n + 1 ELSE max

\* _unexpected_in_replay: the counter reaches the limit, a new request is due.
RequestDue(r) == SaturatingIncr(r.unexpected_count, CountMax) >= r.replay_limit

CountUnexpected(r) ==
    [r EXCEPT !.unexpected_count =
        IF RequestDue(r) THEN 0 ELSE SaturatingIncr(@, CountMax)]

\* Variant: ambiguity is declared one discard too late.
CountDiscardLate(r) ==
    LET bad == SaturatingIncr(r.bad_crc_count, BadLimit) IN
    [r EXCEPT !.bad_crc_count = bad, !.ambiguous = @ \/ r.bad_crc_count >= BadLimit]

\* _discard: a flit lost to CRC, a reserved operation or full storage.
CountDiscard(r) ==
    LET bad == SaturatingIncr(r.bad_crc_count, BadLimit) IN
    [r EXCEPT !.bad_crc_count = bad, !.ambiguous = @ \/ bad >= BadLimit]

Discarded(r) == IF r.replay THEN CountUnexpected(CountDiscard(r)) ELSE CountDiscard(r)

\* The full sequence number of a flit.  A command flit carries only its low
\* bits: the nearest number not before last_sequence is taken, and a payload
\* can not repeat it.  The sum wraps in 9 bits, so 0 can come out.
LowDelta(r, word) == (word.sequence_low - (r.last_sequence % LowMod)) % LowMod

Reconstructed(r, word) ==
    LET delta == IF word.payload /\ LowDelta(r, word) = 0
                 THEN LowMod ELSE LowDelta(r, word)
    IN  (r.last_sequence + delta) % (MaxSeq + 1)

SequenceOf(r, word) == IF IsExplicit(word) THEN word.sequence ELSE Reconstructed(r, word)

Expected(r, word) == IF word.payload THEN NextSeq(r.last_sequence) ELSE r.last_sequence

\* Variant: low bits are trusted although in replay.
TrustedInReplay(r, word) == IsExplicit(word) \/ ~r.ambiguous

Trusted(r, word) == IsExplicit(word) \/ (~r.ambiguous /\ ~r.replay)

\* receive, by outcome.  A zero field is dropped without being counted.
IsDiscard(word, crc_ok) == ~crc_ok \/ ReservedOp(word)
IsDropped(word, crc_ok) == ~IsDiscard(word, crc_ok) /\ ZeroField(word)
Usable(word, crc_ok) == crc_ok /\ ValidHeader(word)

\* Variant: an explicit header resynchronises the receiver.
AcceptsAnyExplicit(r, word, crc_ok) ==
    /\ Usable(word, crc_ok)
    /\ Trusted(r, word)
    /\ IsExplicit(word) \/ SequenceOf(r, word) = Expected(r, word)

Accepts(r, word, crc_ok) ==
    /\ Trusted(r, word)
    /\ Usable(word, crc_ok)
    /\ SequenceOf(r, word) = Expected(r, word)

\* A trusted flit out of sequence starts a replay, or counts within one.
StartsReplay(r, word, crc_ok) ==
    /\ ~r.replay
    /\ Usable(word, crc_ok) /\ Trusted(r, word)
    /\ ~Accepts(r, word, crc_ok)

CountsInReplay(r, word, crc_ok) ==
    /\ r.replay
    /\ Usable(word, crc_ok)
    /\ ~Accepts(r, word, crc_ok)

\* RxOutcome.request_replays and RxOutcome.deliver_payload.
RequestsReplay(r, word, crc_ok) ==
    \/ StartsReplay(r, word, crc_ok)
    \/ /\ r.replay /\ RequestDue(r)
       /\ CountsInReplay(r, word, crc_ok) \/ IsDiscard(word, crc_ok)

Delivers(r, word, crc_ok) == Accepts(r, word, crc_ok) /\ word.payload

ReceiveDiscard(word, crc_ok) == IsDiscard(word, crc_ok) /\ rx' = Discarded(rx)

ReceiveAccept(word, crc_ok) ==
    /\ Accepts(rx, word, crc_ok)
    /\ rx' = Fresh(SequenceOf(rx, word), rx.replay_limit)

ReceiveStartReplay(word, crc_ok) ==
    /\ StartsReplay(rx, word, crc_ok)
    /\ rx' = [rx EXCEPT !.replay = TRUE, !.unexpected_count = 0]

ReceiveInReplay(word, crc_ok) ==
    /\ CountsInReplay(rx, word, crc_ok)
    /\ rx' = CountUnexpected(rx)

\* An ambiguous command outside replay, or a zero field, changes nothing.
ReceiveNoEffect(word, crc_ok) ==
    /\ \/ IsDropped(word, crc_ok)
       \/ ~rx.replay /\ Usable(word, crc_ok) /\ ~Trusted(rx, word)
    /\ UNCHANGED rx

RxReceive(word, crc_ok) ==
    \/ ReceiveDiscard(word, crc_ok)
    \/ ReceiveAccept(word, crc_ok)
    \/ ReceiveStartReplay(word, crc_ok)
    \/ ReceiveInReplay(word, crc_ok)
    \/ ReceiveNoEffect(word, crc_ok)

DiscardForBackpressure == rx' = Discarded(rx)

ConfigureReplayLimit(value) == rx' = [rx EXCEPT !.replay_limit = value]

ResetReceiver == rx' = Fresh(MaxSeq, rx.replay_limit)

RxInit == \E limit \in ReplayLimits : rx = Fresh(MaxSeq, limit)

RxNext ==
    \/ \E word \in Words, crc_ok \in BOOLEAN : RxReceive(word, crc_ok)
    \/ DiscardForBackpressure
    \/ \E value \in ReplayLimits : ConfigureReplayLimit(value)
    \/ ResetReceiver

RxSpec == RxInit /\ [][RxNext]_rx
-----------------------------------------------------------------------------
\* The receiver's state is well typed; in particular the reconstructed value
\* 0 (the 9-bit wrap of the low bits) never becomes last_sequence.
RxTypeOK == rx \in RxState

\* The counters mean what the flags say: low bits are distrusted exactly once
\* BadLimit flits in a row were discarded, and unexpected flits are only
\* counted while a replay is awaited.
RxCountersAgree ==
    /\ rx.ambiguous <=> rx.bad_crc_count = BadLimit
    /\ rx.unexpected_count > 0 => rx.replay

\* last_sequence only stays, restarts at reset or moves to its successor, and
\* every acceptance also leaves the replay and ambiguity states.
AdvanceByOne ==
    [][\/ rx'.last_sequence = rx.last_sequence
       \/ /\ rx'.last_sequence \in {NextSeq(rx.last_sequence), MaxSeq}
          /\ ~rx'.replay /\ ~rx'.ambiguous]_rx
=============================================================================
