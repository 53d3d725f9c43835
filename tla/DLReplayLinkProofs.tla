------------------------- MODULE DLReplayLinkProofs -------------------------
(***************************************************************************)
(* Proofs about a link of two ends, in two parts.                          *)
(*                                                                         *)
(* What the ends keep whatever the wires do: any latency, any number and   *)
(* pattern of losses, any codeword grouping.  DLReplaySchedulerProofs is   *)
(* about one end that faces an arbitrary peer; each end of the link is     *)
(* such an end, because the headers that reach it are headers the other    *)
(* end encoded (LinkInv), and inherits what is proved there.               *)
(*                                                                         *)
(* What the link delivers, when the timing of requests suffices            *)
(* (TimingSuffices): each direction is a reliable first-in first-out       *)
(* delivery.  Each direction is seen as a value (ViewToA, ViewToB), every  *)
(* step of the link is what a direction may do, and the last part of       *)
(* DLReplaySchedulerProofs shows that DirectionOK survives it.             *)
(*                                                                         *)
(* AP and BP instantiate the proofs for the two ends.  A!X and AP!X are    *)
(* one definition instantiated twice, from the model and from the proofs;  *)
(* the lemmas "Same..." say so for the operations the link performs.       *)
(***************************************************************************)
EXTENDS DLReplayLink, SequenceTheorems, TLAPS

\* The payloads an end ever names: it offers the number after its last payload
\* too, without having it, and a NOP carries no content.
Numbered == 1 .. (IF OfferA > OfferB THEN OfferA ELSE OfferB) + 1

AP == INSTANCE DLReplaySchedulerProofs
        WITH tx <- txA, rx <- rxA, sched <- schedA, Payloads <- Numbered
BP == INSTANCE DLReplaySchedulerProofs
        WITH tx <- txB, rx <- rxB, sched <- schedB, Payloads <- Numbered

\* Both ends keep their invariant, what they have accepted is what was offered
\* to them, and every header under way is one an encoder has let through.
LinkInv ==
    /\ AP!SchedInv /\ BP!SchedInv
    /\ acceptedA \in 0 .. OfferA /\ acceptedB \in 0 .. OfferB
    /\ wireAB \in Seq(AP!Flit) /\ wireBA \in Seq(AP!Flit)

\* The parameters of the link are parameters of each end.
LEMMA EndParameters ==
    /\ MaxSeq \in Nat \ {0} /\ LowMod \in Nat \ {0} /\ Window \in Nat \ {0}
    /\ 2 * Window < MaxSeq
    /\ Capacity \in Nat \ {0} /\ IgnoreWindow \in Nat
    /\ BadLimit \in Nat \ {0} /\ CountMax \in Nat \ {0}
    /\ ReplayLimits \subseteq 0 .. CountMax
    /\ ExplicitPeriod \in Nat \ {0} /\ RequestCopies \in Nat \ {0}
BY EndAssumption

LEMMA OfferedIsNumbered ==
    ASSUME NEW n \in Nat, n \in 0 .. OfferA \/ n \in 0 .. OfferB
    PROVE  n + 1 \in Numbered
BY LinkAssumption DEF Numbered
-----------------------------------------------------------------------------
(* End A of the model and end A of the proofs. *)

LEMMA SameHeaderA ==
    ASSUME NEW word
    PROVE  /\ A!ReservedOp(word) <=> AP!ReservedOp(word)
           /\ A!IsExplicit(word) <=> AP!IsExplicit(word)
           /\ A!IsCommand(word) <=> AP!IsCommand(word)
           /\ A!ZeroField(word) <=> AP!ZeroField(word)
           /\ A!ValidHeader(word) <=> AP!ValidHeader(word)
BY DEF A!ReservedOp, A!IsExplicit, A!IsCommand, A!ZeroField, A!ValidHeader,
       AP!ReservedOp, AP!IsExplicit, AP!IsCommand, AP!ZeroField, AP!ValidHeader

LEMMA LegalForA == AP!LegalWords = {word \in AP!Words : AP!ValidHeader(word)}
BY DEF AP!LegalWords

LEMMA SameTransmitterA ==
    ASSUME NEW word, NEW crc_ok
    PROVE  A!TxReceive(word, crc_ok) <=> AP!TxReceive(word, crc_ok)
<1>1. /\ \A t : A!Aged(t) = AP!Aged(t)
      /\ \A a, b : A!Dist(a, b) = AP!Dist(a, b)
      /\ \A t, n : A!BufferFrom(t, n) = AP!BufferFrom(t, n)
    BY DEF A!Aged, AP!Aged, A!Dist, AP!Dist, A!BufferFrom, AP!BufferFrom
<1>2. A!UnusableFlit(word, crc_ok) <=> AP!UnusableFlit(word, crc_ok)
    BY SameHeaderA DEF A!UnusableFlit, AP!UnusableFlit
<1>3. /\ A!RequestRefused(txA, word) <=> AP!RequestRefused(txA, word)
      /\ A!AckRefused(txA, word) <=> AP!AckRefused(txA, word)
    BY <1>1 DEF A!RequestRefused, AP!RequestRefused, A!RequestExpected, AP!RequestExpected,
       A!AckRefused, AP!AckRefused, A!AckExpected, AP!AckExpected
<1>4. A!ReceiveNothing(word, crc_ok) <=> AP!ReceiveNothing(word, crc_ok)
    BY <1>1, <1>2, <1>3 DEF A!ReceiveNothing, AP!ReceiveNothing
<1>5. A!ReceiveRequest(word, crc_ok) <=> AP!ReceiveRequest(word, crc_ok)
    BY <1>1, <1>2, <1>3 DEF A!ReceiveRequest, AP!ReceiveRequest
<1>6. A!ReceiveAck(word, crc_ok) <=> AP!ReceiveAck(word, crc_ok)
    BY <1>1, <1>2, <1>3 DEF A!ReceiveAck, AP!ReceiveAck
<1> QED BY <1>4, <1>5, <1>6 DEF A!TxReceive, AP!TxReceive

LEMMA SameCountersA ==
    ASSUME NEW r
    PROVE  /\ A!Discarded(r) = AP!Discarded(r)
           /\ A!CountUnexpected(r) = AP!CountUnexpected(r)
           /\ A!RequestDue(r) <=> AP!RequestDue(r)
BY DEF A!Discarded, A!CountUnexpected, A!CountDiscard, A!RequestDue, A!SaturatingIncr,
       AP!Discarded, AP!CountUnexpected, AP!CountDiscard, AP!RequestDue, AP!SaturatingIncr

LEMMA SameJudgementA ==
    ASSUME NEW word, NEW crc_ok
    PROVE  /\ A!SequenceOf(rxA, word) = AP!SequenceOf(rxA, word)
           /\ A!Trusted(rxA, word) <=> AP!Trusted(rxA, word)
           /\ A!IsDiscard(word, crc_ok) <=> AP!IsDiscard(word, crc_ok)
           /\ A!IsDropped(word, crc_ok) <=> AP!IsDropped(word, crc_ok)
           /\ A!Usable(word, crc_ok) <=> AP!Usable(word, crc_ok)
           /\ A!Accepts(rxA, word, crc_ok) <=> AP!Accepts(rxA, word, crc_ok)
           /\ A!StartsReplay(rxA, word, crc_ok) <=> AP!StartsReplay(rxA, word, crc_ok)
           /\ A!CountsInReplay(rxA, word, crc_ok) <=> AP!CountsInReplay(rxA, word, crc_ok)
<1>1. /\ A!SequenceOf(rxA, word) = AP!SequenceOf(rxA, word)
      /\ A!Expected(rxA, word) = AP!Expected(rxA, word)
      /\ A!Trusted(rxA, word) <=> AP!Trusted(rxA, word)
    BY SameHeaderA DEF A!SequenceOf, A!Reconstructed, A!LowDelta, A!Expected, A!NextSeq,
       A!Trusted, AP!SequenceOf, AP!Reconstructed, AP!LowDelta, AP!Expected, AP!NextSeq,
       AP!Trusted
<1>2. /\ A!IsDiscard(word, crc_ok) <=> AP!IsDiscard(word, crc_ok)
      /\ A!IsDropped(word, crc_ok) <=> AP!IsDropped(word, crc_ok)
      /\ A!Usable(word, crc_ok) <=> AP!Usable(word, crc_ok)
    BY SameHeaderA DEF A!IsDiscard, AP!IsDiscard, A!IsDropped, AP!IsDropped, A!Usable, AP!Usable
<1> QED BY <1>1, <1>2 DEF A!Accepts, AP!Accepts, A!StartsReplay, AP!StartsReplay,
           A!CountsInReplay, AP!CountsInReplay

LEMMA SameReceiveA ==
    ASSUME NEW word, NEW crc_ok
    PROVE  A!Receive(word, crc_ok) <=> AP!Receive(word, crc_ok)
<1>1. A!RxReceive(word, crc_ok) <=> AP!RxReceive(word, crc_ok)
    BY SameCountersA, SameJudgementA DEF A!RxReceive, AP!RxReceive, A!ReceiveDiscard,
       AP!ReceiveDiscard, A!ReceiveAccept, AP!ReceiveAccept, A!ReceiveStartReplay,
       AP!ReceiveStartReplay, A!ReceiveInReplay, AP!ReceiveInReplay, A!ReceiveNoEffect,
       AP!ReceiveNoEffect, A!Fresh, AP!Fresh
<1>2. A!NoteRequests(A!RequestsReplay(rxA, word, crc_ok))
        <=> AP!NoteRequests(AP!RequestsReplay(rxA, word, crc_ok))
    BY SameCountersA, SameJudgementA DEF A!NoteRequests, AP!NoteRequests,
       A!RequestsReplay, AP!RequestsReplay
<1> QED BY <1>1, <1>2, SameTransmitterA DEF A!Receive, AP!Receive

LEMMA SameDiscardA == A!DiscardFlit <=> AP!DiscardFlit
<1>1. A!DiscardIngress <=> AP!DiscardIngress
    BY DEF A!DiscardIngress, AP!DiscardIngress, A!Aged, AP!Aged
<1>2. A!DiscardForBackpressure <=> AP!DiscardForBackpressure
    BY SameCountersA DEF A!DiscardForBackpressure, AP!DiscardForBackpressure
<1> QED BY <1>1, <1>2, SameCountersA DEF A!DiscardFlit, AP!DiscardFlit, A!NoteRequests,
           AP!NoteRequests

LEMMA SameResidentA == A!Resident(txA) = AP!Resident(txA)
BY DEF A!Resident, AP!Resident, A!Entries, AP!Entries, A!Cardinality, AP!Cardinality

LEMMA SameSendA ==
    ASSUME NEW offered, NEW p, NEW newGroup
    PROVE  /\ A!Send(offered, p, newGroup) <=> AP!Send(offered, p, newGroup)
           /\ A!OutgoingWord(offered, p, newGroup) = AP!OutgoingWord(offered, p, newGroup)
           /\ A!CarriedEntry(offered, p) = AP!CarriedEntry(offered, p)
           /\ A!AcceptsOffer(offered) => offered
           /\ A!AcceptsOffer(offered) <=> AP!AcceptsOffer(offered)
           /\ A!HasPayload(offered) <=> AP!HasPayload(offered)
<1>1. /\ A!NextSeq(txA.last_sequence) = AP!NextSeq(txA.last_sequence)
      /\ A!NextSeq(rxA.last_sequence) = AP!NextSeq(rxA.last_sequence)
      /\ A!CanEnqueue(txA) <=> AP!CanEnqueue(txA)
    BY SameResidentA DEF A!NextSeq, AP!NextSeq, A!CanEnqueue, AP!CanEnqueue
<1>2. /\ A!Replaying <=> AP!Replaying
      /\ A!AcceptsOffer(offered) <=> AP!AcceptsOffer(offered)
      /\ A!HasPayload(offered) <=> AP!HasPayload(offered)
      /\ A!ExplicitDue <=> AP!ExplicitDue
      /\ A!RequestDueNow(newGroup) <=> AP!RequestDueNow(newGroup)
    BY <1>1 DEF A!Replaying, AP!Replaying, A!AcceptsOffer, AP!AcceptsOffer, A!HasPayload,
       AP!HasPayload, A!ExplicitDue, AP!ExplicitDue, A!FirstReplay, AP!FirstReplay,
       A!RequestDueNow, AP!RequestDueNow
<1>3. /\ A!Replaying = AP!Replaying
      /\ A!HasPayload(offered) = AP!HasPayload(offered)
    BY <1>2 DEF A!Replaying, AP!Replaying, A!HasPayload, AP!HasPayload
<1>4. /\ A!CarriedEntry(offered, p) = AP!CarriedEntry(offered, p)
      /\ A!RequestTarget = AP!RequestTarget
    BY <1>1, <1>2 DEF A!CarriedEntry, AP!CarriedEntry, A!RequestTarget, AP!RequestTarget
<1>5. A!OutgoingWord(offered, p, newGroup) = AP!OutgoingWord(offered, p, newGroup)
    BY <1>2, <1>4, <1>3 DEF A!OutgoingWord, AP!OutgoingWord, A!EncodeExplicit, AP!EncodeExplicit,
       A!EncodeCommand, AP!EncodeCommand
<1>6. /\ A!NextReplay <=> AP!NextReplay
      /\ A!Enqueue(p) <=> AP!Enqueue(p)
    BY <1>1 DEF A!NextReplay, AP!NextReplay, A!Enqueue, AP!Enqueue, A!NewEntry, AP!NewEntry
<1>7. A!Send(offered, p, newGroup) <=> AP!Send(offered, p, newGroup)
    BY <1>2, <1>4, <1>6 DEF A!Send, AP!Send
<1>8. A!AcceptsOffer(offered) => offered
    BY DEF A!AcceptsOffer
<1> QED BY <1>2, <1>4, <1>5, <1>7, <1>8
-----------------------------------------------------------------------------
(* Every step of the link is a step of end A, or leaves end A alone. *)

LEMMA StartA ==
    ASSUME Init
    PROVE  AP!SchedInit
BY DEF Init, A!SchedInit, AP!SchedInit, A!TxInit, AP!TxInit, A!TxReset, AP!TxReset,
       A!RxInit, AP!RxInit, A!Fresh, AP!Fresh, A!SchedReset, AP!SchedReset

LEMMA ArrivalIsStepA ==
    ASSUME LinkInv, ArriveAtA
    PROVE  /\ [AP!SchedNext]_endA
           /\ wireBA' \in Seq(AP!Flit)
           /\ UNCHANGED <<endB, wireAB, acceptedA, acceptedB>>
<1>0. UNCHANGED <<endB, wireAB, acceptedA, acceptedB>>
    BY DEF ArriveAtA
<1>1. CASE ~Arrived(wireBA)
    BY <1>0, <1>1 DEF ArriveAtA, LinkInv, endA
<1>2. CASE Arrived(wireBA)
    <2>1. wireBA \in Seq(AP!Flit) /\ wireBA # <<>> /\ wireBA' = Tail(wireBA)
        BY <1>2, LinkAssumption, EmptySeq DEF ArriveAtA, LinkInv, Arrived
    <2>2. Head(wireBA) \in AP!Flit /\ wireBA' \in Seq(AP!Flit)
        BY <2>1, HeadTailProperties
    <2>3. PICK word \in AP!Words : word = Head(wireBA).word
        BY <2>2, LegalForA DEF AP!Flit
    <2>4. A!Receive(word, TRUE) \/ A!Receive(word, FALSE) \/ A!DiscardFlit
        BY <1>2, <2>3 DEF ArriveAtA
    <2>5. CASE A!Receive(word, TRUE)
        BY <1>0, <2>2, <2>5, SameReceiveA DEF AP!SchedNext, endA
    <2>6. CASE A!Receive(word, FALSE)
        <3>1. AP!DiscardFlit
            BY <2>6, SameReceiveA, AP!BadFlitIsDiscarded, EndParameters
        <3> QED BY <1>0, <2>2, <3>1 DEF AP!SchedNext, endA
    <2>7. CASE A!DiscardFlit
        BY <1>0, <2>2, <2>7, SameDiscardA DEF AP!SchedNext, endA
    <2> QED BY <2>4, <2>5, <2>6, <2>7
<1> QED BY <1>1, <1>2

LEMMA SendIsStepA ==
    ASSUME LinkInv, SendFromA
    PROVE  /\ [AP!SchedNext]_endA
           /\ wireAB' \in Seq(AP!Flit)
           /\ acceptedA' \in 0 .. OfferA
           /\ UNCHANGED <<endB, wireBA, acceptedB>>
<1> DEFINE offered == acceptedA < OfferA
           p == acceptedA + 1
           word == A!OutgoingWord(offered, p, NewGroup)
           content == IF A!HasPayload(offered) THEN A!CarriedEntry(offered, p).payload
                      ELSE NoContent
<1>1. /\ offered \in BOOLEAN /\ NewGroup \in BOOLEAN
      /\ p \in Numbered
      /\ offered => p \in 0 .. OfferA
    BY OfferedIsNumbered, LinkAssumption DEF LinkInv, NewGroup
<1>2. /\ A!Send(offered, p, NewGroup)
      /\ acceptedA' = IF A!AcceptsOffer(offered) THEN p ELSE acceptedA
      /\ wireAB' = Append(wireAB, [word |-> word, content |-> content])
    BY DEF SendFromA
<1>3. /\ AP!Send(offered, p, NewGroup)
      /\ word = AP!OutgoingWord(offered, p, NewGroup)
      /\ A!CarriedEntry(offered, p) = AP!CarriedEntry(offered, p)
      /\ A!AcceptsOffer(offered) => offered
    <2> HIDE DEF offered, p
    <2> QED BY <1>2, SameSendA
<1>4. AP!SchedInv
    BY DEF LinkInv
<1>5. word \in AP!LegalWords
    <2>1. AP!SendsLegalWord
        BY <1>4, AP!EncodersAccept, EndParameters
    <2> HIDE DEF offered, p
    <2>2. word \in AP!Words /\ AP!ValidHeader(word)
        BY <1>1, <1>3, <2>1 DEF AP!SendsLegalWord
    <2> QED BY <2>2, LegalForA
<1>6. AP!CarriedEntry(offered, p).payload \in Numbered
    <2> HIDE DEF offered, p
    <2> QED BY <1>1, <1>4, AP!CarriedPayload, EndParameters
<1>7. content \in {0} \cup Numbered
    BY <1>3, <1>6 DEF NoContent
<1> HIDE DEF offered, p, word, content
<1>8. [word |-> word, content |-> content] \in AP!Flit
    BY <1>5, <1>7 DEF AP!Flit
<1>9. wireAB' \in Seq(AP!Flit)
    BY <1>2, <1>8, AppendProperties DEF LinkInv
<1>10. acceptedA' \in 0 .. OfferA
    BY <1>1, <1>2, <1>3 DEF LinkInv
<1>11. AP!SchedNext
    BY <1>1, <1>3 DEF AP!SchedNext
<1>12. UNCHANGED <<endB, wireBA, acceptedB>>
    BY DEF SendFromA
<1> QED BY <1>9, <1>10, <1>11, <1>12
-----------------------------------------------------------------------------
(* End B of the model and end B of the proofs. *)

LEMMA SameHeaderB ==
    ASSUME NEW word
    PROVE  /\ B!ReservedOp(word) <=> BP!ReservedOp(word)
           /\ B!IsExplicit(word) <=> BP!IsExplicit(word)
           /\ B!IsCommand(word) <=> BP!IsCommand(word)
           /\ B!ZeroField(word) <=> BP!ZeroField(word)
           /\ B!ValidHeader(word) <=> BP!ValidHeader(word)
BY DEF B!ReservedOp, B!IsExplicit, B!IsCommand, B!ZeroField, B!ValidHeader,
       BP!ReservedOp, BP!IsExplicit, BP!IsCommand, BP!ZeroField, BP!ValidHeader

LEMMA LegalForB == AP!LegalWords = {word \in BP!Words : BP!ValidHeader(word)}
BY DEF AP!LegalWords, AP!Words, AP!ValidHeader, AP!ReservedOp, AP!ZeroField, AP!IsExplicit,
       AP!IsCommand, BP!Words, BP!ValidHeader, BP!ReservedOp, BP!ZeroField, BP!IsExplicit,
       BP!IsCommand

LEMMA SameTransmitterB ==
    ASSUME NEW word, NEW crc_ok
    PROVE  B!TxReceive(word, crc_ok) <=> BP!TxReceive(word, crc_ok)
<1>1. /\ \A t : B!Aged(t) = BP!Aged(t)
      /\ \A a, b : B!Dist(a, b) = BP!Dist(a, b)
      /\ \A t, n : B!BufferFrom(t, n) = BP!BufferFrom(t, n)
    BY DEF B!Aged, BP!Aged, B!Dist, BP!Dist, B!BufferFrom, BP!BufferFrom
<1>2. B!UnusableFlit(word, crc_ok) <=> BP!UnusableFlit(word, crc_ok)
    BY SameHeaderB DEF B!UnusableFlit, BP!UnusableFlit
<1>3. /\ B!RequestRefused(txB, word) <=> BP!RequestRefused(txB, word)
      /\ B!AckRefused(txB, word) <=> BP!AckRefused(txB, word)
    BY <1>1 DEF B!RequestRefused, BP!RequestRefused, B!RequestExpected, BP!RequestExpected,
       B!AckRefused, BP!AckRefused, B!AckExpected, BP!AckExpected
<1>4. B!ReceiveNothing(word, crc_ok) <=> BP!ReceiveNothing(word, crc_ok)
    BY <1>1, <1>2, <1>3 DEF B!ReceiveNothing, BP!ReceiveNothing
<1>5. B!ReceiveRequest(word, crc_ok) <=> BP!ReceiveRequest(word, crc_ok)
    BY <1>1, <1>2, <1>3 DEF B!ReceiveRequest, BP!ReceiveRequest
<1>6. B!ReceiveAck(word, crc_ok) <=> BP!ReceiveAck(word, crc_ok)
    BY <1>1, <1>2, <1>3 DEF B!ReceiveAck, BP!ReceiveAck
<1> QED BY <1>4, <1>5, <1>6 DEF B!TxReceive, BP!TxReceive

LEMMA SameCountersB ==
    ASSUME NEW r
    PROVE  /\ B!Discarded(r) = BP!Discarded(r)
           /\ B!CountUnexpected(r) = BP!CountUnexpected(r)
           /\ B!RequestDue(r) <=> BP!RequestDue(r)
BY DEF B!Discarded, B!CountUnexpected, B!CountDiscard, B!RequestDue, B!SaturatingIncr,
       BP!Discarded, BP!CountUnexpected, BP!CountDiscard, BP!RequestDue, BP!SaturatingIncr

LEMMA SameJudgementB ==
    ASSUME NEW word, NEW crc_ok
    PROVE  /\ B!SequenceOf(rxB, word) = BP!SequenceOf(rxB, word)
           /\ B!Trusted(rxB, word) <=> BP!Trusted(rxB, word)
           /\ B!IsDiscard(word, crc_ok) <=> BP!IsDiscard(word, crc_ok)
           /\ B!IsDropped(word, crc_ok) <=> BP!IsDropped(word, crc_ok)
           /\ B!Usable(word, crc_ok) <=> BP!Usable(word, crc_ok)
           /\ B!Accepts(rxB, word, crc_ok) <=> BP!Accepts(rxB, word, crc_ok)
           /\ B!StartsReplay(rxB, word, crc_ok) <=> BP!StartsReplay(rxB, word, crc_ok)
           /\ B!CountsInReplay(rxB, word, crc_ok) <=> BP!CountsInReplay(rxB, word, crc_ok)
<1>1. /\ B!SequenceOf(rxB, word) = BP!SequenceOf(rxB, word)
      /\ B!Expected(rxB, word) = BP!Expected(rxB, word)
      /\ B!Trusted(rxB, word) <=> BP!Trusted(rxB, word)
    BY SameHeaderB DEF B!SequenceOf, B!Reconstructed, B!LowDelta, B!Expected, B!NextSeq,
       B!Trusted, BP!SequenceOf, BP!Reconstructed, BP!LowDelta, BP!Expected, BP!NextSeq,
       BP!Trusted
<1>2. /\ B!IsDiscard(word, crc_ok) <=> BP!IsDiscard(word, crc_ok)
      /\ B!IsDropped(word, crc_ok) <=> BP!IsDropped(word, crc_ok)
      /\ B!Usable(word, crc_ok) <=> BP!Usable(word, crc_ok)
    BY SameHeaderB DEF B!IsDiscard, BP!IsDiscard, B!IsDropped, BP!IsDropped, B!Usable, BP!Usable
<1> QED BY <1>1, <1>2 DEF B!Accepts, BP!Accepts, B!StartsReplay, BP!StartsReplay,
           B!CountsInReplay, BP!CountsInReplay

LEMMA SameReceiveB ==
    ASSUME NEW word, NEW crc_ok
    PROVE  B!Receive(word, crc_ok) <=> BP!Receive(word, crc_ok)
<1>1. B!RxReceive(word, crc_ok) <=> BP!RxReceive(word, crc_ok)
    BY SameCountersB, SameJudgementB DEF B!RxReceive, BP!RxReceive, B!ReceiveDiscard,
       BP!ReceiveDiscard, B!ReceiveAccept, BP!ReceiveAccept, B!ReceiveStartReplay,
       BP!ReceiveStartReplay, B!ReceiveInReplay, BP!ReceiveInReplay, B!ReceiveNoEffect,
       BP!ReceiveNoEffect, B!Fresh, BP!Fresh
<1>2. B!NoteRequests(B!RequestsReplay(rxB, word, crc_ok))
        <=> BP!NoteRequests(BP!RequestsReplay(rxB, word, crc_ok))
    BY SameCountersB, SameJudgementB DEF B!NoteRequests, BP!NoteRequests,
       B!RequestsReplay, BP!RequestsReplay
<1> QED BY <1>1, <1>2, SameTransmitterB DEF B!Receive, BP!Receive

LEMMA SameDiscardB == B!DiscardFlit <=> BP!DiscardFlit
<1>1. B!DiscardIngress <=> BP!DiscardIngress
    BY DEF B!DiscardIngress, BP!DiscardIngress, B!Aged, BP!Aged
<1>2. B!DiscardForBackpressure <=> BP!DiscardForBackpressure
    BY SameCountersB DEF B!DiscardForBackpressure, BP!DiscardForBackpressure
<1> QED BY <1>1, <1>2, SameCountersB DEF B!DiscardFlit, BP!DiscardFlit, B!NoteRequests,
           BP!NoteRequests

LEMMA SameResidentB == B!Resident(txB) = BP!Resident(txB)
BY DEF B!Resident, BP!Resident, B!Entries, BP!Entries, B!Cardinality, BP!Cardinality

LEMMA SameSendB ==
    ASSUME NEW offered, NEW p, NEW newGroup
    PROVE  /\ B!Send(offered, p, newGroup) <=> BP!Send(offered, p, newGroup)
           /\ B!OutgoingWord(offered, p, newGroup) = BP!OutgoingWord(offered, p, newGroup)
           /\ B!CarriedEntry(offered, p) = BP!CarriedEntry(offered, p)
           /\ B!AcceptsOffer(offered) => offered
           /\ B!AcceptsOffer(offered) <=> BP!AcceptsOffer(offered)
           /\ B!HasPayload(offered) <=> BP!HasPayload(offered)
<1>1. /\ B!NextSeq(txB.last_sequence) = BP!NextSeq(txB.last_sequence)
      /\ B!NextSeq(rxB.last_sequence) = BP!NextSeq(rxB.last_sequence)
      /\ B!CanEnqueue(txB) <=> BP!CanEnqueue(txB)
    BY SameResidentB DEF B!NextSeq, BP!NextSeq, B!CanEnqueue, BP!CanEnqueue
<1>2. /\ B!Replaying <=> BP!Replaying
      /\ B!AcceptsOffer(offered) <=> BP!AcceptsOffer(offered)
      /\ B!HasPayload(offered) <=> BP!HasPayload(offered)
      /\ B!ExplicitDue <=> BP!ExplicitDue
      /\ B!RequestDueNow(newGroup) <=> BP!RequestDueNow(newGroup)
    BY <1>1 DEF B!Replaying, BP!Replaying, B!AcceptsOffer, BP!AcceptsOffer, B!HasPayload,
       BP!HasPayload, B!ExplicitDue, BP!ExplicitDue, B!FirstReplay, BP!FirstReplay,
       B!RequestDueNow, BP!RequestDueNow
<1>3. /\ B!Replaying = BP!Replaying
      /\ B!HasPayload(offered) = BP!HasPayload(offered)
    BY <1>2 DEF B!Replaying, BP!Replaying, B!HasPayload, BP!HasPayload
<1>4. /\ B!CarriedEntry(offered, p) = BP!CarriedEntry(offered, p)
      /\ B!RequestTarget = BP!RequestTarget
    BY <1>1, <1>2 DEF B!CarriedEntry, BP!CarriedEntry, B!RequestTarget, BP!RequestTarget
<1>5. B!OutgoingWord(offered, p, newGroup) = BP!OutgoingWord(offered, p, newGroup)
    BY <1>2, <1>4, <1>3 DEF B!OutgoingWord, BP!OutgoingWord, B!EncodeExplicit, BP!EncodeExplicit,
       B!EncodeCommand, BP!EncodeCommand
<1>6. /\ B!NextReplay <=> BP!NextReplay
      /\ B!Enqueue(p) <=> BP!Enqueue(p)
    BY <1>1 DEF B!NextReplay, BP!NextReplay, B!Enqueue, BP!Enqueue, B!NewEntry, BP!NewEntry
<1>7. B!Send(offered, p, newGroup) <=> BP!Send(offered, p, newGroup)
    BY <1>2, <1>4, <1>6 DEF B!Send, BP!Send
<1>8. B!AcceptsOffer(offered) => offered
    BY DEF B!AcceptsOffer
<1> QED BY <1>2, <1>4, <1>5, <1>7, <1>8
-----------------------------------------------------------------------------
(* Every step of the link is a step of end B, or leaves end B alone. *)

LEMMA StartB ==
    ASSUME Init
    PROVE  BP!SchedInit
BY DEF Init, B!SchedInit, BP!SchedInit, B!TxInit, BP!TxInit, B!TxReset, BP!TxReset,
       B!RxInit, BP!RxInit, B!Fresh, BP!Fresh, B!SchedReset, BP!SchedReset

LEMMA ArrivalIsStepB ==
    ASSUME LinkInv, ArriveAtB
    PROVE  /\ [BP!SchedNext]_endB
           /\ wireAB' \in Seq(AP!Flit)
           /\ UNCHANGED <<endA, wireBA, acceptedB, acceptedA>>
<1>0. UNCHANGED <<endA, wireBA, acceptedB, acceptedA>>
    BY DEF ArriveAtB
<1>1. CASE ~Arrived(wireAB)
    BY <1>0, <1>1 DEF ArriveAtB, LinkInv, endB
<1>2. CASE Arrived(wireAB)
    <2>1. wireAB \in Seq(AP!Flit) /\ wireAB # <<>> /\ wireAB' = Tail(wireAB)
        BY <1>2, LinkAssumption, EmptySeq DEF ArriveAtB, LinkInv, Arrived
    <2>2. Head(wireAB) \in AP!Flit /\ wireAB' \in Seq(AP!Flit)
        BY <2>1, HeadTailProperties
    <2>3. PICK word \in BP!Words : word = Head(wireAB).word
        BY <2>2, LegalForB DEF AP!Flit
    <2>4. B!Receive(word, TRUE) \/ B!Receive(word, FALSE) \/ B!DiscardFlit
        BY <1>2, <2>3 DEF ArriveAtB
    <2>5. CASE B!Receive(word, TRUE)
        BY <1>0, <2>2, <2>5, SameReceiveB DEF BP!SchedNext, endB
    <2>6. CASE B!Receive(word, FALSE)
        <3>1. BP!DiscardFlit
            BY <2>6, SameReceiveB, BP!BadFlitIsDiscarded, EndParameters
        <3> QED BY <1>0, <2>2, <3>1 DEF BP!SchedNext, endB
    <2>7. CASE B!DiscardFlit
        BY <1>0, <2>2, <2>7, SameDiscardB DEF BP!SchedNext, endB
    <2> QED BY <2>4, <2>5, <2>6, <2>7
<1> QED BY <1>1, <1>2

LEMMA SendIsStepB ==
    ASSUME LinkInv, SendFromB
    PROVE  /\ [BP!SchedNext]_endB
           /\ wireBA' \in Seq(AP!Flit)
           /\ acceptedB' \in 0 .. OfferB
           /\ UNCHANGED <<endA, wireAB, acceptedA>>
<1> DEFINE offered == acceptedB < OfferB
           p == acceptedB + 1
           word == B!OutgoingWord(offered, p, NewGroup)
           content == IF B!HasPayload(offered) THEN B!CarriedEntry(offered, p).payload
                      ELSE NoContent
<1>1. /\ offered \in BOOLEAN /\ NewGroup \in BOOLEAN
      /\ p \in Numbered
      /\ offered => p \in 0 .. OfferB
    BY OfferedIsNumbered, LinkAssumption DEF LinkInv, NewGroup
<1>2. /\ B!Send(offered, p, NewGroup)
      /\ acceptedB' = IF B!AcceptsOffer(offered) THEN p ELSE acceptedB
      /\ wireBA' = Append(wireBA, [word |-> word, content |-> content])
    BY DEF SendFromB
<1>3. /\ BP!Send(offered, p, NewGroup)
      /\ word = BP!OutgoingWord(offered, p, NewGroup)
      /\ B!CarriedEntry(offered, p) = BP!CarriedEntry(offered, p)
      /\ B!AcceptsOffer(offered) => offered
    <2> HIDE DEF offered, p
    <2> QED BY <1>2, SameSendB
<1>4. BP!SchedInv
    BY DEF LinkInv
<1>5. word \in AP!LegalWords
    <2>1. BP!SendsLegalWord
        BY <1>4, BP!EncodersAccept, EndParameters
    <2> HIDE DEF offered, p
    <2>2. word \in BP!Words /\ BP!ValidHeader(word)
        BY <1>1, <1>3, <2>1 DEF BP!SendsLegalWord
    <2> QED BY <2>2, LegalForB
<1>6. BP!CarriedEntry(offered, p).payload \in Numbered
    <2> HIDE DEF offered, p
    <2> QED BY <1>1, <1>4, BP!CarriedPayload, EndParameters
<1>7. content \in {0} \cup Numbered
    BY <1>3, <1>6 DEF NoContent
<1> HIDE DEF offered, p, word, content
<1>8. [word |-> word, content |-> content] \in AP!Flit
    BY <1>5, <1>7 DEF AP!Flit
<1>9. wireBA' \in Seq(AP!Flit)
    BY <1>2, <1>8, AppendProperties DEF LinkInv
<1>10. acceptedB' \in 0 .. OfferB
    BY <1>1, <1>2, <1>3 DEF LinkInv
<1>11. BP!SchedNext
    BY <1>1, <1>3 DEF BP!SchedNext
<1>12. UNCHANGED <<endA, wireAB, acceptedA>>
    BY DEF SendFromB
<1> QED BY <1>9, <1>10, <1>11, <1>12
-----------------------------------------------------------------------------
(* The link. *)

LEMMA StepIsStepOfEnds ==
    ASSUME LinkInv, [Next]_vars
    PROVE  [AP!SchedNext]_endA /\ [BP!SchedNext]_endB
<1>1. CASE ArriveAtA
    BY <1>1, ArrivalIsStepA
<1>2. CASE ArriveAtB
    BY <1>2, ArrivalIsStepB
<1>3. CASE SendFromA
    BY <1>3, SendIsStepA
<1>4. CASE SendFromB
    BY <1>4, SendIsStepB
<1>5. CASE UNCHANGED vars
    BY <1>5 DEF vars
<1> QED BY <1>1, <1>2, <1>3, <1>4, <1>5 DEF Next

LEMMA EndsKeepInv ==
    ASSUME LinkInv, [Next]_vars
    PROVE  AP!SchedInv' /\ BP!SchedInv'
<1>1. AP!SchedInv /\ BP!SchedInv
    BY DEF LinkInv
<1>2. [AP!SchedNext]_endA /\ [BP!SchedNext]_endB
    BY StepIsStepOfEnds
<1>3. [AP!SchedNext]_<<txA, rxA, schedA>> /\ [BP!SchedNext]_<<txB, rxB, schedB>>
    BY <1>2 DEF endA, endB
<1>4. AP!SchedInv'
    BY <1>1, <1>3, AP!SchedStepKeepsInv, EndParameters
<1>5. BP!SchedInv'
    BY <1>1, <1>3, BP!SchedStepKeepsInv, EndParameters
<1> QED BY <1>4, <1>5

LEMMA LinkStep ==
    ASSUME LinkInv, [Next]_vars
    PROVE  LinkInv'
<1>1. AP!SchedInv' /\ BP!SchedInv'
    BY EndsKeepInv
<1>2. /\ acceptedA \in 0 .. OfferA /\ acceptedB \in 0 .. OfferB
      /\ wireAB \in Seq(AP!Flit) /\ wireBA \in Seq(AP!Flit)
    BY DEF LinkInv
<1>3. /\ acceptedA' \in 0 .. OfferA /\ acceptedB' \in 0 .. OfferB
      /\ wireAB' \in Seq(AP!Flit) /\ wireBA' \in Seq(AP!Flit)
    <2>1. CASE ArriveAtA
        BY <1>2, <2>1, ArrivalIsStepA
    <2>2. CASE ArriveAtB
        BY <1>2, <2>2, ArrivalIsStepB
    <2>3. CASE SendFromA
        BY <1>2, <2>3, SendIsStepA
    <2>4. CASE SendFromB
        BY <1>2, <2>4, SendIsStepB
    <2>5. CASE UNCHANGED vars
        BY <1>2, <2>5 DEF vars
    <2> QED BY <2>1, <2>2, <2>3, <2>4, <2>5 DEF Next
<1> QED BY <1>1, <1>3 DEF LinkInv

LEMMA LinkStart ==
    ASSUME Init
    PROVE  LinkInv
<1>1. AP!SchedInv
    BY StartA, AP!SchedInitInv, EndParameters
<1>2. BP!SchedInv
    BY StartB, BP!SchedInitInv, EndParameters
<1>3. /\ acceptedA \in 0 .. OfferA /\ acceptedB \in 0 .. OfferB
      /\ wireAB \in Seq(AP!Flit) /\ wireBA \in Seq(AP!Flit)
    BY LinkAssumption, EmptySeq DEF Init
<1> QED BY <1>1, <1>2, <1>3 DEF LinkInv

\* Both ends keep the scheduler's invariant, and every header under way is one
\* that an encoder has let through, whatever is lost.
THEOREM LinkInvariant == Spec => []LinkInv
BY LinkStart, LinkStep, PTL DEF Spec

\* The link drives each end only through the operations of DLReplayScheduler:
\* an end of the link is an end that faces an arbitrary peer.
THEOREM EndsAreSchedulers == Spec => AP!SchedSpec /\ BP!SchedSpec
<1>1. Init => AP!SchedInit /\ BP!SchedInit
    BY StartA, StartB
<1>2. LinkInv /\ [Next]_vars =>
        [AP!SchedNext]_<<txA, rxA, schedA>> /\ [BP!SchedNext]_<<txB, rxB, schedB>>
    BY StepIsStepOfEnds DEF endA, endB
<1> QED BY <1>1, <1>2, LinkInvariant, PTL DEF Spec, AP!SchedSpec, BP!SchedSpec

\* Neither end stores more payloads than its capacity (dl_replay_transmitter.py:75-83),
\* counting those the peer has acknowledged while a replay still has to send them.
THEOREM LinkStorageBounded == Spec => []StorageBounded
<1>1. AP!SchedSpec => []AP!CapacityRespected
    BY AP!SchedulerStorageBounded, EndParameters
<1>2. BP!SchedSpec => []BP!CapacityRespected
    BY BP!SchedulerStorageBounded, EndParameters
<1>3. AP!CapacityRespected /\ BP!CapacityRespected => StorageBounded
    BY SameResidentA, SameResidentB DEF StorageBounded, A!CapacityRespected,
       AP!CapacityRespected, B!CapacityRespected, BP!CapacityRespected
<1> QED BY <1>1, <1>2, <1>3, EndsAreSchedulers, PTL
-----------------------------------------------------------------------------
(* The two directions of the link. *)

\* The end has consumed the flit of this slot; where it sends next in the group.
HeardA == phase \in {"receiveB", "sendA"}
HeardB == phase \in {"sendA", "sendB"}
PosA == IF phase = "sendB" THEN (groupPos + 1) % GroupSpan ELSE groupPos
PosB == groupPos

Clock == phase \in {"receiveA", "receiveB", "sendA", "sendB"} /\ groupPos \in 0 .. (GroupSpan - 1)

Wires ==
    /\ Len(wireAB) <= IF phase = "sendA" THEN Delay - 1 ELSE Delay
    /\ Len(wireBA) <= IF phase = "receiveA" THEN Delay ELSE Delay - 1

\* An end, and what has been delivered there.
NumberedA ==
    /\ AP!NumberedTx(txA, acceptedA) /\ AP!FirstReplayIsFresh(txA)
    /\ txA.first_replay => HeardA
NumberedB ==
    /\ BP!NumberedTx(txB, acceptedB) /\ BP!FirstReplayIsFresh(txB)
    /\ txB.first_replay => HeardB

DeliveredInOrderA ==
    deliveredA \in Seq(Nat) /\ \A i \in 1 .. Len(deliveredA) : deliveredA[i] = i
DeliveredInOrderB ==
    deliveredB \in Seq(Nat) /\ \A i \in 1 .. Len(deliveredB) : deliveredB[i] = i

SendsA == AP!SendsLeft(txA, schedA, HeardA, PosA, GroupSpan)
SendsB == BP!SendsLeft(txB, schedB, HeardB, PosB, GroupSpan)

\* What end A sends to end B, and the other way round.
ViewToB ==
    [n |-> acceptedA, released |-> acceptedA - Len(txA.buffer), left |-> Len(txA.scheduled),
     first |-> txA.first_replay, ignore |-> txA.ignore_count,
     d |-> Len(deliveredB), rx |-> rxB, pend |-> schedB.replay_requests,
     target |-> schedB.request_sequence, sends |-> SendsB,
     late |-> IF HeardB THEN 0 ELSE 1, out |-> wireAB, back |-> wireBA]
ViewToA ==
    [n |-> acceptedB, released |-> acceptedB - Len(txB.buffer), left |-> Len(txB.scheduled),
     first |-> txB.first_replay, ignore |-> txB.ignore_count,
     d |-> Len(deliveredA), rx |-> rxA, pend |-> schedA.replay_requests,
     target |-> schedA.request_sequence, sends |-> SendsA,
     late |-> IF HeardA THEN 0 ELSE 1, out |-> wireBA, back |-> wireAB]

\* Besides LinkInv, what makes the views well typed.
Framed == Clock /\ Wires /\ NumberedA /\ NumberedB
          /\ deliveredA \in Seq(Nat) /\ deliveredB \in Seq(Nat)

LEMMA SpansA == AP!SpanOf(GroupSpan) = AP!Span /\ AP!EpisodeOf(GroupSpan) = AP!Episode
BY DEF AP!Span, AP!Episode

\* The theory of one direction is the same in both instances.
LEMMA SameTheoryB ==
    /\ BP!RxState = AP!RxState /\ BP!SpanOf(GroupSpan) = AP!Span /\ BP!EpisodeOf(GroupSpan) = AP!Episode
    /\ BP!LowBitsSuffice <=> AP!LowBitsSuffice
    /\ \A k : BP!Number(k) = AP!Number(k) /\ BP!NextSeq(k) = AP!NextSeq(k)
    /\ \A word : BP!Step(word) = AP!Step(word) /\ (BP!IsExplicit(word) <=> AP!IsExplicit(word))
    /\ \A word, k : BP!Labelled(word, k) <=> AP!Labelled(word, k)
    /\ \A r, word : BP!Trusted(r, word) <=> AP!Trusted(r, word)
    /\ \A r, word, k, d : BP!Near(r, word, k, d) <=> AP!Near(r, word, k, d)
    /\ \A r, r1, asks : BP!Unheard(r, r1, asks) <=> AP!Unheard(r, r1, asks)
    /\ \A r, r1, asks, k : BP!Taken(r, r1, asks, k) <=> AP!Taken(r, r1, asks, k)
    /\ \A r, r1, asks, t : BP!LeftOut(r, r1, asks, t) <=> AP!LeftOut(r, r1, asks, t)
<1>1. /\ BP!RxState = AP!RxState
      /\ BP!SpanOf(GroupSpan) = AP!Span /\ BP!EpisodeOf(GroupSpan) = AP!Episode
    BY DEF BP!RxState, AP!RxState, BP!SeqNum, AP!SeqNum, AP!Span, AP!Episode, BP!SpanOf, AP!SpanOf,
       BP!EpisodeOf, AP!EpisodeOf, BP!CopyCost, AP!CopyCost
<1>2. BP!LowBitsSuffice <=> AP!LowBitsSuffice
    BY DEF BP!LowBitsSuffice, AP!LowBitsSuffice
<1>3. \A k : BP!Number(k) = AP!Number(k) /\ BP!NextSeq(k) = AP!NextSeq(k)
    BY DEF BP!Number, AP!Number, BP!NextSeq, AP!NextSeq
<1>4. \A word : BP!Step(word) = AP!Step(word) /\ (BP!IsExplicit(word) <=> AP!IsExplicit(word))
                /\ (BP!IsCommand(word) <=> AP!IsCommand(word))
    BY DEF BP!Step, AP!Step, BP!IsExplicit, AP!IsExplicit, BP!IsCommand, AP!IsCommand
<1>5. \A word, k : BP!Labelled(word, k) <=> AP!Labelled(word, k)
    BY <1>3, <1>4 DEF BP!Labelled, AP!Labelled
<1>6. \A r, word : BP!Trusted(r, word) <=> AP!Trusted(r, word)
    BY <1>4 DEF BP!Trusted, AP!Trusted
<1>7. \A r, word, k, d : BP!Near(r, word, k, d) <=> AP!Near(r, word, k, d)
    BY <1>4, <1>6 DEF BP!Near, AP!Near
<1>8. \A r, r1, asks : BP!Unheard(r, r1, asks) <=> AP!Unheard(r, r1, asks)
    BY DEF BP!Unheard, AP!Unheard, BP!Counts, AP!Counts
<1>9. \A r, r1, asks, k : BP!Taken(r, r1, asks, k) <=> AP!Taken(r, r1, asks, k)
    BY <1>3 DEF BP!Taken, AP!Taken
<1>10. \A r, r1, asks, t : BP!LeftOut(r, r1, asks, t) <=> AP!LeftOut(r, r1, asks, t)
    BY DEF BP!LeftOut, AP!LeftOut, BP!Counts, AP!Counts
<1> QED BY <1>1, <1>2, <1>3, <1>4, <1>5, <1>6, <1>7, <1>8, <1>9, <1>10

\* A flit that arrives leaves room on its wire; one is sent per slot.
LEMMA WiresStep ==
    ASSUME LinkInv, Clock, Wires, Next
    PROVE  Wires'
<1>1. /\ wireAB \in Seq(AP!Flit) /\ wireBA \in Seq(AP!Flit) /\ Len(wireAB) \in Nat /\ Len(wireBA) \in Nat
      /\ Delay \in Nat \ {0}
    BY LinkAssumption DEF LinkInv
<1>2. \A q \in Seq(AP!Flit) : /\ q # <<>> => Len(Tail(q)) = Len(q) - 1
                           /\ Len(q) = Delay => q # <<>>
    BY <1>1, HeadTailProperties, EmptySeq
<1>3. \A q \in Seq(AP!Flit), f \in AP!Flit : Len(Append(q, f)) = Len(q) + 1
    BY AppendProperties
<1>4. CASE ArriveAtA
    <2>1. \/ Len(wireBA) = Delay /\ wireBA' = Tail(wireBA)
          \/ Len(wireBA) # Delay /\ wireBA' = wireBA
        BY <1>4 DEF ArriveAtA, Arrived
    <2>2. Len(wireBA') = IF Len(wireBA) = Delay THEN Delay - 1 ELSE Len(wireBA)
        BY <1>1, <1>2, <2>1
    <2>3. wireAB' = wireAB
        BY <1>4 DEF ArriveAtA
    <2>4. Len(wireBA) <= Delay
        BY <1>1 DEF Wires
    <2> QED BY <1>1, <1>4, <2>2, <2>3, <2>4 DEF ArriveAtA, Wires
<1>5. CASE ArriveAtB
    <2>1. \/ Len(wireAB) = Delay /\ wireAB' = Tail(wireAB)
          \/ Len(wireAB) # Delay /\ wireAB' = wireAB
        BY <1>5 DEF ArriveAtB, Arrived
    <2>2. Len(wireAB') = IF Len(wireAB) = Delay THEN Delay - 1 ELSE Len(wireAB)
        BY <1>1, <1>2, <2>1
    <2>3. wireBA' = wireBA
        BY <1>5 DEF ArriveAtB
    <2>4. Len(wireAB) <= Delay
        BY <1>1 DEF Wires
    <2> QED BY <1>1, <1>5, <2>2, <2>3, <2>4 DEF ArriveAtB, Wires
<1>6. CASE SendFromA
    <2>1. PICK f : wireAB' = Append(wireAB, f)
        BY <1>6 DEF SendFromA
    <2>2. Len(wireAB') = Len(wireAB) + 1
        BY <1>1, <2>1
    <2> QED BY <1>1, <1>6, <2>2 DEF SendFromA, Wires
<1>7. CASE SendFromB
    <2>1. PICK f : wireBA' = Append(wireBA, f)
        BY <1>7 DEF SendFromB
    <2>2. Len(wireBA') = Len(wireBA) + 1
        BY <1>1, <2>1
    <2> QED BY <1>1, <1>7, <2>2 DEF SendFromB, Wires
<1> QED BY <1>4, <1>5, <1>6, <1>7 DEF Next

LEMMA ClockArriveA ==
    ASSUME Clock, ArriveAtA
    PROVE  Clock' /\ ~HeardA /\ HeardA' /\ PosA' = PosA /\ (HeardB' <=> HeardB) /\ PosB' = PosB
BY DEF Clock, ArriveAtA, HeardA, HeardB, PosA, PosB

LEMMA ClockArriveB ==
    ASSUME Clock, ArriveAtB
    PROVE  Clock' /\ ~HeardB /\ HeardB' /\ PosB' = PosB /\ (HeardA' <=> HeardA) /\ PosA' = PosA
BY DEF Clock, ArriveAtB, HeardA, HeardB, PosA, PosB

LEMMA NextPos ==
    ASSUME Clock
    PROVE  /\ (groupPos + 1) % GroupSpan = IF groupPos + 1 = GroupSpan THEN 0 ELSE groupPos + 1
           /\ (groupPos + 1) % GroupSpan \in 0 .. (GroupSpan - 1)
<1>1. groupPos \in 0 .. (GroupSpan - 1) /\ GroupSpan \in Nat \ {0} /\ groupPos + 1 \in Int
    BY LinkAssumption DEF Clock
<1> DEFINE a == groupPos + 1
           m == GroupSpan
<1>2. /\ a \in 0 .. (m - 1) => a % m = a
      /\ a - m \in 0 .. (m - 1) => a % m = a - m
    <2> HIDE DEF a, m
    <2>1. a \in Int /\ m \in Nat \ {0}
        BY <1>1 DEF a, m
    <2> QED BY <2>1, EndParameters, AP!ModNear
<1> QED BY <1>1, <1>2

LEMMA ClockSendA ==
    ASSUME Clock, SendFromA
    PROVE  /\ Clock' /\ HeardA /\ ~HeardA' /\ PosA = groupPos
           /\ PosA' = IF PosA + 1 = GroupSpan THEN 0 ELSE PosA + 1
           /\ (HeardB' <=> HeardB) /\ PosB' = PosB
<1>1. phase = "sendA" /\ phase' = "sendB" /\ groupPos' = groupPos
    BY DEF SendFromA
<1> QED BY <1>1, NextPos DEF Clock, HeardA, HeardB, PosA, PosB, NewGroup

LEMMA ClockSendB ==
    ASSUME Clock, SendFromB
    PROVE  /\ Clock' /\ HeardB /\ ~HeardB' /\ PosB = groupPos
           /\ PosB' = IF PosB + 1 = GroupSpan THEN 0 ELSE PosB + 1
           /\ (HeardA' <=> HeardA) /\ PosA' = PosA
<1>1. phase = "sendB" /\ phase' = "receiveA" /\ groupPos' = (groupPos + 1) % GroupSpan
    BY DEF SendFromB
<1> QED BY <1>1, NextPos DEF Clock, HeardA, HeardB, PosA, PosB, NewGroup

LEMMA PosRange ==
    ASSUME Clock
    PROVE  /\ PosA \in 0 .. (GroupSpan - 1) /\ PosB \in 0 .. (GroupSpan - 1)
           /\ HeardA \in BOOLEAN /\ HeardB \in BOOLEAN /\ GroupSpan \in Nat \ {0}
BY NextPos, LinkAssumption DEF Clock, PosA, PosB, HeardA, HeardB

LEMMA EndFieldsB ==
    ASSUME LinkInv, NumberedB
    PROVE  /\ BP!SchedInv /\ BP!IInv /\ BP!RxInv
           /\ acceptedB \in Nat /\ Len(txB.buffer) \in Nat /\ Len(txB.scheduled) \in Nat
           /\ Len(txB.buffer) <= acceptedB /\ Len(txB.scheduled) <= acceptedB
           /\ Len(txB.buffer) <= Window
           /\ acceptedB - Len(txB.buffer) \in Nat
           /\ txB.first_replay \in BOOLEAN /\ txB.ignore_count \in Nat
           /\ rxB \in AP!RxState
           /\ rxB.ambiguous <=> rxB.bad_crc_count = BadLimit
           /\ schedB \in BP!SchedState
           /\ schedB.replay_requests \in 0 .. RequestCopies
           /\ schedB.request_sequence \in 0 .. MaxSeq
           /\ BP!NumberedTx(txB, acceptedB)
<1>1. BP!SchedInv /\ BP!IInv /\ BP!RxInv /\ schedB \in BP!SchedState
    BY DEF LinkInv, BP!SchedInv
<1>2. acceptedB \in Nat
    BY LinkAssumption DEF LinkInv
<1>3. BP!NumberedTx(txB, acceptedB)
    BY DEF NumberedB
<1>4. Len(txB.buffer) <= acceptedB /\ Len(txB.scheduled) <= acceptedB
    BY <1>3 DEF BP!NumberedTx
<1>5. /\ txB.ignore_count \in 0 .. IgnoreWindow /\ IgnoreWindow \in Nat
      /\ Len(txB.buffer) \in Nat /\ Len(txB.scheduled) \in Nat /\ Len(txB.buffer) <= Window
      /\ txB.first_replay \in BOOLEAN
    BY <1>1, EndParameters, BP!TxFields
<1>6. rxB \in AP!RxState
    BY <1>1, SameTheoryB DEF BP!RxInv, BP!RxTypeOK
<1>7. rxB.ambiguous <=> rxB.bad_crc_count = BadLimit
    BY <1>1 DEF BP!RxInv, BP!RxCountersAgree
<1>8. schedB.replay_requests \in 0 .. RequestCopies /\ schedB.request_sequence \in 0 .. MaxSeq
    BY <1>1 DEF BP!SchedState
<1>9. txB.ignore_count \in Nat
    BY <1>5
<1> QED BY <1>1, <1>2, <1>3, <1>4, <1>5, <1>6, <1>7, <1>8, <1>9

LEMMA EndFieldsA ==
    ASSUME LinkInv, NumberedA
    PROVE  /\ AP!SchedInv /\ AP!IInv /\ AP!RxInv
           /\ acceptedA \in Nat /\ Len(txA.buffer) \in Nat /\ Len(txA.scheduled) \in Nat
           /\ Len(txA.buffer) <= acceptedA /\ Len(txA.scheduled) <= acceptedA
           /\ Len(txA.buffer) <= Window
           /\ acceptedA - Len(txA.buffer) \in Nat
           /\ txA.first_replay \in BOOLEAN /\ txA.ignore_count \in Nat
           /\ rxA \in AP!RxState
           /\ rxA.ambiguous <=> rxA.bad_crc_count = BadLimit
           /\ schedA \in AP!SchedState
           /\ schedA.replay_requests \in 0 .. RequestCopies
           /\ schedA.request_sequence \in 0 .. MaxSeq
           /\ AP!NumberedTx(txA, acceptedA)
<1>1. AP!SchedInv /\ AP!IInv /\ AP!RxInv /\ schedA \in AP!SchedState
    BY DEF LinkInv, AP!SchedInv
<1>2. acceptedA \in Nat
    BY LinkAssumption DEF LinkInv
<1>3. AP!NumberedTx(txA, acceptedA)
    BY DEF NumberedA
<1>4. Len(txA.buffer) <= acceptedA /\ Len(txA.scheduled) <= acceptedA
    BY <1>3 DEF AP!NumberedTx
<1>5. /\ txA.ignore_count \in 0 .. IgnoreWindow /\ IgnoreWindow \in Nat
      /\ Len(txA.buffer) \in Nat /\ Len(txA.scheduled) \in Nat /\ Len(txA.buffer) <= Window
      /\ txA.first_replay \in BOOLEAN
    BY <1>1, EndParameters, AP!TxFields
<1>6. rxA \in AP!RxState
    BY <1>1 DEF AP!RxInv, AP!RxTypeOK
<1>7. rxA.ambiguous <=> rxA.bad_crc_count = BadLimit
    BY <1>1 DEF AP!RxInv, AP!RxCountersAgree
<1>8. schedA.replay_requests \in 0 .. RequestCopies /\ schedA.request_sequence \in 0 .. MaxSeq
    BY <1>1 DEF AP!SchedState
<1>9. txA.ignore_count \in Nat
    BY <1>5
<1> QED BY <1>1, <1>2, <1>3, <1>4, <1>5, <1>6, <1>7, <1>8, <1>9
LEMMA TypedViewToB == LinkInv /\ Framed => AP!Typed(ViewToB)
<1> SUFFICES ASSUME LinkInv, Framed
             PROVE  AP!Typed(ViewToB)
    OBVIOUS
<1>1. Clock /\ Wires /\ NumberedA /\ NumberedB /\ deliveredA \in Seq(Nat) /\ deliveredB \in Seq(Nat)
    BY DEF Framed
<1>2. /\ acceptedA \in Nat /\ acceptedA - Len(txA.buffer) \in Nat
      /\ Len(txA.scheduled) \in Nat /\ txA.first_replay \in BOOLEAN /\ txA.ignore_count \in Nat
      /\ Len(txA.scheduled) <= acceptedA /\ Len(txA.buffer) <= Window /\ Len(txA.buffer) \in Nat
    BY <1>1, EndFieldsA
<1>3. /\ rxB \in AP!RxState /\ (rxB.ambiguous <=> rxB.bad_crc_count = BadLimit)
      /\ schedB \in BP!SchedState
      /\ schedB.replay_requests \in 0 .. RequestCopies /\ schedB.request_sequence \in 0 .. MaxSeq
    BY <1>1, EndFieldsB
<1>4. SendsB \in Nat /\ (schedB.replay_requests > 0 => SendsB >= 1)
    BY <1>1, <1>3, PosRange, EndParameters, BP!SendsLeftRange DEF SendsB
<1>5. Len(deliveredB) \in Nat
    BY <1>1
<1>6. wireAB \in Seq(AP!Flit) /\ wireBA \in Seq(AP!Flit)
    BY DEF LinkInv
<1>7. Len(wireAB) <= Delay /\ Len(wireBA) <= Delay
    <2>1. Len(wireAB) \in Nat /\ Len(wireBA) \in Nat /\ Delay \in Nat
        BY <1>6, LinkAssumption
    <2> QED BY <1>1, <2>1 DEF Wires
<1>8. ViewToB \in AP!View
    BY <1>2, <1>3, <1>4, <1>5, <1>6 DEF AP!View, ViewToB
<1> QED BY <1>2, <1>3, <1>4, <1>7, <1>8, LinkAssumption DEF AP!Typed, ViewToB

LEMMA TypedViewToA == LinkInv /\ Framed => AP!Typed(ViewToA)
<1> SUFFICES ASSUME LinkInv, Framed
             PROVE  AP!Typed(ViewToA)
    OBVIOUS
<1>1. Clock /\ Wires /\ NumberedB /\ NumberedA /\ deliveredB \in Seq(Nat) /\ deliveredA \in Seq(Nat)
    BY DEF Framed
<1>2. /\ acceptedB \in Nat /\ acceptedB - Len(txB.buffer) \in Nat
      /\ Len(txB.scheduled) \in Nat /\ txB.first_replay \in BOOLEAN /\ txB.ignore_count \in Nat
      /\ Len(txB.scheduled) <= acceptedB /\ Len(txB.buffer) <= Window /\ Len(txB.buffer) \in Nat
    BY <1>1, EndFieldsB
<1>3. /\ rxA \in AP!RxState /\ (rxA.ambiguous <=> rxA.bad_crc_count = BadLimit)
      /\ schedA \in AP!SchedState
      /\ schedA.replay_requests \in 0 .. RequestCopies /\ schedA.request_sequence \in 0 .. MaxSeq
    BY <1>1, EndFieldsA
<1>4. SendsA \in Nat /\ (schedA.replay_requests > 0 => SendsA >= 1)
    BY <1>1, <1>3, PosRange, EndParameters, AP!SendsLeftRange DEF SendsA
<1>5. Len(deliveredA) \in Nat
    BY <1>1
<1>6. wireBA \in Seq(AP!Flit) /\ wireAB \in Seq(AP!Flit)
    BY DEF LinkInv
<1>7. Len(wireBA) <= Delay /\ Len(wireAB) <= Delay
    <2>1. Len(wireBA) \in Nat /\ Len(wireAB) \in Nat /\ Delay \in Nat
        BY <1>6, LinkAssumption
    <2> QED BY <1>1, <2>1 DEF Wires
<1>8. ViewToA \in AP!View
    BY <1>2, <1>3, <1>4, <1>5, <1>6 DEF AP!View, ViewToA
<1> QED BY <1>2, <1>3, <1>4, <1>7, <1>8, LinkAssumption DEF AP!Typed, ViewToA
-----------------------------------------------------------------------------
(* A flit arrives at end B. *)

HearsB ==
    /\ wireAB' = Tail(wireAB)
    /\ BP!Receive(Head(wireAB).word, TRUE)
    /\ deliveredB' = IF BP!Delivers(rxB, Head(wireAB).word, TRUE)
                     THEN Append(deliveredB, Head(wireAB).content) ELSE deliveredB
LosesB == wireAB' = Tail(wireAB) /\ BP!DiscardFlit /\ deliveredB' = deliveredB
IdleB == UNCHANGED <<txB, rxB, schedB, wireAB, deliveredB>>

\* A flit that is an end's to consume.
LegalAtB ==
    /\ Len(wireAB) > 0 /\ Head(wireAB) \in AP!Flit
    /\ Head(wireAB).word \in BP!Words /\ BP!ValidHeader(Head(wireAB).word)

LEMMA ArrivalKindsB ==
    ASSUME LinkInv, ArriveAtB
    PROVE  /\ UNCHANGED <<txA, rxA, schedA, wireBA, acceptedA, acceptedB, deliveredA>>
           /\ IdleB \/ (LegalAtB /\ (HearsB \/ LosesB))
<1>0. UNCHANGED <<txA, rxA, schedA, wireBA, acceptedA, acceptedB, deliveredA>>
    BY DEF ArriveAtB, endA
<1>1. CASE ~Arrived(wireAB)
    BY <1>0, <1>1 DEF ArriveAtB, IdleB, endB
<1>2. CASE Arrived(wireAB)
    <2>1. wireAB \in Seq(AP!Flit) /\ wireAB # <<>> /\ wireAB' = Tail(wireAB) /\ Len(wireAB) > 0
        BY <1>2, LinkAssumption, EmptySeq DEF ArriveAtB, LinkInv, Arrived
    <2>2. Head(wireAB) \in AP!Flit
        BY <2>1, HeadTailProperties
    <2>3. LegalAtB
        BY <2>1, <2>2, LegalForB DEF AP!Flit, LegalAtB
    <2>4. \/ /\ B!Receive(Head(wireAB).word, TRUE)
             /\ deliveredB' = IF B!Delivers(rxB, Head(wireAB).word, TRUE)
                              THEN Append(deliveredB, Head(wireAB).content) ELSE deliveredB
          \/ /\ B!Receive(Head(wireAB).word, FALSE) \/ B!DiscardFlit
             /\ deliveredB' = deliveredB
        BY <1>2 DEF ArriveAtB
    <2>5. B!Delivers(rxB, Head(wireAB).word, TRUE) <=> BP!Delivers(rxB, Head(wireAB).word, TRUE)
        BY SameJudgementB DEF B!Delivers, BP!Delivers
    <2>6. B!Receive(Head(wireAB).word, TRUE) => BP!Receive(Head(wireAB).word, TRUE)
        BY SameReceiveB
    <2>7. B!Receive(Head(wireAB).word, FALSE) => BP!DiscardFlit
        BY SameReceiveB, BP!BadFlitIsDiscarded, EndParameters
    <2>8. B!DiscardFlit => BP!DiscardFlit
        BY SameDiscardB
    <2>9. HearsB \/ LosesB
        BY <2>1, <2>4, <2>5, <2>6, <2>7, <2>8 DEF HearsB, LosesB
    <2> QED BY <1>0, <2>3, <2>9
<1> QED BY <1>1, <1>2

\* What the flit does to the transmitter.
ListensB ==
    /\ wireAB' = Tail(wireAB) /\ Len(wireAB) > 0
    /\ txB'.scheduled = txB.scheduled /\ txB'.first_replay = txB.first_replay
    /\ txB'.ignore_count = IF txB.ignore_count = 0 THEN 0 ELSE txB.ignore_count - 1
    /\ \/ txB'.buffer = txB.buffer
       \/ /\ Head(wireAB).word.op = 2
          /\ \E a \in (acceptedB - Len(txB.buffer)) .. acceptedB :
                Head(wireAB).word.ack_request = AP!Number(a) /\ Len(txB'.buffer) = acceptedB - a
ObeysB ==
    /\ wireAB' = Tail(wireAB) /\ Len(wireAB) > 0
    /\ Head(wireAB).word.op = 3 /\ txB.ignore_count <= 1
    /\ txB'.ignore_count = IgnoreWindow /\ txB'.first_replay = TRUE
    /\ txB'.buffer = txB.buffer
    /\ \E t \in (acceptedB - Len(txB.buffer) + 1) .. acceptedB :
          Head(wireAB).word.ack_request = AP!Number(t) /\ Len(txB'.scheduled) = acceptedB - t + 1

LEMMA TransmitterHearsB ==
    ASSUME LinkInv, NumberedB, ArriveAtB
    PROVE  /\ BP!NumberedTx(txB', acceptedB)
           /\ IdleB \/ ListensB \/ ObeysB
           /\ \/ txB' = txB \/ txB' = BP!Aged(txB)
              \/ \E word \in BP!Words, crc_ok \in BOOLEAN : BP!TxReceive(word, crc_ok)
<1>1. BP!IInv /\ BP!NumberedTx(txB, acceptedB) /\ acceptedB \in Nat
    BY EndFieldsB
<1>2. BP!Aged(txB).ignore_count = IF txB.ignore_count = 0 THEN 0 ELSE txB.ignore_count - 1
    BY <1>1, EndParameters, BP!AgedCount
<1>3. CASE IdleB
    BY <1>1, <1>3 DEF IdleB
<1>4. ASSUME wireAB' = Tail(wireAB), Len(wireAB) > 0, txB' = BP!Aged(txB)
      PROVE  BP!NumberedTx(txB', acceptedB) /\ ListensB
    <2>1. /\ BP!NumberedTx(txB', acceptedB)
          /\ txB'.scheduled = txB.scheduled /\ txB'.first_replay = txB.first_replay
          /\ txB'.buffer = txB.buffer
          /\ txB'.ignore_count = BP!Aged(txB).ignore_count
        BY <1>1, <1>4, EndParameters, BP!AgedNumbered
    <2> QED BY <1>2, <1>4, <2>1 DEF ListensB
<1>5. CASE LegalAtB /\ LosesB
    <2>1. txB' = BP!Aged(txB)
        BY <1>5 DEF LosesB, BP!DiscardFlit, BP!DiscardIngress
    <2> QED BY <1>4, <1>5, <2>1 DEF LosesB, LegalAtB
<1>6. CASE LegalAtB /\ HearsB
    <2> DEFINE word == Head(wireAB).word
    <2>1. /\ wireAB' = Tail(wireAB) /\ Len(wireAB) > 0 /\ word \in BP!Words
          /\ BP!TxReceive(word, TRUE)
        BY <1>6 DEF HearsB, LegalAtB, BP!Receive
    <2>2. CASE BP!ReceiveNothing(word, TRUE)
        <3>1. txB' = BP!Aged(txB)
            BY <2>2 DEF BP!ReceiveNothing
        <3> QED BY <1>4, <2>1, <3>1
    <2>3. CASE BP!ReceiveAck(word, TRUE)
        <3>1. /\ BP!NumberedTx(txB', acceptedB)
              /\ word.op = 2
              /\ txB'.ignore_count = BP!Aged(txB).ignore_count
              /\ txB'.scheduled = txB.scheduled /\ txB'.first_replay = txB.first_replay
              /\ \E a \in (acceptedB - Len(txB.buffer)) .. acceptedB :
                    word.ack_request = BP!Number(a) /\ Len(txB'.buffer) = acceptedB - a
            <4> HIDE DEF word
            <4> QED BY <1>1, <2>1, <2>3, EndParameters, BP!AckNumbered
        <3> QED BY <1>2, <2>1, <3>1, SameTheoryB DEF ListensB
    <2>4. CASE BP!ReceiveRequest(word, TRUE)
        <3>1. /\ BP!NumberedTx(txB', acceptedB)
              /\ word.op = 3 /\ txB.ignore_count <= 1
              /\ txB'.ignore_count = IgnoreWindow /\ txB'.first_replay = TRUE
              /\ txB'.buffer = txB.buffer
              /\ \E t \in (acceptedB - Len(txB.buffer) + 1) .. acceptedB :
                    word.ack_request = BP!Number(t) /\ Len(txB'.scheduled) = acceptedB - t + 1
            <4> HIDE DEF word
            <4> QED BY <1>1, <2>1, <2>4, EndParameters, BP!RequestNumbered
        <3> QED BY <2>1, <3>1, SameTheoryB DEF ObeysB
    <2> QED BY <2>1, <2>2, <2>3, <2>4 DEF BP!TxReceive
<1>7. \/ txB' = txB \/ txB' = BP!Aged(txB)
      \/ \E word \in BP!Words, crc_ok \in BOOLEAN : BP!TxReceive(word, crc_ok)
    <2>1. CASE IdleB
        BY <2>1 DEF IdleB
    <2>2. CASE LosesB
        BY <2>2 DEF LosesB, BP!DiscardFlit, BP!DiscardIngress
    <2>3. CASE LegalAtB /\ HearsB
        BY <2>3 DEF LegalAtB, HearsB, BP!Receive
    <2> QED BY <2>1, <2>2, <2>3, ArrivalKindsB
<1>8. BP!NumberedTx(txB', acceptedB) /\ (IdleB \/ ListensB \/ ObeysB)
    BY <1>3, <1>5, <1>6, ArrivalKindsB
<1> QED BY <1>7, <1>8

-----------------------------------------------------------------------------
(* A flit arrives at end A. *)

HearsA ==
    /\ wireBA' = Tail(wireBA)
    /\ AP!Receive(Head(wireBA).word, TRUE)
    /\ deliveredA' = IF AP!Delivers(rxA, Head(wireBA).word, TRUE)
                     THEN Append(deliveredA, Head(wireBA).content) ELSE deliveredA
LosesA == wireBA' = Tail(wireBA) /\ AP!DiscardFlit /\ deliveredA' = deliveredA
IdleA == UNCHANGED <<txA, rxA, schedA, wireBA, deliveredA>>

\* A flit that is an end's to consume.
LegalAtA ==
    /\ Len(wireBA) > 0 /\ Head(wireBA) \in AP!Flit
    /\ Head(wireBA).word \in AP!Words /\ AP!ValidHeader(Head(wireBA).word)

LEMMA ArrivalKindsA ==
    ASSUME LinkInv, ArriveAtA
    PROVE  /\ UNCHANGED <<txB, rxB, schedB, wireAB, acceptedB, acceptedA, deliveredB>>
           /\ IdleA \/ (LegalAtA /\ (HearsA \/ LosesA))
<1>0. UNCHANGED <<txB, rxB, schedB, wireAB, acceptedB, acceptedA, deliveredB>>
    BY DEF ArriveAtA, endB
<1>1. CASE ~Arrived(wireBA)
    BY <1>0, <1>1 DEF ArriveAtA, IdleA, endA
<1>2. CASE Arrived(wireBA)
    <2>1. wireBA \in Seq(AP!Flit) /\ wireBA # <<>> /\ wireBA' = Tail(wireBA) /\ Len(wireBA) > 0
        BY <1>2, LinkAssumption, EmptySeq DEF ArriveAtA, LinkInv, Arrived
    <2>2. Head(wireBA) \in AP!Flit
        BY <2>1, HeadTailProperties
    <2>3. LegalAtA
        BY <2>1, <2>2, LegalForA DEF AP!Flit, LegalAtA
    <2>4. \/ /\ A!Receive(Head(wireBA).word, TRUE)
             /\ deliveredA' = IF A!Delivers(rxA, Head(wireBA).word, TRUE)
                              THEN Append(deliveredA, Head(wireBA).content) ELSE deliveredA
          \/ /\ A!Receive(Head(wireBA).word, FALSE) \/ A!DiscardFlit
             /\ deliveredA' = deliveredA
        BY <1>2 DEF ArriveAtA
    <2>5. A!Delivers(rxA, Head(wireBA).word, TRUE) <=> AP!Delivers(rxA, Head(wireBA).word, TRUE)
        BY SameJudgementA DEF A!Delivers, AP!Delivers
    <2>6. A!Receive(Head(wireBA).word, TRUE) => AP!Receive(Head(wireBA).word, TRUE)
        BY SameReceiveA
    <2>7. A!Receive(Head(wireBA).word, FALSE) => AP!DiscardFlit
        BY SameReceiveA, AP!BadFlitIsDiscarded, EndParameters
    <2>8. A!DiscardFlit => AP!DiscardFlit
        BY SameDiscardA
    <2>9. HearsA \/ LosesA
        BY <2>1, <2>4, <2>5, <2>6, <2>7, <2>8 DEF HearsA, LosesA
    <2> QED BY <1>0, <2>3, <2>9
<1> QED BY <1>1, <1>2

\* What the flit does to the transmitter.
ListensA ==
    /\ wireBA' = Tail(wireBA) /\ Len(wireBA) > 0
    /\ txA'.scheduled = txA.scheduled /\ txA'.first_replay = txA.first_replay
    /\ txA'.ignore_count = IF txA.ignore_count = 0 THEN 0 ELSE txA.ignore_count - 1
    /\ \/ txA'.buffer = txA.buffer
       \/ /\ Head(wireBA).word.op = 2
          /\ \E a \in (acceptedA - Len(txA.buffer)) .. acceptedA :
                Head(wireBA).word.ack_request = AP!Number(a) /\ Len(txA'.buffer) = acceptedA - a
ObeysA ==
    /\ wireBA' = Tail(wireBA) /\ Len(wireBA) > 0
    /\ Head(wireBA).word.op = 3 /\ txA.ignore_count <= 1
    /\ txA'.ignore_count = IgnoreWindow /\ txA'.first_replay = TRUE
    /\ txA'.buffer = txA.buffer
    /\ \E t \in (acceptedA - Len(txA.buffer) + 1) .. acceptedA :
          Head(wireBA).word.ack_request = AP!Number(t) /\ Len(txA'.scheduled) = acceptedA - t + 1

LEMMA TransmitterHearsA ==
    ASSUME LinkInv, NumberedA, ArriveAtA
    PROVE  /\ AP!NumberedTx(txA', acceptedA)
           /\ IdleA \/ ListensA \/ ObeysA
           /\ \/ txA' = txA \/ txA' = AP!Aged(txA)
              \/ \E word \in AP!Words, crc_ok \in BOOLEAN : AP!TxReceive(word, crc_ok)
<1>1. AP!IInv /\ AP!NumberedTx(txA, acceptedA) /\ acceptedA \in Nat
    BY EndFieldsA
<1>2. AP!Aged(txA).ignore_count = IF txA.ignore_count = 0 THEN 0 ELSE txA.ignore_count - 1
    BY <1>1, EndParameters, AP!AgedCount
<1>3. CASE IdleA
    BY <1>1, <1>3 DEF IdleA
<1>4. ASSUME wireBA' = Tail(wireBA), Len(wireBA) > 0, txA' = AP!Aged(txA)
      PROVE  AP!NumberedTx(txA', acceptedA) /\ ListensA
    <2>1. /\ AP!NumberedTx(txA', acceptedA)
          /\ txA'.scheduled = txA.scheduled /\ txA'.first_replay = txA.first_replay
          /\ txA'.buffer = txA.buffer
          /\ txA'.ignore_count = AP!Aged(txA).ignore_count
        BY <1>1, <1>4, EndParameters, AP!AgedNumbered
    <2> QED BY <1>2, <1>4, <2>1 DEF ListensA
<1>5. CASE LegalAtA /\ LosesA
    <2>1. txA' = AP!Aged(txA)
        BY <1>5 DEF LosesA, AP!DiscardFlit, AP!DiscardIngress
    <2> QED BY <1>4, <1>5, <2>1 DEF LosesA, LegalAtA
<1>6. CASE LegalAtA /\ HearsA
    <2> DEFINE word == Head(wireBA).word
    <2>1. /\ wireBA' = Tail(wireBA) /\ Len(wireBA) > 0 /\ word \in AP!Words
          /\ AP!TxReceive(word, TRUE)
        BY <1>6 DEF HearsA, LegalAtA, AP!Receive
    <2>2. CASE AP!ReceiveNothing(word, TRUE)
        <3>1. txA' = AP!Aged(txA)
            BY <2>2 DEF AP!ReceiveNothing
        <3> QED BY <1>4, <2>1, <3>1
    <2>3. CASE AP!ReceiveAck(word, TRUE)
        <3>1. /\ AP!NumberedTx(txA', acceptedA)
              /\ word.op = 2
              /\ txA'.ignore_count = AP!Aged(txA).ignore_count
              /\ txA'.scheduled = txA.scheduled /\ txA'.first_replay = txA.first_replay
              /\ \E a \in (acceptedA - Len(txA.buffer)) .. acceptedA :
                    word.ack_request = AP!Number(a) /\ Len(txA'.buffer) = acceptedA - a
            <4> HIDE DEF word
            <4> QED BY <1>1, <2>1, <2>3, EndParameters, AP!AckNumbered
        <3> QED BY <1>2, <2>1, <3>1 DEF ListensA
    <2>4. CASE AP!ReceiveRequest(word, TRUE)
        <3>1. /\ AP!NumberedTx(txA', acceptedA)
              /\ word.op = 3 /\ txA.ignore_count <= 1
              /\ txA'.ignore_count = IgnoreWindow /\ txA'.first_replay = TRUE
              /\ txA'.buffer = txA.buffer
              /\ \E t \in (acceptedA - Len(txA.buffer) + 1) .. acceptedA :
                    word.ack_request = AP!Number(t) /\ Len(txA'.scheduled) = acceptedA - t + 1
            <4> HIDE DEF word
            <4> QED BY <1>1, <2>1, <2>4, EndParameters, AP!RequestNumbered
        <3> QED BY <2>1, <3>1 DEF ObeysA
    <2> QED BY <2>1, <2>2, <2>3, <2>4 DEF AP!TxReceive
<1>7. \/ txA' = txA \/ txA' = AP!Aged(txA)
      \/ \E word \in AP!Words, crc_ok \in BOOLEAN : AP!TxReceive(word, crc_ok)
    <2>1. CASE IdleA
        BY <2>1 DEF IdleA
    <2>2. CASE LosesA
        BY <2>2 DEF LosesA, AP!DiscardFlit, AP!DiscardIngress
    <2>3. CASE LegalAtA /\ HearsA
        BY <2>3 DEF LegalAtA, HearsA, AP!Receive
    <2> QED BY <2>1, <2>2, <2>3, ArrivalKindsA
<1>8. AP!NumberedTx(txA', acceptedA) /\ (IdleA \/ ListensA \/ ObeysA)
    BY <1>3, <1>5, <1>6, ArrivalKindsA
<1> QED BY <1>7, <1>8
\* The flit may ask for a replay: how long its request then takes.
LEMMA RequestHeardB ==
    ASSUME LinkInv, LinkInv', Clock, NumberedB, ArriveAtB,
           NEW asks \in BOOLEAN, BP!NoteRequests(asks)
    PROVE  /\ BP!FirstReplayIsFresh(txB')
           /\ asks => schedB'.replay_requests = RequestCopies /\ SendsB' <= AP!Episode
           /\ ~asks => schedB' = schedB /\ SendsB' <= SendsB
<1>1. /\ BP!SchedInv /\ BP!SchedInv'
      /\ GroupSpan \in Nat \ {0} /\ PosB \in 0 .. (GroupSpan - 1)
    BY PosRange DEF LinkInv
<1>2. HeardB = FALSE /\ HeardB' = TRUE /\ PosB' = PosB
    BY ClockArriveB DEF HeardB, Clock
<1>3. ~txB.first_replay
    BY <1>2 DEF NumberedB
<1>4. \/ txB' = txB \/ txB' = BP!Aged(txB)
      \/ \E word \in BP!Words, crc_ok \in BOOLEAN : BP!TxReceive(word, crc_ok)
    BY TransmitterHearsB
<1>5. /\ BP!FirstReplayIsFresh(txB')
      /\ asks => /\ schedB'.replay_requests = RequestCopies
                 /\ BP!SendsLeft(txB', schedB', TRUE, PosB, GroupSpan) <= BP!EpisodeOf(GroupSpan)
      /\ ~asks => /\ schedB' = schedB
                  /\ BP!SendsLeft(txB', schedB', TRUE, PosB, GroupSpan)
                       <= BP!SendsLeft(txB, schedB, FALSE, PosB, GroupSpan)
    BY <1>1, <1>3, <1>4, EndParameters, BP!SendsAfterArrival
<1>6. /\ SendsB' = BP!SendsLeft(txB', schedB', TRUE, PosB, GroupSpan)
      /\ SendsB = BP!SendsLeft(txB, schedB, FALSE, PosB, GroupSpan)
    BY <1>2 DEF SendsB
<1> QED BY <1>5, <1>6, SameTheoryB

LEMMA NumberedAfterArrivalB ==
    ASSUME LinkInv, LinkInv', Clock, NumberedB, ArriveAtB
    PROVE  NumberedB'
<1>1. \E asks \in BOOLEAN : BP!NoteRequests(asks)
    <2>1. CASE IdleB
        BY <2>1 DEF IdleB, BP!NoteRequests
    <2>2. CASE LosesB
        <3>1. BP!NoteRequests(rxB.replay /\ BP!RequestDue(rxB))
            BY <2>2 DEF LosesB, BP!DiscardFlit
        <3> QED BY <3>1 DEF BP!NoteRequests
    <2>3. CASE HearsB
        <3>1. BP!NoteRequests(BP!RequestsReplay(rxB, Head(wireAB).word, TRUE))
            BY <2>3 DEF HearsB, BP!Receive
        <3> QED BY <3>1 DEF BP!NoteRequests
    <2> QED BY <2>1, <2>2, <2>3, ArrivalKindsB
<1>2. BP!FirstReplayIsFresh(txB')
    BY <1>1, RequestHeardB
<1>3. BP!NumberedTx(txB', acceptedB) /\ acceptedB' = acceptedB
    BY TransmitterHearsB, ArrivalKindsB
<1>4. HeardB'
    BY ClockArriveB
<1>5. BP!NumberedTx(txB', acceptedB')
    BY <1>3
<1> QED BY <1>2, <1>4, <1>5 DEF NumberedB

\* The flit may ask for a replay: how long its request then takes.
LEMMA RequestHeardA ==
    ASSUME LinkInv, LinkInv', Clock, NumberedA, ArriveAtA,
           NEW asks \in BOOLEAN, AP!NoteRequests(asks)
    PROVE  /\ AP!FirstReplayIsFresh(txA')
           /\ asks => schedA'.replay_requests = RequestCopies /\ SendsA' <= AP!Episode
           /\ ~asks => schedA' = schedA /\ SendsA' <= SendsA
<1>1. /\ AP!SchedInv /\ AP!SchedInv'
      /\ GroupSpan \in Nat \ {0} /\ PosA \in 0 .. (GroupSpan - 1)
    BY PosRange DEF LinkInv
<1>2. HeardA = FALSE /\ HeardA' = TRUE /\ PosA' = PosA
    BY ClockArriveA DEF HeardA, Clock
<1>3. ~txA.first_replay
    BY <1>2 DEF NumberedA
<1>4. \/ txA' = txA \/ txA' = AP!Aged(txA)
      \/ \E word \in AP!Words, crc_ok \in BOOLEAN : AP!TxReceive(word, crc_ok)
    BY TransmitterHearsA
<1>5. /\ AP!FirstReplayIsFresh(txA')
      /\ asks => /\ schedA'.replay_requests = RequestCopies
                 /\ AP!SendsLeft(txA', schedA', TRUE, PosA, GroupSpan) <= AP!EpisodeOf(GroupSpan)
      /\ ~asks => /\ schedA' = schedA
                  /\ AP!SendsLeft(txA', schedA', TRUE, PosA, GroupSpan)
                       <= AP!SendsLeft(txA, schedA, FALSE, PosA, GroupSpan)
    BY <1>1, <1>3, <1>4, EndParameters, AP!SendsAfterArrival
<1>6. /\ SendsA' = AP!SendsLeft(txA', schedA', TRUE, PosA, GroupSpan)
      /\ SendsA = AP!SendsLeft(txA, schedA, FALSE, PosA, GroupSpan)
    BY <1>2 DEF SendsA
<1> QED BY <1>5, <1>6, SpansA

LEMMA NumberedAfterArrivalA ==
    ASSUME LinkInv, LinkInv', Clock, NumberedA, ArriveAtA
    PROVE  NumberedA'
<1>1. \E asks \in BOOLEAN : AP!NoteRequests(asks)
    <2>1. CASE IdleA
        BY <2>1 DEF IdleA, AP!NoteRequests
    <2>2. CASE LosesA
        <3>1. AP!NoteRequests(rxA.replay /\ AP!RequestDue(rxA))
            BY <2>2 DEF LosesA, AP!DiscardFlit
        <3> QED BY <3>1 DEF AP!NoteRequests
    <2>3. CASE HearsA
        <3>1. AP!NoteRequests(AP!RequestsReplay(rxA, Head(wireBA).word, TRUE))
            BY <2>3 DEF HearsA, AP!Receive
        <3> QED BY <3>1 DEF AP!NoteRequests
    <2> QED BY <2>1, <2>2, <2>3, ArrivalKindsA
<1>2. AP!FirstReplayIsFresh(txA')
    BY <1>1, RequestHeardA
<1>3. AP!NumberedTx(txA', acceptedA) /\ acceptedA' = acceptedA
    BY TransmitterHearsA, ArrivalKindsA
<1>4. HeardA'
    BY ClockArriveA
<1>5. AP!NumberedTx(txA', acceptedA')
    BY <1>3
<1> QED BY <1>2, <1>4, <1>5 DEF NumberedA

LEMMA PrimedViewToB ==
    /\ ViewToB'.n = acceptedA' /\ ViewToB'.released = acceptedA' - Len(txA'.buffer)
    /\ ViewToB'.left = Len(txA'.scheduled) /\ ViewToB'.first = txA'.first_replay
    /\ ViewToB'.ignore = txA'.ignore_count
    /\ ViewToB'.d = Len(deliveredB') /\ ViewToB'.rx = rxB'
    /\ ViewToB'.pend = schedB'.replay_requests /\ ViewToB'.target = schedB'.request_sequence
    /\ ViewToB'.sends = SendsB' /\ ViewToB'.late = (IF HeardB' THEN 0 ELSE 1)
    /\ ViewToB'.out = wireAB' /\ ViewToB'.back = wireBA'
BY DEF ViewToB

LEMMA PlainViewToB ==
    /\ ViewToB.n = acceptedA /\ ViewToB.released = acceptedA - Len(txA.buffer)
    /\ ViewToB.left = Len(txA.scheduled) /\ ViewToB.first = txA.first_replay
    /\ ViewToB.ignore = txA.ignore_count
    /\ ViewToB.d = Len(deliveredB) /\ ViewToB.rx = rxB
    /\ ViewToB.pend = schedB.replay_requests /\ ViewToB.target = schedB.request_sequence
    /\ ViewToB.sends = SendsB /\ ViewToB.late = (IF HeardB THEN 0 ELSE 1)
    /\ ViewToB.out = wireAB /\ ViewToB.back = wireBA
BY DEF ViewToB

LEMMA TypedViewNextToB ==
    ASSUME LinkInv', Framed'
    PROVE  AP!Typed(ViewToB')
<1>1. (LinkInv /\ Framed => AP!Typed(ViewToB))'
    BY TypedViewToB, PTL
<1> QED BY <1>1

LEMMA PrimedViewToA ==
    /\ ViewToA'.n = acceptedB' /\ ViewToA'.released = acceptedB' - Len(txB'.buffer)
    /\ ViewToA'.left = Len(txB'.scheduled) /\ ViewToA'.first = txB'.first_replay
    /\ ViewToA'.ignore = txB'.ignore_count
    /\ ViewToA'.d = Len(deliveredA') /\ ViewToA'.rx = rxA'
    /\ ViewToA'.pend = schedA'.replay_requests /\ ViewToA'.target = schedA'.request_sequence
    /\ ViewToA'.sends = SendsA' /\ ViewToA'.late = (IF HeardA' THEN 0 ELSE 1)
    /\ ViewToA'.out = wireBA' /\ ViewToA'.back = wireAB'
BY DEF ViewToA

LEMMA PlainViewToA ==
    /\ ViewToA.n = acceptedB /\ ViewToA.released = acceptedB - Len(txB.buffer)
    /\ ViewToA.left = Len(txB.scheduled) /\ ViewToA.first = txB.first_replay
    /\ ViewToA.ignore = txB.ignore_count
    /\ ViewToA.d = Len(deliveredA) /\ ViewToA.rx = rxA
    /\ ViewToA.pend = schedA.replay_requests /\ ViewToA.target = schedA.request_sequence
    /\ ViewToA.sends = SendsA /\ ViewToA.late = (IF HeardA THEN 0 ELSE 1)
    /\ ViewToA.out = wireBA /\ ViewToA.back = wireAB
BY DEF ViewToA

LEMMA TypedViewNextToA ==
    ASSUME LinkInv', Framed'
    PROVE  AP!Typed(ViewToA')
<1>1. (LinkInv /\ Framed => AP!Typed(ViewToA))'
    BY TypedViewToA, PTL
<1> QED BY <1>1

\* The direction towards an end, when a flit arrives there.
LEMMA ReceiverHearsB ==
    ASSUME AP!TimingSuffices, LinkInv, LinkInv', Framed, Framed', ArriveAtB,
           AP!DirectionOK(ViewToB), DeliveredInOrderB
    PROVE  /\ AP!DirectionOK(ViewToB') /\ DeliveredInOrderB'
           /\ deliveredB' = deliveredB \/ deliveredB' = Append(deliveredB, Len(deliveredB) + 1)
<1> DEFINE v == ViewToB
           w == ViewToB'
           word == Head(wireAB).word
<1>1. Clock /\ NumberedB /\ deliveredB \in Seq(Nat) /\ deliveredB' \in Seq(Nat)
    BY DEF Framed
<1>2. UNCHANGED <<txA, rxA, schedA, wireBA, acceptedA>>
    BY ArrivalKindsB
<1>3. ~HeardB /\ HeardB'
    BY <1>1, ClockArriveB
<1>4. AP!Typed(w)
    BY TypedViewNextToB
<1>5. /\ AP!SameSender(v, w) /\ v.late = 1 /\ w.late = 0
      /\ v.d = Len(deliveredB) /\ w.d = Len(deliveredB') /\ v.rx = rxB /\ w.rx = rxB'
      /\ v.out = wireAB /\ w.out = wireAB'
      /\ v.pend = schedB.replay_requests /\ w.pend = schedB'.replay_requests
      /\ v.target = schedB.request_sequence /\ w.target = schedB'.request_sequence
      /\ v.sends = SendsB /\ w.sends = SendsB'
    BY <1>2, <1>3, PlainViewToB, PrimedViewToB DEF AP!SameSender
<1>6. ASSUME NEW asks \in BOOLEAN, BP!NoteRequests(asks)
      PROVE  /\ asks => w.pend = RequestCopies /\ w.sends <= AP!Episode
             /\ ~asks => w.pend = v.pend /\ w.target = v.target /\ w.sends <= v.sends
    <2>1. /\ asks => schedB'.replay_requests = RequestCopies /\ SendsB' <= AP!Episode
          /\ ~asks => schedB' = schedB /\ SendsB' <= SendsB
        BY <1>1, <1>6, RequestHeardB
    <2> QED BY <1>5, <2>1
<1>7. CASE IdleB
    <2>1. BP!NoteRequests(FALSE)
        BY <1>7 DEF IdleB, BP!NoteRequests
    <2>2. w.pend = v.pend /\ w.target = v.target /\ w.sends <= v.sends
        BY <1>6, <2>1
    <2>3. wireAB' = wireAB /\ rxB' = rxB /\ deliveredB' = deliveredB
        BY <1>7 DEF IdleB
    <2>4. w.out = v.out /\ w.rx = v.rx /\ w.d = v.d
        BY <1>5, <2>3
    <2> HIDE DEF v, w
    <2>5. AP!DirectionOK(v)
        BY DEF v
    <2>6. AP!DirectionOK(w)
        BY <1>4, <1>5, <2>2, <2>4, <2>5, AP!NoArrival, EndParameters
    <2> QED BY <2>3, <2>6 DEF w, DeliveredInOrderB
<1>8. CASE LegalAtB /\ LosesB
    <2> DEFINE asks == rxB.replay /\ BP!RequestDue(rxB)
    <2>1. BP!RxInv /\ rxB' = BP!Discarded(rxB) /\ BP!NoteRequests(asks)
          /\ wireAB' = Tail(wireAB) /\ deliveredB' = deliveredB /\ Len(wireAB) > 0
        BY <1>1, <1>8, EndFieldsB DEF LosesB, LegalAtB, BP!DiscardFlit, BP!DiscardForBackpressure
    <2>2. BP!Unheard(rxB, rxB', asks)
        BY <2>1, EndParameters, BP!LossOutcome
    <2>3. PICK b \in BOOLEAN : b <=> asks
        OBVIOUS
    <2>4. BP!NoteRequests(b) /\ AP!Unheard(rxB, rxB', b)
        BY <2>1, <2>2, <2>3, SameTheoryB DEF BP!NoteRequests, BP!Unheard, BP!Counts
    <2>5. /\ b => w.pend = RequestCopies /\ w.sends <= AP!Episode
          /\ ~b => w.pend = v.pend /\ w.target = v.target /\ w.sends <= v.sends
        BY <1>6, <2>4
    <2>6. AP!Arrives(v, w, b)
        BY <1>5, <2>1, <2>5 DEF AP!Arrives
    <2>7. AP!Unheard(v.rx, w.rx, b) /\ w.d = v.d
        BY <1>5, <2>1, <2>4
    <2> HIDE DEF v, w
    <2>8. AP!DirectionOK(v)
        BY DEF v
    <2>9. AP!DirectionOK(w)
        BY <1>4, <2>6, <2>7, <2>8, AP!ArrivalLost, EndParameters
    <2> QED BY <2>1, <2>9 DEF w, DeliveredInOrderB
<1>9. CASE LegalAtB /\ HearsB
    <2>1. /\ word \in BP!Words /\ BP!ValidHeader(word) /\ Len(wireAB) > 0 /\ BP!RxInv
          /\ wireAB' = Tail(wireAB)
          /\ BP!RxReceive(word, TRUE) /\ BP!NoteRequests(BP!RequestsReplay(rxB, word, TRUE))
          /\ deliveredB' = IF BP!Delivers(rxB, word, TRUE)
                           THEN Append(deliveredB, Head(wireAB).content) ELSE deliveredB
        BY <1>1, <1>9, EndFieldsB DEF LegalAtB, HearsB, BP!Receive
    <2>2. PICK asks \in BOOLEAN : asks <=> BP!RequestsReplay(rxB, word, TRUE)
        OBVIOUS
    <2>3. PICK delivers \in BOOLEAN : delivers <=> BP!Delivers(rxB, word, TRUE)
        OBVIOUS
    <2>4. BP!NoteRequests(asks)
        BY <2>1, <2>2 DEF BP!NoteRequests
    <2>5. AP!Arrives(v, w, asks)
        <3>1. /\ asks => w.pend = RequestCopies /\ w.sends <= AP!Episode
              /\ ~asks => w.pend = v.pend /\ w.target = v.target /\ w.sends <= v.sends
            BY <1>6, <2>4
        <3> QED BY <1>5, <2>1, <3>1 DEF AP!Arrives
    <2>6. rxB.last_sequence = BP!Number(Len(deliveredB)) /\ Len(deliveredB) \in Nat
        <3>1. v.rx.last_sequence = AP!Number(v.d)
            BY DEF AP!DirectionOK, AP!ViewOK, AP!Placed
        <3> QED BY <1>1, <1>5, <3>1, SameTheoryB
    <2>7. ASSUME NEW k \in Nat, AP!Labelled(word, k), AP!Near(rxB, word, k, Len(deliveredB))
          PROVE  AP!Heard(v, w, asks, delivers, k)
        <3>1. BP!Labelled(word, k) /\ BP!Near(rxB, word, k, Len(deliveredB)) /\ BP!LowBitsSuffice
            BY <2>7, SameTheoryB DEF AP!TimingSuffices
        <3> HIDE DEF v, w, word
        <3>2. LET asked == BP!RequestsReplay(rxB, word, TRUE) IN
              \/ /\ BP!Trusted(rxB, word) /\ k = Len(deliveredB) + BP!Step(word)
                 /\ BP!Taken(rxB, rxB', asked, k)
                 /\ BP!Delivers(rxB, word, TRUE) <=> word.payload
              \/ /\ BP!Trusted(rxB, word) => k # Len(deliveredB) + BP!Step(word)
                 /\ BP!LeftOut(rxB, rxB', asked, BP!Trusted(rxB, word))
                 /\ ~BP!Delivers(rxB, word, TRUE)
            BY <2>1, <2>6, <3>1, EndParameters, BP!HearingOutcome
        <3>3. /\ BP!Taken(rxB, rxB', BP!RequestsReplay(rxB, word, TRUE), k)
                   => BP!Taken(rxB, rxB', asks, k)
              /\ BP!LeftOut(rxB, rxB', BP!RequestsReplay(rxB, word, TRUE), BP!Trusted(rxB, word))
                   => BP!LeftOut(rxB, rxB', asks, AP!Trusted(rxB, word))
            BY <2>2, SameTheoryB DEF BP!Taken, BP!LeftOut, BP!Counts
        <3>4. \/ /\ AP!Trusted(rxB, word) /\ k = Len(deliveredB) + AP!Step(word)
                 /\ AP!Taken(rxB, rxB', asks, k)
                 /\ delivers <=> word.payload
              \/ /\ AP!Trusted(rxB, word) => k # Len(deliveredB) + AP!Step(word)
                 /\ AP!LeftOut(rxB, rxB', asks, AP!Trusted(rxB, word))
                 /\ ~delivers
            <4>1. /\ BP!Trusted(rxB, word) <=> AP!Trusted(rxB, word)
                  /\ BP!Step(word) = AP!Step(word)
                  /\ BP!Taken(rxB, rxB', asks, k) <=> AP!Taken(rxB, rxB', asks, k)
                  /\ BP!LeftOut(rxB, rxB', asks, AP!Trusted(rxB, word))
                       <=> AP!LeftOut(rxB, rxB', asks, AP!Trusted(rxB, word))
                BY SameTheoryB
            <4> QED BY <2>3, <3>2, <3>3, <4>1
        <3>5. Head(v.out).word = word
            BY <1>5 DEF word
        <3> QED BY <1>5, <3>4, <3>5 DEF AP!Heard
    <2>8. \A k \in Nat : /\ AP!Labelled(Head(v.out).word, k)
                         /\ AP!Near(v.rx, Head(v.out).word, k, v.d)
                         => AP!Heard(v, w, asks, delivers, k)
        BY <1>5, <2>7
    <2>9. /\ Len(deliveredB') = IF delivers THEN Len(deliveredB) + 1 ELSE Len(deliveredB)
          /\ delivers => deliveredB' = Append(deliveredB, Head(wireAB).content)
          /\ ~delivers => deliveredB' = deliveredB
        <3>1. Head(wireAB).content \in Nat
            BY <1>9, LinkAssumption DEF LegalAtB, AP!Flit, NoContent, Numbered
        <3> QED BY <1>1, <2>1, <2>3, <3>1, AppendProperties
    <2>10. w.d = IF delivers THEN v.d + 1 ELSE v.d
        BY <1>5, <2>9
    <2>11. Len(v.out) > 0
        BY <1>5, <2>1
    <2>12. delivers => Head(wireAB).content = Len(deliveredB) + 1
        <3> HIDE DEF v, w
        <3>1. AP!DirectionOK(v)
            BY DEF v
        <3>2. delivers => Head(v.out).content = v.d + 1
            BY <2>8, <2>11, <3>1, AP!HeardContent, EndParameters
        <3> QED BY <1>5, <3>2
    <2>13. DeliveredInOrderB'
        <3>1. CASE ~delivers
            BY <2>9, <3>1 DEF DeliveredInOrderB
        <3>2. CASE delivers
            <4>1. /\ deliveredB' = Append(deliveredB, Len(deliveredB) + 1)
                  /\ \A i \in 1 .. Len(deliveredB) : deliveredB[i] = i
                BY <2>9, <2>12, <3>2 DEF DeliveredInOrderB
            <4>2. \A i \in 1 .. (Len(deliveredB) + 1) :
                     deliveredB'[i] = IF i <= Len(deliveredB) THEN deliveredB[i] ELSE Len(deliveredB) + 1
                BY <1>1, <4>1, AppendProperties
            <4>3. \A i \in 1 .. Len(deliveredB') : deliveredB'[i] = i
                BY <1>1, <2>9, <3>2, <4>1, <4>2
            <4> QED BY <1>1, <4>3 DEF DeliveredInOrderB
        <3> QED BY <3>1, <3>2
    <2> HIDE DEF v, w
    <2>14. AP!DirectionOK(v)
        BY DEF v
    <2>15. AP!DirectionOK(w)
        BY <1>4, <2>5, <2>8, <2>10, <2>14, AP!ArrivalHeard, EndParameters
    <2> QED BY <2>9, <2>12, <2>13, <2>15 DEF w
<1> QED BY <1>7, <1>8, <1>9, ArrivalKindsB

\* The direction towards an end, when a flit arrives there.
LEMMA ReceiverHearsA ==
    ASSUME AP!TimingSuffices, LinkInv, LinkInv', Framed, Framed', ArriveAtA,
           AP!DirectionOK(ViewToA), DeliveredInOrderA
    PROVE  /\ AP!DirectionOK(ViewToA') /\ DeliveredInOrderA'
           /\ deliveredA' = deliveredA \/ deliveredA' = Append(deliveredA, Len(deliveredA) + 1)
<1> DEFINE v == ViewToA
           w == ViewToA'
           word == Head(wireBA).word
<1>1. Clock /\ NumberedA /\ deliveredA \in Seq(Nat) /\ deliveredA' \in Seq(Nat)
    BY DEF Framed
<1>2. UNCHANGED <<txB, rxB, schedB, wireAB, acceptedB>>
    BY ArrivalKindsA
<1>3. ~HeardA /\ HeardA'
    BY <1>1, ClockArriveA
<1>4. AP!Typed(w)
    BY TypedViewNextToA
<1>5. /\ AP!SameSender(v, w) /\ v.late = 1 /\ w.late = 0
      /\ v.d = Len(deliveredA) /\ w.d = Len(deliveredA') /\ v.rx = rxA /\ w.rx = rxA'
      /\ v.out = wireBA /\ w.out = wireBA'
      /\ v.pend = schedA.replay_requests /\ w.pend = schedA'.replay_requests
      /\ v.target = schedA.request_sequence /\ w.target = schedA'.request_sequence
      /\ v.sends = SendsA /\ w.sends = SendsA'
    BY <1>2, <1>3, PlainViewToA, PrimedViewToA DEF AP!SameSender
<1>6. ASSUME NEW asks \in BOOLEAN, AP!NoteRequests(asks)
      PROVE  /\ asks => w.pend = RequestCopies /\ w.sends <= AP!Episode
             /\ ~asks => w.pend = v.pend /\ w.target = v.target /\ w.sends <= v.sends
    <2>1. /\ asks => schedA'.replay_requests = RequestCopies /\ SendsA' <= AP!Episode
          /\ ~asks => schedA' = schedA /\ SendsA' <= SendsA
        BY <1>1, <1>6, RequestHeardA
    <2> QED BY <1>5, <2>1
<1>7. CASE IdleA
    <2>1. AP!NoteRequests(FALSE)
        BY <1>7 DEF IdleA, AP!NoteRequests
    <2>2. w.pend = v.pend /\ w.target = v.target /\ w.sends <= v.sends
        BY <1>6, <2>1
    <2>3. wireBA' = wireBA /\ rxA' = rxA /\ deliveredA' = deliveredA
        BY <1>7 DEF IdleA
    <2>4. w.out = v.out /\ w.rx = v.rx /\ w.d = v.d
        BY <1>5, <2>3
    <2> HIDE DEF v, w
    <2>5. AP!DirectionOK(v)
        BY DEF v
    <2>6. AP!DirectionOK(w)
        BY <1>4, <1>5, <2>2, <2>4, <2>5, AP!NoArrival, EndParameters
    <2> QED BY <2>3, <2>6 DEF w, DeliveredInOrderA
<1>8. CASE LegalAtA /\ LosesA
    <2> DEFINE asks == rxA.replay /\ AP!RequestDue(rxA)
    <2>1. AP!RxInv /\ rxA' = AP!Discarded(rxA) /\ AP!NoteRequests(asks)
          /\ wireBA' = Tail(wireBA) /\ deliveredA' = deliveredA /\ Len(wireBA) > 0
        BY <1>1, <1>8, EndFieldsA DEF LosesA, LegalAtA, AP!DiscardFlit, AP!DiscardForBackpressure
    <2>2. AP!Unheard(rxA, rxA', asks)
        BY <2>1, EndParameters, AP!LossOutcome
    <2>3. PICK b \in BOOLEAN : b <=> asks
        OBVIOUS
    <2>4. AP!NoteRequests(b) /\ AP!Unheard(rxA, rxA', b)
        BY <2>1, <2>2, <2>3 DEF AP!NoteRequests, AP!Unheard, AP!Counts
    <2>5. /\ b => w.pend = RequestCopies /\ w.sends <= AP!Episode
          /\ ~b => w.pend = v.pend /\ w.target = v.target /\ w.sends <= v.sends
        BY <1>6, <2>4
    <2>6. AP!Arrives(v, w, b)
        BY <1>5, <2>1, <2>5 DEF AP!Arrives
    <2>7. AP!Unheard(v.rx, w.rx, b) /\ w.d = v.d
        BY <1>5, <2>1, <2>4
    <2> HIDE DEF v, w
    <2>8. AP!DirectionOK(v)
        BY DEF v
    <2>9. AP!DirectionOK(w)
        BY <1>4, <2>6, <2>7, <2>8, AP!ArrivalLost, EndParameters
    <2> QED BY <2>1, <2>9 DEF w, DeliveredInOrderA
<1>9. CASE LegalAtA /\ HearsA
    <2>1. /\ word \in AP!Words /\ AP!ValidHeader(word) /\ Len(wireBA) > 0 /\ AP!RxInv
          /\ wireBA' = Tail(wireBA)
          /\ AP!RxReceive(word, TRUE) /\ AP!NoteRequests(AP!RequestsReplay(rxA, word, TRUE))
          /\ deliveredA' = IF AP!Delivers(rxA, word, TRUE)
                           THEN Append(deliveredA, Head(wireBA).content) ELSE deliveredA
        BY <1>1, <1>9, EndFieldsA DEF LegalAtA, HearsA, AP!Receive
    <2>2. PICK asks \in BOOLEAN : asks <=> AP!RequestsReplay(rxA, word, TRUE)
        OBVIOUS
    <2>3. PICK delivers \in BOOLEAN : delivers <=> AP!Delivers(rxA, word, TRUE)
        OBVIOUS
    <2>4. AP!NoteRequests(asks)
        BY <2>1, <2>2 DEF AP!NoteRequests
    <2>5. AP!Arrives(v, w, asks)
        <3>1. /\ asks => w.pend = RequestCopies /\ w.sends <= AP!Episode
              /\ ~asks => w.pend = v.pend /\ w.target = v.target /\ w.sends <= v.sends
            BY <1>6, <2>4
        <3> QED BY <1>5, <2>1, <3>1 DEF AP!Arrives
    <2>6. rxA.last_sequence = AP!Number(Len(deliveredA)) /\ Len(deliveredA) \in Nat
        <3>1. v.rx.last_sequence = AP!Number(v.d)
            BY DEF AP!DirectionOK, AP!ViewOK, AP!Placed
        <3> QED BY <1>1, <1>5, <3>1
    <2>7. ASSUME NEW k \in Nat, AP!Labelled(word, k), AP!Near(rxA, word, k, Len(deliveredA))
          PROVE  AP!Heard(v, w, asks, delivers, k)
        <3>1. AP!Labelled(word, k) /\ AP!Near(rxA, word, k, Len(deliveredA)) /\ AP!LowBitsSuffice
            BY <2>7 DEF AP!TimingSuffices
        <3> HIDE DEF v, w, word
        <3>2. LET asked == AP!RequestsReplay(rxA, word, TRUE) IN
              \/ /\ AP!Trusted(rxA, word) /\ k = Len(deliveredA) + AP!Step(word)
                 /\ AP!Taken(rxA, rxA', asked, k)
                 /\ AP!Delivers(rxA, word, TRUE) <=> word.payload
              \/ /\ AP!Trusted(rxA, word) => k # Len(deliveredA) + AP!Step(word)
                 /\ AP!LeftOut(rxA, rxA', asked, AP!Trusted(rxA, word))
                 /\ ~AP!Delivers(rxA, word, TRUE)
            BY <2>1, <2>6, <3>1, EndParameters, AP!HearingOutcome
        <3>3. /\ AP!Taken(rxA, rxA', AP!RequestsReplay(rxA, word, TRUE), k)
                   => AP!Taken(rxA, rxA', asks, k)
              /\ AP!LeftOut(rxA, rxA', AP!RequestsReplay(rxA, word, TRUE), AP!Trusted(rxA, word))
                   => AP!LeftOut(rxA, rxA', asks, AP!Trusted(rxA, word))
            BY <2>2 DEF AP!Taken, AP!LeftOut, AP!Counts
        <3>4. \/ /\ AP!Trusted(rxA, word) /\ k = Len(deliveredA) + AP!Step(word)
                 /\ AP!Taken(rxA, rxA', asks, k)
                 /\ delivers <=> word.payload
              \/ /\ AP!Trusted(rxA, word) => k # Len(deliveredA) + AP!Step(word)
                 /\ AP!LeftOut(rxA, rxA', asks, AP!Trusted(rxA, word))
                 /\ ~delivers
            <4>1. /\ AP!Trusted(rxA, word) <=> AP!Trusted(rxA, word)
                  /\ AP!Step(word) = AP!Step(word)
                  /\ AP!Taken(rxA, rxA', asks, k) <=> AP!Taken(rxA, rxA', asks, k)
                  /\ AP!LeftOut(rxA, rxA', asks, AP!Trusted(rxA, word))
                       <=> AP!LeftOut(rxA, rxA', asks, AP!Trusted(rxA, word))
                OBVIOUS
            <4> QED BY <2>3, <3>2, <3>3, <4>1
        <3>5. Head(v.out).word = word
            BY <1>5 DEF word
        <3> QED BY <1>5, <3>4, <3>5 DEF AP!Heard
    <2>8. \A k \in Nat : /\ AP!Labelled(Head(v.out).word, k)
                         /\ AP!Near(v.rx, Head(v.out).word, k, v.d)
                         => AP!Heard(v, w, asks, delivers, k)
        BY <1>5, <2>7
    <2>9. /\ Len(deliveredA') = IF delivers THEN Len(deliveredA) + 1 ELSE Len(deliveredA)
          /\ delivers => deliveredA' = Append(deliveredA, Head(wireBA).content)
          /\ ~delivers => deliveredA' = deliveredA
        <3>1. Head(wireBA).content \in Nat
            BY <1>9, LinkAssumption DEF LegalAtA, AP!Flit, NoContent, Numbered
        <3> QED BY <1>1, <2>1, <2>3, <3>1, AppendProperties
    <2>10. w.d = IF delivers THEN v.d + 1 ELSE v.d
        BY <1>5, <2>9
    <2>11. Len(v.out) > 0
        BY <1>5, <2>1
    <2>12. delivers => Head(wireBA).content = Len(deliveredA) + 1
        <3> HIDE DEF v, w
        <3>1. AP!DirectionOK(v)
            BY DEF v
        <3>2. delivers => Head(v.out).content = v.d + 1
            BY <2>8, <2>11, <3>1, AP!HeardContent, EndParameters
        <3> QED BY <1>5, <3>2
    <2>13. DeliveredInOrderA'
        <3>1. CASE ~delivers
            BY <2>9, <3>1 DEF DeliveredInOrderA
        <3>2. CASE delivers
            <4>1. /\ deliveredA' = Append(deliveredA, Len(deliveredA) + 1)
                  /\ \A i \in 1 .. Len(deliveredA) : deliveredA[i] = i
                BY <2>9, <2>12, <3>2 DEF DeliveredInOrderA
            <4>2. \A i \in 1 .. (Len(deliveredA) + 1) :
                     deliveredA'[i] = IF i <= Len(deliveredA) THEN deliveredA[i] ELSE Len(deliveredA) + 1
                BY <1>1, <4>1, AppendProperties
            <4>3. \A i \in 1 .. Len(deliveredA') : deliveredA'[i] = i
                BY <1>1, <2>9, <3>2, <4>1, <4>2
            <4> QED BY <1>1, <4>3 DEF DeliveredInOrderA
        <3> QED BY <3>1, <3>2
    <2> HIDE DEF v, w
    <2>14. AP!DirectionOK(v)
        BY DEF v
    <2>15. AP!DirectionOK(w)
        BY <1>4, <2>5, <2>8, <2>10, <2>14, AP!ArrivalHeard, EndParameters
    <2> QED BY <2>9, <2>12, <2>13, <2>15 DEF w
<1> QED BY <1>7, <1>8, <1>9, ArrivalKindsA
\* The direction from an end, when a flit arrives there.
LEMMA SenderHearsB ==
    ASSUME AP!TimingSuffices, LinkInv, LinkInv', Framed, Framed', ArriveAtB,
           AP!DirectionOK(ViewToA)
    PROVE  AP!DirectionOK(ViewToA')
<1> DEFINE v == ViewToA
           w == ViewToA'
<1>1. Clock /\ NumberedB
    BY DEF Framed
<1>2. UNCHANGED <<txA, rxA, schedA, wireBA, acceptedB, deliveredA>>
    BY ArrivalKindsB
<1>3. HeardA' = HeardA /\ PosA' = PosA
    BY <1>1, ClockArriveB DEF HeardA
<1>4. SendsA' = SendsA
    BY <1>2, <1>3 DEF SendsA
<1>5. AP!SameReceiver(v, w) /\ AP!Typed(w)
    BY <1>2, <1>3, <1>4, PlainViewToA, PrimedViewToA, TypedViewNextToA DEF AP!SameReceiver
<1>6. /\ v.n = acceptedB /\ v.released = acceptedB - Len(txB.buffer)
      /\ v.left = Len(txB.scheduled) /\ v.first = txB.first_replay /\ v.ignore = txB.ignore_count
      /\ v.back = wireAB
      /\ w.n = acceptedB /\ w.released = acceptedB - Len(txB'.buffer)
      /\ w.left = Len(txB'.scheduled) /\ w.first = txB'.first_replay
      /\ w.ignore = txB'.ignore_count /\ w.back = wireAB'
    BY <1>2, PlainViewToA, PrimedViewToA
<1>7. /\ acceptedB \in Nat /\ Len(txB.buffer) \in Nat /\ Len(txB.buffer) <= acceptedB
      /\ acceptedB - Len(txB.buffer) \in Nat
    BY <1>1, EndFieldsB
<1>8. AP!DirectionOK(v)
    OBVIOUS
<1> HIDE DEF v, w
<1>9. CASE ListensB
    <2>1. AP!Returns(v, w) /\ w.left = v.left /\ w.first = v.first
          /\ w.ignore = IF v.ignore = 0 THEN 0 ELSE v.ignore - 1
        BY <1>5, <1>6, <1>9 DEF ListensB, AP!Returns
    <2>2. CASE txB'.buffer = txB.buffer
        <3>1. w.released = v.released
            BY <1>6, <2>2
        <3> QED BY <1>5, <1>8, <2>1, <3>1, AP!SenderListens, EndParameters DEF w
    <2>3. CASE txB'.buffer # txB.buffer
        <3>1. PICK a \in (acceptedB - Len(txB.buffer)) .. acceptedB :
                /\ Head(wireAB).word.op = 2
                /\ Head(wireAB).word.ack_request = AP!Number(a) /\ Len(txB'.buffer) = acceptedB - a
            BY <1>9, <2>3 DEF ListensB
        <3>2. w.released = a /\ a \in v.released .. v.n
            <4> DEFINE n == acceptedB
                       l == Len(txB.buffer)
            <4>1. n \in Nat /\ l \in Nat /\ l <= n /\ a \in (n - l) .. n
                  /\ w.released = n - Len(txB'.buffer) /\ Len(txB'.buffer) = n - a
                  /\ v.released = n - l /\ v.n = n
                BY <1>6, <1>7, <3>1
            <4> HIDE DEF n, l
            <4> QED BY <4>1
        <3>3. /\ Head(v.back).word.op = 2 /\ w.released \in v.released .. v.n
              /\ Head(v.back).word.ack_request = AP!Number(w.released)
            BY <1>6, <3>1, <3>2
        <3> QED BY <1>5, <1>8, <2>1, <3>3, AP!SenderListens, EndParameters DEF w
    <2> QED BY <2>2, <2>3
<1>10. CASE ObeysB
    <2>1. PICK t \in (acceptedB - Len(txB.buffer) + 1) .. acceptedB :
             Head(wireAB).word.ack_request = AP!Number(t) /\ Len(txB'.scheduled) = acceptedB - t + 1
        BY <1>10 DEF ObeysB
    <2>2. /\ AP!Returns(v, w) /\ Head(v.back).word.op = 3 /\ v.ignore <= 1
          /\ w.released = v.released /\ w.first = TRUE /\ w.ignore = IgnoreWindow
        BY <1>5, <1>6, <1>10 DEF ObeysB, AP!Returns
    <2>3. /\ t \in (v.released + 1) .. v.n
          /\ Head(v.back).word.ack_request = AP!Number(t) /\ w.left = v.n - t + 1
        BY <1>6, <2>1
    <2> QED BY <1>5, <1>8, <2>2, <2>3, AP!SenderObeys, EndParameters DEF w
<1>11. CASE IdleB
    <2>1. w = v
        BY <1>2, <1>3, <1>4, <1>11 DEF v, w, ViewToA, IdleB
    <2> QED BY <1>8, <2>1 DEF w
<1> QED BY <1>1, <1>9, <1>10, <1>11, TransmitterHearsB

\* The direction from an end, when a flit arrives there.
LEMMA SenderHearsA ==
    ASSUME AP!TimingSuffices, LinkInv, LinkInv', Framed, Framed', ArriveAtA,
           AP!DirectionOK(ViewToB)
    PROVE  AP!DirectionOK(ViewToB')
<1> DEFINE v == ViewToB
           w == ViewToB'
<1>1. Clock /\ NumberedA
    BY DEF Framed
<1>2. UNCHANGED <<txB, rxB, schedB, wireAB, acceptedA, deliveredB>>
    BY ArrivalKindsA
<1>3. HeardB' = HeardB /\ PosB' = PosB
    BY <1>1, ClockArriveA DEF HeardB
<1>4. SendsB' = SendsB
    BY <1>2, <1>3 DEF SendsB
<1>5. AP!SameReceiver(v, w) /\ AP!Typed(w)
    BY <1>2, <1>3, <1>4, PlainViewToB, PrimedViewToB, TypedViewNextToB DEF AP!SameReceiver
<1>6. /\ v.n = acceptedA /\ v.released = acceptedA - Len(txA.buffer)
      /\ v.left = Len(txA.scheduled) /\ v.first = txA.first_replay /\ v.ignore = txA.ignore_count
      /\ v.back = wireBA
      /\ w.n = acceptedA /\ w.released = acceptedA - Len(txA'.buffer)
      /\ w.left = Len(txA'.scheduled) /\ w.first = txA'.first_replay
      /\ w.ignore = txA'.ignore_count /\ w.back = wireBA'
    BY <1>2, PlainViewToB, PrimedViewToB
<1>7. /\ acceptedA \in Nat /\ Len(txA.buffer) \in Nat /\ Len(txA.buffer) <= acceptedA
      /\ acceptedA - Len(txA.buffer) \in Nat
    BY <1>1, EndFieldsA
<1>8. AP!DirectionOK(v)
    OBVIOUS
<1> HIDE DEF v, w
<1>9. CASE ListensA
    <2>1. AP!Returns(v, w) /\ w.left = v.left /\ w.first = v.first
          /\ w.ignore = IF v.ignore = 0 THEN 0 ELSE v.ignore - 1
        BY <1>5, <1>6, <1>9 DEF ListensA, AP!Returns
    <2>2. CASE txA'.buffer = txA.buffer
        <3>1. w.released = v.released
            BY <1>6, <2>2
        <3> QED BY <1>5, <1>8, <2>1, <3>1, AP!SenderListens, EndParameters DEF w
    <2>3. CASE txA'.buffer # txA.buffer
        <3>1. PICK a \in (acceptedA - Len(txA.buffer)) .. acceptedA :
                /\ Head(wireBA).word.op = 2
                /\ Head(wireBA).word.ack_request = AP!Number(a) /\ Len(txA'.buffer) = acceptedA - a
            BY <1>9, <2>3 DEF ListensA
        <3>2. w.released = a /\ a \in v.released .. v.n
            <4> DEFINE n == acceptedA
                       l == Len(txA.buffer)
            <4>1. n \in Nat /\ l \in Nat /\ l <= n /\ a \in (n - l) .. n
                  /\ w.released = n - Len(txA'.buffer) /\ Len(txA'.buffer) = n - a
                  /\ v.released = n - l /\ v.n = n
                BY <1>6, <1>7, <3>1
            <4> HIDE DEF n, l
            <4> QED BY <4>1
        <3>3. /\ Head(v.back).word.op = 2 /\ w.released \in v.released .. v.n
              /\ Head(v.back).word.ack_request = AP!Number(w.released)
            BY <1>6, <3>1, <3>2
        <3> QED BY <1>5, <1>8, <2>1, <3>3, AP!SenderListens, EndParameters DEF w
    <2> QED BY <2>2, <2>3
<1>10. CASE ObeysA
    <2>1. PICK t \in (acceptedA - Len(txA.buffer) + 1) .. acceptedA :
             Head(wireBA).word.ack_request = AP!Number(t) /\ Len(txA'.scheduled) = acceptedA - t + 1
        BY <1>10 DEF ObeysA
    <2>2. /\ AP!Returns(v, w) /\ Head(v.back).word.op = 3 /\ v.ignore <= 1
          /\ w.released = v.released /\ w.first = TRUE /\ w.ignore = IgnoreWindow
        BY <1>5, <1>6, <1>10 DEF ObeysA, AP!Returns
    <2>3. /\ t \in (v.released + 1) .. v.n
          /\ Head(v.back).word.ack_request = AP!Number(t) /\ w.left = v.n - t + 1
        BY <1>6, <2>1
    <2> QED BY <1>5, <1>8, <2>2, <2>3, AP!SenderObeys, EndParameters DEF w
<1>11. CASE IdleA
    <2>1. w = v
        BY <1>2, <1>3, <1>4, <1>11 DEF v, w, ViewToB, IdleA
    <2> QED BY <1>8, <2>1 DEF w
<1> QED BY <1>1, <1>9, <1>10, <1>11, TransmitterHearsA
-----------------------------------------------------------------------------
(* End B sends a flit. *)

SentFromB(flit, offered) ==
    /\ wireBA' = Append(wireBA, flit)
    /\ BP!Send(offered, acceptedB + 1, groupPos = 0)
    /\ flit.word = BP!OutgoingWord(offered, acceptedB + 1, groupPos = 0)
    /\ flit.content = IF BP!HasPayload(offered)
                      THEN BP!CarriedEntry(offered, acceptedB + 1).payload ELSE NoContent
    /\ acceptedB' = IF BP!AcceptsOffer(offered) THEN acceptedB + 1 ELSE acceptedB

LEMMA SentFlitB ==
    ASSUME LinkInv, SendFromB
    PROVE  /\ UNCHANGED <<txA, rxA, schedA, rxB, wireAB, acceptedA, deliveredA, deliveredB>>
           /\ \E flit \in AP!Flit, offered \in BOOLEAN : SentFromB(flit, offered)
<1> DEFINE offered == acceptedB < OfferB
           p == acceptedB + 1
           flit == [word |-> B!OutgoingWord(offered, p, NewGroup),
                    content |-> IF B!HasPayload(offered) THEN B!CarriedEntry(offered, p).payload
                                ELSE NoContent]
<1>1. /\ B!Send(offered, p, NewGroup)
      /\ acceptedB' = IF B!AcceptsOffer(offered) THEN p ELSE acceptedB
      /\ wireBA' = Append(wireBA, flit)
    BY DEF SendFromB
<1>2. /\ BP!Send(offered, p, NewGroup)
      /\ B!OutgoingWord(offered, p, NewGroup) = BP!OutgoingWord(offered, p, NewGroup)
      /\ B!CarriedEntry(offered, p) = BP!CarriedEntry(offered, p)
      /\ B!AcceptsOffer(offered) <=> BP!AcceptsOffer(offered)
      /\ B!HasPayload(offered) <=> BP!HasPayload(offered)
    <2> HIDE DEF offered, p
    <2> QED BY <1>1, SameSendB
<1>3. UNCHANGED <<txA, rxA, schedA, rxB, wireAB, acceptedA, deliveredA, deliveredB>>
    <2>1. rxB' = rxB
        BY <1>2 DEF BP!Send
    <2> QED BY <2>1 DEF SendFromB, endA
<1>4. SentFromB(flit, offered)
    <2>1. /\ flit.word = BP!OutgoingWord(offered, p, NewGroup)
          /\ flit.content = IF BP!HasPayload(offered)
                            THEN BP!CarriedEntry(offered, p).payload ELSE NoContent
        BY <1>2
    <2> HIDE DEF offered, flit
    <2> QED BY <1>1, <1>2, <2>1 DEF SentFromB, NewGroup
<1>5. flit \in AP!Flit
    <2> HIDE DEF flit
    <2>1. wireBA \in Seq(AP!Flit) /\ wireBA' \in Seq(AP!Flit) /\ wireBA' = Append(wireBA, flit)
        BY <1>1, SendIsStepB DEF LinkInv
    <2>2. Len(wireBA') = Len(wireBA) + 1 /\ wireBA'[Len(wireBA) + 1] = flit
        BY <2>1
    <2>3. Len(wireBA) + 1 \in 1 .. Len(wireBA')
        BY <2>1, <2>2
    <2> QED BY <2>1, <2>2, <2>3, ElementOfSeq
<1>6. offered \in BOOLEAN
    OBVIOUS
<1> HIDE DEF flit, offered
<1> QED BY <1>3, <1>4, <1>5, <1>6

LEMMA NumberedSentB ==
    ASSUME LinkInv, Clock, NumberedB, SendFromB, NEW flit \in AP!Flit, NEW offered \in BOOLEAN,
           SentFromB(flit, offered)
    PROVE  /\ BP!NumberedTx(txB', acceptedB')
           /\ acceptedB' - Len(txB'.buffer) = acceptedB - Len(txB.buffer)
           /\ acceptedB' >= acceptedB
           /\ txB'.ignore_count = txB.ignore_count /\ ~txB'.first_replay
           /\ AP!Carries(flit, acceptedB' - Len(txB'.scheduled))
           /\ acceptedB' - Len(txB'.scheduled) = acceptedB - Len(txB.scheduled) + AP!Step(flit.word)
           /\ txB.first_replay => AP!Answers(flit)
<1> DEFINE p == acceptedB + 1
           word == flit.word
           k == acceptedB' - Len(txB'.scheduled)
<1>1. /\ BP!SchedInv /\ BP!NumberedTx(txB, acceptedB) /\ acceptedB \in Nat
      /\ (groupPos = 0) \in BOOLEAN
    BY EndFieldsB
<1>2. /\ BP!Send(offered, p, groupPos = 0)
      /\ word = BP!OutgoingWord(offered, p, groupPos = 0)
      /\ flit.content = IF BP!HasPayload(offered)
                        THEN BP!CarriedEntry(offered, p).payload ELSE NoContent
      /\ acceptedB' = IF BP!AcceptsOffer(offered) THEN p ELSE acceptedB
    BY DEF SentFromB
<1>3. /\ BP!NumberedTx(txB', acceptedB')
      /\ acceptedB' - Len(txB'.buffer) = acceptedB - Len(txB.buffer)
      /\ txB'.ignore_count = txB.ignore_count /\ ~txB'.first_replay
      /\ word.payload <=> BP!HasPayload(offered)
      /\ BP!Labelled(word, k)
      /\ k = acceptedB - Len(txB.scheduled) + BP!Step(word)
      /\ BP!HasPayload(offered) => BP!CarriedEntry(offered, p).payload = k
      /\ txB.first_replay => BP!IsExplicit(word) /\ BP!HasPayload(offered)
    <2> DEFINE n == acceptedB
               n1 == acceptedB'
               g == groupPos = 0
    <2>1. /\ BP!SchedInv /\ n \in Nat /\ BP!NumberedTx(txB, n) /\ g \in BOOLEAN
          /\ BP!Send(offered, n + 1, g)
          /\ BP!AcceptsOffer(offered) => n1 = n + 1
          /\ ~BP!AcceptsOffer(offered) => n1 = n
          /\ word = BP!OutgoingWord(offered, n + 1, g)
          /\ k = n1 - Len(txB'.scheduled)
        BY <1>1, <1>2
    <2> HIDE DEF word, k, n, n1, g
    <2>2. /\ BP!NumberedTx(txB', n1)
          /\ n1 - Len(txB'.buffer) = n - Len(txB.buffer)
          /\ txB'.ignore_count = txB.ignore_count /\ ~txB'.first_replay
          /\ word.payload <=> BP!HasPayload(offered)
          /\ BP!Labelled(word, k)
          /\ k = n - Len(txB.scheduled) + BP!Step(word)
          /\ BP!HasPayload(offered) => BP!CarriedEntry(offered, n + 1).payload = k
          /\ txB.first_replay => BP!IsExplicit(word) /\ BP!HasPayload(offered)
        BY <2>1, EndParameters, BP!SendNumbered
    <2> QED BY <2>2 DEF n, n1
<1>4. acceptedB' >= acceptedB
    BY <1>1, <1>2
<1>5. AP!Carries(flit, k)
    BY <1>2, <1>3, SameTheoryB DEF AP!Carries
<1>6. txB.first_replay => AP!Answers(flit)
    BY <1>3, SameTheoryB DEF AP!Answers
<1> QED BY <1>3, <1>4, <1>5, <1>6, SameTheoryB

LEMMA NumberedAfterSendB ==
    ASSUME LinkInv, Clock, NumberedB, SendFromB
    PROVE  NumberedB'
<1>1. PICK flit \in AP!Flit, offered \in BOOLEAN : SentFromB(flit, offered)
    BY SentFlitB
<1>2. BP!NumberedTx(txB', acceptedB') /\ ~txB'.first_replay
    BY <1>1, NumberedSentB
<1> QED BY <1>2 DEF NumberedB, BP!FirstReplayIsFresh

\* The direction from an end, when that end sends.
LEMMA SenderSendsB ==
    ASSUME LinkInv, LinkInv', Framed, Framed', SendFromB, AP!DirectionOK(ViewToA)
    PROVE  AP!DirectionOK(ViewToA')
<1> DEFINE v == ViewToA
           w == ViewToA'
<1>1. Clock /\ NumberedB
    BY DEF Framed
<1>2. PICK flit \in AP!Flit, offered \in BOOLEAN : SentFromB(flit, offered)
    BY SentFlitB
<1>3. UNCHANGED <<txA, rxA, schedA, wireAB, deliveredA>>
    BY SentFlitB
<1>4. HeardA' = HeardA /\ PosA' = PosA
    BY <1>1, ClockSendB DEF HeardA
<1>5. SendsA' = SendsA
    BY <1>3, <1>4 DEF SendsA
<1>6. /\ acceptedB' - Len(txB'.buffer) = acceptedB - Len(txB.buffer)
      /\ acceptedB' >= acceptedB
      /\ txB'.ignore_count = txB.ignore_count /\ ~txB'.first_replay
      /\ AP!Carries(flit, acceptedB' - Len(txB'.scheduled))
      /\ acceptedB' - Len(txB'.scheduled) = acceptedB - Len(txB.scheduled) + AP!Step(flit.word)
      /\ txB.first_replay => AP!Answers(flit)
    BY <1>1, <1>2, NumberedSentB
<1>7. wireBA' = Append(wireBA, flit)
    BY <1>2 DEF SentFromB
<1>8. AP!DataSent(v, w, flit)
    BY <1>3, <1>4, <1>5, <1>6, <1>7, PlainViewToA, PrimedViewToA DEF AP!DataSent
<1>9. AP!Typed(w) /\ AP!DirectionOK(v)
    BY TypedViewNextToA
<1> HIDE DEF v, w
<1> QED BY <1>8, <1>9, AP!SenderSends, EndParameters DEF w

\* The direction towards an end, when that end sends.
LEMMA ReceiverSendsB ==
    ASSUME AP!TimingSuffices, LinkInv, LinkInv', Framed, Framed', SendFromB, AP!DirectionOK(ViewToB)
    PROVE  AP!DirectionOK(ViewToB')
<1> DEFINE v == ViewToB
           w == ViewToB'
           p == acceptedB + 1
<1>1. Clock /\ NumberedB
    BY DEF Framed
<1>2. PICK flit \in AP!Flit, offered \in BOOLEAN : SentFromB(flit, offered)
    BY SentFlitB
<1>3. UNCHANGED <<txA, rxB, wireAB, acceptedA, deliveredB>>
    BY SentFlitB
<1>4. /\ HeardB /\ ~HeardB' /\ PosB = groupPos
      /\ HeardB = TRUE /\ HeardB' = FALSE
      /\ PosB' = IF groupPos + 1 = GroupSpan THEN 0 ELSE groupPos + 1
    BY <1>1, ClockSendB DEF HeardB
<1>5. /\ BP!Send(offered, p, groupPos = 0) /\ wireBA' = Append(wireBA, flit)
      /\ flit.word = BP!OutgoingWord(offered, p, groupPos = 0)
    BY <1>2 DEF SentFromB
<1> DEFINE word == flit.word
<1>6. BP!SchedInv /\ BP!SchedInv'
    BY DEF LinkInv
<1>7. /\ word.op = 2 => word.ack_request = rxB.last_sequence
      /\ word.op = 3 <=> BP!RequestDueNow(groupPos = 0)
      /\ word.op = 3 => /\ word.ack_request = BP!RequestTarget
                        /\ schedB.replay_requests > 0
                        /\ schedB'.replay_requests = schedB.replay_requests - 1
                        /\ schedB'.replay_requests > 0 =>
                              schedB'.request_sequence = BP!RequestTarget
      /\ word.op # 3 => /\ schedB'.replay_requests = schedB.replay_requests
                        /\ schedB'.request_sequence = schedB.request_sequence
    <2> HIDE DEF p
    <2> QED BY <1>5, <1>6, EndParameters, BP!SendAnswers
<1>8. schedB.replay_requests > 0 =>
        /\ SendsB' <= SendsB - 1
        /\ word.op = 3 /\ schedB'.replay_requests > 0 => SendsB' <= AP!Span
    <2>1. BP!FirstReplayIsFresh(txB) /\ ~txB'.first_replay /\ txB'.ignore_count = txB.ignore_count
        BY <1>1, <1>2, NumberedSentB DEF NumberedB
    <2>2. SendsB = BP!SendsLeft(txB, schedB, TRUE, groupPos, GroupSpan)
          /\ SendsB' = BP!SendsLeft(txB', schedB', FALSE, PosB', GroupSpan)
        BY <1>4 DEF SendsB
    <2>3. GroupSpan \in Nat \ {0} /\ groupPos \in 0 .. (GroupSpan - 1)
          /\ ExplicitPeriod >= 2 /\ IgnoreWindow >= 2
        BY <1>1, LinkAssumption DEF Clock, AP!TimingSuffices
    <2>4. ASSUME schedB.replay_requests > 0
          PROVE  /\ BP!SendsLeft(txB', schedB', FALSE, PosB', GroupSpan)
                      <= BP!SendsLeft(txB, schedB, TRUE, groupPos, GroupSpan) - 1
                 /\ BP!RequestDueNow(groupPos = 0) /\ schedB'.replay_requests > 0 =>
                      BP!SendsLeft(txB', schedB', FALSE, PosB', GroupSpan) <= BP!SpanOf(GroupSpan)
        <3> HIDE DEF p
        <3> QED BY <1>4, <1>5, <1>6, <2>1, <2>3, <2>4, EndParameters, BP!SendsAfterSend
    <2> QED BY <1>7, <2>2, <2>4, SameTheoryB
<1>9. BP!RequestTarget = IF schedB.replay_requests = RequestCopies
                         THEN AP!NextSeq(rxB.last_sequence) ELSE schedB.request_sequence
    BY SameTheoryB DEF BP!RequestTarget
<1>10. AP!AnswerSent(v, w, flit)
    BY <1>3, <1>4, <1>5, <1>7, <1>8, <1>9, PlainViewToB, PrimedViewToB DEF AP!AnswerSent
<1>11. AP!Typed(w) /\ AP!DirectionOK(v)
    BY TypedViewNextToB
<1> HIDE DEF v, w
<1> QED BY <1>10, <1>11, AP!ReceiverSends, EndParameters DEF w

-----------------------------------------------------------------------------
(* End A sends a flit. *)

SentFromA(flit, offered) ==
    /\ wireAB' = Append(wireAB, flit)
    /\ AP!Send(offered, acceptedA + 1, groupPos = 0)
    /\ flit.word = AP!OutgoingWord(offered, acceptedA + 1, groupPos = 0)
    /\ flit.content = IF AP!HasPayload(offered)
                      THEN AP!CarriedEntry(offered, acceptedA + 1).payload ELSE NoContent
    /\ acceptedA' = IF AP!AcceptsOffer(offered) THEN acceptedA + 1 ELSE acceptedA

LEMMA SentFlitA ==
    ASSUME LinkInv, SendFromA
    PROVE  /\ UNCHANGED <<txB, rxB, schedB, rxA, wireBA, acceptedB, deliveredB, deliveredA>>
           /\ \E flit \in AP!Flit, offered \in BOOLEAN : SentFromA(flit, offered)
<1> DEFINE offered == acceptedA < OfferA
           p == acceptedA + 1
           flit == [word |-> A!OutgoingWord(offered, p, NewGroup),
                    content |-> IF A!HasPayload(offered) THEN A!CarriedEntry(offered, p).payload
                                ELSE NoContent]
<1>1. /\ A!Send(offered, p, NewGroup)
      /\ acceptedA' = IF A!AcceptsOffer(offered) THEN p ELSE acceptedA
      /\ wireAB' = Append(wireAB, flit)
    BY DEF SendFromA
<1>2. /\ AP!Send(offered, p, NewGroup)
      /\ A!OutgoingWord(offered, p, NewGroup) = AP!OutgoingWord(offered, p, NewGroup)
      /\ A!CarriedEntry(offered, p) = AP!CarriedEntry(offered, p)
      /\ A!AcceptsOffer(offered) <=> AP!AcceptsOffer(offered)
      /\ A!HasPayload(offered) <=> AP!HasPayload(offered)
    <2> HIDE DEF offered, p
    <2> QED BY <1>1, SameSendA
<1>3. UNCHANGED <<txB, rxB, schedB, rxA, wireBA, acceptedB, deliveredB, deliveredA>>
    <2>1. rxA' = rxA
        BY <1>2 DEF AP!Send
    <2> QED BY <2>1 DEF SendFromA, endB
<1>4. SentFromA(flit, offered)
    <2>1. /\ flit.word = AP!OutgoingWord(offered, p, NewGroup)
          /\ flit.content = IF AP!HasPayload(offered)
                            THEN AP!CarriedEntry(offered, p).payload ELSE NoContent
        BY <1>2
    <2> HIDE DEF offered, flit
    <2> QED BY <1>1, <1>2, <2>1 DEF SentFromA, NewGroup
<1>5. flit \in AP!Flit
    <2> HIDE DEF flit
    <2>1. wireAB \in Seq(AP!Flit) /\ wireAB' \in Seq(AP!Flit) /\ wireAB' = Append(wireAB, flit)
        BY <1>1, SendIsStepA DEF LinkInv
    <2>2. Len(wireAB') = Len(wireAB) + 1 /\ wireAB'[Len(wireAB) + 1] = flit
        BY <2>1
    <2>3. Len(wireAB) + 1 \in 1 .. Len(wireAB')
        BY <2>1, <2>2
    <2> QED BY <2>1, <2>2, <2>3, ElementOfSeq
<1>6. offered \in BOOLEAN
    OBVIOUS
<1> HIDE DEF flit, offered
<1> QED BY <1>3, <1>4, <1>5, <1>6

LEMMA NumberedSentA ==
    ASSUME LinkInv, Clock, NumberedA, SendFromA, NEW flit \in AP!Flit, NEW offered \in BOOLEAN,
           SentFromA(flit, offered)
    PROVE  /\ AP!NumberedTx(txA', acceptedA')
           /\ acceptedA' - Len(txA'.buffer) = acceptedA - Len(txA.buffer)
           /\ acceptedA' >= acceptedA
           /\ txA'.ignore_count = txA.ignore_count /\ ~txA'.first_replay
           /\ AP!Carries(flit, acceptedA' - Len(txA'.scheduled))
           /\ acceptedA' - Len(txA'.scheduled) = acceptedA - Len(txA.scheduled) + AP!Step(flit.word)
           /\ txA.first_replay => AP!Answers(flit)
<1> DEFINE p == acceptedA + 1
           word == flit.word
           k == acceptedA' - Len(txA'.scheduled)
<1>1. /\ AP!SchedInv /\ AP!NumberedTx(txA, acceptedA) /\ acceptedA \in Nat
      /\ (groupPos = 0) \in BOOLEAN
    BY EndFieldsA
<1>2. /\ AP!Send(offered, p, groupPos = 0)
      /\ word = AP!OutgoingWord(offered, p, groupPos = 0)
      /\ flit.content = IF AP!HasPayload(offered)
                        THEN AP!CarriedEntry(offered, p).payload ELSE NoContent
      /\ acceptedA' = IF AP!AcceptsOffer(offered) THEN p ELSE acceptedA
    BY DEF SentFromA
<1>3. /\ AP!NumberedTx(txA', acceptedA')
      /\ acceptedA' - Len(txA'.buffer) = acceptedA - Len(txA.buffer)
      /\ txA'.ignore_count = txA.ignore_count /\ ~txA'.first_replay
      /\ word.payload <=> AP!HasPayload(offered)
      /\ AP!Labelled(word, k)
      /\ k = acceptedA - Len(txA.scheduled) + AP!Step(word)
      /\ AP!HasPayload(offered) => AP!CarriedEntry(offered, p).payload = k
      /\ txA.first_replay => AP!IsExplicit(word) /\ AP!HasPayload(offered)
    <2> DEFINE n == acceptedA
               n1 == acceptedA'
               g == groupPos = 0
    <2>1. /\ AP!SchedInv /\ n \in Nat /\ AP!NumberedTx(txA, n) /\ g \in BOOLEAN
          /\ AP!Send(offered, n + 1, g)
          /\ AP!AcceptsOffer(offered) => n1 = n + 1
          /\ ~AP!AcceptsOffer(offered) => n1 = n
          /\ word = AP!OutgoingWord(offered, n + 1, g)
          /\ k = n1 - Len(txA'.scheduled)
        BY <1>1, <1>2
    <2> HIDE DEF word, k, n, n1, g
    <2>2. /\ AP!NumberedTx(txA', n1)
          /\ n1 - Len(txA'.buffer) = n - Len(txA.buffer)
          /\ txA'.ignore_count = txA.ignore_count /\ ~txA'.first_replay
          /\ word.payload <=> AP!HasPayload(offered)
          /\ AP!Labelled(word, k)
          /\ k = n - Len(txA.scheduled) + AP!Step(word)
          /\ AP!HasPayload(offered) => AP!CarriedEntry(offered, n + 1).payload = k
          /\ txA.first_replay => AP!IsExplicit(word) /\ AP!HasPayload(offered)
        BY <2>1, EndParameters, AP!SendNumbered
    <2> QED BY <2>2 DEF n, n1
<1>4. acceptedA' >= acceptedA
    BY <1>1, <1>2
<1>5. AP!Carries(flit, k)
    BY <1>2, <1>3 DEF AP!Carries
<1>6. txA.first_replay => AP!Answers(flit)
    BY <1>3 DEF AP!Answers
<1> QED BY <1>3, <1>4, <1>5, <1>6

LEMMA NumberedAfterSendA ==
    ASSUME LinkInv, Clock, NumberedA, SendFromA
    PROVE  NumberedA'
<1>1. PICK flit \in AP!Flit, offered \in BOOLEAN : SentFromA(flit, offered)
    BY SentFlitA
<1>2. AP!NumberedTx(txA', acceptedA') /\ ~txA'.first_replay
    BY <1>1, NumberedSentA
<1> QED BY <1>2 DEF NumberedA, AP!FirstReplayIsFresh

\* The direction from an end, when that end sends.
LEMMA SenderSendsA ==
    ASSUME LinkInv, LinkInv', Framed, Framed', SendFromA, AP!DirectionOK(ViewToB)
    PROVE  AP!DirectionOK(ViewToB')
<1> DEFINE v == ViewToB
           w == ViewToB'
<1>1. Clock /\ NumberedA
    BY DEF Framed
<1>2. PICK flit \in AP!Flit, offered \in BOOLEAN : SentFromA(flit, offered)
    BY SentFlitA
<1>3. UNCHANGED <<txB, rxB, schedB, wireBA, deliveredB>>
    BY SentFlitA
<1>4. HeardB' = HeardB /\ PosB' = PosB
    BY <1>1, ClockSendA DEF HeardB
<1>5. SendsB' = SendsB
    BY <1>3, <1>4 DEF SendsB
<1>6. /\ acceptedA' - Len(txA'.buffer) = acceptedA - Len(txA.buffer)
      /\ acceptedA' >= acceptedA
      /\ txA'.ignore_count = txA.ignore_count /\ ~txA'.first_replay
      /\ AP!Carries(flit, acceptedA' - Len(txA'.scheduled))
      /\ acceptedA' - Len(txA'.scheduled) = acceptedA - Len(txA.scheduled) + AP!Step(flit.word)
      /\ txA.first_replay => AP!Answers(flit)
    BY <1>1, <1>2, NumberedSentA
<1>7. wireAB' = Append(wireAB, flit)
    BY <1>2 DEF SentFromA
<1>8. AP!DataSent(v, w, flit)
    BY <1>3, <1>4, <1>5, <1>6, <1>7, PlainViewToB, PrimedViewToB DEF AP!DataSent
<1>9. AP!Typed(w) /\ AP!DirectionOK(v)
    BY TypedViewNextToB
<1> HIDE DEF v, w
<1> QED BY <1>8, <1>9, AP!SenderSends, EndParameters DEF w

\* The direction towards an end, when that end sends.
LEMMA ReceiverSendsA ==
    ASSUME AP!TimingSuffices, LinkInv, LinkInv', Framed, Framed', SendFromA, AP!DirectionOK(ViewToA)
    PROVE  AP!DirectionOK(ViewToA')
<1> DEFINE v == ViewToA
           w == ViewToA'
           p == acceptedA + 1
<1>1. Clock /\ NumberedA
    BY DEF Framed
<1>2. PICK flit \in AP!Flit, offered \in BOOLEAN : SentFromA(flit, offered)
    BY SentFlitA
<1>3. UNCHANGED <<txB, rxA, wireBA, acceptedB, deliveredA>>
    BY SentFlitA
<1>4. /\ HeardA /\ ~HeardA' /\ PosA = groupPos
      /\ HeardA = TRUE /\ HeardA' = FALSE
      /\ PosA' = IF groupPos + 1 = GroupSpan THEN 0 ELSE groupPos + 1
    BY <1>1, ClockSendA DEF HeardA
<1>5. /\ AP!Send(offered, p, groupPos = 0) /\ wireAB' = Append(wireAB, flit)
      /\ flit.word = AP!OutgoingWord(offered, p, groupPos = 0)
    BY <1>2 DEF SentFromA
<1> DEFINE word == flit.word
<1>6. AP!SchedInv /\ AP!SchedInv'
    BY DEF LinkInv
<1>7. /\ word.op = 2 => word.ack_request = rxA.last_sequence
      /\ word.op = 3 <=> AP!RequestDueNow(groupPos = 0)
      /\ word.op = 3 => /\ word.ack_request = AP!RequestTarget
                        /\ schedA.replay_requests > 0
                        /\ schedA'.replay_requests = schedA.replay_requests - 1
                        /\ schedA'.replay_requests > 0 =>
                              schedA'.request_sequence = AP!RequestTarget
      /\ word.op # 3 => /\ schedA'.replay_requests = schedA.replay_requests
                        /\ schedA'.request_sequence = schedA.request_sequence
    <2> HIDE DEF p
    <2> QED BY <1>5, <1>6, EndParameters, AP!SendAnswers
<1>8. schedA.replay_requests > 0 =>
        /\ SendsA' <= SendsA - 1
        /\ word.op = 3 /\ schedA'.replay_requests > 0 => SendsA' <= AP!Span
    <2>1. AP!FirstReplayIsFresh(txA) /\ ~txA'.first_replay /\ txA'.ignore_count = txA.ignore_count
        BY <1>1, <1>2, NumberedSentA DEF NumberedA
    <2>2. SendsA = AP!SendsLeft(txA, schedA, TRUE, groupPos, GroupSpan)
          /\ SendsA' = AP!SendsLeft(txA', schedA', FALSE, PosA', GroupSpan)
        BY <1>4 DEF SendsA
    <2>3. GroupSpan \in Nat \ {0} /\ groupPos \in 0 .. (GroupSpan - 1)
          /\ ExplicitPeriod >= 2 /\ IgnoreWindow >= 2
        BY <1>1, LinkAssumption DEF Clock, AP!TimingSuffices
    <2>4. ASSUME schedA.replay_requests > 0
          PROVE  /\ AP!SendsLeft(txA', schedA', FALSE, PosA', GroupSpan)
                      <= AP!SendsLeft(txA, schedA, TRUE, groupPos, GroupSpan) - 1
                 /\ AP!RequestDueNow(groupPos = 0) /\ schedA'.replay_requests > 0 =>
                      AP!SendsLeft(txA', schedA', FALSE, PosA', GroupSpan) <= AP!SpanOf(GroupSpan)
        <3> HIDE DEF p
        <3> QED BY <1>4, <1>5, <1>6, <2>1, <2>3, <2>4, EndParameters, AP!SendsAfterSend
    <2> QED BY <1>7, <2>2, <2>4, SpansA
<1>9. AP!RequestTarget = IF schedA.replay_requests = RequestCopies
                         THEN AP!NextSeq(rxA.last_sequence) ELSE schedA.request_sequence
    BY SpansA DEF AP!RequestTarget
<1>10. AP!AnswerSent(v, w, flit)
    BY <1>3, <1>4, <1>5, <1>7, <1>8, <1>9, PlainViewToA, PrimedViewToA DEF AP!AnswerSent
<1>11. AP!Typed(w) /\ AP!DirectionOK(v)
    BY TypedViewNextToA
<1> HIDE DEF v, w
<1> QED BY <1>10, <1>11, AP!ReceiverSends, EndParameters DEF w
-----------------------------------------------------------------------------
(* The link delivers. *)

\* With LinkInv, the inductive invariant.
DeliveryInv ==
    /\ Framed
    /\ DeliveredInOrderA /\ DeliveredInOrderB
    /\ AP!DirectionOK(ViewToA) /\ AP!DirectionOK(ViewToB)
-----------------------------------------------------------------------------
(* Each step at end B, seen from both directions. *)

LEMMA FramedArriveB ==
    ASSUME LinkInv, LinkInv', Framed, ArriveAtB
    PROVE  Framed'
<1>1. Clock /\ Wires /\ NumberedA /\ NumberedB
      /\ deliveredA \in Seq(Nat) /\ deliveredB \in Seq(Nat)
    BY DEF Framed
<1>2. Clock' /\ Wires' /\ NumberedB' /\ (HeardA' <=> HeardA)
    BY <1>1, ClockArriveB, WiresStep, NumberedAfterArrivalB DEF Next
<1>3. acceptedA' = acceptedA /\ txA' = txA /\ deliveredA' = deliveredA
    BY ArrivalKindsB
<1>4. NumberedA'
    BY <1>1, <1>2, <1>3 DEF NumberedA
<1>5. deliveredB' \in Seq(Nat)
    <2>1. CASE IdleB \/ LosesB
        BY <1>1, <2>1 DEF IdleB, LosesB
    <2>2. CASE LegalAtB /\ HearsB
        <3>1. Head(wireAB).content \in Nat
            BY <2>2, LinkAssumption DEF LegalAtB, AP!Flit, NoContent, Numbered
        <3> QED BY <1>1, <2>2, <3>1, AppendProperties DEF HearsB
    <2> QED BY <2>1, <2>2, ArrivalKindsB
<1>6. deliveredA' \in Seq(Nat)
    BY <1>1, <1>3
<1> QED BY <1>2, <1>4, <1>5, <1>6 DEF Framed

LEMMA FramedSendB ==
    ASSUME LinkInv, LinkInv', Framed, SendFromB
    PROVE  Framed'
<1>1. Clock /\ Wires /\ NumberedA /\ NumberedB
      /\ deliveredA \in Seq(Nat) /\ deliveredB \in Seq(Nat)
    BY DEF Framed
<1>2. Clock' /\ Wires' /\ NumberedB' /\ (HeardA' <=> HeardA)
    BY <1>1, ClockSendB, WiresStep, NumberedAfterSendB DEF Next
<1>3. acceptedA' = acceptedA /\ txA' = txA /\ deliveredA' = deliveredA /\ deliveredB' = deliveredB
    BY SentFlitB
<1>4. NumberedA'
    BY <1>1, <1>2, <1>3 DEF NumberedA
<1>5. deliveredA' \in Seq(Nat) /\ deliveredB' \in Seq(Nat)
    BY <1>1, <1>3
<1> QED BY <1>2, <1>4, <1>5 DEF Framed

\* What a step at end B may do to the payloads.
LEMMA ArriveKeepsB ==
    ASSUME AP!TimingSuffices, LinkInv, LinkInv', DeliveryInv, ArriveAtB
    PROVE  /\ DeliveryInv'
           /\ UNCHANGED <<acceptedA, acceptedB, deliveredA>>
           /\ deliveredB' = deliveredB \/ deliveredB' = Append(deliveredB, Len(deliveredB) + 1)
<1>1. /\ Framed /\ DeliveredInOrderA /\ DeliveredInOrderB
      /\ AP!DirectionOK(ViewToA) /\ AP!DirectionOK(ViewToB)
    BY DEF DeliveryInv
<1>2. Framed'
    BY <1>1, FramedArriveB
<1>3. UNCHANGED <<acceptedA, acceptedB, deliveredA>>
    BY ArrivalKindsB
<1>4. /\ AP!DirectionOK(ViewToB') /\ DeliveredInOrderB'
      /\ deliveredB' = deliveredB \/ deliveredB' = Append(deliveredB, Len(deliveredB) + 1)
    BY <1>1, <1>2, ReceiverHearsB
<1>5. AP!DirectionOK(ViewToA')
    BY <1>1, <1>2, SenderHearsB
<1>6. DeliveredInOrderA'
    BY <1>1, <1>3 DEF DeliveredInOrderA
<1>7. DeliveryInv'
    BY <1>2, <1>4, <1>5, <1>6 DEF DeliveryInv
<1> QED BY <1>3, <1>4, <1>7

LEMMA SendKeepsB ==
    ASSUME AP!TimingSuffices, LinkInv, LinkInv', DeliveryInv, SendFromB
    PROVE  /\ DeliveryInv'
           /\ UNCHANGED <<acceptedA, deliveredA, deliveredB>>
           /\ acceptedB' = acceptedB \/ acceptedB' = acceptedB + 1
<1>1. /\ Framed /\ DeliveredInOrderA /\ DeliveredInOrderB
      /\ AP!DirectionOK(ViewToA) /\ AP!DirectionOK(ViewToB)
    BY DEF DeliveryInv
<1>2. Framed'
    BY <1>1, FramedSendB
<1>3. UNCHANGED <<acceptedA, deliveredA, deliveredB>>
    BY SentFlitB
<1>4. AP!DirectionOK(ViewToB')
    BY <1>1, <1>2, ReceiverSendsB
<1>5. AP!DirectionOK(ViewToA')
    BY <1>1, <1>2, SenderSendsB
<1>6. DeliveredInOrderA' /\ DeliveredInOrderB'
    BY <1>1, <1>3 DEF DeliveredInOrderA, DeliveredInOrderB
<1>7. DeliveryInv'
    BY <1>2, <1>4, <1>5, <1>6 DEF DeliveryInv
<1>8. acceptedB' = acceptedB \/ acceptedB' = acceptedB + 1
    <2>1. PICK flit \in AP!Flit, offered \in BOOLEAN : SentFromB(flit, offered)
        BY SentFlitB
    <2> QED BY <2>1 DEF SentFromB
<1> QED BY <1>3, <1>7, <1>8

\* No payload has been accepted yet.
LEMMA NumberedAtStartB ==
    ASSUME Init
    PROVE  /\ NumberedB /\ deliveredB = <<>> /\ acceptedB = 0
           /\ txB.buffer = <<>> /\ txB.scheduled = <<>> /\ txB.first_replay = FALSE
           /\ txB.ignore_count = 0
           /\ schedB.replay_requests = 0 /\ rxB.last_sequence = AP!Number(0)
           /\ ~rxB.replay /\ rxB.bad_crc_count = 0
<1>1. BP!SchedInit /\ acceptedB = 0 /\ deliveredB = <<>>
    BY StartB DEF Init
<1>2. /\ txB.buffer = <<>> /\ txB.scheduled = <<>> /\ txB.first_replay = FALSE
      /\ txB.ignore_count = 0 /\ txB.last_sequence = MaxSeq /\ txB.last_ack = MaxSeq
      /\ rxB.last_sequence = MaxSeq /\ rxB.replay = FALSE /\ rxB.bad_crc_count = 0
      /\ schedB.replay_requests = 0
    BY <1>1 DEF BP!SchedInit, BP!TxInit, BP!TxReset, BP!RxInit, BP!Fresh, BP!SchedReset
<1>3. BP!Number(0) = MaxSeq
    BY EndParameters, BP!NumberOfNone
<1>4. BP!NumberedTx(txB, 0)
    <2>1. Len(txB.buffer) = 0 /\ Len(txB.scheduled) = 0
        BY <1>2, EmptySeq
    <2> QED BY <1>2, <1>3, <2>1 DEF BP!NumberedTx, BP!EndsWith
<1>5. NumberedB
    BY <1>1, <1>2, <1>4 DEF NumberedB, BP!FirstReplayIsFresh
<1> QED BY <1>1, <1>2, <1>3, <1>5, SameTheoryB

-----------------------------------------------------------------------------
(* Each step at end A, seen from both directions. *)

LEMMA FramedArriveA ==
    ASSUME LinkInv, LinkInv', Framed, ArriveAtA
    PROVE  Framed'
<1>1. Clock /\ Wires /\ NumberedB /\ NumberedA
      /\ deliveredB \in Seq(Nat) /\ deliveredA \in Seq(Nat)
    BY DEF Framed
<1>2. Clock' /\ Wires' /\ NumberedA' /\ (HeardB' <=> HeardB)
    BY <1>1, ClockArriveA, WiresStep, NumberedAfterArrivalA DEF Next
<1>3. acceptedB' = acceptedB /\ txB' = txB /\ deliveredB' = deliveredB
    BY ArrivalKindsA
<1>4. NumberedB'
    BY <1>1, <1>2, <1>3 DEF NumberedB
<1>5. deliveredA' \in Seq(Nat)
    <2>1. CASE IdleA \/ LosesA
        BY <1>1, <2>1 DEF IdleA, LosesA
    <2>2. CASE LegalAtA /\ HearsA
        <3>1. Head(wireBA).content \in Nat
            BY <2>2, LinkAssumption DEF LegalAtA, AP!Flit, NoContent, Numbered
        <3> QED BY <1>1, <2>2, <3>1, AppendProperties DEF HearsA
    <2> QED BY <2>1, <2>2, ArrivalKindsA
<1>6. deliveredB' \in Seq(Nat)
    BY <1>1, <1>3
<1> QED BY <1>2, <1>4, <1>5, <1>6 DEF Framed

LEMMA FramedSendA ==
    ASSUME LinkInv, LinkInv', Framed, SendFromA
    PROVE  Framed'
<1>1. Clock /\ Wires /\ NumberedB /\ NumberedA
      /\ deliveredB \in Seq(Nat) /\ deliveredA \in Seq(Nat)
    BY DEF Framed
<1>2. Clock' /\ Wires' /\ NumberedA' /\ (HeardB' <=> HeardB)
    BY <1>1, ClockSendA, WiresStep, NumberedAfterSendA DEF Next
<1>3. acceptedB' = acceptedB /\ txB' = txB /\ deliveredB' = deliveredB /\ deliveredA' = deliveredA
    BY SentFlitA
<1>4. NumberedB'
    BY <1>1, <1>2, <1>3 DEF NumberedB
<1>5. deliveredB' \in Seq(Nat) /\ deliveredA' \in Seq(Nat)
    BY <1>1, <1>3
<1> QED BY <1>2, <1>4, <1>5 DEF Framed

\* What a step at end A may do to the payloads.
LEMMA ArriveKeepsA ==
    ASSUME AP!TimingSuffices, LinkInv, LinkInv', DeliveryInv, ArriveAtA
    PROVE  /\ DeliveryInv'
           /\ UNCHANGED <<acceptedB, acceptedA, deliveredB>>
           /\ deliveredA' = deliveredA \/ deliveredA' = Append(deliveredA, Len(deliveredA) + 1)
<1>1. /\ Framed /\ DeliveredInOrderB /\ DeliveredInOrderA
      /\ AP!DirectionOK(ViewToB) /\ AP!DirectionOK(ViewToA)
    BY DEF DeliveryInv
<1>2. Framed'
    BY <1>1, FramedArriveA
<1>3. UNCHANGED <<acceptedB, acceptedA, deliveredB>>
    BY ArrivalKindsA
<1>4. /\ AP!DirectionOK(ViewToA') /\ DeliveredInOrderA'
      /\ deliveredA' = deliveredA \/ deliveredA' = Append(deliveredA, Len(deliveredA) + 1)
    BY <1>1, <1>2, ReceiverHearsA
<1>5. AP!DirectionOK(ViewToB')
    BY <1>1, <1>2, SenderHearsA
<1>6. DeliveredInOrderB'
    BY <1>1, <1>3 DEF DeliveredInOrderB
<1>7. DeliveryInv'
    BY <1>2, <1>4, <1>5, <1>6 DEF DeliveryInv
<1> QED BY <1>3, <1>4, <1>7

LEMMA SendKeepsA ==
    ASSUME AP!TimingSuffices, LinkInv, LinkInv', DeliveryInv, SendFromA
    PROVE  /\ DeliveryInv'
           /\ UNCHANGED <<acceptedB, deliveredB, deliveredA>>
           /\ acceptedA' = acceptedA \/ acceptedA' = acceptedA + 1
<1>1. /\ Framed /\ DeliveredInOrderB /\ DeliveredInOrderA
      /\ AP!DirectionOK(ViewToB) /\ AP!DirectionOK(ViewToA)
    BY DEF DeliveryInv
<1>2. Framed'
    BY <1>1, FramedSendA
<1>3. UNCHANGED <<acceptedB, deliveredB, deliveredA>>
    BY SentFlitA
<1>4. AP!DirectionOK(ViewToA')
    BY <1>1, <1>2, ReceiverSendsA
<1>5. AP!DirectionOK(ViewToB')
    BY <1>1, <1>2, SenderSendsA
<1>6. DeliveredInOrderB' /\ DeliveredInOrderA'
    BY <1>1, <1>3 DEF DeliveredInOrderB, DeliveredInOrderA
<1>7. DeliveryInv'
    BY <1>2, <1>4, <1>5, <1>6 DEF DeliveryInv
<1>8. acceptedA' = acceptedA \/ acceptedA' = acceptedA + 1
    <2>1. PICK flit \in AP!Flit, offered \in BOOLEAN : SentFromA(flit, offered)
        BY SentFlitA
    <2> QED BY <2>1 DEF SentFromA
<1> QED BY <1>3, <1>7, <1>8

\* No payload has been accepted yet.
LEMMA NumberedAtStartA ==
    ASSUME Init
    PROVE  /\ NumberedA /\ deliveredA = <<>> /\ acceptedA = 0
           /\ txA.buffer = <<>> /\ txA.scheduled = <<>> /\ txA.first_replay = FALSE
           /\ txA.ignore_count = 0
           /\ schedA.replay_requests = 0 /\ rxA.last_sequence = AP!Number(0)
           /\ ~rxA.replay /\ rxA.bad_crc_count = 0
<1>1. AP!SchedInit /\ acceptedA = 0 /\ deliveredA = <<>>
    BY StartA DEF Init
<1>2. /\ txA.buffer = <<>> /\ txA.scheduled = <<>> /\ txA.first_replay = FALSE
      /\ txA.ignore_count = 0 /\ txA.last_sequence = MaxSeq /\ txA.last_ack = MaxSeq
      /\ rxA.last_sequence = MaxSeq /\ rxA.replay = FALSE /\ rxA.bad_crc_count = 0
      /\ schedA.replay_requests = 0
    BY <1>1 DEF AP!SchedInit, AP!TxInit, AP!TxReset, AP!RxInit, AP!Fresh, AP!SchedReset
<1>3. AP!Number(0) = MaxSeq
    BY EndParameters, AP!NumberOfNone
<1>4. AP!NumberedTx(txA, 0)
    <2>1. Len(txA.buffer) = 0 /\ Len(txA.scheduled) = 0
        BY <1>2, EmptySeq
    <2> QED BY <1>2, <1>3, <2>1 DEF AP!NumberedTx, AP!EndsWith
<1>5. NumberedA
    BY <1>1, <1>2, <1>4 DEF NumberedA, AP!FirstReplayIsFresh
<1> QED BY <1>1, <1>2, <1>3, <1>5

LEMMA DirectionAtStartB ==
    ASSUME Init, LinkInv, Framed
    PROVE  AP!DirectionOK(ViewToB)
<1> DEFINE v == ViewToB
           K == [i \in 0 .. 0 |-> 0]
           D == [i \in 1 .. 0 |-> 0]
<1>1. /\ acceptedA = 0 /\ txA.buffer = <<>> /\ txA.scheduled = <<>>
      /\ txA.first_replay = FALSE
      /\ deliveredB = <<>> /\ schedB.replay_requests = 0
      /\ rxB.last_sequence = AP!Number(0) /\ ~rxB.replay /\ rxB.bad_crc_count = 0
    BY NumberedAtStartA, NumberedAtStartB
<1>2. wireAB = <<>> /\ wireBA = <<>>
    BY DEF Init
<1>3. /\ v.n = acceptedA /\ v.released = acceptedA - Len(txA.buffer)
      /\ v.left = Len(txA.scheduled) /\ v.first = txA.first_replay
      /\ v.d = Len(deliveredB) /\ v.rx = rxB /\ v.pend = schedB.replay_requests
      /\ v.out = wireAB /\ v.back = wireBA
      /\ AP!Typed(v)
    BY PlainViewToB, TypedViewToB
<1> HIDE DEF v
<1>13. /\ Len(txA.buffer) = 0 /\ Len(txA.scheduled) = 0 /\ Len(deliveredB) = 0
       /\ Len(wireAB) = 0 /\ Len(wireBA) = 0
    BY <1>1, <1>2
<1>4. /\ v.n = 0 /\ v.released = 0 /\ v.left = 0 /\ v.first = FALSE /\ v.d = 0
      /\ v.pend = 0 /\ v.rx.last_sequence = AP!Number(0) /\ ~v.rx.replay
      /\ v.rx.bad_crc_count = 0
      /\ Len(v.out) = 0 /\ Len(v.back) = 0
    <2>1. v.n = 0 /\ v.left = 0 /\ v.d = 0 /\ Len(v.out) = 0 /\ Len(v.back) = 0
        BY <1>1, <1>3, <1>13
    <2>2. v.released = 0
        <3> DEFINE n == acceptedA
                   l == Len(txA.buffer)
        <3>1. v.released = n - l /\ n = 0 /\ l = 0
            BY <1>1, <1>3, <1>13
        <3> HIDE DEF n, l
        <3> QED BY <3>1
    <2>5. v.first = FALSE
        BY <1>1, <1>3
    <2>3. v.pend = 0
        BY <1>1, <1>3
    <2>4. v.rx.last_sequence = AP!Number(0) /\ ~v.rx.replay /\ v.rx.bad_crc_count = 0
        BY <1>1, <1>3
    <2> QED BY <2>1, <2>2, <2>3, <2>4, <2>5
<1>12. AP!ViewOK(v)
    BY <1>3, <1>4 DEF AP!ViewOK, AP!Placed
<1>5. K[0] = 0 /\ AP!FlowOK(v, K, 0)
    BY <1>4 DEF AP!FlowOK
<1>6. AP!HearingOK(v, K[0], 0)
    BY <1>4, <1>5 DEF AP!HearingOK
<1>7. AP!SendingOK(v, K, 0)
    BY <1>4, <1>5 DEF AP!SendingOK
<1>8. AP!RequestsOK(v, 0)
    BY <1>4 DEF AP!RequestsOK, AP!Quiet, AP!Pending
<1>9. AP!AcksOK(v, D)
    BY <1>4 DEF AP!AcksOK
<1>10. 0 \in Nat
    OBVIOUS
<1> HIDE DEF K, D
<1>11. AP!DirectionOK(v)
    BY <1>5, <1>6, <1>7, <1>8, <1>9, <1>10, <1>12 DEF AP!DirectionOK
<1> QED BY <1>11 DEF v

LEMMA DirectionAtStartA ==
    ASSUME Init, LinkInv, Framed
    PROVE  AP!DirectionOK(ViewToA)
<1> DEFINE v == ViewToA
           K == [i \in 0 .. 0 |-> 0]
           D == [i \in 1 .. 0 |-> 0]
<1>1. /\ acceptedB = 0 /\ txB.buffer = <<>> /\ txB.scheduled = <<>>
      /\ txB.first_replay = FALSE
      /\ deliveredA = <<>> /\ schedA.replay_requests = 0
      /\ rxA.last_sequence = AP!Number(0) /\ ~rxA.replay /\ rxA.bad_crc_count = 0
    BY NumberedAtStartB, NumberedAtStartA
<1>2. wireBA = <<>> /\ wireAB = <<>>
    BY DEF Init
<1>3. /\ v.n = acceptedB /\ v.released = acceptedB - Len(txB.buffer)
      /\ v.left = Len(txB.scheduled) /\ v.first = txB.first_replay
      /\ v.d = Len(deliveredA) /\ v.rx = rxA /\ v.pend = schedA.replay_requests
      /\ v.out = wireBA /\ v.back = wireAB
      /\ AP!Typed(v)
    BY PlainViewToA, TypedViewToA
<1> HIDE DEF v
<1>13. /\ Len(txB.buffer) = 0 /\ Len(txB.scheduled) = 0 /\ Len(deliveredA) = 0
       /\ Len(wireBA) = 0 /\ Len(wireAB) = 0
    BY <1>1, <1>2
<1>4. /\ v.n = 0 /\ v.released = 0 /\ v.left = 0 /\ v.first = FALSE /\ v.d = 0
      /\ v.pend = 0 /\ v.rx.last_sequence = AP!Number(0) /\ ~v.rx.replay
      /\ v.rx.bad_crc_count = 0
      /\ Len(v.out) = 0 /\ Len(v.back) = 0
    <2>1. v.n = 0 /\ v.left = 0 /\ v.d = 0 /\ Len(v.out) = 0 /\ Len(v.back) = 0
        BY <1>1, <1>3, <1>13
    <2>2. v.released = 0
        <3> DEFINE n == acceptedB
                   l == Len(txB.buffer)
        <3>1. v.released = n - l /\ n = 0 /\ l = 0
            BY <1>1, <1>3, <1>13
        <3> HIDE DEF n, l
        <3> QED BY <3>1
    <2>5. v.first = FALSE
        BY <1>1, <1>3
    <2>3. v.pend = 0
        BY <1>1, <1>3
    <2>4. v.rx.last_sequence = AP!Number(0) /\ ~v.rx.replay /\ v.rx.bad_crc_count = 0
        BY <1>1, <1>3
    <2> QED BY <2>1, <2>2, <2>3, <2>4, <2>5
<1>12. AP!ViewOK(v)
    BY <1>3, <1>4 DEF AP!ViewOK, AP!Placed
<1>5. K[0] = 0 /\ AP!FlowOK(v, K, 0)
    BY <1>4 DEF AP!FlowOK
<1>6. AP!HearingOK(v, K[0], 0)
    BY <1>4, <1>5 DEF AP!HearingOK
<1>7. AP!SendingOK(v, K, 0)
    BY <1>4, <1>5 DEF AP!SendingOK
<1>8. AP!RequestsOK(v, 0)
    BY <1>4 DEF AP!RequestsOK, AP!Quiet, AP!Pending
<1>9. AP!AcksOK(v, D)
    BY <1>4 DEF AP!AcksOK
<1>10. 0 \in Nat
    OBVIOUS
<1> HIDE DEF K, D
<1>11. AP!DirectionOK(v)
    BY <1>5, <1>6, <1>7, <1>8, <1>9, <1>10, <1>12 DEF AP!DirectionOK
<1> QED BY <1>11 DEF v
LEMMA DeliveryStart ==
    ASSUME Init
    PROVE  LinkInv /\ DeliveryInv
<1>1. LinkInv
    BY LinkStart
<1>2. /\ NumberedA /\ NumberedB /\ deliveredA = <<>> /\ deliveredB = <<>>
    BY NumberedAtStartA, NumberedAtStartB
<1>3. Clock /\ Wires
    BY LinkAssumption, EmptySeq DEF Init, Clock, Wires
<1>4. Framed
    BY <1>2, <1>3, EmptySeq DEF Framed
<1>5. DeliveredInOrderA /\ DeliveredInOrderB
    BY <1>2, EmptySeq DEF DeliveredInOrderA, DeliveredInOrderB
<1>6. AP!DirectionOK(ViewToA) /\ AP!DirectionOK(ViewToB)
    BY <1>1, <1>4, DirectionAtStartA, DirectionAtStartB
<1> QED BY <1>1, <1>4, <1>5, <1>6 DEF DeliveryInv

LEMMA DeliveryStep ==
    ASSUME AP!TimingSuffices, LinkInv, DeliveryInv, [Next]_vars
    PROVE  LinkInv' /\ DeliveryInv'
<1>1. LinkInv'
    BY LinkStep
<1>2. CASE ArriveAtA
    BY <1>1, <1>2, ArriveKeepsA
<1>3. CASE ArriveAtB
    BY <1>1, <1>3, ArriveKeepsB
<1>4. CASE SendFromA
    BY <1>1, <1>4, SendKeepsA
<1>5. CASE SendFromB
    BY <1>1, <1>5, SendKeepsB
<1>6. CASE UNCHANGED vars
    <2>1. UNCHANGED <<txA, rxA, schedA, txB, rxB, schedB, wireAB, wireBA, acceptedA, acceptedB,
                      deliveredA, deliveredB, phase, groupPos>>
        BY <1>6 DEF vars, endA, endB
    <2>2. (Clock /\ Wires)'
        BY <2>1 DEF DeliveryInv, Framed, Clock, Wires
    <2>3. HeardA' = HeardA /\ HeardB' = HeardB /\ PosA' = PosA /\ PosB' = PosB
        BY <2>1 DEF HeardA, HeardB, PosA, PosB
    <2>4. SendsA' = SendsA /\ SendsB' = SendsB
        BY <2>1, <2>3 DEF SendsA, SendsB
    <2>5. ViewToA' = ViewToA /\ ViewToB' = ViewToB
        BY <2>1, <2>3, <2>4 DEF ViewToA, ViewToB
    <2>6. NumberedA' /\ NumberedB'
        BY <2>1, <2>3 DEF DeliveryInv, Framed, NumberedA, NumberedB
    <2>7. DeliveredInOrderA' /\ DeliveredInOrderB'
          /\ deliveredA' \in Seq(Nat) /\ deliveredB' \in Seq(Nat)
        BY <2>1 DEF DeliveryInv, Framed, DeliveredInOrderA, DeliveredInOrderB
    <2>8. AP!DirectionOK(ViewToA') /\ AP!DirectionOK(ViewToB')
        BY <2>5 DEF DeliveryInv
    <2> QED BY <1>1, <2>2, <2>6, <2>7, <2>8 DEF DeliveryInv, Framed
<1> QED BY <1>2, <1>3, <1>4, <1>5, <1>6 DEF Next

LEMMA DeliveryInvariant ==
    ASSUME AP!TimingSuffices
    PROVE  Spec => [](LinkInv /\ DeliveryInv)
<1>1. Init => LinkInv /\ DeliveryInv
    BY DeliveryStart
<1>2. (LinkInv /\ DeliveryInv) /\ [Next]_vars => (LinkInv /\ DeliveryInv)'
    BY DeliveryStep
<1> QED BY <1>1, <1>2, PTL DEF Spec

LEMMA WhatViewsSay ==
    ASSUME DeliveryInv
    PROVE  /\ Len(deliveredB) <= acceptedA /\ acceptedA - Len(txA.buffer) <= Len(deliveredB)
           /\ Len(deliveredA) <= acceptedB /\ acceptedB - Len(txB.buffer) <= Len(deliveredA)
BY PlainViewToA, PlainViewToB DEF DeliveryInv, AP!DirectionOK, AP!ViewOK, AP!Placed

\* An Ack releases (dl_replay_transmitter.py:132-138) what the receiver's
\* last_sequence covers: a payload leaves its sender's buffer only once the
\* peer has delivered it.
THEOREM LinkReleasesDelivered ==
    ASSUME AP!TimingSuffices
    PROVE  Spec => []ReleasedWasDelivered
<1>1. DeliveryInv => ReleasedWasDelivered
    BY WhatViewsSay DEF ReleasedWasDelivered
<1> QED BY <1>1, DeliveryInvariant, PTL

\* test_dl_replay_scheduler.py:155 - what has been delivered at a side is a
\* prefix of what the other side offered, in both directions at once.
THEOREM LinkInOrder ==
    ASSUME AP!TimingSuffices
    PROVE  Spec => []InOrder
<1>1. DeliveryInv => InOrder
    BY WhatViewsSay DEF InOrder, DeliveryInv, DeliveredInOrderA, DeliveredInOrderB
<1> QED BY <1>1, DeliveryInvariant, PTL

LEMMA ReliableStep ==
    ASSUME AP!TimingSuffices, LinkInv, DeliveryInv, [Next]_vars
    PROVE  /\ [AtoB!Accept \/ AtoB!Deliver]_<<acceptedA, deliveredB>>
           /\ [BtoA!Accept \/ BtoA!Deliver]_<<acceptedB, deliveredA>>
<1>1. LinkInv' /\ DeliveryInv'
    BY DeliveryStep
<1>2. /\ Len(deliveredB') <= acceptedA' /\ Len(deliveredA') <= acceptedB'
    <2>1. (DeliveryInv => Len(deliveredB) <= acceptedA /\ Len(deliveredA) <= acceptedB)'
        BY WhatViewsSay, PTL
    <2> QED BY <1>1, <2>1
<1>3. /\ deliveredA \in Seq(Nat) /\ deliveredB \in Seq(Nat)
      /\ acceptedA \in Nat /\ acceptedB \in Nat
    BY LinkAssumption DEF DeliveryInv, Framed, LinkInv
<1>4. \A q \in Seq(Nat) : Len(Append(q, Len(q) + 1)) = Len(q) + 1 /\ Len(q) \in Nat
    OBVIOUS
<1>5. CASE ArriveAtA
    <2>1. /\ UNCHANGED <<acceptedA, acceptedB, deliveredB>>
          /\ deliveredA' = deliveredA \/ deliveredA' = Append(deliveredA, Len(deliveredA) + 1)
        BY <1>1, <1>5, ArriveKeepsA
    <2> QED BY <1>2, <1>3, <1>4, <2>1 DEF BtoA!Deliver
<1>6. CASE ArriveAtB
    <2>1. /\ UNCHANGED <<acceptedA, acceptedB, deliveredA>>
          /\ deliveredB' = deliveredB \/ deliveredB' = Append(deliveredB, Len(deliveredB) + 1)
        BY <1>1, <1>6, ArriveKeepsB
    <2> QED BY <1>2, <1>3, <1>4, <2>1 DEF AtoB!Deliver
<1>7. CASE SendFromA
    BY <1>1, <1>7, SendKeepsA DEF AtoB!Accept
<1>8. CASE SendFromB
    BY <1>1, <1>8, SendKeepsB DEF BtoA!Accept
<1>9. CASE UNCHANGED vars
    BY <1>9 DEF vars
<1> QED BY <1>5, <1>6, <1>7, <1>8, <1>9 DEF Next

\* From A to B, accepted payloads are delivered once each and in order, whatever
\* flits are lost: the two ends with the wires between them implement a
\* reliable first-in first-out delivery.
THEOREM LinkReliableAtoB ==
    ASSUME AP!TimingSuffices
    PROVE  Spec => ReliableAtoB
<1>1. Init => AtoB!RDInit
    BY DEF Init, AtoB!RDInit
<1>2. LinkInv /\ DeliveryInv /\ [Next]_vars
        => [AtoB!Accept \/ AtoB!Deliver]_<<acceptedA, deliveredB>>
    BY ReliableStep
<1> QED BY <1>1, <1>2, DeliveryInvariant, PTL DEF Spec, ReliableAtoB, AtoB!RDSpec

\* From B to A, at the same time.
THEOREM LinkReliableBtoA ==
    ASSUME AP!TimingSuffices
    PROVE  Spec => ReliableBtoA
<1>1. Init => BtoA!RDInit
    BY DEF Init, BtoA!RDInit
<1>2. LinkInv /\ DeliveryInv /\ [Next]_vars
        => [BtoA!Accept \/ BtoA!Deliver]_<<acceptedB, deliveredA>>
    BY ReliableStep
<1> QED BY <1>1, <1>2, DeliveryInvariant, PTL DEF Spec, ReliableBtoA, BtoA!RDSpec
=============================================================================
