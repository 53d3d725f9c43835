----------------------- MODULE DLReplaySchedulerProofs -----------------------
(***************************************************************************)
(* Proofs about one end of a link: its transmitter (DLReplayTransmitter),  *)
(* its receiver (DLReplayReceiver) and the whole end (DLReplayScheduler)   *)
(* against a peer that may send anything, for every sequence space,        *)
(* window, storage, header period and number of request copies that        *)
(* satisfy the assumptions.                                                *)
(*                                                                         *)
(* The transmitter's inductive invariant is IInv: the buffer is the run of *)
(* sequence numbers between last_ack and last_sequence, the replay flags   *)
(* agree with the schedule, and the schedule ends at the tail.  The        *)
(* receiver's is RxInv.  Every step of the scheduler is a step (or a       *)
(* stutter) of its transmitter and of its receiver, so what is proved of   *)
(* those two carries over.  SchedInv adds what only the scheduler knows:   *)
(* the target that later copies of a request repeat is a sequence number,  *)
(* and every entry still to be replayed lies less than a window behind the *)
(* newest payload.                                                         *)
(*                                                                         *)
(* The last part is about one direction of a link: what a sender, a        *)
(* receiver and the flits between them must keep so that payloads arrive   *)
(* once and in order.  It speaks of values only, so that DLReplayLinkProofs*)
(* can apply it to both directions at once.                                *)
(***************************************************************************)
EXTENDS DLReplayScheduler, FiniteSetTheorems, SequenceTheorems, TLAPS

CONSTANTS
    Delay,      \* slots between the sending and the arrival of a flit
    GroupSpan   \* flits of one codeword group

(* The transmitter by itself (DLReplayTransmitter). *)

IInv == TxTypeOK /\ BufferContiguous /\ ReplayFlagsAgree /\ ScheduleEndsAtTail
-----------------------------------------------------------------------------
(* Sequence arithmetic. *)

\* The remainder (a - b) % 511 of the code is a plain case distinction, also
\* when b is one past a sequence number (last_ack + 1 in receive).
LEMMA DistCases ==
    ASSUME NEW a \in SeqNum, NEW b \in 1 .. (MaxSeq + 1)
    PROVE  Dist(a, b) = IF a >= b THEN a - b ELSE a - b + MaxSeq
<1> USE HeaderAssumption DEF SeqNum, Dist
<1>1. CASE a >= b
    <2>1. a - b \in 0 .. (MaxSeq - 1)
        BY <1>1
    <2> QED BY <1>1, <2>1, SMTT(20)
<1>2. CASE a < b
    <2>1. a - b \in (-MaxSeq) .. (-1)
        BY <1>2
    <2> QED BY <1>2, <2>1, SMTT(20)
<1> QED BY <1>1, <1>2

LEMMA DistValue ==
    ASSUME NEW a \in SeqNum, NEW b \in SeqNum
    PROVE  /\ Dist(a, b) = IF a >= b THEN a - b ELSE a - b + MaxSeq
           /\ Dist(a, b) \in 0 .. (MaxSeq - 1)
<1>1. b \in 1 .. (MaxSeq + 1)
    BY HeaderAssumption DEF SeqNum
<1>2. Dist(a, b) = IF a >= b THEN a - b ELSE a - b + MaxSeq
    BY <1>1, DistCases
<1> QED BY <1>2, HeaderAssumption DEF SeqNum

\* Advancing a sequence number stays in the sequence space and composes.
LEMMA AdvanceType ==
    ASSUME NEW s \in SeqNum, NEW k \in 0 .. MaxSeq
    PROVE  Advance(s, k) \in SeqNum
BY HeaderAssumption DEF SeqNum, Advance

LEMMA AdvanceSum ==
    ASSUME NEW s \in SeqNum, NEW j \in Nat, NEW k \in Nat, j + k <= MaxSeq
    PROVE  Advance(Advance(s, j), k) = Advance(s, j + k)
BY HeaderAssumption DEF SeqNum, Advance

\* Dist and Advance are inverse to each other.
LEMMA AdvanceDist ==
    ASSUME NEW a \in SeqNum, NEW b \in SeqNum
    PROVE  Advance(b, Dist(a, b)) = a
<1>1. Dist(a, b) = IF a >= b THEN a - b ELSE a - b + MaxSeq
    BY DistValue
<1> QED BY <1>1, HeaderAssumption DEF SeqNum, Advance

LEMMA NextSeqType ==
    ASSUME NEW s \in SeqNum
    PROVE  /\ NextSeq(s) \in SeqNum
           /\ NextSeq(s) = Advance(s, 1)
BY HeaderAssumption DEF SeqNum, NextSeq, Advance

\* A payload committed below the window lengthens the run by exactly one.
LEMMA DistOfNext ==
    ASSUME NEW a \in SeqNum, NEW b \in SeqNum, Dist(a, b) < Window
    PROVE  /\ Dist(NextSeq(a), b) = Dist(a, b) + 1
           /\ NextSeq(a) = Advance(b, Dist(a, b) + 1)
<1>1. NextSeq(a) \in SeqNum
    BY NextSeqType
<1>2. Dist(a, b) = IF a >= b THEN a - b ELSE a - b + MaxSeq
    BY DistValue
<1>3. Dist(NextSeq(a), b) = IF NextSeq(a) >= b THEN NextSeq(a) - b
                                             ELSE NextSeq(a) - b + MaxSeq
    BY <1>1, DistValue
<1>4. Dist(NextSeq(a), b) = Dist(a, b) + 1
    BY <1>2, <1>3, HeaderAssumption DEF SeqNum, NextSeq
<1>5. NextSeq(a) = Advance(b, Dist(NextSeq(a), b))
    BY <1>1, AdvanceDist
<1> QED BY <1>4, <1>5

\* The two range checks of an Ack: its target lies on the run from last_ack
\* to the tail.  This is where 2 * Window < MaxSeq is needed.
LEMMA AckOnRun ==
    ASSUME NEW ack \in SeqNum, NEW tail \in SeqNum, NEW target \in SeqNum,
           Dist(tail, ack) <= Window,
           Dist(target, ack) <= Window, Dist(tail, target) <= Window
    PROVE  /\ Dist(target, ack) <= Dist(tail, ack)
           /\ Dist(tail, target) = Dist(tail, ack) - Dist(target, ack)
<1>1. /\ Dist(tail, ack) = IF tail >= ack THEN tail - ack ELSE tail - ack + MaxSeq
      /\ Dist(target, ack) = IF target >= ack THEN target - ack
                                              ELSE target - ack + MaxSeq
      /\ Dist(tail, target) = IF tail >= target THEN tail - target
                                                ELSE tail - target + MaxSeq
    BY DistValue
<1> QED BY <1>1, HeaderAssumption DEF SeqNum

\* The two range checks of a Replay Request: its target is on the run and is
\* not last_ack itself.
LEMMA RequestOnRun ==
    ASSUME NEW ack \in SeqNum, NEW tail \in SeqNum, NEW target \in SeqNum,
           Dist(tail, ack) <= Window,
           Dist(target, ack + 1) <= Window - 1, Dist(tail, target) <= Window - 1
    PROVE  /\ Dist(target, ack) \in 1 .. Dist(tail, ack)
           /\ Advance(ack, Dist(target, ack)) = target
<1>1. ack + 1 \in 1 .. (MaxSeq + 1)
    BY HeaderAssumption DEF SeqNum
<1>2. Dist(target, ack + 1) = IF target >= ack + 1 THEN target - (ack + 1)
                              ELSE target - (ack + 1) + MaxSeq
    BY <1>1, DistCases
<1>3. /\ Dist(tail, ack) = IF tail >= ack THEN tail - ack ELSE tail - ack + MaxSeq
      /\ Dist(target, ack) = IF target >= ack THEN target - ack
                                              ELSE target - ack + MaxSeq
      /\ Dist(tail, target) = IF tail >= target THEN tail - target
                                                ELSE tail - target + MaxSeq
    BY DistValue
<1>4. Dist(target, ack) \in 1 .. Dist(tail, ack)
    BY <1>2, <1>3, HeaderAssumption DEF SeqNum
<1> QED BY <1>4, AdvanceDist
-----------------------------------------------------------------------------
(* What receive relies on. *)

\* The buffer search of an accepted request succeeds, and what it schedules
\* is a non-empty suffix of the buffer.
LEMMA SearchSucceeds ==
    ASSUME IInv, NEW target \in SeqNum, RequestExpected(tx, target)
    PROVE  \E i \in 1 .. Len(tx.buffer) : tx.buffer[i].sequence = target
<1>1. /\ tx.last_ack \in SeqNum /\ tx.last_sequence \in SeqNum
      /\ Dist(tx.last_sequence, tx.last_ack) = Len(tx.buffer)
      /\ Dist(tx.last_sequence, tx.last_ack) <= Window
    BY DEF IInv, TxTypeOK, TxState, BufferContiguous
<1>2. /\ Dist(target, tx.last_ack) \in 1 .. Len(tx.buffer)
      /\ Advance(tx.last_ack, Dist(target, tx.last_ack)) = target
    BY <1>1, RequestOnRun DEF RequestExpected
<1> QED BY <1>1, <1>2 DEF IInv, BufferContiguous

\* The entries are numbered apart, so the search finds the only such entry.
LEMMA EntriesDistinct ==
    ASSUME IInv, NEW i \in 1 .. Len(tx.buffer), NEW j \in 1 .. Len(tx.buffer), i # j
    PROVE  tx.buffer[i].sequence # tx.buffer[j].sequence
<1>1. tx.last_ack \in SeqNum /\ Len(tx.buffer) \in Nat /\ Len(tx.buffer) <= Window
    BY DEF IInv, TxTypeOK, TxState, BufferContiguous
<1>2. /\ tx.buffer[i].sequence = Advance(tx.last_ack, i)
      /\ tx.buffer[j].sequence = Advance(tx.last_ack, j)
    BY DEF IInv, BufferContiguous
<1> DEFINE n == Len(tx.buffer)
           s == tx.last_ack
<1>3. /\ n \in Nat /\ n < MaxSeq /\ MaxSeq \in Nat /\ s \in 1 .. MaxSeq
      /\ i \in 1 .. n /\ j \in 1 .. n
    BY <1>1, HeaderAssumption DEF SeqNum
<1>4. Advance(s, i) # Advance(s, j)
    <2> HIDE DEF n, s
    <2>1. Advance(s, i) = IF s + i <= MaxSeq THEN s + i ELSE s + i - MaxSeq
        BY DEF Advance
    <2>2. Advance(s, j) = IF s + j <= MaxSeq THEN s + j ELSE s + j - MaxSeq
        BY DEF Advance
    <2> QED BY <1>3, <2>1, <2>2
<1> QED BY <1>2, <1>4

\* What an accepted request schedules is the suffix of the buffer that starts
\* at its target.
LEMMA ScheduleIsSuffix ==
    ASSUME IInv, NEW target \in SeqNum, RequestExpected(tx, target)
    PROVE  \E start \in 1 .. Len(tx.buffer) :
              /\ tx.buffer[start].sequence = target
              /\ BufferFrom(tx, target) = SubSeq(tx.buffer, start, Len(tx.buffer))
<1>1. PICK i \in 1 .. Len(tx.buffer) : tx.buffer[i].sequence = target
    BY SearchSucceeds
<1>2. \A j \in 1 .. (i - 1) : tx.buffer[j].sequence # target
    <2>1. Len(tx.buffer) \in Nat
        BY DEF IInv, TxTypeOK, TxState
    <2> QED BY <1>1, <2>1, EntriesDistinct
<1> DEFINE Found(k) == /\ tx.buffer[k].sequence = target
                       /\ \A j \in 1 .. (k - 1) : tx.buffer[j].sequence # target
           start == CHOOSE k \in 1 .. Len(tx.buffer) : Found(k)
<1>3. start \in 1 .. Len(tx.buffer) /\ Found(start)
    <2>1. Found(i)
        BY <1>1, <1>2
    <2> HIDE DEF Found
    <2> QED BY <1>1, <2>1
<1>4. BufferFrom(tx, target) = SubSeq(tx.buffer, start, Len(tx.buffer))
    BY DEF BufferFrom
<1> QED BY <1>3, <1>4
-----------------------------------------------------------------------------
(* The inductive invariant. *)

\* A sequence is empty exactly when its length is zero.
LEMMA EmptyByLength ==
    ASSUME NEW q \in Seq(Entry)
    PROVE  /\ Len(q) \in Nat
           /\ q # <<>> <=> Len(q) > 0
<1>1. q # <<>> => Len(q) \in Nat \ {0}
    BY EmptySeq
<1>2. Len(<<>>) = 0
    BY EmptySeq
<1> QED BY <1>1, <1>2

\* Aging the ignore window touches nothing the invariant relates.
LEMMA AgedKeepsInv ==
    ASSUME IInv, tx' = Aged(tx)
    PROVE  IInv'
<1>1. /\ tx'.last_sequence = tx.last_sequence /\ tx'.last_ack = tx.last_ack
      /\ tx'.replay = tx.replay /\ tx'.first_replay = tx.first_replay
      /\ tx'.buffer = tx.buffer /\ tx'.scheduled = tx.scheduled
    BY DEF IInv, TxTypeOK, TxState, Aged
<1>2. TxTypeOK'
    BY TransmitterAssumption DEF IInv, TxTypeOK, TxState, Aged
<1>3. BufferContiguous' /\ ReplayFlagsAgree' /\ ScheduleEndsAtTail'
    BY <1>1 DEF IInv, BufferContiguous, ReplayFlagsAgree, ScheduleEndsAtTail
<1> QED BY <1>2, <1>3 DEF IInv

LEMMA ResetFacts ==
    /\ TxReset \in TxState
    /\ TxReset.last_sequence = MaxSeq /\ TxReset.last_ack = MaxSeq
    /\ TxReset.buffer = <<>> /\ TxReset.scheduled = <<>>
    /\ TxReset.replay = FALSE /\ TxReset.first_replay = FALSE
    /\ MaxSeq \in SeqNum /\ Dist(MaxSeq, MaxSeq) = 0
<1>1. MaxSeq \in SeqNum /\ Dist(MaxSeq, MaxSeq) = 0
    BY DistValue, HeaderAssumption DEF SeqNum
<1> QED BY <1>1, TransmitterAssumption, EmptySeq DEF TxReset, TxState

LEMMA ResetInv ==
    ASSUME tx = TxReset
    PROVE  IInv
BY ResetFacts, HeaderAssumption
   DEF IInv, TxTypeOK, BufferContiguous, ReplayFlagsAgree, ScheduleEndsAtTail

LEMMA ResetRestoresInv ==
    ASSUME tx' = TxReset
    PROVE  IInv'
BY ResetFacts, HeaderAssumption
   DEF IInv, TxTypeOK, BufferContiguous, ReplayFlagsAgree, ScheduleEndsAtTail

\* Committing a payload: the run grows by the new tail.  No schedule exists,
\* so nothing has to end at the old tail.
LEMMA EnqueueKeepsInv ==
    ASSUME IInv, NEW p \in Payloads, Enqueue(p)
    PROVE  IInv'
<1> DEFINE e == NewEntry(tx, p)
<1>1. /\ tx.last_sequence \in SeqNum /\ tx.last_ack \in SeqNum
      /\ tx.buffer \in Seq(Entry) /\ tx.scheduled = <<>> /\ ~tx.replay
      /\ Len(tx.buffer) < Window
      /\ Len(tx.buffer) = Dist(tx.last_sequence, tx.last_ack)
    BY DEF IInv, TxTypeOK, TxState, BufferContiguous, ReplayFlagsAgree,
           Enqueue, CanEnqueue
<1>2. e \in Entry /\ e.sequence = NextSeq(tx.last_sequence)
    BY <1>1, NextSeqType DEF NewEntry, Entry
<1>3. /\ tx'.buffer = Append(tx.buffer, e)
      /\ tx'.last_sequence = NextSeq(tx.last_sequence) /\ tx'.last_ack = tx.last_ack
      /\ tx'.scheduled = tx.scheduled /\ tx'.replay = tx.replay
      /\ tx'.first_replay = tx.first_replay
    BY DEF IInv, TxTypeOK, TxState, Enqueue
<1>4. /\ Append(tx.buffer, e) \in Seq(Entry)
      /\ Len(Append(tx.buffer, e)) = Len(tx.buffer) + 1
      /\ \A i \in 1 .. Len(tx.buffer) : Append(tx.buffer, e)[i] = tx.buffer[i]
      /\ Append(tx.buffer, e)[Len(tx.buffer) + 1] = e
    <2> HIDE DEF e
    <2> QED BY <1>1, <1>2, AppendProperties
<1>5. TxTypeOK'
    <2>1. NextSeq(tx.last_sequence) \in SeqNum
        BY <1>1, NextSeqType
    <2> QED BY <1>4, <2>1 DEF IInv, TxTypeOK, TxState, Enqueue
<1>6. BufferContiguous'
    <2>1. /\ Dist(NextSeq(tx.last_sequence), tx.last_ack) = Len(tx.buffer) + 1
          /\ NextSeq(tx.last_sequence) = Advance(tx.last_ack, Len(tx.buffer) + 1)
        BY <1>1, DistOfNext
    <2>2. Len(tx.buffer) \in Nat
        BY <1>1
    <2>3. \A i \in 1 .. (Len(tx.buffer) + 1) :
             tx'.buffer[i].sequence = Advance(tx.last_ack, i)
        <3> HIDE DEF e
        <3> QED BY <1>2, <1>3, <1>4, <2>1, <2>2 DEF IInv, BufferContiguous
    <2> QED BY <1>1, <1>3, <1>4, <2>1, <2>2, <2>3, HeaderAssumption
            DEF BufferContiguous
<1>7. ReplayFlagsAgree' /\ ScheduleEndsAtTail'
    BY <1>1, <1>3 DEF IInv, ReplayFlagsAgree, ScheduleEndsAtTail
<1> QED BY <1>5, <1>6, <1>7 DEF IInv

\* An accepted request schedules a suffix of the buffer, which ends where the
\* buffer does: at the tail.
LEMMA RequestKeepsInv ==
    ASSUME IInv, NEW word \in Words, NEW crc_ok \in BOOLEAN,
           ReceiveRequest(word, crc_ok)
    PROVE  IInv'
<1> DEFINE target == word.ack_request
           n == Len(tx.buffer)
<1>1. target \in SeqNum /\ RequestExpected(tx, target)
    BY HeaderAssumption DEF ReceiveRequest, UnusableFlit, ValidHeader, ZeroField,
       ReservedOp, IsCommand, IsExplicit, RequestRefused, Words, SeqNum
<1>2. PICK start \in 1 .. n : BufferFrom(tx, target) = SubSeq(tx.buffer, start, n)
    BY <1>1, ScheduleIsSuffix
<1>3. /\ tx.last_sequence \in SeqNum /\ tx.last_ack \in SeqNum
      /\ tx.buffer \in Seq(Entry) /\ n \in Nat
      /\ n = Dist(tx.last_sequence, tx.last_ack)
    BY DEF IInv, TxTypeOK, TxState, BufferContiguous
<1>4. /\ SubSeq(tx.buffer, start, n) \in Seq(Entry)
      /\ Len(SubSeq(tx.buffer, start, n)) = n - start + 1
      /\ \A i \in 1 .. (n - start + 1) :
            SubSeq(tx.buffer, start, n)[i] = tx.buffer[start + i - 1]
    <2>1. \A i \in start .. n : tx.buffer[i] \in Entry
        BY <1>3, ElementOfSeq
    <2> QED BY <1>3, <2>1, SubSeqProperties
<1>5. /\ tx'.scheduled = SubSeq(tx.buffer, start, n)
      /\ tx'.replay = TRUE /\ tx'.first_replay = TRUE
      /\ tx'.ignore_count = IgnoreWindow
      /\ tx'.buffer = tx.buffer /\ tx'.last_ack = tx.last_ack
      /\ tx'.last_sequence = tx.last_sequence
    BY <1>2 DEF IInv, TxTypeOK, TxState, ReceiveRequest
<1>6. TxTypeOK'
    <2>1. BufferFrom(tx, word.ack_request) \in Seq(Entry)
        BY <1>2, <1>4
    <2>2. [tx EXCEPT !.scheduled = BufferFrom(tx, word.ack_request)] \in TxState
        <3> DEFINE q == BufferFrom(tx, word.ack_request)
        <3> HIDE DEF q
        <3>1. q \in Seq(Entry)
            BY <2>1 DEF q
        <3>2. [tx EXCEPT !.scheduled = q] \in TxState
            BY <3>1 DEF IInv, TxTypeOK, TxState
        <3> QED BY <3>2 DEF q
    <2>3. IgnoreWindow \in 0 .. IgnoreWindow
        BY TransmitterAssumption
    <2> QED BY <2>2, <2>3 DEF TxTypeOK, TxState, ReceiveRequest
<1>7. BufferContiguous'
    BY <1>5 DEF IInv, BufferContiguous
<1>8. ReplayFlagsAgree'
    <2>1. SubSeq(tx.buffer, start, n) # <<>>
        BY <1>3, <1>4, EmptyByLength
    <2> QED BY <1>5, <2>1 DEF ReplayFlagsAgree
<1>9. ScheduleEndsAtTail'
    <2>1. tx'.scheduled[Len(tx'.scheduled)] = tx.buffer[n]
        BY <1>3, <1>4, <1>5
    <2>2. tx.buffer[n].sequence = Advance(tx.last_ack, n)
        <3>1. n \in 1 .. Len(tx.buffer)
            BY <1>3
        <3> QED BY <3>1 DEF IInv, BufferContiguous
    <2>3. Advance(tx.last_ack, n) = tx.last_sequence
        BY <1>3, AdvanceDist
    <2> QED BY <1>5, <2>1, <2>2, <2>3 DEF ScheduleEndsAtTail
<1> QED BY <1>6, <1>7, <1>8, <1>9 DEF IInv

\* An accepted Ack cuts the run off at its target: release by count and the
\* numbers in the entries stay in step.
LEMMA AckKeepsInv ==
    ASSUME IInv, NEW word \in Words, NEW crc_ok \in BOOLEAN,
           ReceiveAck(word, crc_ok)
    PROVE  IInv'
<1> DEFINE target == word.ack_request
           n == Len(tx.buffer)
           d == Dist(target, tx.last_ack)
<1>1. target \in SeqNum /\ AckExpected(tx, target)
    BY HeaderAssumption DEF ReceiveAck, UnusableFlit, ValidHeader, ZeroField,
       ReservedOp, IsCommand, IsExplicit, AckRefused, Words, SeqNum
<1>2. /\ tx.last_sequence \in SeqNum /\ tx.last_ack \in SeqNum
      /\ tx.buffer \in Seq(Entry) /\ n \in Nat /\ n <= Window
      /\ n = Dist(tx.last_sequence, tx.last_ack)
      /\ \A i \in 1 .. n : tx.buffer[i].sequence = Advance(tx.last_ack, i)
    BY DEF IInv, TxTypeOK, TxState, BufferContiguous
<1>3. /\ d \in 0 .. n
      /\ Dist(tx.last_sequence, target) = n - d
      /\ Advance(tx.last_ack, d) = target
    BY <1>1, <1>2, AckOnRun, DistValue, AdvanceDist DEF AckExpected
<1>4. /\ SubSeq(tx.buffer, d + 1, n) \in Seq(Entry)
      /\ Len(SubSeq(tx.buffer, d + 1, n)) = n - d
      /\ \A i \in 1 .. (n - d) : SubSeq(tx.buffer, d + 1, n)[i] = tx.buffer[d + i]
    <2> HIDE DEF d
    <2>1. \A i \in (d + 1) .. n : tx.buffer[i] \in Entry
        BY <1>2, <1>3, ElementOfSeq
    <2>2. /\ SubSeq(tx.buffer, d + 1, n) \in Seq(Entry)
          /\ Len(SubSeq(tx.buffer, d + 1, n)) = IF d + 1 <= n THEN n - (d + 1) + 1 ELSE 0
          /\ \A i \in 1 .. (n - (d + 1) + 1) :
                SubSeq(tx.buffer, d + 1, n)[i] = tx.buffer[d + 1 + i - 1]
        BY <1>2, <1>3, <2>1, SubSeqProperties
    <2> QED BY <1>2, <1>3, <2>2
<1>5. /\ tx'.buffer = SubSeq(tx.buffer, d + 1, n) /\ tx'.last_ack = target
      /\ tx'.last_sequence = tx.last_sequence /\ tx'.scheduled = tx.scheduled
      /\ tx'.replay = tx.replay /\ tx'.first_replay = tx.first_replay
    BY DEF IInv, TxTypeOK, TxState, ReceiveAck, Aged
<1>6. TxTypeOK'
    <2>1. SubSeq(tx.buffer, Dist(word.ack_request, tx.last_ack) + 1, Len(tx.buffer))
             \in Seq(Entry)
        BY <1>4
    <2>2. Aged(tx) \in TxState
        BY TransmitterAssumption DEF IInv, TxTypeOK, TxState, Aged
    <2>3. Aged(tx).buffer = tx.buffer
        BY DEF IInv, TxTypeOK, TxState, Aged
    <2> QED BY <1>1, <2>1, <2>2, <2>3 DEF TxTypeOK, TxState, ReceiveAck
<1>7. BufferContiguous'
    <2> HIDE DEF d, target
    <2>1. \A i \in 1 .. (n - d) : tx'.buffer[i].sequence = Advance(target, i)
        <3> SUFFICES ASSUME NEW i \in 1 .. (n - d)
                     PROVE  tx'.buffer[i].sequence = Advance(target, i)
            OBVIOUS
        <3>1. tx'.buffer[i].sequence = Advance(tx.last_ack, d + i)
            BY <1>2, <1>3, <1>4, <1>5
        <3>2. Advance(Advance(tx.last_ack, d), i) = Advance(tx.last_ack, d + i)
            BY <1>2, <1>3, AdvanceSum, HeaderAssumption
        <3> QED BY <1>3, <3>1, <3>2
    <2> QED BY <1>2, <1>3, <1>4, <1>5, <2>1, HeaderAssumption DEF BufferContiguous
<1>8. ReplayFlagsAgree' /\ ScheduleEndsAtTail'
    BY <1>5 DEF IInv, ReplayFlagsAgree, ScheduleEndsAtTail
<1> QED BY <1>6, <1>7, <1>8 DEF IInv

\* Sending a scheduled entry: the tail of the schedule still ends at the tail.
LEMMA NextReplayKeepsInv ==
    ASSUME IInv, NextReplay
    PROVE  IInv'
<1>1. /\ tx.scheduled \in Seq(Entry) /\ tx.scheduled # <<>>
      /\ Len(tx.scheduled) \in Nat
    BY DEF IInv, TxTypeOK, TxState, NextReplay
<1>2. /\ Tail(tx.scheduled) \in Seq(Entry)
      /\ Len(Tail(tx.scheduled)) = Len(tx.scheduled) - 1
      /\ \A i \in 1 .. Len(Tail(tx.scheduled)) :
            Tail(tx.scheduled)[i] = tx.scheduled[i + 1]
    BY <1>1, HeadTailProperties
<1>3. /\ tx'.scheduled = Tail(tx.scheduled) /\ tx'.buffer = tx.buffer
      /\ tx'.last_ack = tx.last_ack /\ tx'.last_sequence = tx.last_sequence
      /\ tx'.replay = (Len(tx.scheduled) > 1) /\ tx'.first_replay = FALSE
    BY DEF IInv, TxTypeOK, TxState, NextReplay
<1>4. TxTypeOK'
    <2>1. (Len(tx.scheduled) > 1) \in BOOLEAN
        BY <1>1
    <2> QED BY <1>2, <2>1 DEF IInv, TxTypeOK, TxState, NextReplay
<1>5. BufferContiguous'
    BY <1>3 DEF IInv, BufferContiguous
<1>6. ReplayFlagsAgree'
    <2>1. Tail(tx.scheduled) # <<>> <=> Len(tx.scheduled) > 1
        <3>1. Tail(tx.scheduled) # <<>> <=> Len(Tail(tx.scheduled)) > 0
            BY <1>2, EmptyByLength
        <3> QED BY <1>1, <1>2, <3>1
    <2> QED BY <1>3, <2>1 DEF ReplayFlagsAgree
<1>7. ScheduleEndsAtTail'
    <2>1. ASSUME Tail(tx.scheduled) # <<>>
          PROVE  Tail(tx.scheduled)[Len(Tail(tx.scheduled))]
                    = tx.scheduled[Len(tx.scheduled)]
        BY <1>1, <1>2, <2>1
    <2> QED BY <1>1, <1>3, <2>1 DEF IInv, ScheduleEndsAtTail
<1> QED BY <1>4, <1>5, <1>6, <1>7 DEF IInv

LEMMA StepKeepsInv ==
    ASSUME IInv, [TxNext]_tx
    PROVE  IInv'
<1>1. ASSUME NEW p \in Payloads, Enqueue(p) PROVE IInv'
    BY <1>1, EnqueueKeepsInv
<1>2. CASE DiscardIngress
    BY <1>2, AgedKeepsInv DEF DiscardIngress
<1>3. ASSUME NEW word \in Words, NEW crc_ok \in BOOLEAN, TxReceive(word, crc_ok)
      PROVE  IInv'
    <2>1. CASE ReceiveNothing(word, crc_ok)
        BY <2>1, AgedKeepsInv DEF ReceiveNothing
    <2>2. CASE ReceiveRequest(word, crc_ok)
        BY <2>2, RequestKeepsInv
    <2>3. CASE ReceiveAck(word, crc_ok)
        BY <2>3, AckKeepsInv
    <2> QED BY <1>3, <2>1, <2>2, <2>3 DEF TxReceive
<1>4. CASE NextReplay
    BY <1>4, NextReplayKeepsInv
<1>5. CASE ResetTransmitter
    BY <1>5, ResetRestoresInv DEF ResetTransmitter
<1>6. CASE UNCHANGED tx
    BY <1>6 DEF IInv, TxTypeOK, BufferContiguous, ReplayFlagsAgree, ScheduleEndsAtTail
<1> QED BY <1>1, <1>2, <1>3, <1>4, <1>5, <1>6 DEF TxNext

\* The invariant behind the theorems below holds in every reachable state.
THEOREM InductiveInvariant == TxSpec => []IInv
<1>1. TxInit => IInv
    BY ResetInv DEF TxInit
<1>2. IInv /\ [TxNext]_tx => IInv'
    BY StepKeepsInv
<1> QED BY <1>1, <1>2, PTL DEF TxSpec

\* The transmitter's fields keep the types their registers have.
THEOREM TypeCorrect == TxSpec => []TxTypeOK
BY InductiveInvariant, PTL DEF IInv

\* The buffer is the run of numbers after last_ack up to last_sequence, so
\* release by count (buffer[count:]) drops exactly the acknowledged payloads.
THEOREM BufferIsContiguous == TxSpec => []BufferContiguous
BY InductiveInvariant, PTL DEF IInv

\* enqueue is blocked (replay) exactly while a schedule is pending.
THEOREM FlagsAgree == TxSpec => []ReplayFlagsAgree
BY InductiveInvariant, PTL DEF IInv

\* A replay always ends with the newest committed payload.
THEOREM ReplayReachesTail == TxSpec => []ScheduleEndsAtTail
BY InductiveInvariant, PTL DEF IInv

\* receive never fails to find the entry that an in-range request names.
THEOREM RequestsAreResident == TxSpec => []ReplayTargetResident
<1>1. IInv => ReplayTargetResident
    BY SearchSucceeds DEF ReplayTargetResident
<1> QED BY InductiveInvariant, <1>1, PTL
-----------------------------------------------------------------------------
(* The storage bound. *)

LEMMA EntriesFinite ==
    ASSUME NEW q \in Seq(Entry)
    PROVE  IsFiniteSet(Entries(q))
<1>1. q \in [1 .. Len(q) -> Entry] /\ Len(q) \in Nat
    BY LenProperties
<1>2. q \in Surjection(1 .. Len(q), Entries(q))
    BY <1>1 DEF Entries, Surjection
<1>3. IsFiniteSet(1 .. Len(q))
    BY <1>1, FS_Interval
<1> QED BY <1>2, <1>3, FS_Surjection

\* Storage that holds a subset of the entries needs no more room.
LEMMA FewerEntries ==
    ASSUME NEW S, IsFiniteSet(S), Cardinality(S) <= Capacity, NEW T \in SUBSET S
    PROVE  Cardinality(T) <= Capacity
BY FS_Subset, FS_CardinalityType, TransmitterAssumption

\* What the storage holds: live entries and entries still scheduled.
Stored(t) == Entries(t.buffer) \cup Entries(t.scheduled)

LEMMA StoredFinite ==
    ASSUME IInv
    PROVE  IsFiniteSet(Stored(tx)) /\ Cardinality(Stored(tx)) \in Nat
<1>1. tx.buffer \in Seq(Entry) /\ tx.scheduled \in Seq(Entry)
    BY DEF IInv, TxTypeOK, TxState
<1>2. IsFiniteSet(Entries(tx.buffer)) /\ IsFiniteSet(Entries(tx.scheduled))
    BY <1>1, EntriesFinite
<1>3. IsFiniteSet(Stored(tx))
    BY <1>2, FS_Union DEF Stored
<1> QED BY <1>3, FS_CardinalityType

\* A part of the buffer holds no entry that the buffer does not hold.
LEMMA SuffixEntries ==
    ASSUME NEW q \in Seq(Entry), NEW k \in 1 .. (Len(q) + 1)
    PROVE  Entries(SubSeq(q, k, Len(q))) \subseteq Entries(q)
<1>1. Len(q) \in Nat /\ \A i \in k .. Len(q) : q[i] \in Entry
    BY ElementOfSeq, LenProperties
<1>2. /\ Len(SubSeq(q, k, Len(q))) = IF k <= Len(q) THEN Len(q) - k + 1 ELSE 0
      /\ \A i \in 1 .. (Len(q) - k + 1) : SubSeq(q, k, Len(q))[i] = q[k + i - 1]
    BY <1>1, SubSeqProperties
<1> QED BY <1>1, <1>2 DEF Entries

\* Only a new payload adds to what is stored; requests and Acks move
\* references to entries that are already there.
LEMMA StepKeepsCapacity ==
    ASSUME IInv, CapacityRespected, [TxNext]_tx
    PROVE  CapacityRespected'
<1> USE DEF CapacityRespected, Resident
<1>1. /\ tx.buffer \in Seq(Entry) /\ tx.scheduled \in Seq(Entry)
      /\ Len(tx.buffer) \in Nat
    BY EmptyByLength DEF IInv, TxTypeOK, TxState
<1>2. ASSUME Stored(tx') \subseteq Stored(tx)
      PROVE  CapacityRespected'
    BY <1>2, StoredFinite, FewerEntries DEF Stored
<1>3. ASSUME NEW p \in Payloads, Enqueue(p) PROVE CapacityRespected'
    <2> DEFINE e == NewEntry(tx, p)
    <2>1. e \in Entry
        BY NextSeqType DEF IInv, TxTypeOK, TxState, NewEntry, Entry
    <2>2. /\ tx'.buffer = Append(tx.buffer, e) /\ tx'.scheduled = tx.scheduled
          /\ Cardinality(Stored(tx)) < Capacity
        BY <1>3 DEF IInv, TxTypeOK, TxState, Enqueue, CanEnqueue, Stored
    <2>3. Entries(Append(tx.buffer, e)) = Entries(tx.buffer) \cup {e}
        <3> HIDE DEF e
        <3>1. /\ Len(Append(tx.buffer, e)) = Len(tx.buffer) + 1
              /\ \A i \in 1 .. Len(tx.buffer) : Append(tx.buffer, e)[i] = tx.buffer[i]
              /\ Append(tx.buffer, e)[Len(tx.buffer) + 1] = e
            BY <1>1, <2>1, AppendProperties
        <3> QED BY <1>1, <3>1 DEF Entries
    <2>4. Stored(tx') = Stored(tx) \cup {e}
        BY <2>2, <2>3 DEF Stored
    <2>5. Cardinality(Stored(tx) \cup {e}) <= Cardinality(Stored(tx)) + 1
        <3> HIDE DEF e
        <3>1. /\ IsFiniteSet(Stored(tx)) /\ Cardinality(Stored(tx)) \in Nat
            BY StoredFinite
        <3>2. Cardinality(Stored(tx) \cup {e}) =
                 IF e \in Stored(tx) THEN Cardinality(Stored(tx))
                 ELSE Cardinality(Stored(tx)) + 1
            BY <3>1, FS_AddElement
        <3> QED BY <3>1, <3>2
    <2> HIDE DEF e
    <2>6. Cardinality(Stored(tx')) <= Capacity
        <3>1. IsFiniteSet(Stored(tx)) /\ Cardinality(Stored(tx)) \in Nat
            BY StoredFinite
        <3>2. IsFiniteSet(Stored(tx) \cup {e})
            BY <3>1, FS_AddElement
        <3>3. Cardinality(Stored(tx) \cup {e}) \in Nat
            BY <3>2, FS_CardinalityType
        <3>4. Capacity \in Nat
            BY TransmitterAssumption
        <3> QED BY <2>2, <2>4, <2>5, <3>1, <3>3, <3>4
    <2> QED BY <2>6 DEF Stored
<1>4. CASE DiscardIngress
    BY <1>2, <1>4 DEF DiscardIngress, IInv, TxTypeOK, TxState, Aged, Stored
<1>5. ASSUME NEW word \in Words, NEW crc_ok \in BOOLEAN, TxReceive(word, crc_ok)
      PROVE  CapacityRespected'
    <2>1. CASE ReceiveNothing(word, crc_ok)
        BY <1>2, <2>1 DEF ReceiveNothing, IInv, TxTypeOK, TxState, Aged, Stored
    <2>2. CASE ReceiveRequest(word, crc_ok)
        <3>1. word.ack_request \in SeqNum /\ RequestExpected(tx, word.ack_request)
            BY <2>2, HeaderAssumption DEF ReceiveRequest, UnusableFlit, ValidHeader,
               ZeroField, ReservedOp, IsCommand, IsExplicit, RequestRefused, Words, SeqNum
        <3>2. Entries(BufferFrom(tx, word.ack_request)) \subseteq Entries(tx.buffer)
            <4>1. PICK start \in 1 .. Len(tx.buffer) :
                     BufferFrom(tx, word.ack_request)
                        = SubSeq(tx.buffer, start, Len(tx.buffer))
                BY <3>1, ScheduleIsSuffix
            <4>2. start \in 1 .. (Len(tx.buffer) + 1)
                BY <1>1
            <4> QED BY <1>1, <4>1, <4>2, SuffixEntries
        <3>3. /\ tx'.buffer = tx.buffer
              /\ tx'.scheduled = BufferFrom(tx, word.ack_request)
            BY <2>2 DEF IInv, TxTypeOK, TxState, ReceiveRequest
        <3> QED BY <1>2, <3>2, <3>3 DEF Stored
    <2>3. CASE ReceiveAck(word, crc_ok)
        <3> DEFINE k == Dist(word.ack_request, tx.last_ack) + 1
        <3>1. word.ack_request \in SeqNum /\ AckExpected(tx, word.ack_request)
            BY <2>3, HeaderAssumption DEF ReceiveAck, UnusableFlit, ValidHeader,
               ZeroField, ReservedOp, IsCommand, IsExplicit, AckRefused, Words, SeqNum
        <3>2. k \in 1 .. (Len(tx.buffer) + 1)
            <4>1. /\ tx.last_sequence \in SeqNum /\ tx.last_ack \in SeqNum
                  /\ Dist(tx.last_sequence, tx.last_ack) = Len(tx.buffer)
                  /\ Dist(tx.last_sequence, tx.last_ack) <= Window
                BY DEF IInv, TxTypeOK, TxState, BufferContiguous
            <4>2. /\ Dist(word.ack_request, tx.last_ack) <= Window
                  /\ Dist(tx.last_sequence, word.ack_request) <= Window
                BY <3>1 DEF AckExpected
            <4>3. Dist(word.ack_request, tx.last_ack) <= Len(tx.buffer)
                BY <3>1, <4>1, <4>2, AckOnRun
            <4>4. Dist(word.ack_request, tx.last_ack) \in 0 .. (MaxSeq - 1)
                BY <3>1, <4>1, DistValue
            <4>5. Len(tx.buffer) \in Nat
                BY <1>1
            <4> QED BY <4>3, <4>4, <4>5, HeaderAssumption
        <3>3. /\ tx'.buffer = SubSeq(tx.buffer, k, Len(tx.buffer))
              /\ tx'.scheduled = tx.scheduled
            BY <2>3 DEF IInv, TxTypeOK, TxState, ReceiveAck, Aged
        <3> HIDE DEF k
        <3>4. Entries(SubSeq(tx.buffer, k, Len(tx.buffer))) \subseteq Entries(tx.buffer)
            BY <1>1, <3>2, SuffixEntries
        <3> QED BY <1>2, <3>3, <3>4 DEF Stored
    <2> QED BY <1>5, <2>1, <2>2, <2>3 DEF TxReceive
<1>6. CASE NextReplay
    <2>1. /\ tx.scheduled # <<>> /\ tx'.buffer = tx.buffer
          /\ tx'.scheduled = Tail(tx.scheduled)
        BY <1>6 DEF IInv, TxTypeOK, TxState, NextReplay
    <2>2. Entries(Tail(tx.scheduled)) \subseteq Entries(tx.scheduled)
        <3>1. Tail(tx.scheduled) = SubSeq(tx.scheduled, 2, Len(tx.scheduled))
            BY <1>1, <2>1, TailIsSubSeq
        <3>2. 2 \in 1 .. (Len(tx.scheduled) + 1)
            BY <1>1, <2>1, EmptyByLength
        <3> QED BY <1>1, <3>1, <3>2, SuffixEntries
    <2> QED BY <1>2, <2>1, <2>2 DEF Stored
<1>7. CASE ResetTransmitter
    <2>1. Stored(tx') = {}
        BY <1>7, ResetFacts, EmptySeq DEF ResetTransmitter, Stored, Entries
    <2> QED BY <1>2, <2>1
<1>8. CASE UNCHANGED tx
    BY <1>8
<1> QED BY <1>3, <1>4, <1>5, <1>6, <1>7, <1>8 DEF TxNext

\* Live and scheduled entries never exceed the storage, also while Acks
\* release entries that the running replay still has to send.
THEOREM StorageIsBounded == TxSpec => []CapacityRespected
<1>1. TxInit => CapacityRespected
    <2> SUFFICES ASSUME TxInit PROVE CapacityRespected
        OBVIOUS
    <2>1. Entries(tx.buffer) \cup Entries(tx.scheduled) = {}
        BY ResetFacts, EmptySeq DEF TxInit, Entries
    <2> QED BY <2>1, FS_EmptySet, TransmitterAssumption DEF CapacityRespected, Resident
<1>2. IInv /\ CapacityRespected /\ [TxNext]_tx => CapacityRespected'
    BY StepKeepsCapacity
<1> QED BY <1>1, <1>2, InductiveInvariant, PTL DEF TxSpec
-----------------------------------------------------------------------------
(* The receiver by itself (DLReplayReceiver), for every low-bit modulus,   *)
(* counter width and set of thresholds.  The inductive invariant RxInv     *)
(* joins the types with the agreement of the counters and the flags.       *)

RxInv == RxTypeOK /\ RxCountersAgree

LEMMA ExpectedType ==
    ASSUME NEW r \in RxState, NEW word
    PROVE  Expected(r, word) \in SeqNum
BY HeaderAssumption DEF RxState, Expected, NextSeq, SeqNum

\* A saturating counter stays in its range and never moves back.
LEMMA SaturatingIncrType ==
    ASSUME NEW max \in Nat \ {0}, NEW n \in 0 .. max
    PROVE  /\ SaturatingIncr(n, max) \in 1 .. max
           /\ SaturatingIncr(n, max) = max => n >= max - 1
           /\ n = max => SaturatingIncr(n, max) = max
BY DEF SaturatingIncr

\* Counting an unexpected flit touches only the counter of unexpected flits.
LEMMA CountUnexpectedKeeps ==
    ASSUME NEW r \in RxState
    PROVE  /\ CountUnexpected(r) \in RxState
           /\ \E n \in 0 .. CountMax : CountUnexpected(r) = [r EXCEPT !.unexpected_count = n]
<1>1. SaturatingIncr(r.unexpected_count, CountMax) \in 1 .. CountMax
    BY ReceiverAssumption, SaturatingIncrType DEF RxState
<1>2. PICK n \in 0 .. CountMax : CountUnexpected(r) = [r EXCEPT !.unexpected_count = n]
    <2>1. CASE RequestDue(r)
        BY <2>1, ReceiverAssumption DEF CountUnexpected
    <2>2. CASE ~RequestDue(r)
        BY <2>2, <1>1 DEF CountUnexpected
    <2> QED BY <2>1, <2>2
<1> QED BY <1>2 DEF RxState

\* Counting a discard keeps the damage counter and the ambiguity in step.
LEMMA CountDiscardKeeps ==
    ASSUME NEW r \in RxState, r.ambiguous <=> r.bad_crc_count = BadLimit
    PROVE  /\ CountDiscard(r) \in RxState
           /\ CountDiscard(r).ambiguous <=> CountDiscard(r).bad_crc_count = BadLimit
           /\ CountDiscard(r).unexpected_count = r.unexpected_count
           /\ CountDiscard(r).replay = r.replay
           /\ CountDiscard(r).last_sequence = r.last_sequence
<1> DEFINE bad == SaturatingIncr(r.bad_crc_count, BadLimit)
           amb == r.ambiguous \/ bad >= BadLimit
<1>1. /\ bad \in 1 .. BadLimit
      /\ r.bad_crc_count = BadLimit => bad = BadLimit
    BY ReceiverAssumption, SaturatingIncrType DEF RxState
<1>2. CountDiscard(r) =
        [r EXCEPT !.bad_crc_count = bad, !.ambiguous = amb]
    BY DEF CountDiscard
<1>3. amb \in BOOLEAN
    BY DEF RxState
<1>4. amb <=> bad = BadLimit
    BY <1>1, ReceiverAssumption
<1> HIDE DEF bad, amb
<1>5. CountDiscard(r) \in RxState
    <2>1. bad \in 0 .. BadLimit
        BY <1>1, ReceiverAssumption
    <2> QED BY <1>2, <1>3, <2>1 DEF RxState
<1>6. /\ CountDiscard(r).ambiguous = amb
      /\ CountDiscard(r).bad_crc_count = bad
      /\ CountDiscard(r).unexpected_count = r.unexpected_count
      /\ CountDiscard(r).replay = r.replay
      /\ CountDiscard(r).last_sequence = r.last_sequence
    BY <1>2 DEF RxState
<1> QED BY <1>4, <1>5, <1>6

LEMMA DiscardedKeeps ==
    ASSUME RxInv
    PROVE  /\ Discarded(rx) \in RxState
           /\ Discarded(rx).ambiguous <=> Discarded(rx).bad_crc_count = BadLimit
           /\ Discarded(rx).unexpected_count > 0 => Discarded(rx).replay
           /\ Discarded(rx).last_sequence = rx.last_sequence
<1> DEFINE c == CountDiscard(rx)
<1>1. /\ c \in RxState
      /\ c.ambiguous <=> c.bad_crc_count = BadLimit
      /\ c.unexpected_count = rx.unexpected_count
      /\ c.replay = rx.replay
      /\ c.last_sequence = rx.last_sequence
    BY CountDiscardKeeps DEF RxInv, RxTypeOK, RxCountersAgree
<1> HIDE DEF c
<1>2. CASE rx.replay
    <2>1. /\ CountUnexpected(c) \in RxState
          /\ \E n \in 0 .. CountMax : CountUnexpected(c) = [c EXCEPT !.unexpected_count = n]
        BY <1>1, CountUnexpectedKeeps
    <2>2. /\ CountUnexpected(c).ambiguous = c.ambiguous
          /\ CountUnexpected(c).bad_crc_count = c.bad_crc_count
          /\ CountUnexpected(c).replay = c.replay
          /\ CountUnexpected(c).last_sequence = c.last_sequence
        BY <1>1, <2>1 DEF RxState
    <2>3. Discarded(rx) = CountUnexpected(c)
        BY <1>2 DEF Discarded, c
    <2> QED BY <1>1, <1>2, <2>1, <2>2, <2>3
<1>3. CASE ~rx.replay
    <2>1. Discarded(rx) = c
        BY <1>3 DEF Discarded, c
    <2> QED BY <1>1, <1>3, <2>1 DEF RxInv, RxCountersAgree
<1> QED BY <1>2, <1>3
-----------------------------------------------------------------------------
(* The invariant is kept by every operation. *)

LEMMA FreshKeeps ==
    ASSUME NEW seq \in SeqNum, NEW limit \in ReplayLimits, rx' = Fresh(seq, limit)
    PROVE  RxInv'
BY ReceiverAssumption DEF RxInv, RxTypeOK, RxCountersAgree, RxState, Fresh

LEMMA AcceptKeeps ==
    ASSUME RxInv, NEW word, NEW crc_ok, ReceiveAccept(word, crc_ok)
    PROVE  RxInv'
<1>1. SequenceOf(rx, word) \in SeqNum
    BY ExpectedType DEF RxInv, RxTypeOK, ReceiveAccept, Accepts
<1> QED BY <1>1, FreshKeeps DEF RxInv, RxTypeOK, RxState, ReceiveAccept

LEMMA StartReplayKeeps ==
    ASSUME RxInv, NEW word, NEW crc_ok, ReceiveStartReplay(word, crc_ok)
    PROVE  RxInv'
<1>1. rx \in RxState /\ rx' = [rx EXCEPT !.replay = TRUE, !.unexpected_count = 0]
    BY DEF RxInv, RxTypeOK, ReceiveStartReplay
<1>2. rx' \in RxState
    <2>1. 0 \in 0 .. CountMax
        BY ReceiverAssumption
    <2> QED BY <1>1, <2>1 DEF RxState
<1>3. /\ rx'.ambiguous = rx.ambiguous /\ rx'.bad_crc_count = rx.bad_crc_count
      /\ rx'.unexpected_count = 0 /\ rx'.replay
    BY <1>1 DEF RxState
<1> QED BY <1>2, <1>3 DEF RxInv, RxTypeOK, RxCountersAgree

LEMMA InReplayKeeps ==
    ASSUME RxInv, NEW word, NEW crc_ok, ReceiveInReplay(word, crc_ok)
    PROVE  RxInv'
<1>1. /\ rx' \in RxState
      /\ \E n \in 0 .. CountMax : rx' = [rx EXCEPT !.unexpected_count = n]
    BY CountUnexpectedKeeps DEF RxInv, RxTypeOK, ReceiveInReplay
<1>2. rx.replay
    BY DEF ReceiveInReplay, CountsInReplay
<1> QED BY <1>1, <1>2 DEF RxInv, RxTypeOK, RxCountersAgree, RxState

LEMMA DiscardKeeps ==
    ASSUME RxInv, rx' = Discarded(rx)
    PROVE  RxInv'
BY DiscardedKeeps DEF RxInv, RxTypeOK, RxCountersAgree

LEMMA StepKeepsRxInv ==
    ASSUME RxInv, [RxNext]_rx
    PROVE  RxInv'
<1>1. ASSUME NEW word \in Words, NEW crc_ok \in BOOLEAN, RxReceive(word, crc_ok)
      PROVE  RxInv'
    <2>1. CASE ReceiveDiscard(word, crc_ok)
        BY <2>1, DiscardKeeps DEF ReceiveDiscard
    <2>2. CASE ReceiveAccept(word, crc_ok)
        BY <2>2, AcceptKeeps
    <2>3. CASE ReceiveStartReplay(word, crc_ok)
        BY <2>3, StartReplayKeeps
    <2>4. CASE ReceiveInReplay(word, crc_ok)
        BY <2>4, InReplayKeeps
    <2>5. CASE ReceiveNoEffect(word, crc_ok)
        BY <2>5 DEF ReceiveNoEffect, RxInv, RxTypeOK, RxCountersAgree
    <2> QED BY <1>1, <2>1, <2>2, <2>3, <2>4, <2>5 DEF RxReceive
<1>2. CASE DiscardForBackpressure
    BY <1>2, DiscardKeeps DEF DiscardForBackpressure
<1>3. ASSUME NEW value \in ReplayLimits, ConfigureReplayLimit(value)
      PROVE  RxInv'
    BY <1>3 DEF ConfigureReplayLimit, RxInv, RxTypeOK, RxCountersAgree, RxState
<1>4. CASE ResetReceiver
    <2>1. MaxSeq \in SeqNum /\ rx.replay_limit \in ReplayLimits
        BY HeaderAssumption DEF SeqNum, RxInv, RxTypeOK, RxState
    <2> QED BY <1>4, <2>1, FreshKeeps DEF ResetReceiver
<1>5. CASE UNCHANGED rx
    BY <1>5 DEF RxInv, RxTypeOK, RxCountersAgree
<1> QED BY <1>1, <1>2, <1>3, <1>4, <1>5 DEF RxNext

LEMMA RxInitInv ==
    ASSUME RxInit
    PROVE  RxInv
<1>1. PICK limit \in ReplayLimits : rx = Fresh(MaxSeq, limit)
    BY DEF RxInit
<1> QED BY <1>1, HeaderAssumption, ReceiverAssumption
        DEF RxInv, RxTypeOK, RxCountersAgree, RxState, Fresh, SeqNum

\* Types and counters of the receiver hold in every reachable state.
THEOREM RxInductiveInvariant == RxSpec => []RxInv
<1>1. RxInit => RxInv
    BY RxInitInv
<1>2. RxInv /\ [RxNext]_rx => RxInv'
    BY StepKeepsRxInv
<1> QED BY <1>1, <1>2, PTL DEF RxSpec

\* Every field keeps the width of its register: counters saturate, and the 0
\* that the nine-bit reconstruction can yield never becomes last_sequence.
THEOREM RxTypeCorrect == RxSpec => []RxTypeOK
BY RxInductiveInvariant, PTL DEF RxInv

\* Low bits are distrusted exactly from the last countable discard on, and
\* unexpected flits are counted only while a replay is awaited.
THEOREM CountersAgree == RxSpec => []RxCountersAgree
BY RxInductiveInvariant, PTL DEF RxInv

\* A flit moves last_sequence to its successor or not at all, and moving it
\* leaves replay and ambiguity behind.
LEMMA StepAdvances ==
    ASSUME RxInv, [RxNext]_rx
    PROVE  \/ rx'.last_sequence = rx.last_sequence
           \/ /\ rx'.last_sequence \in {NextSeq(rx.last_sequence), MaxSeq}
              /\ ~rx'.replay /\ ~rx'.ambiguous
<1> DEFINE Adv == \/ rx'.last_sequence = rx.last_sequence
                  \/ /\ rx'.last_sequence \in {NextSeq(rx.last_sequence), MaxSeq}
                     /\ ~rx'.replay /\ ~rx'.ambiguous
<1>0. rx \in RxState
    BY DEF RxInv, RxTypeOK
<1>1. ASSUME NEW word \in Words, NEW crc_ok \in BOOLEAN, RxReceive(word, crc_ok)
      PROVE  Adv
    <2>1. CASE ReceiveDiscard(word, crc_ok)
        BY <2>1, DiscardedKeeps DEF ReceiveDiscard
    <2>2. CASE ReceiveAccept(word, crc_ok)
        BY <2>2 DEF ReceiveAccept, Accepts, Expected, Fresh
    <2>3. CASE ReceiveStartReplay(word, crc_ok)
        BY <1>0, <2>3 DEF ReceiveStartReplay, RxState
    <2>4. CASE ReceiveInReplay(word, crc_ok)
        <3>1. \E n \in 0 .. CountMax : rx' = [rx EXCEPT !.unexpected_count = n]
            BY <1>0, <2>4, CountUnexpectedKeeps DEF ReceiveInReplay
        <3> QED BY <1>0, <3>1 DEF RxState
    <2>5. CASE ReceiveNoEffect(word, crc_ok)
        BY <2>5 DEF ReceiveNoEffect
    <2> QED BY <1>1, <2>1, <2>2, <2>3, <2>4, <2>5 DEF RxReceive
<1>2. CASE DiscardForBackpressure
    BY <1>2, DiscardedKeeps DEF DiscardForBackpressure
<1>3. ASSUME NEW value \in ReplayLimits, ConfigureReplayLimit(value)
      PROVE  Adv
    BY <1>0, <1>3 DEF ConfigureReplayLimit, RxState
<1>4. CASE ResetReceiver
    BY <1>4 DEF ResetReceiver, Fresh
<1>5. CASE UNCHANGED rx
    BY <1>5
<1> QED BY <1>1, <1>2, <1>3, <1>4, <1>5 DEF RxNext

\* No sequence number is ever skipped by the receiver, whatever headers arrive.
THEOREM NoSequenceSkipped == RxSpec => AdvanceByOne
BY RxInductiveInvariant, StepAdvances, PTL DEF RxSpec, AdvanceByOne
-----------------------------------------------------------------------------
(* The scheduler's invariant. *)

\* A request of which copies were sent and copies remain has a real target.
CopiesKeepTarget ==
    sched.replay_requests \in 1 .. (RequestCopies - 1) =>
        sched.request_sequence \in SeqNum

\* Whatever remains to be replayed was accepted inside the request window, and
\* the newest payload does not move while a replay runs.
ScheduleInWindow ==
    \A i \in 1 .. Len(tx.scheduled) :
        Dist(tx.last_sequence, tx.scheduled[i].sequence) < Window

SchedInv ==
    /\ IInv
    /\ RxInv
    /\ sched \in SchedState
    /\ CopiesKeepTarget
    /\ ScheduleInWindow
-----------------------------------------------------------------------------
(* The steps of the two consumers. *)

LEMMA CorruptedWordType == CorruptedWord \in Words
<1>1. [op |-> 4, payload |-> FALSE] \in Words
    BY DEF Words
<1> QED BY <1>1 DEF CorruptedWord

LEMMA SchedStepIsTxStep ==
    ASSUME SchedNext
    PROVE  [TxNext]_tx
<1>1. ASSUME NEW word \in Words, NEW crc_ok \in BOOLEAN, Receive(word, crc_ok)
      PROVE  TxNext
    BY <1>1 DEF Receive, TxNext
<1>2. ASSUME NEW offered \in BOOLEAN, NEW newGroup \in BOOLEAN, NEW p \in Payloads,
             Send(offered, p, newGroup)
      PROVE  [TxNext]_tx
    BY <1>2 DEF Send, TxNext
<1> QED BY <1>1, <1>2, CorruptedWordType
        DEF SchedNext, DiscardFlit, Configure, ResetScheduler, TxNext

LEMMA SchedStepIsRxStep ==
    ASSUME SchedNext
    PROVE  [RxNext]_rx
<1>1. ASSUME NEW word \in Words, NEW crc_ok \in BOOLEAN, Receive(word, crc_ok)
      PROVE  RxNext
    BY <1>1 DEF Receive, RxNext
<1>2. ASSUME NEW offered \in BOOLEAN, NEW newGroup \in BOOLEAN, NEW p \in Payloads,
             Send(offered, p, newGroup)
      PROVE  UNCHANGED rx
    BY <1>2 DEF Send
<1> QED BY <1>1, <1>2, CorruptedWordType
        DEF SchedNext, DiscardFlit, Configure, ResetScheduler, RxNext

\* A flit with a bad CRC is handled like one that storage refuses.
LEMMA BadFlitIsDiscarded ==
    ASSUME NEW word, Receive(word, FALSE)
    PROVE  DiscardFlit
<1>1. tx' = Aged(tx)
    BY DEF Receive, TxReceive, ReceiveNothing, ReceiveRequest, ReceiveAck, UnusableFlit
<1>2. rx' = Discarded(rx)
    BY DEF Receive, RxReceive, ReceiveDiscard, ReceiveAccept, ReceiveStartReplay,
       ReceiveInReplay, ReceiveNoEffect, Accepts, StartsReplay, CountsInReplay,
       Usable, IsDiscard, IsDropped
<1>3. RequestsReplay(rx, word, FALSE) <=> (rx.replay /\ RequestDue(rx))
    BY DEF RequestsReplay, StartsReplay, CountsInReplay, Usable, IsDiscard
<1>4. NoteRequests(RequestsReplay(rx, word, FALSE))
    BY DEF Receive
<1> QED BY <1>1, <1>2, <1>3, <1>4
        DEF DiscardFlit, DiscardForBackpressure, DiscardIngress, NoteRequests

\* The scheduler drives its transmitter only through the operations that
\* DLReplayTransmitter specifies: it implements that specification.
THEOREM SchedulerDrivesTransmitter == SchedSpec => TxSpec
<1>1. SchedInit => TxInit
    BY DEF SchedInit
<1>2. [SchedNext]_<<tx, rx, sched>> => [TxNext]_tx
    BY SchedStepIsTxStep
<1> QED BY <1>1, <1>2, PTL DEF SchedSpec, TxSpec

\* The scheduler drives its receiver only through the operations that
\* DLReplayReceiver specifies: it implements that specification too.
THEOREM SchedulerDrivesReceiver == SchedSpec => RxSpec
<1>1. SchedInit => RxInit
    BY DEF SchedInit
<1>2. [SchedNext]_<<tx, rx, sched>> => [RxNext]_rx
    BY SchedStepIsRxStep
<1> QED BY <1>1, <1>2, PTL DEF SchedSpec, RxSpec
-----------------------------------------------------------------------------
(* The scheduler's own state. *)

LEMMA SchedResetFacts ==
    ASSUME NEW s, s = SchedReset
    PROVE  /\ s \in SchedState
           /\ s.replay_requests = 0
BY SchedulerAssumption, HeaderAssumption DEF SchedReset, SchedState

\* New requests restart the copies and forget the old target.
LEMMA NoteRequestsKeeps ==
    ASSUME sched \in SchedState, CopiesKeepTarget,
           NEW requests \in BOOLEAN, NoteRequests(requests)
    PROVE  sched' \in SchedState /\ CopiesKeepTarget'
<1>1. CASE requests
    <2>1. sched' = [sched EXCEPT !.replay_requests = RequestCopies,
                                 !.request_sequence = 0]
        BY <1>1 DEF NoteRequests
    <2>2. sched' \in SchedState
        <3>1. RequestCopies \in 0 .. RequestCopies /\ 0 \in 0 .. MaxSeq
            BY SchedulerAssumption, HeaderAssumption
        <3> QED BY <2>1, <3>1 DEF SchedState
    <2>3. sched'.replay_requests = RequestCopies
        BY <2>1 DEF SchedState
    <2>4. CopiesKeepTarget'
        BY <2>3, SchedulerAssumption DEF CopiesKeepTarget
    <2> QED BY <2>2, <2>4
<1>2. CASE ~requests
    BY <1>2 DEF NoteRequests, CopiesKeepTarget
<1> QED BY <1>1, <1>2

\* The target of the copy that goes out now is a sequence number.
LEMMA TargetType ==
    ASSUME SchedInv, sched.replay_requests > 0
    PROVE  RequestTarget \in SeqNum
<1>1. sched.replay_requests \in 1 .. RequestCopies
    BY SchedulerAssumption DEF SchedInv, SchedState
<1>2. NextSeq(rx.last_sequence) \in SeqNum
    BY NextSeqType DEF SchedInv, RxInv, RxTypeOK, RxState
<1> QED BY <1>1, <1>2, SchedulerAssumption
        DEF SchedInv, CopiesKeepTarget, RequestTarget

\* What Send does to the scheduler's record.
LEMMA SendKeepsSched ==
    ASSUME SchedInv, NEW offered \in BOOLEAN, NEW p \in Payloads,
           NEW newGroup \in BOOLEAN, Send(offered, p, newGroup)
    PROVE  sched' \in SchedState /\ CopiesKeepTarget'
<1> DEFINE now == RequestDueNow(newGroup)
           due == ExplicitDue
<1>0. sched \in SchedState
    BY DEF SchedInv
<1>1. now \in BOOLEAN /\ due \in BOOLEAN
    BY <1>0 DEF RequestDueNow, ExplicitDue, FirstReplay, Replaying, SchedInv,
       IInv, TxTypeOK, TxState, SchedState
<1>2. /\ now => sched.replay_requests > 0
      /\ ~due => sched.explicit_count > 1
    BY <1>0 DEF RequestDueNow, ExplicitDue, SchedState
<1>3. sched' = [explicit_count |-> IF due THEN ExplicitPeriod
                                   ELSE sched.explicit_count - 1,
                replay_requests |-> IF now THEN sched.replay_requests - 1
                                    ELSE sched.replay_requests,
                request_sequence |-> IF ~now THEN sched.request_sequence
                                     ELSE IF sched.replay_requests > 1 THEN RequestTarget
                                     ELSE 0,
                requested |-> now \/ (sched.requested /\ ~newGroup)]
    BY DEF Send
<1>4. sched.replay_requests > 0 => RequestTarget \in SeqNum
    BY TargetType
<1>5. /\ sched.explicit_count \in 0 .. ExplicitPeriod
      /\ sched.replay_requests \in 0 .. RequestCopies
      /\ sched.request_sequence \in 0 .. MaxSeq
      /\ sched.requested \in BOOLEAN
    BY <1>0 DEF SchedState
<1> HIDE DEF now, due
<1>6. sched'.explicit_count \in 0 .. ExplicitPeriod
    BY <1>2, <1>3, <1>5, SchedulerAssumption
<1>7. sched'.replay_requests \in 0 .. RequestCopies
    BY <1>2, <1>3, <1>5, SchedulerAssumption
<1>8. sched'.request_sequence \in 0 .. MaxSeq
    BY <1>2, <1>3, <1>4, <1>5, HeaderAssumption DEF SeqNum
<1>9. sched'.requested \in BOOLEAN
    BY <1>1, <1>3, <1>5
<1>10. sched' \in SchedState
    BY <1>3, <1>6, <1>7, <1>8, <1>9 DEF SchedState
<1>11. CopiesKeepTarget'
    <2>1. CASE now
        BY <1>2, <1>3, <1>4, <1>5, <2>1, SchedulerAssumption DEF CopiesKeepTarget
    <2>2. CASE ~now
        BY <1>3, <2>2 DEF SchedInv, CopiesKeepTarget
    <2> QED BY <2>1, <2>2
<1> QED BY <1>10, <1>11
-----------------------------------------------------------------------------
(* The schedule stays inside the window. *)

\* Entries later in the buffer lie nearer to the newest payload.
LEMMA LaterIsNearer ==
    ASSUME IInv, NEW i \in 1 .. Len(tx.buffer)
    PROVE  Dist(tx.last_sequence, tx.buffer[i].sequence) = Len(tx.buffer) - i
<1> DEFINE n == Len(tx.buffer)
<1>1. /\ tx.last_sequence \in SeqNum /\ tx.last_ack \in SeqNum
      /\ n \in Nat /\ n <= Window
      /\ n = Dist(tx.last_sequence, tx.last_ack)
      /\ tx.buffer[i].sequence = Advance(tx.last_ack, i)
    BY EmptyByLength DEF IInv, TxTypeOK, TxState, BufferContiguous
<1>2. Advance(tx.last_ack, i) \in SeqNum
    BY <1>1, AdvanceType, HeaderAssumption
<1>3. Advance(tx.last_ack, n) = tx.last_sequence
    BY <1>1, AdvanceDist
<1>4. Dist(tx.last_sequence, Advance(tx.last_ack, i)) =
        IF tx.last_sequence >= Advance(tx.last_ack, i)
        THEN tx.last_sequence - Advance(tx.last_ack, i)
        ELSE tx.last_sequence - Advance(tx.last_ack, i) + MaxSeq
    BY <1>1, <1>2, DistValue
<1> HIDE DEF n
<1>5. i \in 1 .. n
    BY DEF n
<1>6. Dist(tx.last_sequence, Advance(tx.last_ack, i)) = n - i
    BY <1>1, <1>3, <1>4, <1>5, HeaderAssumption DEF SeqNum, Advance
<1> QED BY <1>1, <1>6 DEF n

\* An accepted request schedules only what lies inside its window.
LEMMA RequestKeepsWindow ==
    ASSUME IInv, NEW word \in Words, NEW crc_ok \in BOOLEAN,
           ReceiveRequest(word, crc_ok)
    PROVE  ScheduleInWindow'
<1> DEFINE target == word.ack_request
           n == Len(tx.buffer)
           Found(k) == /\ tx.buffer[k].sequence = target
                       /\ \A j \in 1 .. (k - 1) : tx.buffer[j].sequence # target
           start == CHOOSE k \in 1 .. n : Found(k)
<1>1. target \in SeqNum /\ RequestExpected(tx, target)
    BY HeaderAssumption DEF ReceiveRequest, UnusableFlit, ValidHeader, ZeroField,
       ReservedOp, IsCommand, IsExplicit, RequestRefused, Words, SeqNum
<1>2. tx.buffer \in Seq(Entry) /\ n \in Nat
    BY EmptyByLength DEF IInv, TxTypeOK, TxState
<1>3. start \in 1 .. n /\ tx.buffer[start].sequence = target
    <2>1. PICK i \in 1 .. n : tx.buffer[i].sequence = target
        BY <1>1, SearchSucceeds
    <2>2. \A j \in 1 .. (i - 1) : tx.buffer[j].sequence # target
        BY <1>2, <2>1, EntriesDistinct
    <2>3. Found(i)
        BY <2>1, <2>2
    <2>4. Found(start)
        <3> HIDE DEF Found
        <3> QED BY <2>1, <2>3
    <2>5. start \in 1 .. n
        <3> HIDE DEF Found
        <3> QED BY <2>1, <2>3
    <2> QED BY <2>4, <2>5
<1>4. n - start <= Window - 1
    <2>1. Dist(tx.last_sequence, target) <= Window - 1
        BY <1>1 DEF RequestExpected
    <2>2. Dist(tx.last_sequence, tx.buffer[start].sequence) = n - start
        BY <1>3, LaterIsNearer
    <2> QED BY <1>3, <2>1, <2>2
<1>5. BufferFrom(tx, target) = SubSeq(tx.buffer, start, n)
    BY DEF BufferFrom
<1>6. /\ tx'.scheduled = SubSeq(tx.buffer, start, n)
      /\ tx'.last_sequence = tx.last_sequence
    BY <1>5 DEF IInv, TxTypeOK, TxState, ReceiveRequest
<1> HIDE DEF start
<1>7. /\ Len(SubSeq(tx.buffer, start, n)) = n - start + 1
      /\ \A i \in 1 .. (n - start + 1) :
            SubSeq(tx.buffer, start, n)[i] = tx.buffer[start + i - 1]
    <2>1. \A i \in start .. n : tx.buffer[i] \in Entry
        BY <1>2, <1>3, ElementOfSeq
    <2> QED BY <1>2, <1>3, <2>1, SubSeqProperties
<1>8. ASSUME NEW i \in 1 .. (n - start + 1)
      PROVE  Dist(tx.last_sequence, tx.buffer[start + i - 1].sequence) < Window
    <2>1. start + i - 1 \in 1 .. n
        BY <1>2, <1>3
    <2>2. Dist(tx.last_sequence, tx.buffer[start + i - 1].sequence) = n - (start + i - 1)
        BY <2>1, LaterIsNearer
    <2> QED BY <1>2, <1>3, <1>4, <2>2, HeaderAssumption
<1> QED BY <1>6, <1>7, <1>8 DEF ScheduleInWindow

LEMMA TxStepKeepsWindow ==
    ASSUME IInv, ScheduleInWindow, [TxNext]_tx
    PROVE  ScheduleInWindow'
<1>1. ASSUME tx'.scheduled = tx.scheduled, tx'.last_sequence = tx.last_sequence
      PROVE  ScheduleInWindow'
    BY <1>1 DEF ScheduleInWindow
<1>2. ASSUME NEW p \in Payloads, Enqueue(p) PROVE ScheduleInWindow'
    <2>1. tx'.scheduled = <<>>
        BY <1>2 DEF Enqueue, CanEnqueue, IInv, ReplayFlagsAgree, TxTypeOK, TxState
    <2> QED BY <2>1, EmptySeq DEF ScheduleInWindow
<1>3. ASSUME tx' = Aged(tx) PROVE ScheduleInWindow'
    BY <1>1, <1>3 DEF Aged, IInv, TxTypeOK, TxState
<1>4. ASSUME NEW word \in Words, NEW crc_ok \in BOOLEAN, TxReceive(word, crc_ok)
      PROVE  ScheduleInWindow'
    <2>1. CASE ReceiveNothing(word, crc_ok)
        BY <1>3, <2>1 DEF ReceiveNothing
    <2>2. CASE ReceiveRequest(word, crc_ok)
        BY <2>2, RequestKeepsWindow
    <2>3. CASE ReceiveAck(word, crc_ok)
        BY <1>1, <2>3 DEF ReceiveAck, Aged, IInv, TxTypeOK, TxState
    <2> QED BY <1>4, <2>1, <2>2, <2>3 DEF TxReceive
<1>5. CASE NextReplay
    <2>1. /\ tx.scheduled \in Seq(Entry) /\ tx.scheduled # <<>>
          /\ Len(tx.scheduled) \in Nat
          /\ tx'.scheduled = Tail(tx.scheduled)
          /\ tx'.last_sequence = tx.last_sequence
        BY <1>5, EmptyByLength DEF NextReplay, IInv, TxTypeOK, TxState
    <2>2. /\ Len(Tail(tx.scheduled)) = Len(tx.scheduled) - 1
          /\ \A i \in 1 .. Len(Tail(tx.scheduled)) :
                Tail(tx.scheduled)[i] = tx.scheduled[i + 1]
        BY <2>1, HeadTailProperties
    <2> QED BY <2>1, <2>2 DEF ScheduleInWindow
<1>6. CASE ResetTransmitter
    BY <1>6, ResetFacts, EmptySeq DEF ResetTransmitter, ScheduleInWindow
<1>7. CASE UNCHANGED tx
    BY <1>1, <1>7
<1> QED BY <1>2, <1>3, <1>4, <1>5, <1>6, <1>7 DEF TxNext, DiscardIngress
-----------------------------------------------------------------------------
(* The inductive invariant. *)

LEMMA SchedStepKeeps ==
    ASSUME SchedInv, SchedNext
    PROVE  sched' \in SchedState /\ CopiesKeepTarget'
<1> USE DEF SchedInv
<1>1. ASSUME NEW word \in Words, NEW crc_ok \in BOOLEAN, Receive(word, crc_ok)
      PROVE  sched' \in SchedState /\ CopiesKeepTarget'
    <2>1. RequestsReplay(rx, word, crc_ok) \in BOOLEAN
        BY DEF RequestsReplay
    <2> QED BY <1>1, <2>1, NoteRequestsKeeps DEF Receive
<1>2. CASE DiscardFlit
    <2>1. (rx.replay /\ RequestDue(rx)) \in BOOLEAN
        OBVIOUS
    <2> QED BY <1>2, <2>1, NoteRequestsKeeps DEF DiscardFlit
<1>3. ASSUME NEW offered \in BOOLEAN, NEW newGroup \in BOOLEAN, NEW p \in Payloads,
             Send(offered, p, newGroup)
      PROVE  sched' \in SchedState /\ CopiesKeepTarget'
    BY <1>3, SendKeepsSched
<1>4. CASE Configure
    BY <1>4 DEF Configure, CopiesKeepTarget
<1>5. CASE ResetScheduler
    BY <1>5, SchedResetFacts DEF ResetScheduler, CopiesKeepTarget
<1> QED BY <1>1, <1>2, <1>3, <1>4, <1>5, CorruptedWordType DEF SchedNext

LEMMA SchedInitInv ==
    ASSUME SchedInit
    PROVE  SchedInv
<1>1. tx = TxReset /\ RxInit /\ sched = SchedReset
    BY DEF SchedInit, TxInit
<1>2. RxInv
    BY <1>1, RxInitInv
<1>3. sched \in SchedState /\ CopiesKeepTarget
    BY <1>1, SchedResetFacts DEF CopiesKeepTarget
<1>4. ScheduleInWindow
    BY <1>1, ResetFacts, EmptySeq DEF ScheduleInWindow
<1> QED BY <1>1, <1>2, <1>3, <1>4, ResetInv DEF SchedInv

LEMMA SchedStepKeepsInv ==
    ASSUME SchedInv, [SchedNext]_<<tx, rx, sched>>
    PROVE  SchedInv'
<1>1. CASE SchedNext
    <2>1. [TxNext]_tx /\ [RxNext]_rx
        BY <1>1, SchedStepIsTxStep, SchedStepIsRxStep
    <2>2. IInv' /\ RxInv' /\ ScheduleInWindow'
        BY <2>1, StepKeepsInv, StepKeepsRxInv, TxStepKeepsWindow DEF SchedInv
    <2> QED BY <1>1, <2>2, SchedStepKeeps DEF SchedInv
<1>2. CASE UNCHANGED <<tx, rx, sched>>
    <2>1. [TxNext]_tx /\ [RxNext]_rx
        BY <1>2
    <2>2. IInv' /\ RxInv' /\ ScheduleInWindow'
        BY <2>1, StepKeepsInv, StepKeepsRxInv, TxStepKeepsWindow DEF SchedInv
    <2> QED BY <1>2, <2>2 DEF SchedInv, CopiesKeepTarget
<1> QED BY <1>1, <1>2

\* The invariant behind the theorems below holds in every reachable state.
THEOREM SchedulerInvariant == SchedSpec => []SchedInv
BY SchedInitInv, SchedStepKeepsInv, PTL DEF SchedSpec
-----------------------------------------------------------------------------
(* What the invariant says of the flits that are sent. *)

\* The scheduler's fields, those of its transmitter and those of its receiver
\* keep the types of their registers under every grouping of flits.
THEOREM SchedulerTypeCorrect == SchedSpec => []SchedTypeOK
<1>1. SchedInv => SchedTypeOK
    BY DEF SchedInv, SchedTypeOK, IInv, RxInv
<1> QED BY <1>1, SchedulerInvariant, PTL

\* Either encoder is handed fields it accepts.
LEMMA ExplicitIsLegal ==
    ASSUME NEW seq \in SeqNum, NEW has \in BOOLEAN, NEW replayed \in BOOLEAN,
           replayed => has
    PROVE  /\ EncodeExplicit(seq, has, replayed) \in Words
           /\ ValidHeader(EncodeExplicit(seq, has, replayed))
<1>1. CASE replayed
    BY <1>1, HeaderAssumption DEF EncodeExplicit, Words, ValidHeader, ReservedOp, ZeroField,
       IsExplicit, IsCommand, SeqNum
<1>2. CASE ~replayed
    BY <1>2, HeaderAssumption DEF EncodeExplicit, Words, ValidHeader, ReservedOp, ZeroField,
       IsExplicit, IsCommand, SeqNum
<1> QED BY <1>1, <1>2

LEMMA CommandIsLegal ==
    ASSUME NEW seq \in SeqNum, NEW target \in SeqNum, NEW has \in BOOLEAN,
           NEW request \in BOOLEAN
    PROVE  /\ EncodeCommand(seq, target, has, request) \in Words
           /\ ValidHeader(EncodeCommand(seq, target, has, request))
<1>1. seq % LowMod \in 0 .. (LowMod - 1)
    BY HeaderAssumption DEF SeqNum
<1> DEFINE low == seq % LowMod
           op == IF request THEN 3 ELSE 2
           word == [op |-> op, payload |-> has, sequence_low |-> low,
                    ack_request |-> target]
<1>2. EncodeCommand(seq, target, has, request) = word
    BY DEF EncodeCommand
<1>3. op \in {2, 3} /\ target \in 1 .. MaxSeq /\ low \in 0 .. (LowMod - 1)
    BY <1>1 DEF SeqNum
<1> HIDE DEF low, op
<1>4. word \in Words
    BY <1>3, HeaderAssumption DEF Words
<1>5. ValidHeader(word)
    BY <1>3, HeaderAssumption DEF ValidHeader, ReservedOp, ZeroField, IsExplicit, IsCommand
<1> HIDE DEF word
<1> QED BY <1>2, <1>4, <1>5

LEMMA CarriedSequence ==
    ASSUME SchedInv, NEW offered \in BOOLEAN, NEW p
    PROVE  CarriedEntry(offered, p).sequence \in SeqNum
<1>1. tx.last_sequence \in SeqNum /\ tx.scheduled \in Seq(Entry)
    BY DEF SchedInv, IInv, TxTypeOK, TxState
<1>2. CASE Replaying
    <2>1. Head(tx.scheduled) \in Entry
        BY <1>1, <1>2, HeadTailProperties DEF Replaying
    <2> QED BY <1>2, <2>1 DEF CarriedEntry, Entry
<1>3. CASE ~Replaying
    <2>1. NextSeq(tx.last_sequence) \in SeqNum
        BY <1>1, NextSeqType
    <2> QED BY <1>1, <1>3, <2>1 DEF CarriedEntry
<1> QED BY <1>2, <1>3

LEMMA CarriedPayload ==
    ASSUME SchedInv, NEW offered \in BOOLEAN, NEW p \in Payloads
    PROVE  CarriedEntry(offered, p).payload \in Payloads
<1>1. CASE Replaying
    <2>1. Head(tx.scheduled) \in Entry
        BY <1>1, HeadTailProperties DEF Replaying, SchedInv, IInv, TxTypeOK, TxState
    <2> QED BY <1>1, <2>1 DEF CarriedEntry, Entry
<1>2. CASE ~Replaying
    BY <1>2 DEF CarriedEntry
<1> QED BY <1>1, <1>2

LEMMA EncodersAccept ==
    ASSUME SchedInv
    PROVE  SendsLegalWord
<1> SUFFICES ASSUME NEW offered \in BOOLEAN, NEW newGroup \in BOOLEAN,
                    NEW p \in Payloads
             PROVE  /\ OutgoingWord(offered, p, newGroup) \in Words
                    /\ ValidHeader(OutgoingWord(offered, p, newGroup))
    BY DEF SendsLegalWord
<1> DEFINE seq == CarriedEntry(offered, p).sequence
           has == HasPayload(offered)
<1>1. seq \in SeqNum
    BY CarriedSequence
<1>2. has \in BOOLEAN /\ Replaying \in BOOLEAN /\ (Replaying => has)
    BY DEF HasPayload, Replaying, AcceptsOffer
<1>3. rx.last_sequence \in SeqNum
    BY DEF SchedInv, RxInv, RxTypeOK, RxState
<1>4. OutgoingWord(offered, p, newGroup) =
        IF ExplicitDue THEN EncodeExplicit(seq, has, Replaying)
        ELSE IF RequestDueNow(newGroup) THEN EncodeCommand(seq, RequestTarget, has, TRUE)
        ELSE EncodeCommand(seq, rx.last_sequence, has, FALSE)
    BY DEF OutgoingWord
<1> HIDE DEF seq, has
<1>5. CASE ExplicitDue
    BY <1>1, <1>2, <1>4, <1>5, ExplicitIsLegal
<1>6. CASE ~ExplicitDue /\ RequestDueNow(newGroup)
    <2>1. RequestTarget \in SeqNum
        BY <1>6, TargetType DEF RequestDueNow
    <2> QED BY <1>1, <1>2, <1>4, <1>6, <2>1, CommandIsLegal
<1>7. CASE ~ExplicitDue /\ ~RequestDueNow(newGroup)
    BY <1>1, <1>2, <1>3, <1>4, <1>7, CommandIsLegal
<1> QED BY <1>5, <1>6, <1>7

\* Whatever the peer has sent, neither encoder is handed an illegal field: a
\* request names a real number, a replayed flit carries a payload.
THEOREM EveryFlitIsLegal == SchedSpec => []SendsLegalWord
BY EncodersAccept, SchedulerInvariant, PTL

\* Two numbers behind the same tail, seen from the nearer one.
LEMMA BehindTheTail ==
    ASSUME NEW tail \in SeqNum, NEW ack \in SeqNum, NEW seq \in SeqNum,
           Dist(tail, ack) <= Dist(tail, seq)
    PROVE  Dist(ack, seq) = Dist(tail, seq) - Dist(tail, ack)
<1>1. /\ Dist(tail, ack) = IF tail >= ack THEN tail - ack ELSE tail - ack + MaxSeq
      /\ Dist(tail, seq) = IF tail >= seq THEN tail - seq ELSE tail - seq + MaxSeq
      /\ Dist(ack, seq) = IF ack >= seq THEN ack - seq ELSE ack - seq + MaxSeq
    BY DistValue
<1> QED BY <1>1, HeaderAssumption DEF SeqNum

\* A flit carries a number on the unacknowledged run, or one the peer
\* acknowledged while the replay that repeats it was running: never a number
\* that the transmitter has not committed.
THEOREM EveryNumberIsCommitted == SchedSpec => []SendsKnownSequence
<1>1. SchedInv => SendsKnownSequence
    <2> SUFFICES ASSUME SchedInv, NEW p \in Payloads
                 PROVE  \/ Dist(tx.last_sequence, CarriedEntry(FALSE, p).sequence)
                              <= Len(tx.buffer)
                        \/ /\ tx.replay
                           /\ Dist(tx.last_ack, CarriedEntry(FALSE, p).sequence) < Window
        BY DEF SendsKnownSequence
    <2> DEFINE h == CarriedEntry(FALSE, p).sequence
    <2>1. h \in SeqNum
        BY CarriedSequence
    <2>2. /\ tx.last_sequence \in SeqNum /\ tx.last_ack \in SeqNum
          /\ tx.scheduled \in Seq(Entry) /\ Len(tx.buffer) \in Nat
          /\ Len(tx.buffer) = Dist(tx.last_sequence, tx.last_ack)
        BY EmptyByLength DEF SchedInv, IInv, TxTypeOK, TxState, BufferContiguous
    <2>3. CASE Replaying
        <3>1. Len(tx.scheduled) \in Nat \ {0} /\ Head(tx.scheduled) = tx.scheduled[1]
            BY <2>2, <2>3, EmptyByLength, HeadTailProperties DEF Replaying
        <3>2. h = tx.scheduled[1].sequence
            BY <2>3, <3>1 DEF CarriedEntry
        <3>3. Dist(tx.last_sequence, h) < Window
            <4>1. 1 \in 1 .. Len(tx.scheduled)
                BY <3>1
            <4>2. Dist(tx.last_sequence, tx.scheduled[1].sequence) < Window
                BY <4>1 DEF SchedInv, ScheduleInWindow
            <4> HIDE DEF h
            <4> QED BY <3>2, <4>2
        <3>4. tx.replay
            BY <2>3 DEF Replaying, SchedInv, IInv, ReplayFlagsAgree
        <3>5. /\ Dist(tx.last_sequence, h) \in 0 .. (MaxSeq - 1)
              /\ Dist(tx.last_sequence, tx.last_ack) \in 0 .. (MaxSeq - 1)
            BY <2>1, <2>2, DistValue
        <3> HIDE DEF h
        <3>6. CASE Dist(tx.last_sequence, h) <= Len(tx.buffer)
            BY <3>6 DEF h
        <3>7. CASE Dist(tx.last_sequence, h) > Len(tx.buffer)
            <4>1. Dist(tx.last_ack, h) =
                    Dist(tx.last_sequence, h) - Dist(tx.last_sequence, tx.last_ack)
                BY <2>1, <2>2, <3>5, <3>7, BehindTheTail
            <4>2. Dist(tx.last_ack, h) < Window
                BY <3>3, <3>5, <4>1, HeaderAssumption
            <4> QED BY <3>4, <4>2 DEF h
        <3>8. Dist(tx.last_sequence, h) <= Len(tx.buffer)
              \/ Dist(tx.last_sequence, h) > Len(tx.buffer)
            BY <2>2, <3>5
        <3> QED BY <3>6, <3>7, <3>8
    <2>4. CASE ~Replaying
        <3>1. h = tx.last_sequence
            BY <2>4 DEF CarriedEntry, AcceptsOffer
        <3>2. Dist(tx.last_sequence, tx.last_sequence) = 0
            BY <2>2, DistValue DEF SeqNum
        <3>3. Dist(tx.last_sequence, h) <= Len(tx.buffer)
            <4> HIDE DEF h
            <4> QED BY <2>2, <3>1, <3>2
        <3> QED BY <3>3
    <2> QED BY <2>3, <2>4
<1> QED BY <1>1, SchedulerInvariant, PTL
-----------------------------------------------------------------------------
(* What carries over from the two consumers. *)

\* Behind the scheduler the buffer is still the run of unacknowledged numbers.
THEOREM SchedulerBufferContiguous == SchedSpec => []BufferContiguous
BY SchedulerDrivesTransmitter, BufferIsContiguous, PTL

\* Behind the scheduler every accepted request still finds its entry.
THEOREM SchedulerRequestsResident == SchedSpec => []ReplayTargetResident
BY SchedulerDrivesTransmitter, RequestsAreResident, PTL

\* Behind the scheduler live and scheduled entries still fit the storage.
THEOREM SchedulerStorageBounded == SchedSpec => []CapacityRespected
BY SchedulerDrivesTransmitter, StorageIsBounded, PTL

\* Behind the scheduler the receiver still skips no sequence number.
THEOREM SchedulerSkipsNothing == SchedSpec => AdvanceByOne
BY SchedulerDrivesReceiver, NoSequenceSkipped, PTL DEF AdvanceByOne
-----------------------------------------------------------------------------
(* Numbering.  Payloads are counted 1, 2, 3, ... without end; on the wire  *)
(* the k-th one carries Number(k), and 0 stands for "none yet".            *)

Number(k) == ((k - 1) % MaxSeq) + 1

\* The low bits tell apart what can follow in one run: they wrap with the
\* sequence numbers, and more values fit than flits may be lost in a row.
LowBitsSuffice == (MaxSeq + 1) % LowMod = 0 /\ BadLimit < LowMod

LEMMA ModSplit ==
    ASSUME NEW m \in Nat \ {0}, NEW a \in Int
    PROVE  /\ a % m \in 0 .. (m - 1)
           /\ \E k \in Int : a = m * k + (a % m)
<1>1. a % m \in 0 .. (m - 1)
    OBVIOUS
<1>2. a = m * (a \div m) + (a % m) /\ a \div m \in Int
    OBVIOUS
<1> QED BY <1>1, <1>2

LEMMA ModUnique ==
    ASSUME NEW m \in Nat \ {0}, NEW k \in Int, NEW r \in 0 .. (m - 1)
    PROVE  (m * k + r) % m = r
OBVIOUS

\* The residue of an integer less than two turns away.
LEMMA ModNear ==
    ASSUME NEW m \in Nat \ {0}, NEW a \in Int
    PROVE  /\ a \in 0 .. (m - 1) => a % m = a
           /\ a + m \in 0 .. (m - 1) => a % m = a + m
           /\ a - m \in 0 .. (m - 1) => a % m = a - m
<1>1. /\ a \in 0 .. (m - 1) => (m * 0 + a) % m = a
      /\ a + m \in 0 .. (m - 1) => (m * (-1) + (a + m)) % m = a + m
      /\ a - m \in 0 .. (m - 1) => (m * 1 + (a - m)) % m = a - m
    BY ModUnique
<1>2. m * 0 + a = a /\ m * (-1) + (a + m) = a /\ m * 1 + (a - m) = a
    OBVIOUS
<1> QED BY <1>1, <1>2

\* A step shorter than the modulus passes its end at most once.
LEMMA ModStep ==
    ASSUME NEW m \in Nat \ {0}, NEW a \in Int, NEW j \in 0 .. m
    PROVE  (a + j) % m = IF (a % m) + j < m THEN (a % m) + j ELSE (a % m) + j - m
<1> DEFINE r == a % m
<1>1. PICK k \in Int : a = m * k + r
    BY ModSplit
<1>2. r \in 0 .. (m - 1)
    BY ModSplit
<1> HIDE DEF r
<1>3. m * k \in Int /\ m * (k + 1) = m * k + m /\ k + 1 \in Int
    OBVIOUS
<1>4. CASE r + j < m
    <2>1. r + j \in 0 .. (m - 1)
        BY <1>2, <1>4
    <2>2. (m * k + (r + j)) % m = r + j
        BY <2>1, ModUnique
    <2>3. a + j = m * k + (r + j)
        BY <1>1, <1>2, <1>3
    <2>4. (a + j) % m = r + j
        BY <2>2, <2>3
    <2> QED BY <1>4, <2>4 DEF r
<1>5. CASE ~(r + j < m)
    <2>1. r + j - m \in 0 .. (m - 1)
        BY <1>2, <1>5
    <2>2. (m * (k + 1) + (r + j - m)) % m = r + j - m
        BY <2>1, <1>3, ModUnique
    <2>3. a + j = m * (k + 1) + (r + j - m)
        BY <1>1, <1>2, <1>3
    <2>4. (a + j) % m = r + j - m
        BY <2>2, <2>3
    <2> QED BY <1>5, <2>4 DEF r
<1> QED BY <1>4, <1>5

LEMMA NumberType ==
    ASSUME NEW k \in Nat
    PROVE  Number(k) \in SeqNum
<1>1. (k - 1) % MaxSeq \in 0 .. (MaxSeq - 1)
    BY HeaderAssumption, ModSplit
<1> QED BY <1>1, HeaderAssumption DEF Number, SeqNum

LEMMA NumberOfNone == Number(0) = MaxSeq
<1>1. (MaxSeq * (-1) + (MaxSeq - 1)) % MaxSeq = MaxSeq - 1
    BY HeaderAssumption, ModUnique
<1>2. MaxSeq * (-1) + (MaxSeq - 1) = -1
    BY HeaderAssumption
<1> QED BY <1>1, <1>2, HeaderAssumption DEF Number

LEMMA NumberAdvance ==
    ASSUME NEW k \in Nat, NEW j \in 0 .. MaxSeq
    PROVE  Number(k + j) = Advance(Number(k), j)
<1> DEFINE r == (k - 1) % MaxSeq
<1>1. r \in 0 .. (MaxSeq - 1)
    BY HeaderAssumption, ModSplit
<1>2. ((k - 1) + j) % MaxSeq = IF r + j < MaxSeq THEN r + j ELSE r + j - MaxSeq
    <2>1. MaxSeq \in Nat \ {0} /\ k - 1 \in Int
        BY HeaderAssumption
    <2>2. \A x \in Int : (x + j) % MaxSeq = IF (x % MaxSeq) + j < MaxSeq
                                THEN (x % MaxSeq) + j ELSE (x % MaxSeq) + j - MaxSeq
        BY <2>1, ModStep
    <2> QED BY <2>1, <2>2
<1>3. (k - 1) + j = (k + j) - 1
    BY HeaderAssumption
<1> HIDE DEF r
<1>4. Number(k + j) = IF r + j < MaxSeq THEN r + j + 1 ELSE r + j - MaxSeq + 1
    BY <1>1, <1>2, <1>3, HeaderAssumption DEF Number
<1>5. Number(k) = r + 1
    BY DEF Number, r
<1> QED BY <1>1, <1>4, <1>5, HeaderAssumption DEF Advance

LEMMA NumberNext ==
    ASSUME NEW k \in Nat
    PROVE  Number(k + 1) = NextSeq(Number(k))
<1>1. 1 \in 0 .. MaxSeq
    BY HeaderAssumption
<1> QED BY <1>1, NumberAdvance, NumberType, NextSeqType

\* Less than a whole turn apart, numbers tell how far apart.
LEMMA NumberDist ==
    ASSUME NEW k \in Nat, NEW j \in 0 .. (MaxSeq - 1)
    PROVE  Dist(Number(k + j), Number(k)) = j
<1>1. Number(k) \in SeqNum /\ Number(k + j) \in SeqNum /\ j \in 0 .. MaxSeq
    BY NumberType, HeaderAssumption
<1>2. Number(k + j) = Advance(Number(k), j)
    BY <1>1, NumberAdvance
<1>3. Dist(Number(k + j), Number(k)) =
        IF Number(k + j) >= Number(k) THEN Number(k + j) - Number(k)
        ELSE Number(k + j) - Number(k) + MaxSeq
    BY <1>1, DistValue
<1> QED BY <1>1, <1>2, <1>3, HeaderAssumption DEF SeqNum, Advance

LEMMA NumberApart ==
    ASSUME NEW a \in Nat, NEW b \in Nat, Number(a) = Number(b),
           a - b < MaxSeq, b - a < MaxSeq
    PROVE  a = b
<1>1. ASSUME NEW k \in Nat, NEW l \in Nat, Number(k) = Number(l), l <= k, k - l < MaxSeq
      PROVE  k = l
    <2>1. k - l \in 0 .. (MaxSeq - 1) /\ l + (k - l) = k
        BY <1>1, HeaderAssumption
    <2>2. Dist(Number(k), Number(l)) = k - l
        BY <2>1, NumberDist
    <2>3. Dist(Number(l), Number(l)) = 0
        <3>1. 0 \in 0 .. (MaxSeq - 1) /\ l + 0 = l
            BY HeaderAssumption
        <3> QED BY <3>1, NumberDist
    <2> QED BY <1>1, <2>2, <2>3
<1>2. CASE b <= a
    BY <1>1, <1>2
<1>3. CASE a < b
    BY <1>1, <1>3
<1> QED BY <1>2, <1>3

LEMMA ModAdd ==
    ASSUME NEW m \in Nat \ {0}, NEW a \in Int, NEW b \in Int, b % m = 0
    PROVE  (a + b) % m = a % m
<1> DEFINE r == a % m
<1>1. PICK k \in Int : a = m * k + r
    BY ModSplit
<1>2. PICK l \in Int : b = m * l + (b % m)
    BY ModSplit
<1>3. r \in 0 .. (m - 1)
    BY ModSplit
<1> HIDE DEF r
<1>4. m * (k + l) = m * k + m * l /\ m * k \in Int /\ m * l \in Int /\ k + l \in Int
    OBVIOUS
<1>5. a + b = m * (k + l) + r
    BY <1>1, <1>2, <1>3, <1>4
<1>6. (m * (k + l) + r) % m = r
    BY <1>3, <1>4, ModUnique
<1> QED BY <1>5, <1>6 DEF r

\* Fewer than LowMod - 1 numbers apart, the low bits differ, also across the wrap.
LEMMA LowBitsApart ==
    ASSUME LowBitsSuffice, NEW k \in Nat, NEW j \in Nat, j <= LowMod - 2,
           Number(k + j) % LowMod = Number(k) % LowMod
    PROVE  j = 0
<1> DEFINE x == Number(k)
           r == x % LowMod
<1>1. /\ LowMod \in Nat \ {0} /\ MaxSeq \in Nat \ {0} /\ x \in 1 .. MaxSeq /\ x \in Int
      /\ MaxSeq + 1 \in Int
    BY HeaderAssumption, NumberType DEF SeqNum
<1>2. LowMod <= MaxSeq + 1
    <2>1. PICK q \in Int : MaxSeq + 1 = LowMod * q + ((MaxSeq + 1) % LowMod)
        BY <1>1, ModSplit
    <2>2. MaxSeq + 1 = LowMod * q /\ q > 0
        <3>1. MaxSeq + 1 = LowMod * q
            BY <1>1, <2>1 DEF LowBitsSuffice
        <3> QED BY <1>1, <3>1
    <2>3. LowMod * q >= LowMod
        BY <1>1, <2>2
    <2> QED BY <2>2, <2>3
<1>3. Number(k + j) = IF x + j <= MaxSeq THEN x + j ELSE x + j - MaxSeq
    <2>1. j \in 0 .. MaxSeq
        BY <1>1, <1>2
    <2> QED BY <2>1, NumberAdvance DEF Advance
<1>4. r \in 0 .. (LowMod - 1)
    BY <1>1, ModSplit
<1>5. \A i \in 0 .. LowMod : (x + i) % LowMod = IF r + i < LowMod THEN r + i ELSE r + i - LowMod
    BY <1>1, ModStep
<1>6. CASE x + j <= MaxSeq
    <2>1. (x + j) % LowMod = r
        BY <1>3, <1>6
    <2>2. (x + j) % LowMod = IF r + j < LowMod THEN r + j ELSE r + j - LowMod
        BY <1>1, <1>5
    <2> HIDE DEF r, x
    <2> QED BY <1>1, <1>4, <2>1, <2>2
<1>7. CASE ~(x + j <= MaxSeq)
    <2>1. (x + j - MaxSeq) % LowMod = r
        BY <1>3, <1>7
    <2>2. ((x + j - MaxSeq) + (MaxSeq + 1)) % LowMod = (x + j - MaxSeq) % LowMod
        <3>1. x + j - MaxSeq \in Int /\ MaxSeq + 1 \in Int
            BY <1>1
        <3> HIDE DEF x
        <3> QED BY <1>1, <3>1, ModAdd DEF LowBitsSuffice
    <2>3. (x + j - MaxSeq) + (MaxSeq + 1) = x + (j + 1)
        BY <1>1
    <2>4. (x + (j + 1)) % LowMod = r
        BY <2>1, <2>2, <2>3
    <2>5. (x + (j + 1)) % LowMod = IF r + (j + 1) < LowMod THEN r + (j + 1) ELSE r + (j + 1) - LowMod
        <3>1. j + 1 \in 0 .. LowMod
            BY <1>1
        <3> QED BY <3>1, <1>5
    <2> HIDE DEF r, x
    <2> QED BY <1>1, <1>4, <2>4, <2>5
<1> QED BY <1>6, <1>7

\* A payload's low bits are reconstructed to the successor of last_sequence
\* exactly when they are the successor's, and a NOP's to last_sequence itself.
LEMMA Reconstruction ==
    ASSUME LowBitsSuffice, NEW r, r.last_sequence \in SeqNum, NEW word,
           word.sequence_low \in 0 .. (LowMod - 1)
    PROVE  /\ word.payload => (Reconstructed(r, word) = NextSeq(r.last_sequence)
                                 <=> word.sequence_low = NextSeq(r.last_sequence) % LowMod)
           /\ ~word.payload => (Reconstructed(r, word) = r.last_sequence
                                 <=> word.sequence_low = r.last_sequence % LowMod)
<1> DEFINE x == r.last_sequence
           low == word.sequence_low
           b == x % LowMod
           delta == LowDelta(r, word)
<1>1. /\ LowMod \in Nat \ {0} /\ LowMod >= 2 /\ MaxSeq \in Nat \ {0} /\ x \in 1 .. MaxSeq
      /\ b \in 0 .. (LowMod - 1) /\ low \in 0 .. (LowMod - 1)
      /\ x \in Int /\ MaxSeq + 1 \in Int
    <2>1. LowMod \in Nat \ {0} /\ MaxSeq \in Nat \ {0} /\ x \in 1 .. MaxSeq
        BY HeaderAssumption DEF SeqNum
    <2>2. BadLimit \in Nat \ {0} /\ BadLimit < LowMod
        BY ReceiverAssumption DEF LowBitsSuffice
    <2>3. x \in Int
        BY <2>1
    <2>4. b \in 0 .. (LowMod - 1)
        BY <2>1, <2>3, ModSplit
    <2> HIDE DEF x, b
    <2> QED BY <2>1, <2>2, <2>4
<1>2. delta = IF low >= b THEN low - b ELSE low - b + LowMod
    <2>1. low - b \in Int
        BY <1>1
    <2>2. /\ low - b \in 0 .. (LowMod - 1) => (low - b) % LowMod = low - b
          /\ (low - b) + LowMod \in 0 .. (LowMod - 1) => (low - b) % LowMod = (low - b) + LowMod
        BY <1>1, <2>1, ModNear
    <2>3. delta = (low - b) % LowMod
        BY DEF LowDelta
    <2> HIDE DEF low, b, delta
    <2> QED BY <1>1, <2>2, <2>3
<1>3. LowMod <= MaxSeq + 1
    <2>1. PICK q \in Int : MaxSeq + 1 = LowMod * q + ((MaxSeq + 1) % LowMod)
        BY <1>1, ModSplit
    <2>2. MaxSeq + 1 = LowMod * q /\ q > 0
        <3>1. MaxSeq + 1 = LowMod * q
            BY <1>1, <2>1 DEF LowBitsSuffice
        <3> QED BY <1>1, <3>1
    <2>3. LowMod * q >= LowMod
        BY <1>1, <2>2
    <2> QED BY <2>2, <2>3
<1>4. \A i \in 0 .. LowMod : (x + i) % (MaxSeq + 1) = IF x + i <= MaxSeq THEN x + i
                                                      ELSE x + i - (MaxSeq + 1)
    <2> TAKE i \in 0 .. LowMod
    <2>1. x + i \in Int /\ MaxSeq + 1 \in Nat \ {0}
        BY <1>1
    <2>2. /\ x + i \in 0 .. ((MaxSeq + 1) - 1) => (x + i) % (MaxSeq + 1) = x + i
          /\ (x + i) - (MaxSeq + 1) \in 0 .. ((MaxSeq + 1) - 1) =>
                (x + i) % (MaxSeq + 1) = (x + i) - (MaxSeq + 1)
        BY <2>1, ModNear
    <2> HIDE DEF x
    <2> QED BY <1>1, <1>3, <2>2
<1>5. /\ x = MaxSeq => b = LowMod - 1
      /\ x < MaxSeq => (x + 1) % LowMod = IF b + 1 < LowMod THEN b + 1 ELSE b + 1 - LowMod
      /\ 1 % LowMod = 1
    <2>1. (x + 1) % LowMod = IF b + 1 < LowMod THEN b + 1 ELSE b + 1 - LowMod
        <3>1. 1 \in 0 .. LowMod
            BY <1>1
        <3> QED BY <1>1, <3>1, ModStep
    <2>2. (LowMod * 0 + 1) % LowMod = 1
        <3>1. 1 \in 0 .. (LowMod - 1)
            BY <1>1
        <3> QED BY <1>1, <3>1, ModUnique
    <2>3. LowMod * 0 + 1 = 1
        BY <1>1
    <2>4. 1 % LowMod = 1
        BY <2>2, <2>3
    <2>5. x = MaxSeq => (x + 1) % LowMod = 0
        BY DEF LowBitsSuffice
    <2> HIDE DEF b
    <2> QED BY <1>1, <2>1, <2>4, <2>5
<1>6. ASSUME word.payload
      PROVE  Reconstructed(r, word) = NextSeq(x) <=> low = NextSeq(x) % LowMod
    <2> DEFINE step == IF delta = 0 THEN LowMod ELSE delta
    <2>1. Reconstructed(r, word) = (x + step) % (MaxSeq + 1)
        BY <1>6 DEF Reconstructed
    <2>2. step \in 1 .. LowMod
        BY <1>1, <1>2
    <2>3. (x + step) % (MaxSeq + 1) = IF x + step <= MaxSeq THEN x + step
                                      ELSE x + step - (MaxSeq + 1)
        BY <1>1, <1>4, <2>2
    <2>4. step = IF low > b THEN low - b ELSE low - b + LowMod
        BY <1>1, <1>2
    <2> HIDE DEF step, low, b, x, delta
    <2>5. CASE x = MaxSeq
        <3>1. NextSeq(x) = 1 /\ b = LowMod - 1 /\ 1 % LowMod = 1
            BY <1>5, <2>5 DEF NextSeq
        <3>2. x + step - (MaxSeq + 1) = step - 1 /\ ~(x + step <= MaxSeq)
            BY <1>1, <2>2, <2>5
        <3>3. Reconstructed(r, word) = 1 <=> step = 2
            BY <2>1, <2>2, <2>3, <3>2
        <3>4. step = 2 <=> low = 1
            BY <1>1, <2>4, <3>1
        <3> QED BY <3>1, <3>3, <3>4
    <2>6. CASE x # MaxSeq
        <3>1. NextSeq(x) = x + 1 /\ x < MaxSeq
            BY <1>1, <2>6 DEF NextSeq
        <3>2. Reconstructed(r, word) = x + 1 <=> step = 1
            BY <1>1, <1>3, <2>1, <2>2, <2>3, <3>1
        <3>3. step = 1 <=> low = (x + 1) % LowMod
            BY <1>1, <1>5, <2>4, <3>1
        <3> QED BY <3>1, <3>2, <3>3
    <2> QED BY <2>5, <2>6
<1>7. ASSUME ~word.payload
      PROVE  Reconstructed(r, word) = x <=> low = b
    <2>1. Reconstructed(r, word) = (x + delta) % (MaxSeq + 1)
        BY <1>7 DEF Reconstructed
    <2>2. delta \in 0 .. LowMod /\ delta < LowMod
        BY <1>1, <1>2
    <2>3. (x + delta) % (MaxSeq + 1) = IF x + delta <= MaxSeq THEN x + delta
                                       ELSE x + delta - (MaxSeq + 1)
        BY <1>4, <2>2
    <2> HIDE DEF low, b, x, delta
    <2>4. Reconstructed(r, word) = x <=> delta = 0
        BY <1>1, <1>3, <2>1, <2>2, <2>3
    <2> QED BY <1>1, <1>2, <2>4
<1> QED BY <1>6, <1>7
-----------------------------------------------------------------------------
(* What the transmitter does, told by the count of payloads.  NumberedTx   *)
(* says that the n-th payload is the newest: the buffer holds the last     *)
(* Len(buffer) of them, the schedule ends with the n-th.                   *)

IsPayload(entry, k) == entry.sequence = Number(k) /\ entry.payload = k

EndsWith(q, n) == \A i \in 1 .. Len(q) : IsPayload(q[i], n - Len(q) + i)

NumberedTx(t, n) ==
    /\ Len(t.buffer) <= n /\ Len(t.scheduled) <= n
    /\ t.last_sequence = Number(n)
    /\ t.last_ack = Number(n - Len(t.buffer))
    /\ EndsWith(t.buffer, n)
    /\ EndsWith(t.scheduled, n)

LEMMA TxFields ==
    ASSUME IInv
    PROVE  /\ tx.last_sequence \in SeqNum /\ tx.last_ack \in SeqNum
           /\ tx.ignore_count \in 0 .. IgnoreWindow /\ IgnoreWindow \in Nat
           /\ tx.buffer \in Seq(Entry) /\ Len(tx.buffer) \in Nat
           /\ tx.scheduled \in Seq(Entry) /\ Len(tx.scheduled) \in Nat
           /\ Len(tx.buffer) <= Window /\ Window < MaxSeq
           /\ tx.first_replay \in BOOLEAN /\ tx.replay \in BOOLEAN
           /\ tx.first_replay => tx.scheduled # <<>>
           /\ tx = [last_sequence |-> tx.last_sequence, last_ack |-> tx.last_ack,
                    ignore_count |-> tx.ignore_count, replay |-> tx.replay,
                    first_replay |-> tx.first_replay, buffer |-> tx.buffer,
                    scheduled |-> tx.scheduled]
BY HeaderAssumption, TransmitterAssumption
   DEF IInv, TxTypeOK, TxState, BufferContiguous, ReplayFlagsAgree

\* A suffix of a numbered run is numbered.
LEMMA SuffixEndsWith ==
    ASSUME NEW q \in Seq(Entry), NEW n \in Nat, EndsWith(q, n),
           NEW start \in 1 .. (Len(q) + 1)
    PROVE  /\ Len(SubSeq(q, start, Len(q))) = Len(q) - start + 1
           /\ EndsWith(SubSeq(q, start, Len(q)), n)
<1> DEFINE m == Len(q)
           s == SubSeq(q, start, m)
<1>1. m \in Nat /\ \A i \in start .. m : q[i] \in Entry
    BY ElementOfSeq
<1>2. /\ Len(s) = m - start + 1
      /\ \A i \in 1 .. (m - start + 1) : s[i] = q[start + i - 1]
    BY <1>1, SubSeqProperties
<1>3. ASSUME NEW i \in 1 .. Len(s)
      PROVE  IsPayload(s[i], n - Len(s) + i)
    <2>1. s[i] = q[start + i - 1] /\ start + i - 1 \in 1 .. m
        BY <1>1, <1>2
    <2>2. IsPayload(q[start + i - 1], n - m + (start + i - 1))
        BY <2>1 DEF EndsWith
    <2>3. n - m + (start + i - 1) = n - Len(s) + i
        BY <1>1, <1>2
    <2> HIDE DEF s, m
    <2> QED BY <2>1, <2>2, <2>3
<1> QED BY <1>2, <1>3 DEF EndsWith

\* A Replay Request that is accepted names a payload still held, and the
\* schedule starts with it.
LEMMA RequestNumbered ==
    ASSUME IInv, NEW n \in Nat, NumberedTx(tx, n), NEW word \in Words,
           NEW crc_ok \in BOOLEAN, ReceiveRequest(word, crc_ok)
    PROVE  /\ NumberedTx(tx', n)
           /\ crc_ok /\ word.op = 3 /\ tx.ignore_count <= 1
           /\ tx'.ignore_count = IgnoreWindow /\ tx'.first_replay = TRUE
           /\ tx'.buffer = tx.buffer
           /\ \E t \in (n - Len(tx.buffer) + 1) .. n :
                 word.ack_request = Number(t) /\ Len(tx'.scheduled) = n - t + 1
<1> DEFINE target == word.ack_request
           m == Len(tx.buffer)
<1>1. target \in SeqNum /\ RequestExpected(tx, target)
    BY HeaderAssumption DEF ReceiveRequest, UnusableFlit, ValidHeader, ZeroField,
       ReservedOp, IsCommand, IsExplicit, RequestRefused, Words, SeqNum
<1>2. PICK start \in 1 .. m : /\ tx.buffer[start].sequence = target
                              /\ BufferFrom(tx, target) = SubSeq(tx.buffer, start, m)
    BY <1>1, ScheduleIsSuffix
<1>3. /\ tx'.scheduled = SubSeq(tx.buffer, start, m)
      /\ tx'.replay = TRUE /\ tx'.first_replay = TRUE
      /\ tx'.ignore_count = IgnoreWindow
      /\ tx'.buffer = tx.buffer /\ tx'.last_ack = tx.last_ack
      /\ tx'.last_sequence = tx.last_sequence
    BY <1>2 DEF IInv, TxTypeOK, TxState, ReceiveRequest
<1>4. crc_ok /\ word.op = 3 /\ tx.ignore_count <= 1
    <2>1. crc_ok /\ word.op = 3 /\ Aged(tx).ignore_count = 0
        BY DEF ReceiveRequest, UnusableFlit, RequestRefused
    <2>2. Aged(tx).ignore_count = IF tx.ignore_count = 0 THEN 0 ELSE tx.ignore_count - 1
        BY TxFields DEF Aged, IInv, TxTypeOK, TxState
    <2> QED BY <2>1, <2>2, TxFields
<1>5. /\ m \in Nat /\ tx.buffer \in Seq(Entry) /\ m <= n
      /\ EndsWith(tx.buffer, n)
    BY TxFields DEF NumberedTx
<1>6. Len(tx'.scheduled) = m - start + 1 /\ EndsWith(tx'.scheduled, n)
    <2>1. start \in 1 .. (m + 1)
        BY <1>5
    <2> QED BY <1>3, <1>5, <2>1, SuffixEndsWith
<1>7. NumberedTx(tx', n)
    BY <1>3, <1>5, <1>6 DEF NumberedTx
<1>8. \E t \in (n - m + 1) .. n : target = Number(t) /\ Len(tx'.scheduled) = n - t + 1
    <2>1. n - m + start \in (n - m + 1) .. n
        BY <1>5
    <2>2. IsPayload(tx.buffer[start], n - m + start)
        BY <1>5 DEF EndsWith
    <2>3. target = Number(n - m + start)
        BY <1>2, <2>2 DEF IsPayload
    <2>4. Len(tx'.scheduled) = n - (n - m + start) + 1
        BY <1>5, <1>6
    <2> QED BY <2>1, <2>3, <2>4
<1> QED BY <1>3, <1>4, <1>7, <1>8

\* An Ack that is accepted names a payload at or after the last one released.
LEMMA AckNumbered ==
    ASSUME IInv, NEW n \in Nat, NumberedTx(tx, n), NEW word \in Words,
           NEW crc_ok \in BOOLEAN, ReceiveAck(word, crc_ok)
    PROVE  /\ NumberedTx(tx', n)
           /\ crc_ok /\ word.op = 2
           /\ tx'.ignore_count = Aged(tx).ignore_count
           /\ tx'.scheduled = tx.scheduled /\ tx'.first_replay = tx.first_replay
           /\ \E a \in (n - Len(tx.buffer)) .. n :
                 word.ack_request = Number(a) /\ Len(tx'.buffer) = n - a
<1> DEFINE target == word.ack_request
           m == Len(tx.buffer)
           d == Dist(target, tx.last_ack)
<1>1. target \in SeqNum /\ AckExpected(tx, target) /\ crc_ok /\ word.op = 2
    BY HeaderAssumption DEF ReceiveAck, UnusableFlit, ValidHeader, ZeroField,
       ReservedOp, IsCommand, IsExplicit, AckRefused, Words, SeqNum
<1>2. /\ m \in Nat /\ tx.buffer \in Seq(Entry) /\ m <= n
      /\ m = Dist(tx.last_sequence, tx.last_ack) /\ m <= Window
      /\ EndsWith(tx.buffer, n) /\ EndsWith(tx.scheduled, n) /\ Len(tx.scheduled) <= n
      /\ tx.last_ack = Number(n - m) /\ tx.last_sequence = Number(n)
    BY TxFields DEF NumberedTx, IInv, BufferContiguous
<1>3. d \in 0 .. m /\ Advance(tx.last_ack, d) = target
    BY <1>1, <1>2, TxFields, AckOnRun, DistValue, AdvanceDist DEF AckExpected
<1>4. /\ tx'.buffer = SubSeq(tx.buffer, d + 1, m) /\ tx'.last_ack = target
      /\ tx'.last_sequence = tx.last_sequence /\ tx'.scheduled = tx.scheduled
      /\ tx'.first_replay = tx.first_replay
      /\ tx'.ignore_count = Aged(tx).ignore_count
    BY DEF IInv, TxTypeOK, TxState, ReceiveAck, Aged
<1> HIDE DEF d, target
<1>5. Len(tx'.buffer) = m - d /\ EndsWith(tx'.buffer, n)
    <2>1. d + 1 \in 1 .. (m + 1)
        BY <1>2, <1>3
    <2>2. m - (d + 1) + 1 = m - d
        BY <1>2, <1>3
    <2> QED BY <1>2, <1>4, <2>1, <2>2, SuffixEndsWith
<1>6. target = Number(n - m + d)
    <2>1. n - m \in Nat /\ d \in 0 .. MaxSeq
        BY <1>2, <1>3, HeaderAssumption
    <2>2. Number((n - m) + d) = Advance(Number(n - m), d)
        BY <2>1, NumberAdvance
    <2> QED BY <1>2, <1>3, <2>2
<1>7. n - m + d \in (n - m) .. n /\ n - (n - m + d) = m - d
    BY <1>2, <1>3
<1>8. NumberedTx(tx', n)
    <2>1. n - Len(tx'.buffer) = n - m + d /\ Len(tx'.buffer) <= n
        <3>1. m - d <= n /\ n - (m - d) = n - m + d
            BY <1>2, <1>3
        <3> QED BY <1>5, <3>1
    <2> QED BY <1>2, <1>4, <1>5, <1>6, <2>1 DEF NumberedTx
<1>9. \E a \in (n - m) .. n : target = Number(a) /\ Len(tx'.buffer) = n - a
    BY <1>5, <1>6, <1>7
<1>10. word.ack_request = target
    BY DEF target
<1> QED BY <1>1, <1>4, <1>8, <1>9, <1>10

\* Any other flit, and one that is lost, only ages the ignore window.
LEMMA AgedNumbered ==
    ASSUME IInv, NEW n \in Nat, NumberedTx(tx, n), tx' = Aged(tx)
    PROVE  /\ NumberedTx(tx', n)
           /\ tx'.scheduled = tx.scheduled /\ tx'.first_replay = tx.first_replay
           /\ tx'.buffer = tx.buffer
           /\ tx'.ignore_count = Aged(tx).ignore_count
<1>1. /\ tx'.last_sequence = tx.last_sequence /\ tx'.last_ack = tx.last_ack
      /\ tx'.first_replay = tx.first_replay
      /\ tx'.buffer = tx.buffer /\ tx'.scheduled = tx.scheduled
      /\ tx'.ignore_count = Aged(tx).ignore_count
    BY DEF IInv, TxTypeOK, TxState, Aged
<1> QED BY <1>1 DEF NumberedTx

LEMMA AgedCount ==
    ASSUME IInv
    PROVE  Aged(tx).ignore_count = IF tx.ignore_count = 0 THEN 0 ELSE tx.ignore_count - 1
BY DEF Aged, IInv, TxTypeOK, TxState
-----------------------------------------------------------------------------
(* What the receiver makes of a flit, told by the count of payloads: d of  *)
(* them have been delivered, and the flit stands where k have been sent.   *)

Labelled(word, k) ==
    /\ IsExplicit(word) => word.sequence = Number(k)
    /\ IsCommand(word) => word.sequence_low = Number(k) % LowMod

Step(word) == IF word.payload THEN 1 ELSE 0

\* Near enough for the low bits, if it is by those that the flit is judged.
Near(r, word, k, d) ==
    /\ d + Step(word) <= k /\ k - d < MaxSeq
    /\ IsCommand(word) /\ Trusted(r, word) => k - d <= BadLimit - 1 + Step(word)

LEMMA RxFields ==
    ASSUME RxInv
    PROVE  /\ rx \in RxState /\ rx.last_sequence \in SeqNum
           /\ rx.bad_crc_count \in 0 .. BadLimit /\ rx.unexpected_count \in 0 .. CountMax
           /\ rx.ambiguous \in BOOLEAN /\ rx.replay \in BOOLEAN
           /\ rx.replay_limit \in ReplayLimits /\ rx.replay_limit \in 0 .. CountMax
           /\ rx.ambiguous <=> rx.bad_crc_count = BadLimit
           /\ rx = [last_sequence |-> rx.last_sequence, bad_crc_count |-> rx.bad_crc_count,
                    unexpected_count |-> rx.unexpected_count, ambiguous |-> rx.ambiguous,
                    replay |-> rx.replay, replay_limit |-> rx.replay_limit]
BY ReceiverAssumption DEF RxInv, RxTypeOK, RxState, RxCountersAgree

\* A trusted flit is accepted exactly when it is the one that is due.
LEMMA Judgement ==
    ASSUME LowBitsSuffice, NEW r, NEW d \in Nat, r.last_sequence = Number(d),
           NEW word \in Words, ValidHeader(word), NEW k \in Nat, Labelled(word, k),
           Near(r, word, k, d)
    PROVE  /\ Accepts(r, word, TRUE) <=> Trusted(r, word) /\ k = d + Step(word)
           /\ Accepts(r, word, TRUE) => SequenceOf(r, word) = Number(k)
<1> DEFINE e == d + Step(word)
<1>1. /\ e \in Nat /\ e <= k /\ k - e < MaxSeq /\ Step(word) \in {0, 1}
      /\ word.payload => e = d + 1
      /\ ~word.payload => e = d
    BY HeaderAssumption DEF Step, Near
<1>2. /\ Number(d) \in SeqNum /\ Number(k) \in SeqNum /\ Number(e) \in SeqNum
      /\ NextSeq(Number(d)) = Number(d + 1)
    BY <1>1, NumberType, NumberNext
<1>3. Expected(r, word) = Number(e)
    BY <1>1, <1>2 DEF Expected
<1>4. IsExplicit(word) \/ IsCommand(word)
    BY DEF Words, ValidHeader, ReservedOp, IsExplicit, IsCommand
<1>5. Number(k) = Number(e) => k = e
    <2>1. e - k < MaxSeq
        BY <1>1, HeaderAssumption
    <2> HIDE DEF e
    <2> QED BY <1>1, <2>1, NumberApart
<1>6. ASSUME Trusted(r, word)
      PROVE  SequenceOf(r, word) = Number(e) <=> k = e
    <2>1. CASE IsExplicit(word)
        <3>1. SequenceOf(r, word) = Number(k)
            BY <2>1 DEF SequenceOf, Labelled
        <3> QED BY <3>1, <1>5
    <2>2. CASE ~IsExplicit(word)
        <3>1. /\ SequenceOf(r, word) = Reconstructed(r, word)
              /\ word.sequence_low = Number(k) % LowMod
              /\ k - d <= BadLimit - 1 + Step(word)
            BY <1>4, <1>6, <2>2 DEF SequenceOf, Labelled, Near
        <3>2. word.sequence_low \in 0 .. (LowMod - 1)
            <4>1. Number(k) \in Int /\ LowMod \in Nat \ {0}
                BY <1>2, HeaderAssumption DEF SeqNum
            <4> QED BY <3>1, <4>1, ModSplit
        <3>3. SequenceOf(r, word) = Number(e) <=> Number(k) % LowMod = Number(e) % LowMod
            BY <1>1, <1>2, <3>1, <3>2, Reconstruction
        <3>4. k - e \in Nat /\ k - e <= LowMod - 2 /\ e + (k - e) = k
            <4>1. k - e <= BadLimit - 1
                BY <1>1, <3>1, ReceiverAssumption
            <4>2. BadLimit < LowMod
                BY DEF LowBitsSuffice
            <4> HIDE DEF e
            <4> QED BY <1>1, <4>1, <4>2, ReceiverAssumption, HeaderAssumption
        <3>5. Number(k) % LowMod = Number(e) % LowMod => k - e = 0
            <4> HIDE DEF e
            <4> QED BY <1>1, <3>4, LowBitsApart
        <3>6. Number(k) % LowMod = Number(e) % LowMod <=> k = e
            BY <1>1, <3>5
        <3> QED BY <3>3, <3>6
    <2> QED BY <2>1, <2>2
<1>7. Usable(word, TRUE)
    BY DEF Usable
<1>8. Accepts(r, word, TRUE) <=> Trusted(r, word) /\ SequenceOf(r, word) = Number(e)
    BY <1>3, <1>7 DEF Accepts
<1>9. Accepts(r, word, TRUE) => SequenceOf(r, word) = Number(k)
    BY <1>6, <1>8
<1> QED BY <1>6, <1>8, <1>9

\* What one flit does to the receiver and whether it asks for a replay.
Counts(r, r1, asks) ==
    IF r.replay
    THEN /\ asks => r.unexpected_count + 1 >= r.replay_limit /\ r1.unexpected_count = 0
         /\ ~asks => r1.unexpected_count <= r.unexpected_count + 1
    ELSE ~asks /\ r1.unexpected_count = r.unexpected_count

Unheard(r, r1, asks) ==
    /\ r1.last_sequence = r.last_sequence /\ r1.replay = r.replay
    /\ r1.replay_limit = r.replay_limit
    /\ r1.ambiguous \/ (~r.ambiguous /\ r1.bad_crc_count = r.bad_crc_count + 1)
    /\ Counts(r, r1, asks)

Taken(r, r1, asks, k) ==
    /\ r1.last_sequence = Number(k) /\ ~r1.replay /\ ~r1.ambiguous /\ r1.bad_crc_count = 0
    /\ r1.unexpected_count = 0
    /\ r1.replay_limit = r.replay_limit
    /\ ~asks

LeftOut(r, r1, asks, trusted) ==
    /\ r1.last_sequence = r.last_sequence
    /\ r1.ambiguous = r.ambiguous /\ r1.bad_crc_count = r.bad_crc_count
    /\ r1.replay_limit = r.replay_limit
    /\ r.replay => r1.replay /\ Counts(r, r1, asks)
    /\ ~r.replay /\ trusted => r1.replay /\ r1.unexpected_count = 0 /\ asks
    /\ ~r.replay /\ ~trusted => r1 = r /\ ~asks

LEMMA CountedFields ==
    ASSUME RxInv, NEW r \in RxState, r.unexpected_count = rx.unexpected_count,
           r.replay_limit = rx.replay_limit
    PROVE  /\ CountUnexpected(r).last_sequence = r.last_sequence
           /\ CountUnexpected(r).replay = r.replay
           /\ CountUnexpected(r).ambiguous = r.ambiguous
           /\ CountUnexpected(r).bad_crc_count = r.bad_crc_count
           /\ CountUnexpected(r).replay_limit = r.replay_limit
           /\ RequestDue(r) <=> RequestDue(rx)
           /\ RequestDue(r) => /\ r.unexpected_count + 1 >= r.replay_limit
                               /\ CountUnexpected(r).unexpected_count = 0
           /\ ~RequestDue(r) => CountUnexpected(r).unexpected_count <= r.unexpected_count + 1
<1>1. /\ r.unexpected_count \in 0 .. CountMax /\ CountMax \in Nat \ {0}
      /\ r.replay_limit \in 0 .. CountMax
    BY RxFields, ReceiverAssumption
<1>2. SaturatingIncr(r.unexpected_count, CountMax) <= r.unexpected_count + 1
    BY <1>1 DEF SaturatingIncr
<1>3. RequestDue(r) => r.unexpected_count + 1 >= r.replay_limit
    BY <1>1 DEF SaturatingIncr, RequestDue
<1>4. RequestDue(r) <=> RequestDue(rx)
    BY DEF RequestDue
<1>5. /\ CountUnexpected(r).last_sequence = r.last_sequence
      /\ CountUnexpected(r).replay = r.replay
      /\ CountUnexpected(r).ambiguous = r.ambiguous
      /\ CountUnexpected(r).bad_crc_count = r.bad_crc_count
      /\ CountUnexpected(r).replay_limit = r.replay_limit
      /\ CountUnexpected(r).unexpected_count =
            IF RequestDue(r) THEN 0 ELSE SaturatingIncr(r.unexpected_count, CountMax)
    BY DEF RxState, CountUnexpected
<1> QED BY <1>2, <1>3, <1>4, <1>5

LEMMA LossOutcome ==
    ASSUME RxInv, rx' = Discarded(rx)
    PROVE  Unheard(rx, rx', rx.replay /\ RequestDue(rx))
<1> DEFINE r == CountDiscard(rx)
<1>1. /\ rx \in RxState /\ rx.bad_crc_count \in 0 .. BadLimit /\ BadLimit \in Nat \ {0}
      /\ rx.ambiguous \in BOOLEAN /\ rx.replay \in BOOLEAN
      /\ rx.ambiguous <=> rx.bad_crc_count = BadLimit
    BY RxFields, ReceiverAssumption
<1>2. /\ r.last_sequence = rx.last_sequence /\ r.replay = rx.replay
      /\ r.replay_limit = rx.replay_limit /\ r.unexpected_count = rx.unexpected_count
      /\ r.bad_crc_count = SaturatingIncr(rx.bad_crc_count, BadLimit)
      /\ r.ambiguous = (rx.ambiguous \/ SaturatingIncr(rx.bad_crc_count, BadLimit) >= BadLimit)
    BY <1>1 DEF CountDiscard, RxState
<1>3. r.ambiguous \/ (~rx.ambiguous /\ r.bad_crc_count = rx.bad_crc_count + 1)
    BY <1>1, <1>2 DEF SaturatingIncr
<1>4. r \in RxState
    BY <1>1, CountDiscardKeeps
<1> HIDE DEF r
<1>5. CASE rx.replay
    <2>1. rx' = CountUnexpected(r)
        BY <1>5 DEF Discarded, r
    <2> QED BY <1>2, <1>3, <1>4, <1>5, <2>1, CountedFields DEF Unheard, Counts
<1>6. CASE ~rx.replay
    <2>1. rx' = r
        BY <1>6 DEF Discarded, r
    <2> QED BY <1>2, <1>3, <1>6, <2>1 DEF Unheard, Counts
<1> QED BY <1>5, <1>6

\* The four outcomes of a flit that is heard.
LEMMA HearingOutcome ==
    ASSUME RxInv, LowBitsSuffice, NEW d \in Nat, rx.last_sequence = Number(d),
           NEW word \in Words, ValidHeader(word), NEW k \in Nat, Labelled(word, k),
           Near(rx, word, k, d), RxReceive(word, TRUE)
    PROVE  LET asks == RequestsReplay(rx, word, TRUE) IN
           \/ /\ Trusted(rx, word) /\ k = d + Step(word)
              /\ Taken(rx, rx', asks, k)
              /\ Delivers(rx, word, TRUE) <=> word.payload
           \/ /\ Trusted(rx, word) => k # d + Step(word)
              /\ LeftOut(rx, rx', asks, Trusted(rx, word))
              /\ ~Delivers(rx, word, TRUE)
<1> DEFINE asks == RequestsReplay(rx, word, TRUE)
           acc == Accepts(rx, word, TRUE)
<1>1. ~IsDiscard(word, TRUE) /\ ~IsDropped(word, TRUE) /\ Usable(word, TRUE)
    BY DEF IsDiscard, IsDropped, Usable, ValidHeader
<1>2. /\ acc <=> Trusted(rx, word) /\ k = d + Step(word)
      /\ acc => SequenceOf(rx, word) = Number(k)
    BY Judgement
<1>3. rx \in RxState /\ rx.replay \in BOOLEAN
    BY RxFields
<1>4. CASE acc
    <2>1. rx' = Fresh(SequenceOf(rx, word), rx.replay_limit)
        BY <1>1, <1>4 DEF RxReceive, ReceiveDiscard, ReceiveAccept, ReceiveStartReplay,
           ReceiveInReplay, ReceiveNoEffect, StartsReplay, CountsInReplay, Accepts
    <2>2. ~asks
        BY <1>1, <1>4 DEF RequestsReplay, StartsReplay, CountsInReplay
    <2>3. Taken(rx, rx', asks, k)
        BY <1>2, <1>4, <2>1, <2>2 DEF Taken, Fresh
    <2>4. Delivers(rx, word, TRUE) <=> word.payload
        BY <1>4 DEF Delivers
    <2> QED BY <1>2, <1>4, <2>3, <2>4
<1>5. CASE ~acc
    <2>1. ~Delivers(rx, word, TRUE)
        BY <1>5 DEF Delivers
    <2>2. CASE rx.replay
        <3>1. rx' = CountUnexpected(rx)
            BY <1>1, <1>5, <2>2 DEF RxReceive, ReceiveDiscard, ReceiveAccept, ReceiveStartReplay,
               ReceiveInReplay, ReceiveNoEffect, StartsReplay, CountsInReplay
        <3>2. asks <=> RequestDue(rx)
            BY <1>1, <1>5, <2>2 DEF RequestsReplay, StartsReplay, CountsInReplay
        <3>3. LeftOut(rx, rx', asks, Trusted(rx, word))
            BY <1>3, <2>2, <3>1, <3>2, CountedFields DEF LeftOut, Counts
        <3> QED BY <1>2, <1>5, <2>1, <3>3
    <2>3. CASE ~rx.replay /\ Trusted(rx, word)
        <3>1. rx' = [rx EXCEPT !.replay = TRUE, !.unexpected_count = 0]
            BY <1>1, <1>5, <2>3 DEF RxReceive, ReceiveDiscard, ReceiveAccept, ReceiveStartReplay,
               ReceiveInReplay, ReceiveNoEffect, StartsReplay, CountsInReplay
        <3>2. asks
            BY <1>1, <1>5, <2>3 DEF RequestsReplay, StartsReplay
        <3>3. /\ rx'.last_sequence = rx.last_sequence /\ rx'.ambiguous = rx.ambiguous
              /\ rx'.bad_crc_count = rx.bad_crc_count /\ rx'.replay_limit = rx.replay_limit
              /\ rx'.replay /\ rx'.unexpected_count = 0
            BY <1>3, <3>1 DEF RxState
        <3>4. LeftOut(rx, rx', asks, Trusted(rx, word))
            BY <2>3, <3>2, <3>3 DEF LeftOut
        <3> QED BY <1>2, <1>5, <2>1, <3>4
    <2>4. CASE ~rx.replay /\ ~Trusted(rx, word)
        <3>1. rx' = rx
            BY <1>1, <1>5, <2>4 DEF RxReceive, ReceiveDiscard, ReceiveAccept, ReceiveStartReplay,
               ReceiveInReplay, ReceiveNoEffect, StartsReplay, CountsInReplay
        <3>2. ~asks
            BY <1>1, <1>5, <2>4 DEF RequestsReplay, StartsReplay, CountsInReplay
        <3>3. LeftOut(rx, rx', asks, Trusted(rx, word))
            BY <2>4, <3>1, <3>2 DEF LeftOut
        <3> QED BY <1>2, <1>5, <2>1, <3>3
    <2> QED BY <2>2, <2>3, <2>4
<1> QED BY <1>4, <1>5
-----------------------------------------------------------------------------
(* What one sent flit carries. *)

LEMMA EndsWithTail ==
    ASSUME NEW q \in Seq(Entry), NEW n \in Nat, EndsWith(q, n), q # <<>>
    PROVE  /\ EndsWith(Tail(q), n)
           /\ IsPayload(Head(q), n - Len(q) + 1)
<1> DEFINE m == Len(q)
<1>1. m \in Nat /\ m >= 1
    BY EmptyByLength
<1>2. /\ Len(Tail(q)) = m - 1
      /\ \A i \in 1 .. (m - 1) : Tail(q)[i] = q[i + 1]
      /\ Head(q) = q[1]
    BY <1>1, HeadTailProperties
<1>3. \A i \in 1 .. m : IsPayload(q[i], n - m + i)
    BY DEF EndsWith
<1> HIDE DEF m
<1>4. ASSUME NEW i \in 1 .. (m - 1)
      PROVE  IsPayload(Tail(q)[i], n - (m - 1) + i)
    <2>1. i + 1 \in 1 .. m /\ n - m + (i + 1) = n - (m - 1) + i
        BY <1>1
    <2> QED BY <1>2, <1>3, <2>1
<1>5. 1 \in 1 .. m
    BY <1>1
<1>6. IsPayload(Head(q), n - m + 1)
    BY <1>2, <1>3, <1>5
<1> QED BY <1>2, <1>4, <1>6 DEF EndsWith, m

LEMMA EndsWithAppend ==
    ASSUME NEW q \in Seq(Entry), NEW n \in Nat, EndsWith(q, n),
           NEW e, IsPayload(e, n + 1)
    PROVE  EndsWith(Append(q, e), n + 1)
<1> DEFINE m == Len(q)
<1>1. m \in Nat
    OBVIOUS
<1>2. /\ Len(Append(q, e)) = m + 1
      /\ \A i \in 1 .. m : Append(q, e)[i] = q[i]
      /\ Append(q, e)[m + 1] = e
    OBVIOUS
<1>3. \A i \in 1 .. m : IsPayload(q[i], n - m + i)
    BY DEF EndsWith
<1> HIDE DEF m
<1>4. ASSUME NEW i \in 1 .. (m + 1)
      PROVE  IsPayload(Append(q, e)[i], (n + 1) - (m + 1) + i)
    <2>1. CASE i = m + 1
        <3>1. (n + 1) - (m + 1) + i = n + 1
            BY <1>1, <2>1
        <3> QED BY <1>2, <2>1, <3>1
    <2>2. CASE i # m + 1
        <3>1. i \in 1 .. m /\ (n + 1) - (m + 1) + i = n - m + i
            BY <1>1, <2>2
        <3> QED BY <1>2, <1>3, <3>1
    <2> QED BY <2>1, <2>2
<1> QED BY <1>2, <1>4 DEF EndsWith

\* A sent flit stands where the payloads before the rest of the schedule have
\* been sent; the first one of a replay carries its whole number.
LEMMA SendNumbered ==
    ASSUME SchedInv, NEW n \in Nat, NumberedTx(tx, n), NEW offered \in BOOLEAN,
           NEW newGroup \in BOOLEAN, Send(offered, n + 1, newGroup),
           NEW n1, AcceptsOffer(offered) => n1 = n + 1, ~AcceptsOffer(offered) => n1 = n,
           NEW word, word = OutgoingWord(offered, n + 1, newGroup),
           NEW k, k = n1 - Len(tx'.scheduled)
    PROVE  /\ NumberedTx(tx', n1)
           /\ n1 - Len(tx'.buffer) = n - Len(tx.buffer)
           /\ tx'.ignore_count = tx.ignore_count /\ ~tx'.first_replay
           /\ word.op \in 0 .. 3
           /\ word.payload <=> HasPayload(offered)
           /\ Labelled(word, k)
           /\ k = n - Len(tx.scheduled) + Step(word)
           /\ HasPayload(offered) => CarriedEntry(offered, n + 1).payload = k
           /\ tx.first_replay => IsExplicit(word) /\ HasPayload(offered)
<1> DEFINE has == HasPayload(offered)
           e == CarriedEntry(offered, n + 1)
<1>0. IInv
    BY DEF SchedInv
<1>1. /\ Len(tx.scheduled) \in Nat /\ Len(tx.scheduled) <= n
      /\ Len(tx.buffer) \in Nat /\ Len(tx.buffer) <= n
      /\ tx.scheduled \in Seq(Entry) /\ tx.buffer \in Seq(Entry)
      /\ tx.last_sequence = Number(n) /\ tx.last_ack = Number(n - Len(tx.buffer))
      /\ EndsWith(tx.buffer, n) /\ EndsWith(tx.scheduled, n)
      /\ tx.first_replay \in BOOLEAN
      /\ tx.first_replay => tx.scheduled # <<>>
    BY <1>0, TxFields DEF NumberedTx
<1>2. /\ word.op \in 0 .. 3
      /\ word.payload = has
      /\ IsExplicit(word) => word.sequence = e.sequence
      /\ IsCommand(word) => word.sequence_low = e.sequence % LowMod
      /\ tx.first_replay => IsExplicit(word)
    <2>1. word = IF ExplicitDue THEN EncodeExplicit(e.sequence, has, Replaying)
                 ELSE IF RequestDueNow(newGroup)
                      THEN EncodeCommand(e.sequence, RequestTarget, has, TRUE)
                      ELSE EncodeCommand(e.sequence, rx.last_sequence, has, FALSE)
        BY DEF OutgoingWord
    <2> HIDE DEF e, has
    <2>2. CASE ExplicitDue
        <3>1. word = [op |-> IF Replaying THEN 1 ELSE 0, payload |-> has, sequence |-> e.sequence]
            BY <2>1, <2>2 DEF EncodeExplicit
        <3> QED BY <3>1 DEF IsExplicit, IsCommand
    <2>3. CASE ~ExplicitDue
        <3>1. ~tx.first_replay
            BY <1>1, <2>3 DEF ExplicitDue, FirstReplay, Replaying
        <3>2. PICK op \in {2, 3} : \E target : word = [op |-> op, payload |-> has,
                         sequence_low |-> e.sequence % LowMod, ack_request |-> target]
            BY <2>1, <2>3 DEF EncodeCommand
        <3> QED BY <3>1, <3>2 DEF IsExplicit, IsCommand
    <2> QED BY <2>2, <2>3
<1>3. CASE Replaying
    <2>1. NextReplay /\ ~AcceptsOffer(offered) /\ has /\ e = Head(tx.scheduled)
        BY <1>3 DEF Send, AcceptsOffer, HasPayload, CarriedEntry
    <2>2. /\ tx'.scheduled = Tail(tx.scheduled) /\ tx'.buffer = tx.buffer
          /\ tx'.last_ack = tx.last_ack /\ tx'.last_sequence = tx.last_sequence
          /\ tx'.first_replay = FALSE /\ tx'.ignore_count = tx.ignore_count
          /\ tx.scheduled # <<>>
        BY <1>0, <2>1 DEF IInv, TxTypeOK, TxState, NextReplay
    <2>3. /\ Len(tx'.scheduled) = Len(tx.scheduled) - 1 /\ Len(tx.scheduled) >= 1
          /\ \A i \in 1 .. Len(tx'.scheduled) : tx'.scheduled[i] = tx.scheduled[i + 1]
          /\ Head(tx.scheduled) = tx.scheduled[1]
        BY <1>1, <2>2, HeadTailProperties, EmptyByLength
    <2>4. EndsWith(tx'.scheduled, n)
        BY <1>1, <2>2, EndsWithTail
    <2>5. NumberedTx(tx', n)
        BY <1>1, <2>2, <2>3, <2>4 DEF NumberedTx
    <2>6. IsPayload(tx.scheduled[1], n - Len(tx.scheduled) + 1)
        BY <1>1, <2>2, <2>3, EndsWithTail
    <2>7. n1 = n /\ k = n - Len(tx.scheduled) + 1
        <3>1. n1 = n
            BY <2>1
        <3>2. k = n1 - Len(tx'.scheduled)
            OBVIOUS
        <3> QED BY <1>1, <2>3, <3>1, <3>2
    <2>8. e.sequence = Number(k) /\ e.payload = k
        BY <2>1, <2>3, <2>6, <2>7 DEF IsPayload
    <2> HIDE DEF e, has
    <2>9. Labelled(word, k) /\ Step(word) = 1
        BY <1>2, <2>1, <2>8 DEF Labelled, Step
    <2> QED BY <1>2, <2>1, <2>2, <2>5, <2>7, <2>8, <2>9 DEF e, has
<1>4. CASE ~Replaying
    <2>1. Len(tx.scheduled) = 0 /\ tx.scheduled = <<>> /\ ~tx.first_replay
        BY <1>1, <1>4, EmptySeq DEF Replaying
    <2>2. CASE AcceptsOffer(offered)
        <3>1. Enqueue(n + 1) /\ has
              /\ e = [sequence |-> NextSeq(tx.last_sequence), payload |-> n + 1]
            BY <1>4, <2>2 DEF Send, NextReplay, Replaying, HasPayload, CarriedEntry
        <3>2. /\ tx'.buffer = Append(tx.buffer, NewEntry(tx, n + 1))
              /\ tx'.last_sequence = NextSeq(tx.last_sequence)
              /\ tx'.last_ack = tx.last_ack /\ tx'.scheduled = tx.scheduled
              /\ tx'.first_replay = tx.first_replay /\ tx'.ignore_count = tx.ignore_count
            BY <1>0, <3>1 DEF IInv, TxTypeOK, TxState, Enqueue
        <3>3. NextSeq(tx.last_sequence) = Number(n + 1)
            BY <1>1, NumberNext
        <3>4. IsPayload(NewEntry(tx, n + 1), n + 1)
            BY <3>3 DEF IsPayload, NewEntry
        <3>5. Len(tx'.buffer) = Len(tx.buffer) + 1
            <4> DEFINE new == NewEntry(tx, n + 1)
            <4> HIDE DEF new
            <4>1. tx'.buffer = Append(tx.buffer, new)
                BY <3>2 DEF new
            <4> QED BY <1>1, <4>1
        <3>6. EndsWith(tx'.buffer, n + 1)
            BY <1>1, <3>2, <3>4, EndsWithAppend
        <3>7. EndsWith(tx'.scheduled, n + 1)
            BY <2>1, <3>2, EmptySeq DEF EndsWith
        <3>8. NumberedTx(tx', n + 1)
            <4>1. (n + 1) - Len(tx'.buffer) = n - Len(tx.buffer) /\ Len(tx'.buffer) <= n + 1
                BY <1>1, <3>5
            <4>2. Len(tx'.scheduled) <= n + 1
                BY <2>1, <3>2
            <4>3. tx'.last_sequence = Number(n + 1) /\ tx'.last_ack = Number((n + 1) - Len(tx'.buffer))
                BY <1>1, <3>2, <3>3, <4>1
            <4> QED BY <3>6, <3>7, <4>1, <4>2, <4>3 DEF NumberedTx
        <3>9. n1 = n + 1 /\ k = n + 1 /\ n1 - Len(tx'.buffer) = n - Len(tx.buffer)
              /\ n + 1 = n - Len(tx.scheduled) + 1
            <4>1. n1 = n + 1
                BY <2>2
            <4>2. k = n1 - Len(tx'.scheduled)
                OBVIOUS
            <4>3. Len(tx'.scheduled) = 0 /\ Len(tx.scheduled) = 0
                BY <2>1, <3>2
            <4> QED BY <1>1, <3>5, <4>1, <4>2, <4>3
        <3>10. e.sequence = Number(k) /\ e.payload = k
            <4>1. k = n + 1
                BY <3>9
            <4>2. e.sequence = Number(n + 1) /\ e.payload = n + 1
                BY <3>1, <3>3
            <4> HIDE DEF e
            <4> QED BY <4>1, <4>2
        <3> HIDE DEF e, has
        <3>11. Labelled(word, k) /\ Step(word) = 1
            BY <1>2, <3>1, <3>10 DEF Labelled, Step
        <3> QED BY <1>2, <2>1, <3>1, <3>2, <3>8, <3>9, <3>10, <3>11 DEF e, has
    <2>3. CASE ~AcceptsOffer(offered)
        <3>1. tx' = tx /\ ~has /\ e.sequence = tx.last_sequence
            BY <1>4, <2>3 DEF Send, NextReplay, Replaying, HasPayload, CarriedEntry
        <3>2. n1 = n /\ k = n /\ n = n - Len(tx.scheduled) + 0
            <4>1. n1 = n
                BY <2>3
            <4>2. k = n1 - Len(tx'.scheduled)
                OBVIOUS
            <4>3. Len(tx'.scheduled) = 0 /\ Len(tx.scheduled) = 0
                BY <2>1, <3>1
            <4> QED BY <4>1, <4>2, <4>3
        <3>3. e.sequence = Number(k)
            <4>1. e.sequence = Number(n)
                BY <1>1, <3>1
            <4> HIDE DEF e
            <4> QED BY <3>2, <4>1
        <3> HIDE DEF e, has
        <3>4. Labelled(word, k) /\ Step(word) = 0
            BY <1>2, <3>1, <3>3 DEF Labelled, Step
        <3> QED BY <1>2, <2>1, <3>1, <3>2, <3>3, <3>4 DEF e, has
    <2> QED BY <2>2, <2>3
<1> QED BY <1>3, <1>4

\* What the other direction learns from the same flit: an Ack of the last
\* payload delivered, or a copy of a request.
LEMMA SendAnswers ==
    ASSUME SchedInv, NEW offered, NEW p, NEW newGroup, Send(offered, p, newGroup)
    PROVE  LET word == OutgoingWord(offered, p, newGroup) IN
           /\ word.op = 2 => word.ack_request = rx.last_sequence
           /\ word.op = 3 <=> RequestDueNow(newGroup)
           /\ word.op = 3 => /\ word.ack_request = RequestTarget
                             /\ sched.replay_requests > 0
                             /\ sched'.replay_requests = sched.replay_requests - 1
                             /\ sched'.replay_requests > 0 =>
                                   sched'.request_sequence = RequestTarget
           /\ word.op # 3 => /\ sched'.replay_requests = sched.replay_requests
                             /\ sched'.request_sequence = sched.request_sequence
           /\ rx' = rx
<1> DEFINE word == OutgoingWord(offered, p, newGroup)
           seq == CarriedEntry(offered, p).sequence
           has == HasPayload(offered)
<1>1. word = IF ExplicitDue THEN EncodeExplicit(seq, has, Replaying)
             ELSE IF RequestDueNow(newGroup) THEN EncodeCommand(seq, RequestTarget, has, TRUE)
             ELSE EncodeCommand(seq, rx.last_sequence, has, FALSE)
    BY DEF OutgoingWord
<1> HIDE DEF word, seq, has
<1>2. /\ word.op = 2 => word.ack_request = rx.last_sequence
      /\ word.op = 3 <=> RequestDueNow(newGroup)
      /\ word.op = 3 => word.ack_request = RequestTarget
    <2>1. CASE ExplicitDue
        <3>1. ~RequestDueNow(newGroup)
            BY <2>1 DEF RequestDueNow
        <3>2. word.op = IF Replaying THEN 1 ELSE 0
            BY <1>1, <2>1 DEF EncodeExplicit
        <3> QED BY <3>1, <3>2
    <2>2. CASE ~ExplicitDue /\ RequestDueNow(newGroup)
        BY <1>1, <2>2 DEF EncodeCommand
    <2>3. CASE ~ExplicitDue /\ ~RequestDueNow(newGroup)
        BY <1>1, <2>3 DEF EncodeCommand
    <2> QED BY <2>1, <2>2, <2>3
<1>3. /\ sched'.replay_requests = IF RequestDueNow(newGroup) THEN sched.replay_requests - 1
                                  ELSE sched.replay_requests
      /\ sched'.request_sequence = IF ~RequestDueNow(newGroup) THEN sched.request_sequence
                                   ELSE IF sched.replay_requests > 1 THEN RequestTarget ELSE 0
      /\ rx' = rx
    BY DEF Send
<1>4. sched.replay_requests \in Nat
    BY SchedulerAssumption DEF SchedInv, SchedState
<1>5. RequestDueNow(newGroup) => sched.replay_requests > 0
    BY DEF RequestDueNow
<1> QED BY <1>2, <1>3, <1>4, <1>5 DEF word
-----------------------------------------------------------------------------
(* How many flits an end sends before the last copy of a pending request   *)
(* is out.  Codeword groups have span flits, the end is at position pos of *)
(* one, and heard says that the flit of this slot has already arrived.     *)

CopyCost(span) == span + 2
SpanOf(span) == (RequestCopies - 1) * CopyCost(span)
EpisodeOf(span) == RequestCopies * CopyCost(span)

\* Explicit headers that can precede the next copy: one that is due, and one
\* that a request from the peer still makes due.
Run(t, s, heard) ==
    IF heard
    THEN IF t.first_replay THEN 1
         ELSE IF s.explicit_count <= 1 THEN IF t.ignore_count <= 1 THEN 2 ELSE 1
         ELSE 0
    ELSE IF s.explicit_count <= 1 THEN IF t.ignore_count <= 2 THEN 2 ELSE 1
         ELSE IF t.ignore_count <= 1 THEN 1 ELSE 0

GroupWait(s, pos, span) == IF s.requested /\ pos # 0 THEN span - pos ELSE 0

SendsLeft(t, s, heard, pos, span) ==
    IF s.replay_requests = 0 THEN 0
    ELSE (s.replay_requests - 1) * CopyCost(span) + 1
         + (IF GroupWait(s, pos, span) > 0 THEN GroupWait(s, pos, span) + 2
            ELSE Run(t, s, heard))

\* A flit that arrives makes at most one more explicit header due.
FirstReplayIsFresh(t) == t.first_replay => t.ignore_count = IgnoreWindow

LEMMA SendsLeftRange ==
    ASSUME NEW t, NEW s \in SchedState, NEW heard \in BOOLEAN, NEW span \in Nat \ {0}, NEW pos \in 0 .. (span - 1)
    PROVE  /\ SendsLeft(t, s, heard, pos, span) \in Nat
           /\ s.replay_requests > 0 => SendsLeft(t, s, heard, pos, span) >= 1
           /\ SendsLeft(t, s, heard, pos, span) <= s.replay_requests * CopyCost(span)
           /\ s.replay_requests > 0 => SendsLeft(t, s, heard, pos, span)
                                             >= (s.replay_requests - 1) * CopyCost(span) + 1
<1> DEFINE r == s.replay_requests
           x == IF GroupWait(s, pos, span) > 0 THEN GroupWait(s, pos, span) + 2
                ELSE Run(t, s, heard)
           c == CopyCost(span)
           b == (r - 1) * c
<1>1. r \in Nat /\ c = span + 2 /\ c \in Nat
    BY SchedulerAssumption DEF SchedState, CopyCost
<1>2. x \in 0 .. (span + 1)
    <2>1. Run(t, s, heard) \in 0 .. 2
        BY DEF Run
    <2>2. GroupWait(s, pos, span) \in 0 .. (span - 1)
        BY DEF GroupWait
    <2> QED BY <2>1, <2>2
<1>3. SendsLeft(t, s, heard, pos, span) = IF r = 0 THEN 0 ELSE b + 1 + x
    BY DEF SendsLeft
<1>4. r > 0 => b \in Nat /\ r * c = b + c
    BY <1>1
<1>5. r = 0 => r * c = 0
    BY <1>1
<1> HIDE DEF r, x, c, b
<1> QED BY <1>1, <1>2, <1>3, <1>4, <1>5 DEF r, c, b

\* The flit of the slot arrives, or none does.
LEMMA SendsAfterArrival ==
    ASSUME SchedInv, SchedInv', NEW span \in Nat \ {0}, NEW pos \in 0 .. (span - 1),
           ~tx.first_replay,
           \/ tx' = tx
           \/ tx' = Aged(tx)
           \/ \E word \in Words, crc_ok \in BOOLEAN : TxReceive(word, crc_ok),
           NEW asks \in BOOLEAN, NoteRequests(asks)
    PROVE  /\ FirstReplayIsFresh(tx')
           /\ asks => /\ sched'.replay_requests = RequestCopies
                      /\ SendsLeft(tx', sched', TRUE, pos, span) <= EpisodeOf(span)
           /\ ~asks => /\ sched' = sched
                       /\ SendsLeft(tx', sched', TRUE, pos, span)
                            <= SendsLeft(tx, sched, FALSE, pos, span)
<1>0. IInv /\ tx.ignore_count \in 0 .. IgnoreWindow /\ IgnoreWindow \in Nat
    BY TxFields DEF SchedInv
<1>1. \/ ~tx'.first_replay /\ tx'.ignore_count = tx.ignore_count
      \/ ~tx'.first_replay /\ tx'.ignore_count =
                                IF tx.ignore_count = 0 THEN 0 ELSE tx.ignore_count - 1
      \/ tx.ignore_count <= 1 /\ tx'.first_replay /\ tx'.ignore_count = IgnoreWindow
    <2>1. tx' = Aged(tx) => ~tx'.first_replay /\ tx'.ignore_count =
                                IF tx.ignore_count = 0 THEN 0 ELSE tx.ignore_count - 1
        BY <1>0 DEF Aged, IInv, TxTypeOK, TxState
    <2>2. ASSUME NEW word \in Words, NEW crc_ok \in BOOLEAN, ReceiveRequest(word, crc_ok)
          PROVE  tx.ignore_count <= 1 /\ tx'.first_replay /\ tx'.ignore_count = IgnoreWindow
        <3>1. Aged(tx).ignore_count = 0
            BY <2>2 DEF ReceiveRequest, RequestRefused
        <3>2. tx.ignore_count <= 1
            BY <1>0, <3>1, AgedCount
        <3> QED BY <1>0, <2>2, <3>2 DEF ReceiveRequest, IInv, TxTypeOK, TxState
    <2>3. ASSUME NEW word \in Words, NEW crc_ok \in BOOLEAN, ReceiveAck(word, crc_ok)
          PROVE  ~tx'.first_replay /\ tx'.ignore_count =
                                IF tx.ignore_count = 0 THEN 0 ELSE tx.ignore_count - 1
        BY <1>0, <2>3 DEF ReceiveAck, Aged, IInv, TxTypeOK, TxState
    <2> QED BY <2>1, <2>2, <2>3 DEF TxReceive, ReceiveNothing
<1>2. FirstReplayIsFresh(tx')
    BY <1>1 DEF FirstReplayIsFresh
<1>3. CASE asks
    <2>1. sched'.replay_requests = RequestCopies
        BY <1>3 DEF NoteRequests, SchedInv, SchedState
    <2>2. SendsLeft(tx', sched', TRUE, pos, span) <= sched'.replay_requests * CopyCost(span)
        BY SendsLeftRange DEF SchedInv
    <2> QED BY <1>2, <1>3, <2>1, <2>2 DEF EpisodeOf
<1>4. CASE ~asks
    <2>1. sched' = sched
        BY <1>4 DEF NoteRequests
    <2>2. Run(tx', sched, TRUE) <= Run(tx, sched, FALSE)
        <3>1. sched.explicit_count \in Nat
            BY SchedulerAssumption DEF SchedInv, SchedState
        <3> QED BY <1>0, <1>1, <3>1 DEF Run
    <2>3. SendsLeft(tx', sched, TRUE, pos, span) <= SendsLeft(tx, sched, FALSE, pos, span)
        <3> DEFINE b == (sched.replay_requests - 1) * CopyCost(span)
                   g == GroupWait(sched, pos, span)
                   r == Run(tx, sched, FALSE)
                   r1 == Run(tx', sched, TRUE)
        <3>1. g \in Int /\ r \in Int /\ r1 \in Int /\ r1 <= r
            BY <2>2 DEF GroupWait, Run
        <3>2. b \in Int
            BY SchedulerAssumption DEF SchedInv, SchedState, CopyCost
        <3>3. SendsLeft(tx, sched, FALSE, pos, span) =
                IF sched.replay_requests = 0 THEN 0 ELSE b + 1 + (IF g > 0 THEN g + 2 ELSE r)
            BY DEF SendsLeft
        <3>4. SendsLeft(tx', sched, TRUE, pos, span) =
                IF sched.replay_requests = 0 THEN 0 ELSE b + 1 + (IF g > 0 THEN g + 2 ELSE r1)
            BY DEF SendsLeft
        <3> DEFINE before == SendsLeft(tx, sched, FALSE, pos, span)
                   after == SendsLeft(tx', sched, TRUE, pos, span)
        <3> HIDE DEF b, g, r, r1, before, after
        <3>5. after <= before
            <4>1. before = IF sched.replay_requests = 0 THEN 0
                           ELSE b + 1 + (IF g > 0 THEN g + 2 ELSE r)
                BY <3>3 DEF before
            <4>2. after = IF sched.replay_requests = 0 THEN 0
                          ELSE b + 1 + (IF g > 0 THEN g + 2 ELSE r1)
                BY <3>4 DEF after
            <4> QED BY <3>1, <3>2, <4>1, <4>2
        <3> QED BY <3>5 DEF before, after
    <2> QED BY <1>2, <1>4, <2>1, <2>3
<1> QED BY <1>3, <1>4

\* A flit is sent: one send less to go.
LEMMA SendsAfterSend ==
    ASSUME SchedInv, SchedInv', ExplicitPeriod >= 2, IgnoreWindow >= 2,
           NEW span \in Nat \ {0}, NEW pos \in 0 .. (span - 1),
           NEW next, next = IF pos + 1 = span THEN 0 ELSE pos + 1,
           FirstReplayIsFresh(tx), ~tx'.first_replay, tx'.ignore_count = tx.ignore_count,
           NEW offered, NEW p, Send(offered, p, pos = 0), sched.replay_requests > 0
    PROVE  /\ SendsLeft(tx', sched', FALSE, next, span)
                <= SendsLeft(tx, sched, TRUE, pos, span) - 1
           /\ RequestDueNow(pos = 0) /\ sched'.replay_requests > 0 =>
                SendsLeft(tx', sched', FALSE, next, span) <= SpanOf(span)
<1> DEFINE before == SendsLeft(tx, sched, TRUE, pos, span)
           after == SendsLeft(tx', sched', FALSE, next, span)
           r == sched.replay_requests
           c == CopyCost(span)
<1>1. /\ r \in 1 .. RequestCopies /\ c \in Nat /\ c = span + 2 /\ RequestCopies \in Nat
      /\ sched.explicit_count \in 0 .. ExplicitPeriod /\ ExplicitPeriod \in Nat
      /\ sched.requested \in BOOLEAN /\ tx.first_replay \in BOOLEAN
      /\ tx.ignore_count \in 0 .. IgnoreWindow /\ IgnoreWindow \in Nat
    <2>1. /\ RequestCopies \in Nat \ {0} /\ ExplicitPeriod \in Nat \ {0}
        BY SchedulerAssumption
    <2>2. sched \in SchedState /\ IInv
        BY DEF SchedInv
    <2>3. /\ sched.replay_requests \in 0 .. RequestCopies
          /\ sched.explicit_count \in 0 .. ExplicitPeriod /\ sched.requested \in BOOLEAN
        BY <2>2 DEF SchedState
    <2>4. r \in 1 .. RequestCopies
        BY <2>1, <2>3
    <2>5. c = span + 2 /\ c \in Nat
        BY DEF CopyCost
    <2> HIDE DEF r, c
    <2> QED BY <2>1, <2>2, <2>3, <2>4, <2>5, TxFields
<1>2. /\ next \in 0 .. (span - 1)
      /\ before \in Nat /\ after \in Nat /\ before >= (r - 1) * c + 1
    <2>1. next \in 0 .. (span - 1)
        OBVIOUS
    <2>2. before \in Nat /\ before >= (r - 1) * c + 1
        BY SendsLeftRange DEF SchedInv
    <2>3. after \in Nat
        BY <2>1, SendsLeftRange DEF SchedInv
    <2> QED BY <2>1, <2>2, <2>3
<1>3. /\ sched'.explicit_count = IF ExplicitDue THEN ExplicitPeriod ELSE sched.explicit_count - 1
      /\ sched'.replay_requests = IF RequestDueNow(pos = 0) THEN r - 1 ELSE r
      /\ sched'.requested <=> RequestDueNow(pos = 0) \/ (sched.requested /\ ~(pos = 0))
    BY DEF Send
<1>4. CASE RequestDueNow(pos = 0)
    <2>1. after <= (r - 1) * c
        <3>1. after <= sched'.replay_requests * c
            BY <1>2, SendsLeftRange DEF SchedInv
        <3>2. sched'.replay_requests = r - 1
            BY <1>3, <1>4
        <3> HIDE DEF after, r, c
        <3> QED BY <3>1, <3>2
    <2>2. (r - 1) * c <= (RequestCopies - 1) * c /\ (r - 1) * c \in Int
        BY <1>1
    <2>3. SpanOf(span) = (RequestCopies - 1) * c /\ SpanOf(span) \in Int
        BY <1>1 DEF SpanOf
    <2> HIDE DEF before, after, r, c
    <2>4. after <= before - 1 /\ after <= SpanOf(span)
        BY <1>1, <1>2, <2>1, <2>2, <2>3
    <2> QED BY <2>4 DEF before, after
<1>5. CASE ~RequestDueNow(pos = 0)
    <2> DEFINE g == GroupWait(sched, pos, span)
               g1 == GroupWait(sched', next, span)
               x == Run(tx, sched, TRUE)
               x1 == Run(tx', sched', FALSE)
               b == (r - 1) * c
    <2>1. before = b + 1 + (IF g > 0 THEN g + 2 ELSE x)
        <3>1. before = IF r = 0 THEN 0 ELSE b + 1 + (IF g > 0 THEN g + 2 ELSE x)
            BY DEF SendsLeft
        <3> HIDE DEF before, g, x, b, r
        <3> QED BY <1>1, <3>1
    <2>2. after = b + 1 + (IF g1 > 0 THEN g1 + 2 ELSE x1)
        <3>1. after = IF sched'.replay_requests = 0 THEN 0
                      ELSE (sched'.replay_requests - 1) * c + 1
                           + (IF g1 > 0 THEN g1 + 2 ELSE x1)
            BY DEF SendsLeft
        <3>2. sched'.replay_requests = r
            BY <1>3, <1>5
        <3>3. after = IF r = 0 THEN 0 ELSE (r - 1) * c + 1 + (IF g1 > 0 THEN g1 + 2 ELSE x1)
            <4> HIDE DEF after, g1, x1, c, r
            <4> QED BY <3>1, <3>2
        <3> HIDE DEF after, g1, x1, r
        <3> QED BY <1>1, <3>3
    <2>3. b \in Int /\ x1 \in 0 .. 2 /\ x \in 0 .. 2
        BY <1>1 DEF Run
    <2>4. CASE sched.requested /\ pos # 0
        <3>1. g = span - pos /\ g > 0
            BY <2>4 DEF GroupWait
        <3>2. g1 = IF next # 0 THEN span - next ELSE 0
            BY <1>3, <2>4 DEF GroupWait
        <3> HIDE DEF before, after, g, g1, x, x1, b, r, c
        <3>3. after <= before - 1
            BY <2>1, <2>2, <2>3, <3>1, <3>2
        <3> QED BY <1>5, <3>3 DEF before, after
    <2>5. CASE ~(sched.requested /\ pos # 0)
        <3>1. ExplicitDue /\ ~sched'.requested
            BY <1>3, <1>5, <2>5 DEF RequestDueNow
        <3>2. g = 0 /\ g1 = 0
            BY <2>5, <3>1 DEF GroupWait
        <3>3. sched'.explicit_count = ExplicitPeriod
            BY <1>3, <3>1
        <3>4. x1 = IF tx.ignore_count <= 1 THEN 1 ELSE 0
            BY <1>1, <3>3 DEF Run
        <3>5. x >= x1 + 1
            <4>1. tx.first_replay \/ sched.explicit_count <= 1
                BY <3>1 DEF ExplicitDue, FirstReplay
            <4>2. tx.first_replay => tx.ignore_count = IgnoreWindow
                BY DEF FirstReplayIsFresh
            <4> QED BY <1>1, <3>4, <4>1, <4>2 DEF Run
        <3> HIDE DEF before, after, g, g1, x, x1, b, r, c
        <3>6. after <= before - 1
            BY <2>1, <2>2, <2>3, <3>2, <3>5
        <3> QED BY <1>5, <3>6 DEF before, after
    <2> QED BY <2>4, <2>5
<1> QED BY <1>4, <1>5
-----------------------------------------------------------------------------
(* One direction, seen as a value. *)

LEMMA Parameters ==
    /\ MaxSeq \in Nat \ {0} /\ LowMod \in Nat \ {0} /\ Window \in Nat \ {0}
    /\ 2 * Window < MaxSeq
    /\ Capacity \in Nat \ {0} /\ IgnoreWindow \in Nat
    /\ BadLimit \in Nat \ {0} /\ CountMax \in Nat \ {0}
    /\ ReplayLimits \subseteq 0 .. CountMax
    /\ ExplicitPeriod \in Nat \ {0} /\ RequestCopies \in Nat \ {0}
BY HeaderAssumption, TransmitterAssumption, ReceiverAssumption, SchedulerAssumption

\* A flit on a wire: a header an encoder lets through, and a payload or 0.
LegalWords == {word \in Words : ValidHeader(word)}
Flit == [word : LegalWords, content : {0} \cup Payloads]

\* Flits from the first copy of a request to the last, and to the next request.
Span == SpanOf(GroupSpan)
Episode == EpisodeOf(GroupSpan)

\* The ignore window outlasts the copies of one request; a receiver repeats its
\* request only after the answer to the last one has had time to arrive.
TimingSuffices ==
    /\ ExplicitPeriod >= 2
    /\ IgnoreWindow >= 2 /\ IgnoreWindow > Span
    /\ \A limit \in ReplayLimits : limit > Episode + 2 * Delay
    /\ LowBitsSuffice

\* A direction, as the sender, the receiver and the two wires make it:
\*   n, released   payloads accepted, and released from the sender's buffer
\*   left, first   what the schedule still holds, and that none of it was sent
\*   ignore        the sender's ignore_count
\*   d, rx         payloads delivered, and the receiver
\*   pend, target  copies of a request still to send, and what they name
\*   sends, late   flits until the last of them is out; 1 until the flit of this
\*                 slot has been consumed, then 0 until the receiver's end sends
\*   out, back     the flits to the receiver and those to the sender
View == [n : Nat, released : Nat, left : Nat, first : BOOLEAN, ignore : Nat,
         d : Nat, rx : RxState, pend : 0 .. RequestCopies, target : 0 .. MaxSeq,
         sends : Nat, late : {0, 1}, out : Seq(Flit), back : Seq(Flit)]

\* What holds of any view, and what delivery and release add.
Typed(v) ==
    /\ Delay \in Nat \ {0} /\ GroupSpan \in Nat \ {0}
    /\ v \in View
    /\ v.left <= v.n /\ v.released <= v.n /\ v.n - v.released <= Window
    /\ v.rx.ambiguous <=> v.rx.bad_crc_count = BadLimit
    /\ v.pend > 0 => v.sends >= 1
    /\ Len(v.out) <= Delay /\ Len(v.back) <= Delay

Placed(v) ==
    /\ v.released <= v.d /\ v.d <= v.n
    /\ v.rx.last_sequence = Number(v.d)

ViewOK(v) == Typed(v) /\ Placed(v)

\* Flit i of the wire back is a request that the sender may still obey.
Current(v, i) == v.back[i].word.op = 3 /\ v.ignore <= i
Pending(v) == v.pend > 0 /\ v.ignore <= Len(v.back) + v.sends

\* No request can reach the sender outside its ignore window.
Quiet(v) == ~Pending(v) /\ \A i \in 1 .. Len(v.back) : ~Current(v, i)

\* Such a request asks for what the receiver still waits for, no answer to an
\* earlier one is under way, and its copies end within the ignore window.
CurrentOK(v, i) ==
    /\ v.back[i].word.ack_request = NextSeq(v.rx.last_sequence)
    /\ v.rx.unexpected_count <= Episode - v.late + (Len(v.back) - i)
    /\ v.pend > 0 => (Len(v.back) - i) + v.sends <= Span
    /\ \A m \in (i + 1) .. Len(v.back) : v.back[m].word.op = 3 => m - i <= Span

PendingOK(v) ==
    /\ v.rx.unexpected_count + v.sends <= Episode - v.late
    /\ v.pend < RequestCopies => v.target = NextSeq(v.rx.last_sequence)

RequestsOK(v, j) ==
    \/ Quiet(v)
    \/ /\ v.rx.replay /\ j = 0
       /\ \A i \in 1 .. Len(v.back) : Current(v, i) => CurrentOK(v, i)
       /\ Pending(v) => PendingOK(v)

\* Flit i stands where K[i] payloads have been sent, and K[0] is the place of
\* the last flit that arrived.  The flits follow each other, except that flit j
\* answers a request: it goes back to the payload that the receiver waits for.
\* j = Len(out) + 1 while the answer is scheduled, and 0 when there is none.
Carries(flit, k) ==
    /\ Labelled(flit.word, k)
    /\ flit.word.payload => flit.content = k

Answers(flit) == IsExplicit(flit.word) /\ flit.word.payload

FlowOK(v, K, j) ==
    /\ K \in [0 .. Len(v.out) -> 0 .. v.n]
    /\ \A i \in 1 .. Len(v.out) :
          /\ Carries(v.out[i], K[i])
          /\ i # j => K[i] = K[i - 1] + Step(v.out[i].word)
          /\ i = j => Answers(v.out[i]) /\ K[i] = v.d + 1
    /\ v.d <= K[0]

\* What the receiver knows of the place of the last flit.
HearingOK(v, k, j) ==
    /\ v.rx.replay => v.d + 1 <= k
    /\ ~v.rx.replay => j = 0 /\ (~v.rx.ambiguous => k <= v.d + v.rx.bad_crc_count)
    /\ j > 0 => v.rx.unexpected_count + j <= Episode + 2 * Delay

\* The place of the sender.
SendingOK(v, K, j) ==
    /\ j \in 0 .. (Len(v.out) + 1)
    /\ j <= Len(v.out) => ~v.first /\ K[Len(v.out)] = v.n - v.left
    /\ j = Len(v.out) + 1 => v.first /\ v.n - v.left = v.d

\* An Ack on the wire names what was delivered when it was sent.
AcksOK(v, D) ==
    /\ D \in [1 .. Len(v.back) -> Nat]
    /\ \A i \in 1 .. Len(v.back) :
          /\ v.released <= D[i] /\ D[i] <= v.d
          /\ v.back[i].word.op = 2 => v.back[i].word.ack_request = Number(D[i])
          /\ \A m \in i .. Len(v.back) : D[i] <= D[m]

DirectionOK(v) ==
    /\ ViewOK(v)
    /\ \E j \in Nat : \E K : FlowOK(v, K, j) /\ HearingOK(v, K[0], j)
                             /\ SendingOK(v, K, j) /\ RequestsOK(v, j)
    /\ \E D : AcksOK(v, D)

LEMMA TimingNumbers ==
    ASSUME NEW v, Typed(v)
    PROVE  /\ Span \in Nat /\ Episode \in Nat /\ Delay \in Nat \ {0}
           /\ RequestCopies \in Nat \ {0} /\ Window \in Nat /\ Window < MaxSeq /\ MaxSeq \in Nat
<1>1. /\ RequestCopies \in Nat \ {0} /\ GroupSpan \in Nat \ {0}
      /\ Delay \in Nat \ {0}
    BY Parameters DEF Typed
<1>2. GroupSpan + 2 \in Nat
    BY <1>1
<1>3. Span = (RequestCopies - 1) * (GroupSpan + 2) /\ Episode = RequestCopies * (GroupSpan + 2)
    BY DEF Span, Episode, SpanOf, EpisodeOf, CopyCost
<1>4. Span \in Nat /\ Episode \in Nat
    BY <1>1, <1>2, <1>3
<1> QED BY <1>1, <1>4, Parameters

LEMMA ViewFields ==
    ASSUME NEW v, Typed(v)
    PROVE  /\ v.n \in Nat /\ v.released \in Nat /\ v.left \in Nat /\ v.d \in Nat
           /\ v.first \in BOOLEAN /\ v.ignore \in Nat /\ v.pend \in 0 .. RequestCopies
           /\ v.sends \in Nat /\ v.late \in {0, 1}
           /\ v.out \in Seq(Flit) /\ Len(v.out) \in 0 .. Delay
           /\ v.back \in Seq(Flit) /\ Len(v.back) \in 0 .. Delay
           /\ v.rx \in RxState
           /\ v.rx.unexpected_count \in Nat /\ v.rx.bad_crc_count \in Nat
           /\ v.rx.replay_limit \in ReplayLimits /\ v.rx.replay_limit \in Nat
           /\ v.rx.replay \in BOOLEAN /\ v.rx.ambiguous \in BOOLEAN
<1>1. /\ v.n \in Nat /\ v.released \in Nat /\ v.left \in Nat /\ v.d \in Nat
      /\ v.first \in BOOLEAN /\ v.ignore \in Nat /\ v.pend \in 0 .. RequestCopies
      /\ v.sends \in Nat /\ v.late \in {0, 1}
      /\ v.out \in Seq(Flit) /\ v.back \in Seq(Flit) /\ v.rx \in RxState
      /\ Len(v.out) <= Delay /\ Len(v.back) <= Delay
    BY DEF Typed, View
<1>2. Len(v.out) \in 0 .. Delay /\ Len(v.back) \in 0 .. Delay
    <2>1. Delay \in Nat
        BY DEF Typed
    <2>2. Len(v.out) \in Nat /\ Len(v.back) \in Nat
        BY <1>1
    <2> QED BY <1>1, <2>1, <2>2
<1>3. /\ v.rx.unexpected_count \in 0 .. CountMax /\ v.rx.bad_crc_count \in 0 .. BadLimit
      /\ v.rx.replay_limit \in ReplayLimits
      /\ v.rx.replay \in BOOLEAN /\ v.rx.ambiguous \in BOOLEAN
    BY <1>1 DEF RxState
<1>4. CountMax \in Nat /\ BadLimit \in Nat /\ ReplayLimits \subseteq 0 .. CountMax
    BY Parameters
<1>5. /\ v.rx.unexpected_count \in Nat /\ v.rx.bad_crc_count \in Nat
      /\ v.rx.replay_limit \in Nat
    <2>1. v.rx.replay_limit \in 0 .. CountMax
        BY <1>3, <1>4
    <2> DEFINE c == CountMax
               b == BadLimit
    <2>2. v.rx.unexpected_count \in 0 .. c /\ v.rx.bad_crc_count \in 0 .. b
          /\ v.rx.replay_limit \in 0 .. c /\ c \in Nat /\ b \in Nat
        BY <1>3, <1>4, <2>1
    <2> HIDE DEF c, b
    <2> QED BY <2>2
<1> QED BY <1>1, <1>2, <1>3, <1>5

-----------------------------------------------------------------------------
(* A flit reaches the receiver, or the slot brings none. *)

\* What the sender's end and the wire back keep meanwhile.
SameSender(v, w) ==
    /\ w.n = v.n /\ w.released = v.released /\ w.left = v.left /\ w.first = v.first
    /\ w.ignore = v.ignore /\ w.back = v.back

\* Requests after a flit that asks for nothing: the wait goes on.
LEMMA RequestsGoOn ==
    ASSUME NEW v, NEW w, ViewOK(v), ViewOK(w), NEW j, NEW j1, RequestsOK(v, j),
           w.ignore = v.ignore, w.back = v.back,
           v.late = 1, w.late = 0, w.pend = v.pend, w.target = v.target, w.sends <= v.sends,
           w.rx.last_sequence = v.rx.last_sequence, w.rx.replay = v.rx.replay,
           w.rx.unexpected_count <= v.rx.unexpected_count + 1, j = 0 => j1 = 0
    PROVE  RequestsOK(w, j1)
<1>1. /\ v.sends \in Nat /\ w.sends \in Nat /\ v.ignore \in Nat /\ Len(v.back) \in Nat
      /\ v.rx.unexpected_count \in Nat /\ w.rx.unexpected_count \in Nat
      /\ Episode \in Nat /\ Span \in Nat
    BY TimingNumbers, ViewFields DEF ViewOK
<1>2. /\ Pending(w) => Pending(v)
      /\ \A i \in 1 .. Len(v.back) : Current(w, i) <=> Current(v, i)
    BY <1>1 DEF Pending, Current
<1>3. CASE Quiet(v)
    BY <1>2, <1>3 DEF RequestsOK, Quiet
<1>4. CASE ~Quiet(v)
    <2>1. /\ v.rx.replay /\ j = 0
          /\ \A i \in 1 .. Len(v.back) : Current(v, i) => CurrentOK(v, i)
          /\ Pending(v) => PendingOK(v)
        BY <1>4 DEF RequestsOK
    <2>2. ASSUME NEW i \in 1 .. Len(v.back), Current(w, i)
          PROVE  CurrentOK(w, i)
        <3>1. CurrentOK(v, i)
            BY <1>2, <2>1, <2>2
        <3>2. i \in Nat /\ Len(v.back) \in Nat
            BY <1>1
        <3>3. w.rx.unexpected_count <= Episode - 0 + (Len(v.back) - i)
            BY <1>1, <3>1, <3>2 DEF CurrentOK
        <3>4. w.pend > 0 => (Len(v.back) - i) + w.sends <= Span
            BY <1>1, <3>1, <3>2 DEF CurrentOK
        <3> QED BY <3>1, <3>3, <3>4 DEF CurrentOK
    <2>3. ASSUME Pending(w)
          PROVE  PendingOK(w)
        <3>1. PendingOK(v)
            BY <1>2, <2>1, <2>3
        <3>2. v.rx.unexpected_count + v.sends <= Episode - v.late
            BY <3>1 DEF PendingOK
        <3>3. w.rx.unexpected_count + w.sends <= Episode - w.late
            BY <1>1, <3>2
        <3>4. w.pend < RequestCopies => w.target = NextSeq(w.rx.last_sequence)
            BY <3>1 DEF PendingOK
        <3> QED BY <3>3, <3>4 DEF PendingOK
    <2> QED BY <2>1, <2>2, <2>3 DEF RequestsOK
<1> QED BY <1>3, <1>4

\* A flit asks for a replay: nothing obeyed so far can still be under way.
LEMMA RequestsStart ==
    ASSUME TimingSuffices, NEW v, NEW w, ViewOK(v), ViewOK(w), NEW j \in Nat, RequestsOK(v, j),
           ~v.rx.replay => j = 0,
           j > 0 => v.rx.unexpected_count + j <= Episode + 2 * Delay,
           v.rx.replay => v.rx.unexpected_count + 1 >= v.rx.replay_limit,
           w.ignore = v.ignore, w.back = v.back,
           v.late = 1, w.late = 0, w.pend = RequestCopies, w.sends <= Episode,
           w.rx.replay, w.rx.unexpected_count = 0
    PROVE  j = 0 /\ RequestsOK(w, 0)
<1>1. /\ v.sends \in Nat /\ w.sends \in Nat /\ v.ignore \in Nat /\ Len(v.back) \in 0 .. Delay
      /\ v.rx.unexpected_count \in Nat /\ v.rx.replay_limit \in ReplayLimits
      /\ Episode \in Nat /\ Delay \in Nat \ {0} /\ RequestCopies \in Nat \ {0}
      /\ v.rx.replay_limit \in Nat
    BY TimingNumbers, ViewFields DEF ViewOK
<1>2. v.rx.replay => v.rx.unexpected_count >= Episode + 2 * Delay
    <2>1. v.rx.replay_limit > Episode + 2 * Delay
        BY <1>1 DEF TimingSuffices
    <2> QED BY <1>1, <2>1
<1>3. j = 0
    BY <1>1, <1>2
<1>4. \A i \in 1 .. Len(v.back) : ~Current(v, i)
    <2>1. CASE Quiet(v)
        BY <2>1 DEF Quiet
    <2>2. CASE ~Quiet(v)
        <3>1. /\ v.rx.replay
              /\ \A i \in 1 .. Len(v.back) : Current(v, i) => CurrentOK(v, i)
            BY <2>2 DEF RequestsOK
        <3>2. ASSUME NEW i \in 1 .. Len(v.back), Current(v, i)
              PROVE  FALSE
            <4>1. v.rx.unexpected_count <= Episode - 1 + (Len(v.back) - i)
                BY <3>1, <3>2 DEF CurrentOK
            <4> QED BY <1>1, <1>2, <3>1, <4>1
        <3> QED BY <3>2
    <2> QED BY <2>1, <2>2
<1>5. \A i \in 1 .. Len(w.back) : ~Current(w, i)
    BY <1>4 DEF Current
<1>6. PendingOK(w)
    BY <1>1 DEF PendingOK
<1> QED BY <1>3, <1>5, <1>6 DEF RequestsOK

\* The expected flit ends the wait: then no request was to be obeyed.
LEMMA RequestsEnd ==
    ASSUME NEW v, NEW w, ViewOK(v), ViewOK(w), NEW j, RequestsOK(v, j),
           ~v.rx.replay \/ j # 0,
           w.ignore = v.ignore, w.back = v.back, w.pend = v.pend, w.sends <= v.sends
    PROVE  RequestsOK(w, 0)
<1>1. v.sends \in Nat /\ w.sends \in Nat /\ v.ignore \in Nat /\ Len(v.back) \in Nat
    BY ViewFields DEF ViewOK
<1>2. Quiet(v)
    BY DEF RequestsOK
<1> QED BY <1>1, <1>2 DEF RequestsOK, Quiet, Pending, Current

\* The first flit on the wire.
LEMMA NextFlit ==
    ASSUME NEW v, ViewOK(v), NEW j \in Nat, NEW K, FlowOK(v, K, j), Len(v.out) > 0
    PROVE  /\ Head(v.out) = v.out[1] /\ Head(v.out) \in Flit
           /\ K[0] \in Nat /\ K[1] \in Nat /\ K[1] <= v.n
           /\ Carries(Head(v.out), K[1])
           /\ Step(Head(v.out).word) \in {0, 1}
           /\ j # 1 => K[1] = K[0] + Step(Head(v.out).word)
           /\ j = 1 => Answers(Head(v.out)) /\ K[1] = v.d + 1
           /\ v.d <= K[0] /\ v.d + Step(Head(v.out).word) <= K[1]
           /\ K[1] - v.d < MaxSeq
<1>1. v.out \in Seq(Flit) /\ v.out # <<>> /\ 1 \in 1 .. Len(v.out) /\ 0 \in 0 .. Len(v.out)
      /\ 1 \in 0 .. Len(v.out) /\ v.n \in Nat /\ v.d \in Nat /\ v.released \in Nat
    <2>1. v.out \in Seq(Flit) /\ Len(v.out) \in Nat /\ v.n \in Nat /\ v.d \in Nat
          /\ v.released \in Nat
        BY ViewFields DEF ViewOK
    <2> QED BY <2>1, EmptySeq
<1>2. Head(v.out) = v.out[1] /\ Head(v.out) \in Flit
    BY <1>1, HeadTailProperties
<1>3. K[0] \in 0 .. v.n /\ K[1] \in 0 .. v.n
    BY <1>1 DEF FlowOK
<1>4. /\ Carries(v.out[1], K[1])
      /\ j # 1 => K[1] = K[1 - 1] + Step(v.out[1].word)
      /\ j = 1 => Answers(v.out[1]) /\ K[1] = v.d + 1
      /\ v.d <= K[0]
    BY <1>1 DEF FlowOK
<1>5. Step(Head(v.out).word) \in {0, 1}
      /\ (Answers(Head(v.out)) => Step(Head(v.out).word) = 1)
    BY DEF Step, Answers
<1>6. v.n - v.d <= Window /\ Window \in Nat /\ MaxSeq \in Nat /\ Window < MaxSeq
    <2>1. v.n - v.released <= Window /\ v.released <= v.d
        BY DEF ViewOK, Typed, Placed
    <2>2. Window \in Nat /\ MaxSeq \in Nat /\ Window < MaxSeq
        BY TimingNumbers DEF ViewOK
    <2> QED BY <1>1, <2>1, <2>2
<1>7. 1 - 1 = 0
    OBVIOUS
<1>8. v.d + Step(Head(v.out).word) <= K[1]
    BY <1>1, <1>2, <1>3, <1>4, <1>5, <1>7
<1>9. K[1] - v.d < MaxSeq
    BY <1>1, <1>3, <1>6
<1> QED BY <1>1, <1>2, <1>3, <1>4, <1>5, <1>7, <1>8, <1>9

\* The flits behind it move up.
Shifted(K, len) == [i \in 0 .. (len - 1) |-> K[i + 1]]
Before(j) == IF j = 0 THEN 0 ELSE j - 1

LEMMA FlowMoves ==
    ASSUME NEW v, NEW w, ViewOK(v), ViewOK(w), NEW j \in Nat, NEW K, FlowOK(v, K, j),
           SendingOK(v, K, j), Len(v.out) > 0, SameSender(v, w), w.out = Tail(v.out),
           w.d <= K[1], j > 1 => w.d = v.d
    PROVE  LET K1 == Shifted(K, Len(v.out)) IN
           /\ K1[0] = K[1]
           /\ FlowOK(w, K1, Before(j)) /\ SendingOK(w, K1, Before(j))
<1> DEFINE f == Len(v.out)
           K1 == Shifted(K, f)
           j1 == Before(j)
<1>1. f \in Nat /\ f >= 1 /\ v.out \in Seq(Flit) /\ v.out # <<>>
    <2>1. v.out \in Seq(Flit) /\ Len(v.out) \in Nat
        BY ViewFields DEF ViewOK
    <2> QED BY <2>1, EmptySeq
<1>2. /\ Len(w.out) = f - 1
      /\ \A i \in 1 .. (f - 1) : w.out[i] = v.out[i + 1]
    BY <1>1, HeadTailProperties
<1>3. /\ K \in [0 .. f -> 0 .. v.n]
      /\ \A i \in 1 .. f : /\ Carries(v.out[i], K[i])
                           /\ i # j => K[i] = K[i - 1] + Step(v.out[i].word)
                           /\ i = j => Answers(v.out[i]) /\ K[i] = v.d + 1
      /\ j \in 0 .. (f + 1)
      /\ j <= f => ~v.first /\ K[f] = v.n - v.left
      /\ j = f + 1 => v.first /\ v.n - v.left = v.d
    BY DEF FlowOK, SendingOK
<1>4. /\ w.n = v.n /\ w.left = v.left /\ w.first = v.first
    BY DEF SameSender
<1>5. /\ K1 = [i \in 0 .. (f - 1) |-> K[i + 1]]
      /\ j1 = IF j = 0 THEN 0 ELSE j - 1
    BY DEF Shifted, Before
<1> HIDE DEF f, K1, j1
<1>6. \A i \in 0 .. (f - 1) : K1[i] = K[i + 1] /\ i + 1 \in 1 .. f
    BY <1>1, <1>5
<1>7. K1[0] = K[1] /\ K1[f - 1] = K[f]
    <2>1. 0 \in 0 .. (f - 1) /\ f - 1 \in 0 .. (f - 1) /\ 0 + 1 = 1 /\ (f - 1) + 1 = f
        BY <1>1
    <2>2. K1[0] = K[0 + 1] /\ K1[f - 1] = K[(f - 1) + 1]
        BY <1>6, <2>1
    <2> QED BY <2>1, <2>2
<1>8. FlowOK(w, K1, j1)
    <2>1. K1 \in [0 .. (f - 1) -> 0 .. w.n]
        <3>1. \A i \in 0 .. (f - 1) : K[i + 1] \in 0 .. w.n
            <4> TAKE i \in 0 .. (f - 1)
            <4>1. i + 1 \in 0 .. f
                BY <1>1
            <4> QED BY <1>3, <1>4, <4>1
        <3> QED BY <1>5, <3>1
    <2>2. ASSUME NEW i \in 1 .. (f - 1)
          PROVE  /\ Carries(w.out[i], K1[i])
                 /\ i # j1 => K1[i] = K1[i - 1] + Step(w.out[i].word)
                 /\ i = j1 => Answers(w.out[i]) /\ K1[i] = w.d + 1
        <3>1. /\ i \in 0 .. (f - 1) /\ i - 1 \in 0 .. (f - 1) /\ i + 1 \in 1 .. f
              /\ (i - 1) + 1 = i /\ (i + 1) - 1 = i
            BY <1>1
        <3>2. /\ w.out[i] = v.out[i + 1] /\ K1[i] = K[i + 1] /\ K1[i - 1] = K[i]
            <4>1. w.out[i] = v.out[i + 1]
                BY <1>2
            <4>2. K1[i] = K[i + 1] /\ K1[i - 1] = K[(i - 1) + 1]
                BY <1>6, <3>1
            <4> QED BY <3>1, <4>1, <4>2
        <3>3. /\ Carries(v.out[i + 1], K[i + 1])
              /\ i + 1 # j => K[i + 1] = K[(i + 1) - 1] + Step(v.out[i + 1].word)
              /\ i + 1 = j => Answers(v.out[i + 1]) /\ K[i + 1] = v.d + 1
            BY <1>3, <3>1
        <3>4. /\ i = j1 => i + 1 = j /\ j > 1
              /\ i # j1 => i + 1 # j
            BY <1>5
        <3> QED BY <3>1, <3>2, <3>3, <3>4
    <2>3. w.d <= K1[0]
        BY <1>7
    <2> QED BY <1>2, <2>1, <2>2, <2>3 DEF FlowOK
<1>9. SendingOK(w, K1, j1)
    <2>1. j1 \in 0 .. ((f - 1) + 1)
        BY <1>1, <1>3, <1>5
    <2>2. j1 <= f - 1 => ~w.first /\ K1[f - 1] = w.n - w.left
        <3>1. j1 <= f - 1 => j <= f
            BY <1>1, <1>5
        <3> QED BY <1>3, <1>4, <1>7, <3>1
    <2>3. j1 = (f - 1) + 1 => w.first /\ w.n - w.left = w.d
        <3>1. j1 = (f - 1) + 1 => j = f + 1 /\ j > 1
            BY <1>1, <1>5
        <3> QED BY <1>3, <1>4, <3>1
    <2> QED BY <1>2, <2>1, <2>2, <2>3 DEF SendingOK
<1> QED BY <1>7, <1>8, <1>9 DEF f, K1, j1

LEMMA AcksKept ==
    ASSUME NEW v, NEW w, ViewOK(v), ViewOK(w), NEW D, AcksOK(v, D), w.back = v.back,
           w.released = v.released, v.d <= w.d
    PROVE  AcksOK(w, D)
<1>1. v.d \in Nat /\ w.d \in Nat
    BY ViewFields DEF ViewOK
<1>2. \A i \in 1 .. Len(v.back) : D[i] \in Nat
    BY DEF AcksOK
<1> QED BY <1>1, <1>2 DEF AcksOK

\* A flit reaches the receiver; asks says that it asks for a replay.
Arrives(v, w, asks) ==
    /\ SameSender(v, w) /\ Len(v.out) > 0 /\ w.out = Tail(v.out)
    /\ v.late = 1 /\ w.late = 0
    /\ asks => w.pend = RequestCopies /\ w.sends <= Episode
    /\ ~asks => w.pend = v.pend /\ w.target = v.target /\ w.sends <= v.sends

\* What the receiver makes of a flit that it hears.
Heard(v, w, asks, delivers, k) ==
    LET word == Head(v.out).word IN
    \/ /\ Trusted(v.rx, word) /\ k = v.d + Step(word)
       /\ Taken(v.rx, w.rx, asks, k)
       /\ delivers <=> word.payload
    \/ /\ Trusted(v.rx, word) => k # v.d + Step(word)
       /\ LeftOut(v.rx, w.rx, asks, Trusted(v.rx, word))
       /\ ~delivers

\* The first flit stands near enough for its low bits to be read.
LEMMA NextIsNear ==
    ASSUME NEW v, ViewOK(v), NEW j \in Nat, NEW K, FlowOK(v, K, j), HearingOK(v, K[0], j),
           Len(v.out) > 0
    PROVE  /\ Labelled(Head(v.out).word, K[1])
           /\ Near(v.rx, Head(v.out).word, K[1], v.d)
<1> DEFINE word == Head(v.out).word
<1>1. /\ K[0] \in Nat /\ K[1] \in Nat /\ v.d \in Nat
      /\ Carries(Head(v.out), K[1])
      /\ Step(word) \in {0, 1}
      /\ j # 1 => K[1] = K[0] + Step(word)
      /\ v.d + Step(word) <= K[1] /\ K[1] - v.d < MaxSeq
    BY NextFlit, ViewFields DEF ViewOK
<1>2. ASSUME Trusted(v.rx, word), IsCommand(word)
      PROVE  K[1] - v.d <= BadLimit - 1 + Step(word)
    <2>1. ~v.rx.ambiguous /\ ~v.rx.replay
        BY <1>2 DEF Trusted, IsExplicit, IsCommand
    <2>2. j = 0 /\ K[0] <= v.d + v.rx.bad_crc_count
        BY <2>1 DEF HearingOK
    <2>3. v.rx.bad_crc_count <= BadLimit - 1
        <3>1. v.rx.bad_crc_count # BadLimit /\ v.rx \in RxState /\ BadLimit \in Nat
            BY <2>1, ViewFields, Parameters DEF ViewOK, Typed
        <3>2. v.rx.bad_crc_count \in 0 .. BadLimit
            BY <3>1 DEF RxState
        <3> QED BY <3>1, <3>2
    <2>4. v.rx.bad_crc_count \in Nat /\ BadLimit \in Nat
        BY ViewFields, Parameters DEF ViewOK
    <2> HIDE DEF word
    <2> QED BY <1>1, <2>2, <2>3, <2>4
<1> QED BY <1>1, <1>2 DEF Carries, Near

\* A payload that is delivered is the one that is due.
LEMMA HeardContent ==
    ASSUME NEW v, DirectionOK(v), Len(v.out) > 0, NEW w, NEW asks, NEW delivers,
           \A k \in Nat : /\ Labelled(Head(v.out).word, k)
                          /\ Near(v.rx, Head(v.out).word, k, v.d)
                          => Heard(v, w, asks, delivers, k),
           delivers
    PROVE  Head(v.out).content = v.d + 1
<1>0. PICK j \in Nat : \E K : FlowOK(v, K, j) /\ HearingOK(v, K[0], j)
    BY DEF DirectionOK
<1>1. PICK K : FlowOK(v, K, j) /\ HearingOK(v, K[0], j)
    BY <1>0
<1>2. ViewOK(v)
    BY DEF DirectionOK
<1>3. K[1] \in Nat /\ Carries(Head(v.out), K[1])
    BY <1>1, <1>2, NextFlit
<1>4. Heard(v, w, asks, delivers, K[1])
    BY <1>1, <1>2, <1>3, NextIsNear
<1>5. K[1] = v.d + Step(Head(v.out).word) /\ Head(v.out).word.payload
    BY <1>4 DEF Heard
<1> QED BY <1>3, <1>5 DEF Carries, Step

\* The receiver waits on: an answer under way comes before the next request.
LEMMA WaitGoesOn ==
    ASSUME TimingSuffices, NEW v, NEW w, ViewOK(v), ViewOK(w), NEW j \in Nat,
           NEW k, HearingOK(v, k, j), RequestsOK(v, j),
           NEW asks \in BOOLEAN, Arrives(v, w, asks),
           w.rx.last_sequence = v.rx.last_sequence, v.rx.replay, w.rx.replay,
           Counts(v.rx, w.rx, asks)
    PROVE  /\ RequestsOK(w, Before(j))
           /\ Before(j) > 0 => w.rx.unexpected_count + Before(j) <= Episode + 2 * Delay
<1>1. /\ v.rx.unexpected_count \in Nat /\ w.rx.unexpected_count \in Nat
      /\ Episode \in Nat /\ Delay \in Nat
    BY TimingNumbers, ViewFields DEF ViewOK
<1>2. j > 0 => v.rx.unexpected_count + j <= Episode + 2 * Delay
    BY DEF HearingOK
<1>3. w.ignore = v.ignore /\ w.back = v.back /\ v.late = 1 /\ w.late = 0
    BY DEF Arrives, SameSender
<1>4. CASE asks
    <2>1. w.pend = RequestCopies /\ w.sends <= Episode
        BY <1>4 DEF Arrives
    <2>2. v.rx.unexpected_count + 1 >= v.rx.replay_limit /\ w.rx.unexpected_count = 0
        BY <1>4 DEF Counts
    <2>3. j = 0 /\ RequestsOK(w, 0)
        BY <1>2, <1>3, <2>1, <2>2, RequestsStart
    <2> QED BY <2>3 DEF Before
<1>5. CASE ~asks
    <2>1. w.pend = v.pend /\ w.target = v.target /\ w.sends <= v.sends
        BY <1>5 DEF Arrives
    <2>2. w.rx.unexpected_count <= v.rx.unexpected_count + 1
        BY <1>5 DEF Counts
    <2>3. j = 0 => Before(j) = 0
        BY DEF Before
    <2>4. w.rx.replay = v.rx.replay
        BY ViewFields DEF ViewOK
    <2>5. RequestsOK(w, Before(j))
        BY <1>3, <2>1, <2>2, <2>3, <2>4, RequestsGoOn
    <2> QED BY <1>1, <1>2, <2>2, <2>5 DEF Before
<1> QED BY <1>4, <1>5

LEMMA ArrivalHeard ==
    ASSUME TimingSuffices, NEW v, NEW w, DirectionOK(v), Typed(w),
           NEW asks \in BOOLEAN, NEW delivers \in BOOLEAN, Arrives(v, w, asks),
           \A k \in Nat : /\ Labelled(Head(v.out).word, k)
                          /\ Near(v.rx, Head(v.out).word, k, v.d)
                          => Heard(v, w, asks, delivers, k),
           w.d = IF delivers THEN v.d + 1 ELSE v.d
    PROVE  DirectionOK(w)
<1>1. PICK j \in Nat : \E K : FlowOK(v, K, j) /\ HearingOK(v, K[0], j)
                              /\ SendingOK(v, K, j) /\ RequestsOK(v, j)
    BY DEF DirectionOK
<1>2. PICK K : FlowOK(v, K, j) /\ HearingOK(v, K[0], j)
               /\ SendingOK(v, K, j) /\ RequestsOK(v, j)
    BY <1>1
<1>3. PICK D : AcksOK(v, D)
    BY DEF DirectionOK
<1>4. ViewOK(v) /\ Placed(v)
    BY DEF DirectionOK, ViewOK
<1> DEFINE word == Head(v.out).word
           s == Step(word)
           k1 == K[1]
<1>5. /\ K[0] \in Nat /\ k1 \in Nat /\ k1 <= v.n /\ v.d \in Nat /\ s \in {0, 1}
      /\ j # 1 => k1 = K[0] + s
      /\ j = 1 => Answers(Head(v.out)) /\ k1 = v.d + 1
      /\ v.d <= K[0] /\ v.d + s <= k1
    BY <1>2, <1>4, NextFlit, ViewFields DEF ViewOK, Arrives
<1>6. Heard(v, w, asks, delivers, k1)
    BY <1>2, <1>4, <1>5, NextFlit, NextIsNear DEF Arrives
<1>7. /\ v.rx.replay => v.d + 1 <= K[0]
      /\ ~v.rx.replay => j = 0
      /\ j > 0 => v.rx.unexpected_count + j <= Episode + 2 * Delay
    BY <1>2 DEF HearingOK
<1>8. /\ SameSender(v, w) /\ Len(v.out) > 0 /\ w.out = Tail(v.out) /\ w.back = v.back
      /\ w.ignore = v.ignore /\ w.n = v.n /\ w.released = v.released
      /\ v.late = 1 /\ w.late = 0
    BY DEF Arrives, SameSender
<1>9. v.released <= v.d /\ v.d <= v.n /\ v.rx.last_sequence = Number(v.d)
      /\ v.released \in Nat /\ v.n \in Nat
    BY <1>4, ViewFields DEF Placed, ViewOK
<1>10. s = IF word.payload THEN 1 ELSE 0
    BY DEF Step
<1>11. ASSUME ViewOK(w), w.d <= k1, j > 1 => w.d = v.d, v.d <= w.d,
              HearingOK(w, k1, Before(j)), RequestsOK(w, Before(j))
       PROVE  DirectionOK(w)
    <2> DEFINE K1 == Shifted(K, Len(v.out))
    <2>1. K1[0] = k1 /\ FlowOK(w, K1, Before(j)) /\ SendingOK(w, K1, Before(j))
        BY <1>2, <1>4, <1>8, <1>11, FlowMoves
    <2>2. AcksOK(w, D)
        BY <1>3, <1>4, <1>8, <1>11, AcksKept
    <2>3. Before(j) \in Nat
        BY DEF Before
    <2>4. HearingOK(w, K1[0], Before(j))
        BY <1>11, <2>1
    <2> HIDE DEF K1
    <2> QED BY <1>11, <2>1, <2>2, <2>3, <2>4 DEF DirectionOK
<1> HIDE DEF word, s, k1
<1>12. CASE /\ Trusted(v.rx, word) /\ k1 = v.d + s
            /\ Taken(v.rx, w.rx, asks, k1)
            /\ delivers <=> word.payload
    <2>1. w.d = k1 /\ v.d <= w.d
        BY <1>5, <1>10, <1>12
    <2>2. /\ w.rx.last_sequence = Number(k1) /\ ~w.rx.replay /\ ~w.rx.ambiguous
          /\ w.rx.bad_crc_count = 0 /\ w.rx.unexpected_count = 0 /\ ~asks
        BY <1>12 DEF Taken
    <2>3. ViewOK(w)
        BY <1>5, <1>8, <1>9, <2>1, <2>2 DEF ViewOK, Placed
    <2>4. j \in {0, 1} /\ (~v.rx.replay \/ j # 0)
        BY <1>5, <1>7, <1>12
    <2>5. w.pend = v.pend /\ w.sends <= v.sends
        BY <2>2 DEF Arrives
    <2>6. RequestsOK(w, 0)
        BY <1>2, <1>4, <1>8, <2>3, <2>4, <2>5, RequestsEnd
    <2>7. Before(j) = 0
        BY <2>4 DEF Before
    <2>8. HearingOK(w, k1, 0)
        BY <1>5, <2>1, <2>2 DEF HearingOK
    <2>9. w.d <= k1 /\ (j > 1 => w.d = v.d)
        BY <1>5, <2>1, <2>4
    <2> QED BY <1>11, <2>1, <2>3, <2>6, <2>7, <2>8, <2>9
<1>13. CASE /\ Trusted(v.rx, word) => k1 # v.d + s
            /\ LeftOut(v.rx, w.rx, asks, Trusted(v.rx, word))
            /\ ~delivers
    <2>1. w.d = v.d /\ w.rx.last_sequence = v.rx.last_sequence
        BY <1>13 DEF LeftOut
    <2>2. ViewOK(w)
        BY <1>8, <1>9, <2>1 DEF ViewOK, Placed
    <2>3. j # 1
        <3>1. j = 1 => Trusted(v.rx, word) /\ k1 = v.d + 1 /\ word.payload
            BY <1>5 DEF Answers, Trusted, word
        <3> QED BY <1>10, <1>13, <3>1
    <2>4. k1 = K[0] + s /\ v.d <= k1 /\ w.d <= k1 /\ v.d <= w.d
        BY <1>5, <2>1, <2>3
    <2>5. CASE v.rx.replay
        <3>1. w.rx.replay /\ Counts(v.rx, w.rx, asks)
            BY <1>13, <2>5 DEF LeftOut
        <3>2. /\ RequestsOK(w, Before(j))
              /\ Before(j) > 0 => w.rx.unexpected_count + Before(j) <= Episode + 2 * Delay
            BY <1>2, <1>4, <2>1, <2>2, <2>5, <3>1, WaitGoesOn
        <3>3. w.d + 1 <= k1
            BY <1>5, <1>7, <2>1, <2>4, <2>5
        <3>4. HearingOK(w, k1, Before(j))
            BY <3>1, <3>2, <3>3 DEF HearingOK
        <3> QED BY <1>11, <2>1, <2>2, <2>4, <3>2, <3>4
    <2>6. CASE ~v.rx.replay /\ Trusted(v.rx, word)
        <3>1. w.rx.replay /\ w.rx.unexpected_count = 0 /\ asks /\ j = 0
            BY <1>7, <1>13, <2>6 DEF LeftOut
        <3>2. w.pend = RequestCopies /\ w.sends <= Episode
            BY <3>1 DEF Arrives
        <3>3. RequestsOK(w, 0)
            BY <1>2, <1>4, <1>7, <1>8, <2>2, <2>6, <3>1, <3>2, RequestsStart
        <3>4. w.d + 1 <= k1
            BY <1>5, <1>13, <2>1, <2>6
        <3>5. HearingOK(w, k1, 0) /\ Before(j) = 0
            BY <3>1, <3>4 DEF HearingOK, Before
        <3> QED BY <1>11, <2>1, <2>2, <2>4, <3>3, <3>5
    <2>7. CASE ~v.rx.replay /\ ~Trusted(v.rx, word)
        <3>1. w.rx = v.rx /\ ~asks /\ j = 0 /\ v.rx.ambiguous
            BY <1>7, <1>13, <2>7 DEF LeftOut, Trusted
        <3>2. w.pend = v.pend /\ w.target = v.target /\ w.sends <= v.sends
            BY <3>1 DEF Arrives
        <3>3. RequestsOK(w, 0)
            <4>1. w.rx.unexpected_count <= v.rx.unexpected_count + 1
                BY <1>4, <3>1, ViewFields DEF ViewOK
            <4> QED BY <1>2, <1>4, <1>8, <2>2, <3>1, <3>2, <4>1, RequestsGoOn
        <3>4. HearingOK(w, k1, 0) /\ Before(j) = 0
            BY <2>7, <3>1 DEF HearingOK, Before
        <3> QED BY <1>11, <2>1, <2>2, <2>4, <3>3, <3>4
    <2> QED BY <2>5, <2>6, <2>7
<1> QED BY <1>6, <1>12, <1>13 DEF Heard, word, s

LEMMA ArrivalLost ==
    ASSUME TimingSuffices, NEW v, NEW w, DirectionOK(v), Typed(w),
           NEW asks \in BOOLEAN, Arrives(v, w, asks),
           Unheard(v.rx, w.rx, asks), w.d = v.d
    PROVE  DirectionOK(w)
<1>1. PICK j \in Nat : \E K : FlowOK(v, K, j) /\ HearingOK(v, K[0], j)
                              /\ SendingOK(v, K, j) /\ RequestsOK(v, j)
    BY DEF DirectionOK
<1>2. PICK K : FlowOK(v, K, j) /\ HearingOK(v, K[0], j)
               /\ SendingOK(v, K, j) /\ RequestsOK(v, j)
    BY <1>1
<1>3. PICK D : AcksOK(v, D)
    BY DEF DirectionOK
<1>4. ViewOK(v) /\ Placed(v)
    BY DEF DirectionOK, ViewOK
<1> DEFINE s == Step(Head(v.out).word)
           k1 == K[1]
<1>5. /\ K[0] \in Nat /\ k1 \in Nat /\ v.d \in Nat /\ s \in {0, 1}
      /\ j # 1 => k1 = K[0] + s
      /\ j = 1 => k1 = v.d + 1
      /\ v.d <= K[0]
      /\ v.rx.bad_crc_count \in Nat
    BY <1>2, <1>4, NextFlit, ViewFields DEF ViewOK, Arrives
<1>6. /\ v.rx.replay => v.d + 1 <= K[0]
      /\ ~v.rx.replay => j = 0 /\ (~v.rx.ambiguous => K[0] <= v.d + v.rx.bad_crc_count)
    BY <1>2 DEF HearingOK
<1>7. /\ SameSender(v, w) /\ Len(v.out) > 0 /\ w.out = Tail(v.out) /\ w.back = v.back
      /\ w.ignore = v.ignore /\ w.n = v.n /\ w.released = v.released
      /\ v.late = 1 /\ w.late = 0
    BY DEF Arrives, SameSender
<1>8. /\ w.rx.last_sequence = v.rx.last_sequence /\ w.rx.replay = v.rx.replay
      /\ w.rx.ambiguous \/ (~v.rx.ambiguous /\ w.rx.bad_crc_count = v.rx.bad_crc_count + 1)
      /\ Counts(v.rx, w.rx, asks)
    BY DEF Unheard
<1>9. ViewOK(w)
    BY <1>4, <1>7, <1>8 DEF ViewOK, Placed
<1> HIDE DEF s, k1
<1>10. w.d <= k1 /\ v.d <= w.d /\ (j > 1 => w.d = v.d)
    BY <1>5
<1>11. ASSUME HearingOK(w, k1, Before(j)), RequestsOK(w, Before(j))
       PROVE  DirectionOK(w)
    <2> DEFINE K1 == Shifted(K, Len(v.out))
    <2>1. K1[0] = k1 /\ FlowOK(w, K1, Before(j)) /\ SendingOK(w, K1, Before(j))
        BY <1>2, <1>4, <1>7, <1>9, <1>10, FlowMoves DEF k1
    <2>2. AcksOK(w, D)
        BY <1>3, <1>4, <1>7, <1>9, <1>10, AcksKept
    <2>3. Before(j) \in Nat
        BY DEF Before
    <2>4. HearingOK(w, K1[0], Before(j))
        BY <1>11, <2>1
    <2> HIDE DEF K1
    <2> QED BY <1>9, <1>11, <2>1, <2>2, <2>3, <2>4 DEF DirectionOK
<1>12. CASE v.rx.replay
    <2>1. /\ RequestsOK(w, Before(j))
          /\ Before(j) > 0 => w.rx.unexpected_count + Before(j) <= Episode + 2 * Delay
        BY <1>2, <1>4, <1>8, <1>9, <1>12, WaitGoesOn
    <2>2. w.d + 1 <= k1
        BY <1>5, <1>6, <1>12
    <2>3. HearingOK(w, k1, Before(j))
        BY <1>8, <1>12, <2>1, <2>2 DEF HearingOK
    <2> QED BY <1>11, <2>1, <2>3
<1>13. CASE ~v.rx.replay
    <2>1. ~asks /\ w.rx.unexpected_count = v.rx.unexpected_count /\ j = 0
        BY <1>6, <1>8, <1>13 DEF Counts
    <2>2. w.pend = v.pend /\ w.target = v.target /\ w.sends <= v.sends
        BY <2>1 DEF Arrives
    <2>3. w.rx.unexpected_count <= v.rx.unexpected_count + 1
        BY <1>4, <2>1, ViewFields DEF ViewOK
    <2>4. RequestsOK(w, 0)
        BY <1>2, <1>4, <1>7, <1>8, <1>9, <2>1, <2>2, <2>3, RequestsGoOn
    <2>5. ~w.rx.ambiguous => k1 <= w.d + w.rx.bad_crc_count
        BY <1>5, <1>6, <1>8, <1>13, <2>1
    <2>6. HearingOK(w, k1, 0) /\ Before(j) = 0
        BY <1>8, <1>13, <2>1, <2>5 DEF HearingOK, Before
    <2> QED BY <1>11, <2>4, <2>6
<1> QED BY <1>12, <1>13

\* No flit arrives in the slots before the first one has travelled the wire.
LEMMA NoArrival ==
    ASSUME NEW v, NEW w, DirectionOK(v), Typed(w), SameSender(v, w), w.out = v.out,
           v.late = 1, w.late = 0, w.pend = v.pend, w.target = v.target,
           w.sends <= v.sends, w.rx = v.rx, w.d = v.d
    PROVE  DirectionOK(w)
<1>1. PICK j \in Nat : \E K : FlowOK(v, K, j) /\ HearingOK(v, K[0], j)
                              /\ SendingOK(v, K, j) /\ RequestsOK(v, j)
    BY DEF DirectionOK
<1>2. PICK K : FlowOK(v, K, j) /\ HearingOK(v, K[0], j)
               /\ SendingOK(v, K, j) /\ RequestsOK(v, j)
    BY <1>1
<1>3. PICK D : AcksOK(v, D)
    BY DEF DirectionOK
<1>4. ViewOK(v) /\ Placed(v)
    BY DEF DirectionOK, ViewOK
<1>5. ViewOK(w)
    BY <1>4 DEF ViewOK, Placed, SameSender
<1>6. FlowOK(w, K, j) /\ HearingOK(w, K[0], j) /\ SendingOK(w, K, j)
    BY <1>2 DEF FlowOK, HearingOK, SendingOK, SameSender
<1>7. RequestsOK(w, j)
    <2>1. w.rx.unexpected_count <= v.rx.unexpected_count + 1
        BY <1>4, ViewFields DEF ViewOK
    <2> QED BY <1>2, <1>4, <1>5, <2>1, RequestsGoOn DEF SameSender
<1>8. AcksOK(w, D)
    BY <1>3 DEF AcksOK, SameSender
<1> QED BY <1>5, <1>6, <1>7, <1>8 DEF DirectionOK
-----------------------------------------------------------------------------
(* A flit reaches the sender. *)

\* What the receiver's end and the wire out keep meanwhile.
SameReceiver(v, w) ==
    /\ w.n = v.n /\ w.d = v.d /\ w.rx = v.rx /\ w.out = v.out
    /\ w.pend = v.pend /\ w.target = v.target /\ w.sends = v.sends /\ w.late = v.late

Returns(v, w) == SameReceiver(v, w) /\ Len(v.back) > 0 /\ w.back = Tail(v.back)

LEMMA TailOfBack ==
    ASSUME NEW v, NEW w, Typed(v), Returns(v, w)
    PROVE  /\ Len(v.back) \in Nat /\ Len(v.back) >= 1
           /\ Len(w.back) = Len(v.back) - 1
           /\ \A i \in 1 .. (Len(v.back) - 1) : w.back[i] = v.back[i + 1]
           /\ Head(v.back) = v.back[1] /\ Head(v.back) \in Flit
<1>1. v.back \in Seq(Flit) /\ Len(v.back) \in Nat /\ Len(v.back) >= 1 /\ v.back # <<>>
    BY ViewFields, EmptySeq DEF Returns
<1>2. w.back = Tail(v.back)
    BY DEF Returns
<1> QED BY <1>1, <1>2, HeadTailProperties

\* The ignore window and the wire get shorter together.
LEMMA RequestsMove ==
    ASSUME NEW v, NEW w, ViewOK(v), Typed(w), Returns(v, w), NEW j, RequestsOK(v, j),
           w.ignore = IF v.ignore = 0 THEN 0 ELSE v.ignore - 1
    PROVE  RequestsOK(w, j)
<1> DEFINE len == Len(v.back)
<1>1. /\ len \in Nat /\ len >= 1 /\ Len(w.back) = len - 1
      /\ \A i \in 1 .. (len - 1) : w.back[i] = v.back[i + 1]
    BY TailOfBack DEF ViewOK
<1>2. v.ignore \in Nat /\ v.sends \in Nat /\ Span \in Nat /\ Episode \in Nat
      /\ v.rx.unexpected_count \in Nat /\ v.late \in {0, 1}
    BY ViewFields, TimingNumbers DEF ViewOK
<1>3. w.rx = v.rx /\ w.pend = v.pend /\ w.target = v.target /\ w.sends = v.sends
      /\ w.late = v.late
    BY DEF Returns, SameReceiver
<1>4. Pending(w) => Pending(v)
    <2> HIDE DEF len
    <2>1. w.ignore <= (len - 1) + v.sends => v.ignore <= len + v.sends
        BY <1>1, <1>2
    <2> QED BY <1>1, <1>3, <2>1 DEF Pending, len
<1>5. \A i \in 1 .. (len - 1) : Current(w, i) => Current(v, i + 1)
    <2> TAKE i \in 1 .. (len - 1)
    <2>1. w.ignore <= i => v.ignore <= i + 1
        BY <1>1, <1>2
    <2> QED BY <1>1, <2>1 DEF Current
<1>6. CASE Quiet(v)
    <2>1. \A i \in 1 .. (len - 1) : i + 1 \in 1 .. len
        BY <1>1
    <2>2. Quiet(w)
        BY <1>1, <1>4, <1>5, <1>6, <2>1 DEF Quiet
    <2> QED BY <2>2 DEF RequestsOK
<1>7. CASE ~Quiet(v)
    <2>1. /\ v.rx.replay /\ j = 0
          /\ \A i \in 1 .. len : Current(v, i) => CurrentOK(v, i)
          /\ Pending(v) => PendingOK(v)
        BY <1>7 DEF RequestsOK
    <2>2. ASSUME NEW i \in 1 .. (len - 1), Current(w, i)
          PROVE  CurrentOK(w, i)
        <3>1. i + 1 \in 1 .. len /\ i \in Nat /\ len - (i + 1) = (len - 1) - i
            BY <1>1
        <3>2. CurrentOK(v, i + 1)
            BY <1>5, <2>1, <2>2, <3>1
        <3>3. /\ w.back[i].word.ack_request = NextSeq(w.rx.last_sequence)
              /\ w.rx.unexpected_count <= Episode - w.late + ((len - 1) - i)
              /\ w.pend > 0 => ((len - 1) - i) + w.sends <= Span
            <4>1. w.back[i] = v.back[i + 1]
                BY <1>1
            <4> QED BY <1>3, <3>1, <3>2, <4>1 DEF CurrentOK, len
        <3>4. ASSUME NEW m \in (i + 1) .. (len - 1), w.back[m].word.op = 3
              PROVE  m - i <= Span
            <4>1. m + 1 \in ((i + 1) + 1) .. len /\ m \in 1 .. (len - 1)
                  /\ (m + 1) - (i + 1) = m - i
                BY <1>1, <3>1
            <4>2. v.back[m + 1].word.op = 3
                BY <1>1, <3>4, <4>1
            <4>3. (m + 1) - (i + 1) <= Span
                BY <3>2, <4>1, <4>2 DEF CurrentOK, len
            <4> QED BY <4>1, <4>3
        <3> QED BY <1>1, <3>3, <3>4 DEF CurrentOK
    <2>3. Pending(w) => PendingOK(w)
        BY <1>3, <1>4, <2>1 DEF PendingOK
    <2> QED BY <1>1, <2>1, <2>2, <2>3, <1>3 DEF RequestsOK
<1> QED BY <1>6, <1>7

LEMMA AcksMove ==
    ASSUME NEW v, NEW w, ViewOK(v), Typed(w), Returns(v, w), NEW D, AcksOK(v, D),
           w.released <= D[1]
    PROVE  \E D1 : AcksOK(w, D1)
<1> DEFINE len == Len(v.back)
           D1 == [i \in 1 .. (len - 1) |-> D[i + 1]]
<1>1. /\ len \in Nat /\ len >= 1 /\ Len(w.back) = len - 1
      /\ \A i \in 1 .. (len - 1) : w.back[i] = v.back[i + 1]
    BY TailOfBack DEF ViewOK
<1>2. /\ D \in [1 .. len -> Nat]
      /\ \A i \in 1 .. len :
            /\ v.released <= D[i] /\ D[i] <= v.d
            /\ v.back[i].word.op = 2 => v.back[i].word.ack_request = Number(D[i])
            /\ \A m \in i .. len : D[i] <= D[m]
    BY DEF AcksOK
<1>3. w.d = v.d /\ w.released \in Nat
    BY ViewFields DEF Returns, SameReceiver
<1> HIDE DEF len
<1>4. \A i \in 1 .. (len - 1) : i + 1 \in 1 .. len /\ D1[i] = D[i + 1] /\ D[i + 1] \in Nat
    BY <1>1, <1>2
<1>5. D1 \in [1 .. (len - 1) -> Nat]
    BY <1>4
<1> HIDE DEF D1
<1>6. ASSUME NEW i \in 1 .. (len - 1)
      PROVE  /\ w.released <= D1[i] /\ D1[i] <= w.d
             /\ w.back[i].word.op = 2 => w.back[i].word.ack_request = Number(D1[i])
             /\ \A m \in i .. (len - 1) : D1[i] <= D1[m]
    <2>1. i + 1 \in 1 .. len /\ D1[i] = D[i + 1] /\ D[i + 1] \in Nat
        BY <1>4
    <2>2. D[1] <= D[i + 1] /\ D[1] \in Nat
        <3>1. 1 \in 1 .. len /\ i + 1 \in 1 .. len
            BY <1>1, <2>1
        <3> QED BY <1>2, <3>1
    <2>3. w.released <= D1[i]
        BY <1>3, <2>1, <2>2
    <2>4. D1[i] <= w.d
        BY <1>2, <1>3, <2>1
    <2>5. w.back[i].word.op = 2 => w.back[i].word.ack_request = Number(D1[i])
        BY <1>1, <1>2, <2>1
    <2>6. ASSUME NEW m \in i .. (len - 1)
          PROVE  D1[i] <= D1[m]
        <3>1. m \in 1 .. (len - 1) /\ m + 1 \in (i + 1) .. len
            BY <1>1
        <3>2. D1[m] = D[m + 1]
            BY <1>4, <3>1
        <3>3. D[i + 1] <= D[m + 1]
            BY <1>2, <2>1, <3>1
        <3> QED BY <2>1, <3>2, <3>3
    <2> QED BY <2>3, <2>4, <2>5, <2>6
<1>7. AcksOK(w, D1)
    BY <1>1, <1>5, <1>6 DEF AcksOK
<1> QED BY <1>7

\* A flit that the sender does not obey, or an Ack that releases payloads.
LEMMA SenderListens ==
    ASSUME NEW v, NEW w, DirectionOK(v), Typed(w), Returns(v, w),
           w.left = v.left, w.first = v.first,
           w.ignore = IF v.ignore = 0 THEN 0 ELSE v.ignore - 1,
           \/ w.released = v.released
           \/ /\ Head(v.back).word.op = 2 /\ w.released \in v.released .. v.n
              /\ Head(v.back).word.ack_request = Number(w.released)
    PROVE  DirectionOK(w)
<1>1. PICK j \in Nat : \E K : FlowOK(v, K, j) /\ HearingOK(v, K[0], j)
                              /\ SendingOK(v, K, j) /\ RequestsOK(v, j)
    BY DEF DirectionOK
<1>2. PICK K : FlowOK(v, K, j) /\ HearingOK(v, K[0], j)
               /\ SendingOK(v, K, j) /\ RequestsOK(v, j)
    BY <1>1
<1>3. PICK D : AcksOK(v, D)
    BY DEF DirectionOK
<1>4. ViewOK(v) /\ Typed(v) /\ Placed(v)
    BY DEF DirectionOK, ViewOK
<1>5. v.released \in Nat /\ v.n \in Nat /\ v.d \in Nat
    BY <1>4, ViewFields
<1>6. v.released <= D[1] /\ D[1] <= v.d /\ D[1] \in Nat
      /\ (Head(v.back).word.op = 2 => Head(v.back).word.ack_request = Number(D[1]))
    <2>1. 1 \in 1 .. Len(v.back) /\ Head(v.back) = v.back[1]
        BY <1>4, TailOfBack
    <2> QED BY <1>3, <2>1 DEF AcksOK
<1>7. w.released \in Nat /\ w.released <= D[1]
    <2>1. CASE w.released = v.released
        BY <1>5, <1>6, <2>1
    <2>2. CASE w.released # v.released
        <3>1. /\ w.released \in v.released .. v.n
              /\ Number(w.released) = Number(D[1])
            BY <1>6, <2>2
        <3>2. v.n - v.released <= Window /\ Window < MaxSeq /\ v.d <= v.n
              /\ Window \in Nat /\ MaxSeq \in Nat
            BY <1>4, TimingNumbers DEF Typed, Placed
        <3>3. /\ w.released \in Nat /\ w.released - D[1] < MaxSeq
              /\ D[1] - w.released < MaxSeq
            BY <1>5, <1>6, <3>1, <3>2
        <3>4. w.released = D[1]
            BY <1>6, <3>1, <3>3, Parameters, NumberApart
        <3> QED BY <1>6, <3>4
    <2> QED BY <2>1, <2>2
<1>8. w.n = v.n /\ w.d = v.d /\ w.rx = v.rx /\ w.out = v.out
    BY DEF Returns, SameReceiver
<1>9. ViewOK(w)
    <2>1. w.released <= w.d
        BY <1>5, <1>6, <1>7, <1>8
    <2> QED BY <1>4, <1>8, <2>1 DEF ViewOK, Placed
<1>10. FlowOK(w, K, j) /\ HearingOK(w, K[0], j) /\ SendingOK(w, K, j)
    BY <1>2, <1>8 DEF FlowOK, HearingOK, SendingOK
<1>11. RequestsOK(w, j)
    BY <1>2, <1>4, RequestsMove
<1>12. \E D1 : AcksOK(w, D1)
    BY <1>3, <1>4, <1>7, AcksMove
<1> QED BY <1>9, <1>10, <1>11, <1>12 DEF DirectionOK

\* A request is obeyed: the schedule starts with the payload that the receiver
\* waits for, and no other request can be obeyed before the copies of this one
\* have passed.
LEMMA SenderObeys ==
    ASSUME TimingSuffices, NEW v, NEW w, DirectionOK(v), Typed(w), Returns(v, w),
           Head(v.back).word.op = 3, v.ignore <= 1,
           w.released = v.released, w.first = TRUE, w.ignore = IgnoreWindow,
           NEW t \in (v.released + 1) .. v.n,
           Head(v.back).word.ack_request = Number(t), w.left = v.n - t + 1
    PROVE  DirectionOK(w)
<1>1. PICK j \in Nat : \E K : FlowOK(v, K, j) /\ HearingOK(v, K[0], j)
                              /\ SendingOK(v, K, j) /\ RequestsOK(v, j)
    BY DEF DirectionOK
<1>2. PICK K : FlowOK(v, K, j) /\ HearingOK(v, K[0], j)
               /\ SendingOK(v, K, j) /\ RequestsOK(v, j)
    BY <1>1
<1>3. PICK D : AcksOK(v, D)
    BY DEF DirectionOK
<1>4. ViewOK(v) /\ Typed(v) /\ Placed(v)
    BY DEF DirectionOK, ViewOK
<1> DEFINE len == Len(v.back)
           f == Len(v.out)
<1>5. /\ v.released \in Nat /\ v.n \in Nat /\ v.d \in Nat /\ v.ignore \in Nat
      /\ v.sends \in Nat /\ v.late \in {0, 1} /\ v.rx.unexpected_count \in Nat
      /\ f \in 0 .. Delay /\ len \in 0 .. Delay /\ Delay \in Nat
      /\ Span \in Nat /\ Episode \in Nat
    BY <1>4, ViewFields, TimingNumbers
<1>20. f \in Nat /\ len \in Nat /\ f + 1 \in Nat /\ 0 \in 0 .. f
    BY <1>5
<1>6. /\ len >= 1 /\ Len(w.back) = len - 1 /\ Head(v.back) = v.back[1]
      /\ \A i \in 1 .. (len - 1) : w.back[i] = v.back[i + 1]
    BY <1>4, TailOfBack
<1>7. w.n = v.n /\ w.d = v.d /\ w.rx = v.rx /\ w.out = v.out /\ w.pend = v.pend
      /\ w.sends = v.sends
    BY DEF Returns, SameReceiver
<1>8. Current(v, 1) /\ 1 \in 1 .. len
    BY <1>5, <1>6 DEF Current
<1>9. v.rx.replay /\ j = 0 /\ CurrentOK(v, 1)
    BY <1>2, <1>8 DEF RequestsOK, Quiet
<1>10. /\ Number(t) = Number(v.d + 1)
       /\ v.rx.unexpected_count <= Episode - v.late + (len - 1)
       /\ v.pend > 0 => (len - 1) + v.sends <= Span
       /\ \A m \in 2 .. len : v.back[m].word.op = 3 => m - 1 <= Span
    <2>1. v.back[1].word.ack_request = NextSeq(v.rx.last_sequence)
        BY <1>9 DEF CurrentOK
    <2>2. NextSeq(v.rx.last_sequence) = Number(v.d + 1)
        BY <1>4, <1>5, Parameters, NumberNext DEF Placed
    <2> QED BY <1>6, <1>9, <2>1, <2>2 DEF CurrentOK
<1>11. v.d + 1 <= v.n
    <2>1. 0 \in 0 .. Len(v.out) /\ Len(v.out) \in Nat
        BY <1>20
    <2>3. K[0] \in 0 .. v.n
        BY <1>2, <2>1 DEF FlowOK
    <2>2. v.d + 1 <= K[0]
        BY <1>2, <1>9 DEF HearingOK
    <2> QED BY <1>5, <2>3, <2>2
<1>12. t = v.d + 1
    <2>1. v.n - v.released <= Window /\ Window < MaxSeq /\ v.released <= v.d
          /\ Window \in Nat /\ MaxSeq \in Nat
        BY <1>4, TimingNumbers DEF Typed, Placed
    <2>2. /\ t \in Nat /\ v.d + 1 \in Nat /\ t - (v.d + 1) < MaxSeq
          /\ (v.d + 1) - t < MaxSeq
        <3>1. t \in (v.released + 1) .. v.n
            OBVIOUS
        <3> DEFINE d == v.d
                   n == v.n
                   r == v.released
        <3>2. /\ d \in Nat /\ n \in Nat /\ r \in Nat /\ t \in (r + 1) .. n
              /\ d + 1 <= n /\ n - r <= Window /\ r <= d
            BY <1>5, <1>11, <2>1
        <3> HIDE DEF d, n, r
        <3>3. t \in Nat /\ d + 1 \in Nat /\ t - (d + 1) < MaxSeq /\ (d + 1) - t < MaxSeq
            BY <2>1, <3>2
        <3> QED BY <3>3 DEF d
    <2> QED BY <1>10, <2>2, Parameters, NumberApart
<1>13. w.n - w.left = w.d
    <2>1. w.left = v.n - (v.d + 1) + 1 /\ w.n = v.n /\ w.d = v.d
        BY <1>7, <1>12
    <2>2. v.n \in Nat /\ v.d \in Nat
        BY <1>5
    <2> QED BY <2>1, <2>2
<1>14. ViewOK(w)
    BY <1>4, <1>7 DEF ViewOK, Placed
<1>15. FlowOK(w, K, f + 1)
    <2>1. /\ K \in [0 .. f -> 0 .. v.n]
          /\ \A i \in 1 .. f : Carries(v.out[i], K[i])
                               /\ K[i] = K[i - 1] + Step(v.out[i].word)
          /\ v.d <= K[0]
        <3>1. \A i \in 1 .. f : i # j
            BY <1>9
        <3> QED BY <1>2, <3>1 DEF FlowOK
    <2>2. \A i \in 1 .. f : i # f + 1
        BY <1>5
    <2> QED BY <1>7, <2>1, <2>2 DEF FlowOK
<1>16. HearingOK(w, K[0], f + 1)
    <2>1. v.d + 1 <= K[0]
        BY <1>2, <1>9 DEF HearingOK
    <2>2. v.rx.unexpected_count + (f + 1) <= Episode + 2 * Delay
        <3> DEFINE u == v.rx.unexpected_count
                   l == v.late
        <3>1. /\ u \in Nat /\ l \in {0, 1} /\ u <= Episode - l + (len - 1)
              /\ len \in 0 .. Delay /\ f \in 0 .. Delay /\ Delay \in Nat /\ Episode \in Nat
            BY <1>5, <1>10
        <3> HIDE DEF f, len, u, l
        <3>2. u + (f + 1) <= Episode + 2 * Delay
            BY <3>1
        <3> QED BY <3>2 DEF u
    <2> QED BY <1>7, <1>9, <2>1, <2>2 DEF HearingOK
<1>17. SendingOK(w, K, f + 1)
    <2>1. f + 1 \in 0 .. (f + 1) /\ ~(f + 1 <= f)
        <3> HIDE DEF f
        <3> QED BY <1>20
    <2> QED BY <1>7, <1>13, <2>1 DEF SendingOK
<1>18. RequestsOK(w, f + 1)
    <2>1. IgnoreWindow > Span /\ IgnoreWindow \in Nat
        BY Parameters DEF TimingSuffices
    <2>2. ASSUME NEW i \in 1 .. (len - 1), Current(w, i)
          PROVE  FALSE
        <3>1. v.back[i + 1].word.op = 3 /\ IgnoreWindow <= i
            BY <1>6, <2>2 DEF Current
        <3>2. i + 1 \in 2 .. len /\ i \in Nat /\ (i + 1) - 1 = i
            <4> HIDE DEF len
            <4> QED BY <1>20
        <3>3. i <= Span
            BY <1>10, <3>1, <3>2
        <3> QED BY <1>5, <2>1, <3>1, <3>2, <3>3
    <2>3. ~Pending(w)
        <3>1. v.pend > 0 => (len - 1) + v.sends <= Span
            BY <1>10
        <3>2. v.pend > 0 => ~(IgnoreWindow <= (len - 1) + v.sends)
            <4> HIDE DEF len
            <4> QED BY <1>5, <2>1, <3>1
        <3> QED BY <1>6, <1>7, <3>2 DEF Pending
    <2> QED BY <1>6, <2>2, <2>3 DEF RequestsOK, Quiet
<1>19. \E D1 : AcksOK(w, D1)
    <2>1. v.released <= D[1]
        BY <1>3, <1>8 DEF AcksOK
    <2> QED BY <1>3, <1>4, <2>1, AcksMove
<1> HIDE DEF f
<1> QED BY <1>14, <1>15, <1>16, <1>17, <1>18, <1>19, <1>20 DEF DirectionOK
-----------------------------------------------------------------------------
(* The sender sends a flit. *)

DataSent(v, w, flit) ==
    /\ w.d = v.d /\ w.rx = v.rx /\ w.back = v.back /\ w.pend = v.pend
    /\ w.target = v.target /\ w.sends = v.sends /\ w.late = v.late
    /\ w.released = v.released /\ w.ignore = v.ignore
    /\ w.n >= v.n /\ ~w.first
    /\ w.n - w.left = v.n - v.left + Step(flit.word)
    /\ flit \in Flit /\ w.out = Append(v.out, flit)
    /\ Carries(flit, w.n - w.left)
    /\ v.first => Answers(flit)

LEMMA SenderSends ==
    ASSUME NEW v, NEW w, DirectionOK(v), Typed(w), NEW flit, DataSent(v, w, flit)
    PROVE  DirectionOK(w)
<1>1. PICK j \in Nat : \E K : FlowOK(v, K, j) /\ HearingOK(v, K[0], j)
                              /\ SendingOK(v, K, j) /\ RequestsOK(v, j)
    BY DEF DirectionOK
<1>2. PICK K : FlowOK(v, K, j) /\ HearingOK(v, K[0], j)
               /\ SendingOK(v, K, j) /\ RequestsOK(v, j)
    BY <1>1
<1>3. PICK D : AcksOK(v, D)
    BY DEF DirectionOK
<1>4. ViewOK(v) /\ Typed(v) /\ Placed(v)
    BY DEF DirectionOK, ViewOK
<1> DEFINE f == Len(v.out)
           k == w.n - w.left
           s == Step(flit.word)
<1>5. /\ f \in Nat /\ v.out \in Seq(Flit) /\ v.n \in Nat /\ w.n \in Nat /\ v.left \in Nat
      /\ w.left \in Nat /\ v.d \in Nat /\ v.left <= v.n /\ w.left <= w.n
    BY <1>4, ViewFields DEF Typed
<1>6. /\ w.d = v.d /\ w.rx = v.rx /\ w.back = v.back /\ w.pend = v.pend
      /\ w.target = v.target /\ w.sends = v.sends /\ w.late = v.late
      /\ w.released = v.released /\ w.ignore = v.ignore
      /\ w.n >= v.n /\ ~w.first
      /\ k = v.n - v.left + s
      /\ flit \in Flit /\ w.out = Append(v.out, flit)
      /\ Carries(flit, k)
      /\ v.first => Answers(flit)
    BY DEF DataSent
<1>7. s \in {0, 1} /\ (Answers(flit) => s = 1)
    BY DEF Step, Answers
<1>8. /\ Len(w.out) = f + 1 /\ w.out[f + 1] = flit
      /\ \A i \in 1 .. f : w.out[i] = v.out[i]
    BY <1>5, <1>6, AppendProperties
<1>9. ViewOK(w)
    <2>1. w.d <= w.n
        BY <1>4, <1>5, <1>6 DEF Placed
    <2> QED BY <1>4, <1>6, <2>1 DEF ViewOK, Placed
<1>10. k \in 0 .. w.n
    BY <1>5
<1> DEFINE K1 == [i \in 0 .. (f + 1) |-> IF i = f + 1 THEN k ELSE K[i]]
<1> HIDE DEF f, k, s
<1>11. /\ K \in [0 .. f -> 0 .. v.n]
       /\ \A i \in 1 .. f : /\ Carries(v.out[i], K[i])
                            /\ i # j => K[i] = K[i - 1] + Step(v.out[i].word)
                            /\ i = j => Answers(v.out[i]) /\ K[i] = v.d + 1
       /\ v.d <= K[0]
       /\ j \in 0 .. (f + 1)
       /\ j <= f => ~v.first /\ K[f] = v.n - v.left
       /\ j = f + 1 => v.first /\ v.n - v.left = v.d
    BY <1>2 DEF FlowOK, SendingOK, f
<1>12. /\ K1[f + 1] = k /\ K1[0] = K[0]
       /\ \A i \in 0 .. f : K1[i] = K[i]
       /\ K1 \in [0 .. (f + 1) -> 0 .. w.n]
    <2>1. f + 1 \in 0 .. (f + 1) /\ 0 \in 0 .. f
        BY <1>5
    <2>2. \A i \in 0 .. f : i \in 0 .. (f + 1) /\ i # f + 1
        BY <1>5
    <2>3. K1[f + 1] = k /\ \A i \in 0 .. f : K1[i] = K[i]
        BY <2>1, <2>2
    <2>4. ASSUME NEW i \in 0 .. (f + 1)
          PROVE  (IF i = f + 1 THEN k ELSE K[i]) \in 0 .. w.n
        <3>1. i # f + 1 => i \in 0 .. f
            BY <1>5
        <3>2. \A m \in 0 .. f : K[m] \in 0 .. v.n
            BY <1>11
        <3>3. 0 .. v.n \subseteq 0 .. w.n
            BY <1>5, <1>6
        <3> QED BY <1>10, <3>1, <3>2, <3>3
    <2>5. K1 \in [0 .. (f + 1) -> 0 .. w.n]
        BY <2>4
    <2> QED BY <2>1, <2>3, <2>5
<1> HIDE DEF K1
<1>13. FlowOK(w, K1, j)
    <2>1. ASSUME NEW i \in 1 .. f
          PROVE  /\ Carries(w.out[i], K1[i])
                 /\ i # j => K1[i] = K1[i - 1] + Step(w.out[i].word)
                 /\ i = j => Answers(w.out[i]) /\ K1[i] = w.d + 1
        <3>1. i \in 0 .. f /\ i - 1 \in 0 .. f
            BY <1>5
        <3>2. K1[i] = K[i] /\ K1[i - 1] = K[i - 1] /\ w.out[i] = v.out[i]
            BY <1>8, <1>12, <3>1
        <3> QED BY <1>6, <1>11, <3>2
    <2>2. /\ Carries(w.out[f + 1], K1[f + 1])
          /\ f + 1 # j => K1[f + 1] = K1[f] + Step(w.out[f + 1].word)
          /\ f + 1 = j => Answers(w.out[f + 1]) /\ K1[f + 1] = w.d + 1
        <3>1. K1[f] = K[f]
            <4>1. f \in 0 .. f
                BY <1>5
            <4> QED BY <1>12, <4>1
        <3>2. CASE j = f + 1
            BY <1>5, <1>6, <1>7, <1>8, <1>11, <1>12, <3>2
        <3>3. CASE j # f + 1
            <4>1. j <= f
                BY <1>5, <1>11, <3>3
            <4>2. K[f] = v.n - v.left
                BY <1>11, <4>1
            <4> QED BY <1>6, <1>8, <1>12, <3>1, <3>3, <4>2 DEF s
        <3> QED BY <3>2, <3>3
    <2>3. \A i \in 1 .. (f + 1) : i \in 1 .. f \/ i = f + 1
        BY <1>5
    <2>4. (f + 1) - 1 = f
        BY <1>5
    <2>5. \A i \in 1 .. (f + 1) :
              /\ Carries(w.out[i], K1[i])
              /\ i # j => K1[i] = K1[i - 1] + Step(w.out[i].word)
              /\ i = j => Answers(w.out[i]) /\ K1[i] = w.d + 1
        BY <2>1, <2>2, <2>3, <2>4
    <2> QED BY <1>6, <1>8, <1>11, <1>12, <2>5 DEF FlowOK
<1>14. SendingOK(w, K1, j)
    <2>1. j \in 0 .. ((f + 1) + 1) /\ j # (f + 1) + 1
        BY <1>5, <1>11
    <2> QED BY <1>6, <1>8, <1>12, <2>1 DEF SendingOK, k
<1>15. HearingOK(w, K1[0], j)
    BY <1>2, <1>6, <1>12 DEF HearingOK
<1>16. RequestsOK(w, j)
    BY <1>2, <1>6 DEF RequestsOK, Quiet, Pending, Current, CurrentOK, PendingOK
<1>17. AcksOK(w, D)
    BY <1>3, <1>6 DEF AcksOK
<1> QED BY <1>9, <1>13, <1>14, <1>15, <1>16, <1>17 DEF DirectionOK
-----------------------------------------------------------------------------
(* The receiver's end sends a flit. *)

\* asked says that the flit is a copy of a request.
AnswerSent(v, w, flit) ==
    /\ w.n = v.n /\ w.released = v.released /\ w.left = v.left /\ w.first = v.first
    /\ w.ignore = v.ignore /\ w.d = v.d /\ w.rx = v.rx /\ w.out = v.out
    /\ flit \in Flit /\ w.back = Append(v.back, flit)
    /\ v.late = 0 /\ w.late = 1
    /\ flit.word.op = 2 => flit.word.ack_request = v.rx.last_sequence
    /\ v.pend > 0 => w.sends <= v.sends - 1
    /\ flit.word.op # 3 => w.pend = v.pend /\ w.target = v.target
    /\ flit.word.op = 3 =>
          /\ v.pend > 0 /\ w.pend = v.pend - 1
          /\ flit.word.ack_request = IF v.pend = RequestCopies
                                     THEN NextSeq(v.rx.last_sequence) ELSE v.target
          /\ w.pend > 0 => w.target = flit.word.ack_request /\ w.sends <= Span

LEMMA ReceiverSends ==
    ASSUME NEW v, NEW w, DirectionOK(v), Typed(w), NEW flit, AnswerSent(v, w, flit)
    PROVE  DirectionOK(w)
<1>1. PICK j \in Nat : \E K : FlowOK(v, K, j) /\ HearingOK(v, K[0], j)
                              /\ SendingOK(v, K, j) /\ RequestsOK(v, j)
    BY DEF DirectionOK
<1>2. PICK K : FlowOK(v, K, j) /\ HearingOK(v, K[0], j)
               /\ SendingOK(v, K, j) /\ RequestsOK(v, j)
    BY <1>1
<1>3. PICK D : AcksOK(v, D)
    BY DEF DirectionOK
<1>4. ViewOK(v) /\ Typed(v) /\ Placed(v)
    BY DEF DirectionOK, ViewOK
<1> DEFINE b == Len(v.back)
           u == v.rx.unexpected_count
           sends == v.sends
           sends1 == w.sends
           next == NextSeq(v.rx.last_sequence)
           copy == flit.word.op = 3
<1>5. /\ b \in Nat /\ v.back \in Seq(Flit) /\ v.pend \in Nat /\ w.pend \in Nat
      /\ v.pend <= RequestCopies /\ RequestCopies \in Nat
      /\ sends \in Nat /\ sends1 \in Nat /\ v.ignore \in Nat /\ u \in Nat
      /\ v.d \in Nat /\ Span \in Nat /\ Episode \in Nat
    BY <1>4, ViewFields, TimingNumbers
<1>6. /\ w.n = v.n /\ w.released = v.released /\ w.left = v.left /\ w.first = v.first
      /\ w.ignore = v.ignore /\ w.d = v.d /\ w.rx = v.rx /\ w.out = v.out
      /\ flit \in Flit /\ w.back = Append(v.back, flit)
      /\ v.late = 0 /\ w.late = 1
      /\ flit.word.op = 2 => flit.word.ack_request = v.rx.last_sequence
      /\ v.pend > 0 => sends1 <= sends - 1
      /\ ~copy => w.pend = v.pend /\ w.target = v.target
      /\ copy => /\ v.pend > 0 /\ w.pend = v.pend - 1
                 /\ flit.word.ack_request = IF v.pend = RequestCopies THEN next ELSE v.target
                 /\ w.pend > 0 => w.target = flit.word.ack_request /\ sends1 <= Span
    BY DEF AnswerSent
<1>7. /\ Len(w.back) = b + 1 /\ w.back[b + 1] = flit
      /\ \A i \in 1 .. b : w.back[i] = v.back[i]
    BY <1>5, <1>6, AppendProperties
<1>8. v.pend > 0 => sends >= 1
    BY <1>4 DEF Typed
<1>9. ViewOK(w)
    BY <1>4, <1>6 DEF ViewOK, Placed
<1>10. FlowOK(w, K, j) /\ HearingOK(w, K[0], j) /\ SendingOK(w, K, j)
    BY <1>2, <1>6 DEF FlowOK, HearingOK, SendingOK
<1> HIDE DEF b, u, sends, sends1, next, copy
<1>11. w.pend > 0 => v.pend > 0
    BY <1>5, <1>6
<1>12. Pending(w) => Pending(v)
    <2>1. w.pend > 0 /\ v.ignore <= (b + 1) + sends1 => v.ignore <= b + sends
        BY <1>5, <1>6, <1>11
    <2> QED BY <1>6, <1>7, <1>11, <2>1 DEF Pending, b, sends, sends1
<1>13. copy /\ Current(w, b + 1) => Pending(v)
    <2>1. copy /\ v.ignore <= b + 1 => v.ignore <= b + sends
        BY <1>5, <1>6, <1>8
    <2> QED BY <1>6, <2>1 DEF Pending, Current, b, sends
<1>14. /\ Current(w, b + 1) => copy
       /\ \A i \in 1 .. b : Current(w, i) => Current(v, i)
    BY <1>6, <1>7 DEF Current, copy
<1>15. \A i \in 1 .. (b + 1) : i \in 1 .. b \/ i = b + 1
    BY <1>5
<1>16. RequestsOK(w, j)
    <2>1. CASE Quiet(v)
        BY <1>7, <1>12, <1>13, <1>14, <1>15, <2>1 DEF RequestsOK, Quiet, b
    <2>2. CASE ~Quiet(v)
        <3>1. /\ v.rx.replay /\ j = 0
              /\ \A i \in 1 .. b : Current(v, i) => CurrentOK(v, i)
              /\ Pending(v) => PendingOK(v)
            BY <1>2, <2>2 DEF RequestsOK, b
        <3>2. Pending(v) => /\ u + sends <= Episode
                            /\ v.pend < RequestCopies => v.target = next
                            /\ copy => flit.word.ack_request = next
            <4>1. Pending(v) => /\ u + sends <= Episode - v.late
                                /\ v.pend < RequestCopies => v.target = next
                BY <3>1 DEF PendingOK, u, sends, next
            <4>2. v.pend # RequestCopies => v.pend < RequestCopies
                BY <1>5
            <4>3. Episode - v.late = Episode
                BY <1>5, <1>6
            <4> QED BY <1>6, <4>1, <4>2, <4>3
        <3>3. Pending(w) => PendingOK(w)
            <4> SUFFICES ASSUME Pending(w) PROVE PendingOK(w)
                OBVIOUS
            <4>1. Pending(v) /\ w.pend > 0 /\ v.pend > 0
                BY <1>11, <1>12 DEF Pending
            <4>2. u + sends1 <= Episode - 1
                BY <1>5, <1>6, <3>2, <4>1
            <4>3. w.pend < RequestCopies => w.target = next
                BY <1>6, <3>2, <4>1
            <4> QED BY <1>6, <4>2, <4>3 DEF PendingOK, u, sends1, next
        <3>4. ASSUME NEW i \in 1 .. b, Current(w, i)
              PROVE  CurrentOK(w, i)
            <4>1. CurrentOK(v, i) /\ i \in Nat
                BY <1>14, <3>1, <3>4
            <4>2. /\ v.back[i].word.ack_request = next
                  /\ u <= Episode - 0 + (b - i)
                  /\ v.pend > 0 => (b - i) + sends <= Span
                  /\ \A m \in (i + 1) .. b : v.back[m].word.op = 3 => m - i <= Span
                BY <1>6, <4>1 DEF CurrentOK, b, u, sends, next
            <4>3. u <= Episode - 1 + ((b + 1) - i)
                BY <1>5, <4>1, <4>2
            <4>4. w.pend > 0 => ((b + 1) - i) + sends1 <= Span
                BY <1>5, <1>6, <1>11, <4>1, <4>2
            <4>5. copy => (b + 1) - i <= Span
                BY <1>5, <1>6, <1>8, <4>1, <4>2
            <4>6. ASSUME NEW m \in (i + 1) .. (b + 1), w.back[m].word.op = 3
                  PROVE  m - i <= Span
                <5>1. CASE m = b + 1
                    BY <1>7, <4>5, <4>6, <5>1 DEF copy
                <5>2. CASE m # b + 1
                    <6>1. m \in (i + 1) .. b /\ m \in 1 .. b
                        BY <1>5, <4>1, <5>2
                    <6> QED BY <1>7, <4>2, <4>6, <6>1
                <5> QED BY <5>1, <5>2
            <4>7. w.back[i] = v.back[i]
                BY <1>7
            <4> QED BY <1>6, <1>7, <4>2, <4>3, <4>4, <4>6, <4>7
                 DEF CurrentOK, u, sends1, next
        <3>5. ASSUME Current(w, b + 1)
              PROVE  CurrentOK(w, b + 1)
            <4>1. copy /\ Pending(v) /\ v.pend > 0
                BY <1>6, <1>13, <1>14, <3>5
            <4>2. w.back[b + 1].word.ack_request = next
                BY <1>7, <3>2, <4>1
            <4>3. u <= Episode - 1 + ((b + 1) - (b + 1))
                BY <1>5, <1>8, <3>2, <4>1
            <4>4. w.pend > 0 => ((b + 1) - (b + 1)) + sends1 <= Span
                BY <1>5, <1>6, <4>1
            <4>5. \A m \in ((b + 1) + 1) .. (b + 1) : FALSE
                BY <1>5
            <4> QED BY <1>6, <1>7, <4>2, <4>3, <4>4, <4>5 DEF CurrentOK, u, sends1, next
        <3>6. \A i \in 1 .. Len(w.back) : Current(w, i) => CurrentOK(w, i)
            BY <1>7, <1>15, <3>4, <3>5
        <3> QED BY <1>6, <3>1, <3>3, <3>6 DEF RequestsOK
    <2> QED BY <2>1, <2>2
<1>17. \E D1 : AcksOK(w, D1)
    <2> DEFINE D1 == [i \in 1 .. (b + 1) |-> IF i = b + 1 THEN v.d ELSE D[i]]
    <2>1. /\ D \in [1 .. b -> Nat]
          /\ \A i \in 1 .. b :
                /\ v.released <= D[i] /\ D[i] <= v.d
                /\ v.back[i].word.op = 2 => v.back[i].word.ack_request = Number(D[i])
                /\ \A m \in i .. b : D[i] <= D[m]
        BY <1>3 DEF AcksOK, b
    <2>2. b + 1 \in 1 .. (b + 1) /\ \A i \in 1 .. b : i \in 1 .. (b + 1) /\ i # b + 1
        BY <1>5
    <2>3. D1[b + 1] = v.d /\ \A i \in 1 .. b : D1[i] = D[i]
        BY <2>2
    <2>4. D1 \in [1 .. (b + 1) -> Nat]
        <3>1. \A i \in 1 .. (b + 1) : (IF i = b + 1 THEN v.d ELSE D[i]) \in Nat
            BY <1>5, <1>15, <2>1
        <3> QED BY <3>1
    <2> HIDE DEF D1
    <2>5. ASSUME NEW i \in 1 .. (b + 1)
          PROVE  /\ v.released <= D1[i] /\ D1[i] <= v.d
                 /\ w.back[i].word.op = 2 => w.back[i].word.ack_request = Number(D1[i])
                 /\ \A m \in i .. (b + 1) : D1[i] <= D1[m]
        <3>1. CASE i = b + 1
            <4>1. v.released <= v.d /\ v.rx.last_sequence = Number(v.d) /\ v.d <= v.d
                BY <1>4, <1>5 DEF Placed
            <4>2. \A m \in (b + 1) .. (b + 1) : m = b + 1
                BY <1>5
            <4>3. w.back[b + 1] = flit
                BY <1>7
            <4> QED BY <1>6, <2>3, <3>1, <4>1, <4>2, <4>3
        <3>2. CASE i # b + 1
            <4>1. i \in 1 .. b /\ w.back[i] = v.back[i] /\ D1[i] = D[i]
                BY <1>7, <1>15, <2>3, <3>2
            <4>2. ASSUME NEW m \in i .. (b + 1)
                  PROVE  D1[i] <= D1[m]
                <5>1. CASE m = b + 1
                    BY <2>1, <2>3, <4>1, <5>1
                <5>2. CASE m # b + 1
                    <6>1. m \in i .. b /\ m \in 1 .. b
                        BY <1>5, <4>1, <5>2
                    <6> QED BY <2>1, <2>3, <4>1, <6>1
                <5> QED BY <5>1, <5>2
            <4> QED BY <2>1, <4>1, <4>2
        <3> QED BY <3>1, <3>2
    <2>6. AcksOK(w, D1)
        BY <1>6, <1>7, <2>4, <2>5 DEF AcksOK
    <2> QED BY <2>6
<1> QED BY <1>9, <1>10, <1>16, <1>17 DEF DirectionOK
=============================================================================
