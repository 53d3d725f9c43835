--------------------------- MODULE KDGlobalProofs ---------------------------
(***************************************************************************)
(* Proofs about KDGlobalTransactions for every number of slots, every set  *)
(* of identifiers and every delay.  Without any assumption: the count      *)
(* falls short of the table by exactly the completion pulses that freed no *)
(* slot, and no transaction leaves the table before it was delivered and   *)
(* its completion reported.  As long as the grace periods outlast what may *)
(* still be sent of a transaction once it has been delivered: every        *)
(* transaction is delivered once.                                          *)
(***************************************************************************)
EXTENDS KDGlobalTransactions, FiniteSetTheorems, WellFoundedInduction, TLAPS

SlotRecord ==
    [valid : BOOLEAN, pending : BOOLEAN, id : Nat, epoch : Nat, quanta : Nat,
     age : Nat, retry : Nat, cooldown : Nat]

\* A register of at most one entry that names a transaction.
Names(register) == register # <<>> => register[1].id \in Nat
NamesWho(register) == register # <<>> => register[1].who.id \in Nat

\* What is under way.
IsCopy(c) ==
    c = [who |-> c.who, epoch |-> c.epoch, life |-> c.life] /\ c.who.id \in Nat
IsAck(a) == a = [id |-> a.id, epoch |-> a.epoch, life |-> a.life] /\ a.id \in Nat

IdsTyped ==
    /\ src.slots \in [Slots -> SlotRecord] /\ resets \in Nat
    /\ Names(src.send) /\ Names(src.ack) /\ Names(src.decision)
    /\ NamesWho(trk.arrival) /\ NamesWho(trk.ack)
    /\ \A c \in copies : IsCopy(c)
    /\ \A o \in others : o.id \in Nat
    /\ \A a \in acks : IsAck(a)

\* A decision that succeeds is about the transaction in its slot, or that has just
\* been completed by an acknowledgement one cycle ahead.
DecisionHolds ==
    Succeeds(src) =>
        LET slot == src.slots[SlotOf(src.decision[1].id)] IN
        slot.valid => slot.id = src.decision[1].id

CountInv == IdsTyped /\ DecisionHolds /\ surplus \in Nat /\ CountFallsShort

(* Slots. *)

LEMMA SlotOfType ==
    ASSUME NEW id \in Nat
    PROVE  SlotOf(id) \in Slots
BY SourceAssumption DEF SlotOf, Slots

LEMMA SlotsFinite ==
    /\ IsFiniteSet(Slots)
    /\ Cardinality(Slots) = SlotCount
    /\ SlotCount \in Nat \ {0}
<1>1. SlotCount \in Nat \ {0}
    BY SourceAssumption
<1>2. IsFiniteSet(0 .. (SlotCount - 1)) /\ Cardinality(0 .. (SlotCount - 1)) = SlotCount
    BY <1>1, FS_Interval
<1> QED BY <1>1, <1>2 DEF Slots

\* The slot the send register takes is one that waits to be sent.
LEMMA LowestIsMember ==
    ASSUME NEW S \in SUBSET Slots, S # {}
    PROVE  Lowest(S) \in S
<1>1. Slots \subseteq Nat
    BY DEF Slots
<1>2. PICK k \in S : \A other \in S : <<other, k>> \notin OpToRel(<, Nat)
    BY <1>1, WFMin, NatLessThanWellFounded, Zenon
<1>3. \A other \in S : ~(other < k)
    BY <1>1, <1>2, Zenon DEF OpToRel
<1>4. \A other \in S : k <= other
    BY <1>1, <1>3
<1> QED BY <1>4, Zenon DEF Lowest

LEMMA WaitedKeeps ==
    ASSUME NEW slot \in SlotRecord
    PROVE  /\ Waited(slot) \in SlotRecord
           /\ Waited(slot).id = slot.id /\ Waited(slot).valid = slot.valid
<1>1. /\ slot.age \in Nat /\ slot.retry \in Nat /\ slot.age + 1 \in Nat
      /\ Retried(slot) \in Nat
    BY DEF SlotRecord, Retried
<1>2. /\ [slot EXCEPT !.age = 0, !.retry = Retried(slot), !.pending = TRUE] \in SlotRecord
      /\ [slot EXCEPT !.age = 0, !.retry = Retried(slot), !.pending = FALSE] \in SlotRecord
      /\ [slot EXCEPT !.age = slot.age + 1] \in SlotRecord
    BY <1>1 DEF SlotRecord
<1>3. \/ Waited(slot) = [slot EXCEPT !.age = 0, !.retry = Retried(slot), !.pending = TRUE]
      \/ Waited(slot) = [slot EXCEPT !.age = 0, !.retry = Retried(slot), !.pending = FALSE]
      \/ Waited(slot) = [slot EXCEPT !.age = slot.age + 1]
    <2>1. (slot.retry < RetryMax) = TRUE \/ (slot.retry < RetryMax) = FALSE
        OBVIOUS
    <2> QED BY <2>1, Zenon DEF Waited
<1>4. Waited(slot) \in SlotRecord
    BY <1>2, <1>3, Zenon
<1>5. Waited(slot).id = slot.id /\ Waited(slot).valid = slot.valid
    BY DEF Waited, SlotRecord
<1> QED BY <1>4, <1>5

\* What an edge does to one slot: it keeps its transaction unless that completes, and
\* becomes valid only by an issue.
LEMMA SlotStep ==
    ASSUME NEW s, NEW i, NEW k \in Slots,
           s.slots \in [Slots -> SlotRecord],
           i.reset # <<>> => i.reset[1] \in Nat,
           i.issue # <<>> => /\ i.issue[1].id \in Nat /\ i.issue[1].epoch \in Nat
                             /\ i.issue[1].quanta \in Nat
    PROVE  /\ SlotAfter(s, i, k) \in SlotRecord
           /\ s.slots[k].valid /\ (i.reset # <<>> \/ ~CompletedSlot(s, k)) =>
                 SlotAfter(s, i, k).valid /\ SlotAfter(s, i, k).id = s.slots[k].id
           /\ s.slots[k].valid /\ i.reset = <<>> /\ CompletedSlot(s, k) =>
                 ~SlotAfter(s, i, k).valid
           /\ ~s.slots[k].valid =>
                 (SlotAfter(s, i, k).valid <=> Issues(s, i) /\ SlotOf(i.issue[1].id) = k)
<1> DEFINE slot == s.slots[k]
<1>1. slot \in SlotRecord
    OBVIOUS
<1>2. /\ FreeSlot(ReuseGrace) \in SlotRecord /\ ~FreeSlot(ReuseGrace).valid
      /\ slot.cooldown > 0 => /\ FreeSlot(slot.cooldown - 1) \in SlotRecord
                              /\ ~FreeSlot(slot.cooldown - 1).valid
    BY <1>1, SourceAssumption DEF FreeSlot, SlotRecord
<1>3. Retried(slot) \in Nat
    BY <1>1 DEF Retried, SlotRecord
<1>4. \A e \in Nat : /\ Rerouted(slot, e) \in SlotRecord
                     /\ Rerouted(slot, e).id = slot.id /\ Rerouted(slot, e).valid = slot.valid
    BY <1>1, <1>3 DEF Rerouted, SlotRecord
<1>5. /\ Waited(slot) \in SlotRecord
      /\ Waited(slot).id = slot.id /\ Waited(slot).valid = slot.valid
    BY <1>1, WaitedKeeps
<1>6. LET handed == [slot EXCEPT !.pending = FALSE, !.age = 0] IN
      handed \in SlotRecord /\ handed.id = slot.id /\ handed.valid = slot.valid
    BY <1>1 DEF SlotRecord
<1>7. CASE slot.valid
    BY <1>1, <1>2, <1>4, <1>5, <1>6, <1>7 DEF SlotAfter
<1>8. CASE ~slot.valid
    <2>1. CASE slot.cooldown > 0
        <3>1. SlotAfter(s, i, k) = FreeSlot(slot.cooldown - 1)
            BY <1>8, <2>1 DEF SlotAfter
        <3>2. ~(Issues(s, i) /\ SlotOf(i.issue[1].id) = k)
            BY <1>1, <2>1 DEF Issues, IssueReady, SlotRecord
        <3> QED BY <1>2, <1>8, <2>1, <3>1, <3>2
    <2>2. CASE ~(slot.cooldown > 0) /\ Issues(s, i) /\ SlotOf(i.issue[1].id) = k
        <3>1. SlotAfter(s, i, k) = NewSlot(i.issue[1])
            BY <1>8, <2>2 DEF SlotAfter
        <3>2. NewSlot(i.issue[1]) \in SlotRecord /\ NewSlot(i.issue[1]).valid
            BY <2>2 DEF NewSlot, SlotRecord, Issues
        <3> QED BY <1>8, <2>2, <3>1, <3>2
    <2>3. CASE ~(slot.cooldown > 0) /\ ~(Issues(s, i) /\ SlotOf(i.issue[1].id) = k)
        <3>1. SlotAfter(s, i, k) = slot
            BY <1>8, <2>3 DEF SlotAfter
        <3> QED BY <1>1, <1>8, <2>3, <3>1
    <2> QED BY <2>1, <2>2, <2>3
<1> QED BY <1>7, <1>8

(* Steps. *)

\* The inputs of an edge, as far as the proof needs them.
EdgeInputs(i, commit, arriving) ==
    /\ i.issue # <<>> => /\ i.issue[1].id \in Nat /\ i.issue[1].epoch \in Nat
                         /\ i.issue[1].quanta \in Nat
    /\ i.reset # <<>> => i.reset[1] \in Nat
    /\ i.commit = Decoded(commit)
    /\ commit # <<>> => commit[1].id \in Nat
    /\ NamesWho(arriving)

LEMMA InputsOfEdge ==
    ASSUME CountInv,
           NEW issue \in Requests, NEW ready, NEW commit \in Commits,
           NEW reset \in Reroutes, NEW arriving \in Arrivals
    PROVE  EdgeInputs([issue |-> issue, ready |-> ready, commit |-> Decoded(commit),
                       reset |-> reset], commit, arriving)
<1> DEFINE i == [issue |-> issue, ready |-> ready, commit |-> Decoded(commit), reset |-> reset]
<1>1. i.issue # <<>> => /\ i.issue[1].id \in Nat /\ i.issue[1].epoch \in Nat
                        /\ i.issue[1].quanta \in Nat
    <2>1. Txn \subseteq Nat /\ Timeouts \subseteq Nat /\ resets \in Nat
        BY TransactionsAssumption DEF CountInv, IdsTyped
    <2>2. SUFFICES ASSUME issue # <<>>
                   PROVE  /\ issue[1].id \in Nat /\ issue[1].epoch \in Nat
                          /\ issue[1].quanta \in Nat
        OBVIOUS
    <2>3. PICK x \in [id : {t \in Txn : t \notin issued \/ Retained(t)}, epoch : {resets},
                      quanta : Timeouts] : issue = <<x>>
        BY <2>2, Zenon DEF Requests, Optional
    <2>4. x.id \in Nat /\ x.epoch \in Nat /\ x.quanta \in Nat
        BY <2>1
    <2> QED BY <2>3, <2>4
<1>2. i.reset # <<>> => i.reset[1] \in Nat
    BY DEF Reroutes, CountInv, IdsTyped
<1>3. commit # <<>> => commit[1].id \in Nat
    BY DEF Commits, Optional, CountInv, IdsTyped, IsAck
<1>4. NamesWho(arriving)
    <2>1. arriving # <<>> => \/ arriving[1] \in copies
                             \/ \E o \in others : arriving[1].who = o
        BY DEF Arrivals, Optional
    <2> QED BY <2>1 DEF NamesWho, CountInv, IdsTyped, IsCopy
<1>5. i.commit = Decoded(commit)
    OBVIOUS
<1> QED BY <1>1, <1>2, <1>3, <1>4, <1>5 DEF EdgeInputs

LEMMA EdgeIds ==
    ASSUME CountInv, NEW i, NEW commit, NEW arriving, EdgeInputs(i, commit, arriving)
    PROVE  /\ SourceEdge(src, i).slots \in [Slots -> SlotRecord]
           /\ Names(SourceEdge(src, i).send)
           /\ Names(SourceEdge(src, i).ack)
           /\ Names(SourceEdge(src, i).decision)
           /\ NamesWho(TrackerEdge(trk, Received(arriving)).arrival)
           /\ NamesWho(TrackerEdge(trk, Received(arriving)).ack)
<1>1. src.slots \in [Slots -> SlotRecord]
    BY DEF CountInv, IdsTyped
<1>2. SourceEdge(src, i).slots \in [Slots -> SlotRecord]
    BY <1>1, SlotStep DEF SourceEdge, EdgeInputs
<1>3. Names(SourceEdge(src, i).send)
    <2>1. \A k \in Sendable(src) : Command(src, k).id \in Nat
        BY <1>1 DEF Sendable, Command, SlotRecord
    <2>2. Sendable(src) # {} => Lowest(Sendable(src)) \in Sendable(src)
        BY LowestIsMember DEF Sendable
    <2>3. \/ SendAfter(src, i) = <<>>
          \/ SendAfter(src, i) = src.send
          \/ /\ Sendable(src) # {}
             /\ SendAfter(src, i) = <<Command(src, Lowest(Sendable(src)))>>
        BY Zenon DEF SendAfter
    <2>4. Names(SendAfter(src, i))
        BY <2>1, <2>2, <2>3 DEF Names, CountInv, IdsTyped
    <2> QED BY <2>4 DEF SourceEdge
<1>4. Names(SourceEdge(src, i).ack)
    BY DEF SourceEdge, EdgeInputs, Decoded, Names
<1>5. Names(SourceEdge(src, i).decision)
    BY DEF SourceEdge, Names, CountInv, IdsTyped
<1>6. NamesWho(TrackerEdge(trk, Received(arriving)).arrival)
    BY DEF TrackerEdge, Received, NamesWho, EdgeInputs
<1>7. NamesWho(TrackerEdge(trk, Received(arriving)).ack)
    BY DEF TrackerEdge, NamesWho, CountInv, IdsTyped
<1> QED BY <1>2, <1>3, <1>4, <1>5, <1>6, <1>7

\* A match found at this edge is about the transaction in its slot after it, unless the
\* decision in force has completed that.
LEMMA EdgeDecision ==
    ASSUME CountInv, NEW i, NEW commit, NEW arriving, EdgeInputs(i, commit, arriving),
           Succeeds(SourceEdge(src, i))
    PROVE  LET next == SourceEdge(src, i)
               slot == next.slots[SlotOf(next.decision[1].id)]
           IN  slot.valid => slot.id = next.decision[1].id
<1> DEFINE next == SourceEdge(src, i)
           id   == src.ack[1].id
           k    == SlotOf(id)
<1>1. /\ src.ack # <<>> /\ Matches(src, src.ack[1])
      /\ next.decision[1].id = id
    BY DEF Succeeds, SourceEdge
<1>2. id \in Nat /\ k \in Slots
    BY <1>1, SlotOfType DEF CountInv, IdsTyped, Names
<1>3. src.slots[k].valid /\ src.slots[k].id = id
    BY <1>1 DEF Matches
<1>4. next.slots[k] = SlotAfter(src, i, k)
    BY <1>2 DEF SourceEdge
<1>5. SlotAfter(src, i, k).valid => SlotAfter(src, i, k).id = id
    <2>1. src.slots \in [Slots -> SlotRecord]
        BY DEF CountInv, IdsTyped
    <2> HIDE DEF k, id
    <2> QED BY <1>2, <1>3, <2>1, SlotStep DEF EdgeInputs
<1> QED BY <1>1, <1>4, <1>5

\* The slots valid after an edge: those valid before, without the completed one unless
\* the route changes, and with the one issued.
LEMMA EdgeValid ==
    ASSUME CountInv, NEW i, NEW commit, NEW arriving, EdgeInputs(i, commit, arriving)
    PROVE  \A k \in Slots :
              /\ k \in ValidSlots =>
                    (SlotAfter(src, i, k).valid <=> i.reset # <<>> \/ ~CompletedSlot(src, k))
              /\ k \notin ValidSlots =>
                    (SlotAfter(src, i, k).valid <=>
                        Issues(src, i) /\ SlotOf(i.issue[1].id) = k)
<1>1. src.slots \in [Slots -> SlotRecord]
    BY DEF CountInv, IdsTyped
<1>2. SUFFICES ASSUME NEW k \in Slots
               PROVE  /\ src.slots[k].valid =>
                            (SlotAfter(src, i, k).valid <=>
                                i.reset # <<>> \/ ~CompletedSlot(src, k))
                      /\ ~src.slots[k].valid =>
                            (SlotAfter(src, i, k).valid <=>
                                Issues(src, i) /\ SlotOf(i.issue[1].id) = k)
    BY DEF ValidSlots
<1>3. SlotAfter(src, i, k).valid \in BOOLEAN
    BY <1>1, SlotStep DEF EdgeInputs, SlotRecord
<1> QED BY <1>1, <1>3, SlotStep DEF EdgeInputs

\* Counting on from a residue gives the residue of counting on.
LEMMA ModCounts ==
    ASSUME NEW m \in Nat \ {0}, NEW a \in Int, NEW d \in Int
    PROVE  ((a % m) + d) % m = (a + d) % m
<1> DEFINE r == a % m
           s == (r + d) % m
           k == a \div m
           j == (r + d) \div m
<1>1. \A x \in Int : /\ x = m * (x \div m) + (x % m)
                     /\ x \div m \in Int /\ x % m \in 0 .. (m - 1)
    OBVIOUS
<1>2. a = m * k + r /\ k \in Int /\ r \in 0 .. (m - 1)
    BY <1>1
<1>3. r + d \in Int
    BY <1>2
<1>4. r + d = m * j + s /\ j \in Int /\ s \in 0 .. (m - 1)
    BY <1>1, <1>3
<1> HIDE DEF r, s, k, j
<1>5. a + d = m * (k + j) + s
    <2>1. m * k \in Int /\ m * j \in Int /\ m * (k + j) = m * k + m * j
        BY <1>2, <1>4
    <2> QED BY <1>2, <1>4, <2>1
<1>6. (a + d) % m = s
    <2>1. \A q \in Int, t \in 0 .. (m - 1) : (m * q + t) % m = t
        OBVIOUS
    <2>2. k + j \in Int
        BY <1>2, <1>4
    <2> QED BY <1>4, <1>5, <2>1, <2>2
<1> QED BY <1>6 DEF r, s

\* The table grows by an issue and shrinks by a completion that frees its slot; the
\* counter counts every completion pulse, modulo its width.
LEMMA EdgeCount ==
    ASSUME CountInv, NEW i, NEW commit, NEW arriving, EdgeInputs(i, commit, arriving)
    PROVE  SourceEdge(src, i).count =
              (Cardinality({k \in Slots : SourceEdge(src, i).slots[k].valid})
                  - (surplus + (IF FreesNothing(i.reset) THEN 1 ELSE 0))) % CountModulus
<1> DEFINE V == ValidSlots
           W == {k \in Slots : SlotAfter(src, i, k).valid}
           a == SlotOf(i.issue[1].id)
           d == SlotOf(src.decision[1].id)
           Frees == Succeeds(src) /\ i.reset = <<>> /\ d \in V
           before == Cardinality(V)
           after == Cardinality(W)
<1>1. /\ SourceEdge(src, i).count = CountAfter(src, i)
      /\ {k \in Slots : SourceEdge(src, i).slots[k].valid} = W
    BY DEF SourceEdge
<1>2. V \subseteq Slots /\ IsFiniteSet(V) /\ before \in Nat /\ surplus \in Nat
      /\ src.count = (before - surplus) % CountModulus
    BY SlotsFinite, FS_Subset, FS_CardinalityType DEF ValidSlots, CountInv, CountFallsShort
<1>3. CountModulus \in Nat \ {0}
    BY SlotsFinite DEF CountModulus
<1>4. FreesNothing(i.reset) <=> Succeeds(src) /\ ~Frees
    <2>1. Succeeds(src) => d \in Slots
        BY SlotOfType DEF Succeeds, CountInv, IdsTyped, Names
    <2> QED BY <2>1 DEF FreesNothing, ValidSlots
<1>5. Issues(src, i) => a \in Slots /\ a \notin V
    <2>1. Issues(src, i) => a \in Slots
        BY SlotOfType DEF Issues, EdgeInputs
    <2> QED BY <2>1 DEF Issues, IssueReady, ValidSlots
<1>6. \A k \in Slots : /\ k \in V => (k \in W <=> ~(Frees /\ d = k))
                       /\ k \notin V => (k \in W <=> Issues(src, i) /\ a = k)
    BY EdgeValid DEF CompletedSlot
<1>7. W \subseteq Slots
    OBVIOUS
<1>8. Frees => d \in V /\ Succeeds(src)
    OBVIOUS
<1> HIDE DEF V, W, a, d, Frees
<1>9. after = before + (IF Issues(src, i) THEN 1 ELSE 0) - (IF Frees THEN 1 ELSE 0)
    <2>1. CASE ~Issues(src, i) /\ ~Frees
        <3>1. W = V
            BY <1>2, <1>6, <1>7, <2>1
        <3> QED BY <1>2, <2>1, <3>1
    <2>2. CASE Issues(src, i) /\ ~Frees
        <3>1. W = V \cup {a}
            BY <1>2, <1>5, <1>6, <1>7, <2>2
        <3>2. Cardinality(V \cup {a}) = before + 1
            BY <1>2, <1>5, <2>2, FS_AddElement
        <3> QED BY <1>2, <2>2, <3>1, <3>2
    <2>3. CASE ~Issues(src, i) /\ Frees
        <3>1. W = V \ {d}
            BY <1>2, <1>6, <1>7, <1>8, <2>3
        <3>2. Cardinality(V \ {d}) = before - 1
            BY <1>2, <1>8, <2>3, FS_RemoveElement
        <3> QED BY <1>2, <2>3, <3>1, <3>2
    <2>4. CASE Issues(src, i) /\ Frees
        <3>1. W = (V \ {d}) \cup {a}
            BY <1>2, <1>5, <1>6, <1>7, <1>8, <2>4
        <3>2. Cardinality(V \ {d}) = before - 1
            BY <1>2, <1>8, <2>4, FS_RemoveElement
        <3>3. IsFiniteSet(V \ {d}) /\ a \notin V \ {d}
            BY <1>2, <1>5, <2>4, FS_Subset
        <3>4. Cardinality((V \ {d}) \cup {a}) = Cardinality(V \ {d}) + 1
            BY <3>3, FS_AddElement
        <3> QED BY <1>2, <2>4, <3>1, <3>2, <3>4
    <2> QED BY <2>1, <2>2, <2>3, <2>4
<1> HIDE DEF before, after
<1>10. /\ before - surplus \in Int
       /\ (src.count + 1) % CountModulus = (before - surplus + 1) % CountModulus
       /\ (src.count - 1) % CountModulus = (before - surplus - 1) % CountModulus
    <2>1. before - surplus \in Int
        BY <1>2
    <2> DEFINE x == before - surplus
    <2>2. x \in Int /\ src.count = x % CountModulus
        BY <1>2, <2>1
    <2> HIDE DEF x
    <2>3. \A e \in Int : (src.count + e) % CountModulus = (x + e) % CountModulus
        BY <1>3, <2>2, ModCounts
    <2>4. src.count \in Int
        BY <1>3, <2>2
    <2>5. src.count + (-1) = src.count - 1 /\ x + (-1) = x - 1
        BY <2>2, <2>4
    <2>6. 1 \in Int /\ -1 \in Int
        OBVIOUS
    <2>7. /\ (src.count + 1) % CountModulus = (x + 1) % CountModulus
          /\ (src.count + (-1)) % CountModulus = (x + (-1)) % CountModulus
        BY <2>3, <2>6, Zenon
    <2> QED BY <2>1, <2>5, <2>7 DEF x
<1> DEFINE more == IF FreesNothing(i.reset) THEN 1 ELSE 0
<1>11. CASE ~Issues(src, i) /\ ~Succeeds(src)
    <2>1. CountAfter(src, i) = src.count
        <3>1. Issues(src, i) \in BOOLEAN
            BY DEF Issues
        <3>2. Succeeds(src) = FALSE
            <4>1. \/ Succeeds(src) = (src.decision # <<>>)
                  \/ Succeeds(src) \in BOOLEAN
                BY DEF Succeeds
            <4> QED BY <4>1, <1>11
        <3>3. Issues(src, i) = FALSE
            BY <3>1, <1>11
        <3> QED BY <3>2, <3>3, Zenon DEF CountAfter
    <2>2. after - (surplus + more) = before - surplus
        BY <1>2, <1>4, <1>8, <1>9, <1>11
    <2> QED BY <1>1, <1>2, <2>1, <2>2 DEF before, after
<1>12. CASE Issues(src, i) /\ ~Succeeds(src)
    <2>1. CountAfter(src, i) = (src.count + 1) % CountModulus
        BY <1>12 DEF CountAfter
    <2>2. after - (surplus + more) = before - surplus + 1
        BY <1>2, <1>4, <1>8, <1>9, <1>12
    <2> QED BY <1>1, <1>10, <2>1, <2>2 DEF before, after
<1>13. CASE ~Issues(src, i) /\ Succeeds(src)
    <2>1. CountAfter(src, i) = (src.count - 1) % CountModulus
        BY <1>13 DEF CountAfter
    <2>2. after - (surplus + more) = before - surplus - 1
        BY <1>2, <1>4, <1>9, <1>13
    <2> QED BY <1>1, <1>10, <2>1, <2>2 DEF before, after
<1>14. CASE Issues(src, i) /\ Succeeds(src)
    <2>1. CountAfter(src, i) = src.count
        BY <1>14 DEF CountAfter
    <2>2. after - (surplus + more) = before - surplus
        BY <1>2, <1>4, <1>9, <1>14
    <2> QED BY <1>1, <1>2, <2>1, <2>2 DEF before, after
<1> QED BY <1>11, <1>12, <1>13, <1>14

\* What is under way keeps naming transactions.
LEMMA EdgeNetwork ==
    ASSUME CountInv, NEW issue, NEW ready \in BOOLEAN, NEW commit \in Commits,
           NEW reset \in Reroutes, NEW arriving,
           Edge(issue, ready, commit, reset, arriving)
    PROVE  /\ \A c \in copies' : IsCopy(c)
           /\ \A o \in others' : o.id \in Nat
           /\ \A a \in acks' : IsAck(a)
           /\ resets' \in Nat
<1>1. /\ \A c \in copies : IsCopy(c)
      /\ \A o \in others : o.id \in Nat
      /\ \A a \in acks : IsAck(a)
      /\ resets \in Nat /\ Names(src.send) /\ NamesWho(trk.ack)
    BY DEF CountInv, IdsTyped
<1>2. \A c \in copies' : IsCopy(c)
    <2>1. ASSUME NEW w \in Older(copies \ Range(arriving))
          PROVE  IsCopy(w)
        <3>1. PICK v \in copies : w = [v EXCEPT !.life = @ - 1]
            BY <2>1, Zenon DEF Older
        <3>2. v = [who |-> v.who, epoch |-> v.epoch, life |-> v.life] /\ v.who.id \in Nat
            BY <1>1, <3>1 DEF IsCopy
        <3>3. w = [who |-> v.who, epoch |-> v.epoch, life |-> v.life - 1]
            BY <3>1, <3>2
        <3> QED BY <3>2, <3>3 DEF IsCopy
    <2>2. ASSUME src.send # <<>>
          PROVE  IsCopy([who |-> Own(src.send[1].id), epoch |-> src.send[1].epoch,
                         life |-> CopyLife])
        BY <1>1, <2>2 DEF Own, Names, IsCopy
    <2>3. Handed(src, [issue |-> issue, ready |-> ready, commit |-> Decoded(commit),
                       reset |-> reset]) => src.send # <<>>
        BY DEF Handed
    <2> QED BY <2>1, <2>2, <2>3 DEF Edge
<1>3. \A o \in others' : o.id \in Nat
    BY <1>1 DEF Edge
<1>4. \A a \in acks' : IsAck(a)
    <2>1. ASSUME NEW w \in Older(acks \ Range(commit))
          PROVE  IsAck(w)
        <3>1. PICK v \in acks : w = [v EXCEPT !.life = @ - 1]
            BY <2>1, Zenon DEF Older
        <3>2. v = [id |-> v.id, epoch |-> v.epoch, life |-> v.life] /\ v.id \in Nat
            BY <1>1, <3>1 DEF IsAck
        <3>3. w = [id |-> v.id, epoch |-> v.epoch, life |-> v.life - 1]
            BY <3>1, <3>2
        <3> QED BY <3>2, <3>3 DEF IsAck
    <2>2. ASSUME trk.ack # <<>>
          PROVE  IsAck([id |-> trk.ack[1].who.id, epoch |-> trk.ack[1].epoch,
                        life |-> AckLife])
        BY <1>1, <2>2 DEF NamesWho, IsAck
    <2> QED BY <2>1, <2>2 DEF Edge
<1>5. resets' \in Nat
    <2>1. reset = <<>> \/ reset = <<resets + 1>>
        BY Zenon DEF Reroutes
    <2>2. Len(reset) \in Nat
        BY <1>1, <2>1
    <2> QED BY <1>1, <2>2 DEF Edge
<1> QED BY <1>2, <1>3, <1>4, <1>5

LEMMA CountInvInit == Init => CountInv
<1> SUFFICES ASSUME Init PROVE CountInv
    OBVIOUS
<1>1. FreeSlot(0) \in SlotRecord /\ ~FreeSlot(0).valid
    BY DEF FreeSlot, SlotRecord
<1>2. src.slots \in [Slots -> SlotRecord] /\ \A k \in Slots : ~src.slots[k].valid
    BY <1>1 DEF Init, SourceReset
<1>3. /\ src.send = <<>> /\ src.ack = <<>> /\ src.decision = <<>> /\ src.count = 0
      /\ trk.arrival = <<>> /\ trk.ack = <<>>
      /\ copies = {} /\ acks = {} /\ others = Others /\ resets = 0
    BY DEF Init, SourceReset, TrackerReset
<1>4. IdsTyped
    BY <1>2, <1>3, TransactionsAssumption DEF IdsTyped, Names, NamesWho
<1>5. surplus \in Nat /\ CountFallsShort
    <2>1. ValidSlots = {}
        BY <1>2 DEF ValidSlots
    <2>2. Cardinality(ValidSlots) = 0 /\ surplus = 0
        BY <2>1, FS_EmptySet DEF Init
    <2>3. CountModulus \in Nat \ {0}
        BY SlotsFinite DEF CountModulus
    <2>4. (0 - 0) % CountModulus = 0
        BY <2>3
    <2> QED BY <1>3, <2>2, <2>4 DEF CountFallsShort
<1> QED BY <1>3, <1>4, <1>5 DEF CountInv, DecisionHolds, Succeeds

LEMMA CountInvEdge ==
    ASSUME CountInv, Next
    PROVE  CountInv'
<1>1. PICK issue \in Requests, ready \in Ready, commit \in Commits,
           reset \in Reroutes, arriving \in Arrivals :
              Edge(issue, ready, commit, reset, arriving)
    BY DEF Next
<1> DEFINE i == [issue |-> issue, ready |-> ready, commit |-> Decoded(commit),
                 reset |-> reset]
<1>2. EdgeInputs(i, commit, arriving)
    BY InputsOfEdge
<1>3. src' = SourceEdge(src, i) /\ trk' = TrackerEdge(trk, Received(arriving))
    BY <1>1 DEF Edge
<1>4. ready \in BOOLEAN
    BY DEF Ready
<1> HIDE DEF i
<1>5. IdsTyped'
    <2>1. /\ (\A c \in copies : IsCopy(c))'
          /\ (\A o \in others : o.id \in Nat)'
          /\ (\A a \in acks : IsAck(a))'
          /\ resets' \in Nat
        BY <1>1, <1>4, EdgeNetwork
    <2>2. /\ (src.slots \in [Slots -> SlotRecord])'
          /\ Names(src.send)' /\ Names(src.ack)' /\ Names(src.decision)'
          /\ NamesWho(trk.arrival)' /\ NamesWho(trk.ack)'
        BY <1>2, <1>3, EdgeIds
    <2> QED BY <2>1, <2>2 DEF IdsTyped
<1>6. DecisionHolds'
    BY <1>2, <1>3, EdgeDecision DEF DecisionHolds
<1>7. surplus' = surplus + (IF FreesNothing(i.reset) THEN 1 ELSE 0)
    BY <1>1 DEF Edge, i
<1>8. surplus' \in Nat
    BY <1>7 DEF CountInv
<1>9. CountFallsShort'
    BY <1>2, <1>3, <1>7, EdgeCount DEF CountFallsShort, ValidSlots
<1> QED BY <1>5, <1>6, <1>8, <1>9 DEF CountInv

\* kdlink_global_transaction_source.v:112-120 - commits pass a pipeline of two registers
\* before they free a slot.  A match in the second register is never about another
\* transaction than the one its slot holds by then, if the slot still holds one.
THEOREM DecisionsHold == Spec => []CountInv
<1>1. CountInv /\ UNCHANGED vars => CountInv'
    BY DEF CountInv, IdsTyped, DecisionHolds, CountFallsShort, ValidSlots, Succeeds,
           SlotOf, Names, NamesWho, vars, network, history
<1>2. CountInv /\ [Next]_vars => CountInv'
    BY <1>1, CountInvEdge
<1> QED BY <1>2, CountInvInit, PTL DEF Spec

\* kdlink_global_transaction_source.v:119-120 - outstanding_count_o, counted up and down
\* by pulses, falls short of the transactions the table retains by exactly the
\* completion pulses that found no slot to free, whatever arrives and in what order.
THEOREM CountShortBySurplus == Spec => []CountFallsShort
<1>1. CountInv => CountFallsShort
    BY DEF CountInv
<1> QED BY <1>1, DecisionsHold, PTL

\* kdlink_global_transaction_source.v:27 - until the first such pulse outstanding_count_o
\* is the number of transactions the table retains, and has never wrapped.
THEOREM CountExactBeforeSurplus == Spec => [](surplus = 0 => CountAgrees)
<1>1. CountInv => (surplus = 0 => CountAgrees)
    <2>1. SUFFICES ASSUME CountFallsShort, surplus = 0 PROVE CountAgrees
        BY DEF CountInv
    <2>2. ValidSlots \subseteq Slots
        BY DEF ValidSlots
    <2>3. Cardinality(ValidSlots) \in Nat /\ Cardinality(ValidSlots) <= SlotCount
        BY <2>2, SlotsFinite, FS_Subset, FS_CardinalityType
    <2>4. CountModulus = 2 * SlotCount /\ SlotCount \in Nat \ {0}
        BY SlotsFinite DEF CountModulus
    <2>5. (Cardinality(ValidSlots) - 0) % CountModulus = Cardinality(ValidSlots)
        BY <2>3, <2>4
    <2> QED BY <2>1, <2>5 DEF CountFallsShort, CountAgrees
<1> QED BY <1>1, DecisionsHold, PTL
-----------------------------------------------------------------------------
(* Every transaction once. *)

\* Nothing is lost: what was issued stays in the table until its completion has been
\* reported, and that is never reported before the delivery.
NothingLost ==
    \A t \in issued :
        /\ Retained(t) \/ completions[t] > 0
        /\ completions[t] > 0 => deliveries[t] > 0

\* How long a transaction with this timeout may still be sent at most: every slot may
\* send as often as its budget allows, each time with a stall, and it waits for its own
\* timeouts.
Horizon(wait) == (MaxStall + 2) * (SlotCount * (RetryMax + 1)) + RetryMax * wait

\* The grace periods outlast whatever may still be sent of a delivered transaction, the
\* last copy of it included.
EnoughGrace ==
    /\ ReuseGrace >= HistoryGrace
    /\ \A wait \in Timeouts, start \in {RerouteLimit, MaxStall} :
          start + Horizon(wait) + CopyLife + 1 < HistoryGrace

\* The state of the table and of what it says of a transaction.
SlotsHold ==
    /\ \A k \in Slots :
        LET slot == src.slots[k] IN
        /\ slot.valid =>
            /\ SlotOf(slot.id) = k /\ slot.id \in issued
            /\ slot.quanta \in Timeouts /\ slot.quanta > 0
            /\ slot.retry <= RetryMax
            /\ ~slot.pending => slot.age < slot.quanta
    /\ \A t \in issued : completions[t] = 0 => Retained(t)

\* What a delivered transaction leaves behind, on its way back and in the history.
DeliveredFirst ==
    /\ issued \subseteq Txn
    /\ deliveries \in [Txn -> Nat] /\ completions \in [Txn -> Nat]
    /\ \A t \in Txn :
        /\ deliveries[t] > 0 => t \in issued
        /\ completions[t] > 0 => deliveries[t] > 0
        /\ Recorded(trk, Own(t)) => deliveries[t] > 0
    /\ src.send # <<>> => src.send[1].id \in issued
    /\ \A c \in copies : \E t \in issued : c.who = Own(t)
    /\ \A o \in others : o.source = "other"
    /\ \A a \in acks : a.id \in issued /\ deliveries[a.id] > 0
    /\ src.ack # <<>> => src.ack[1].id \in issued /\ deliveries[src.ack[1].id] > 0
    /\ src.decision # <<>> => src.decision[1].id \in issued /\ deliveries[src.decision[1].id] > 0
    /\ trk.arrival # <<>> /\ trk.arrival[1].who.source = "own" =>
          \E t \in issued : trk.arrival[1].who = Own(t)
    /\ trk.ack # <<>> /\ trk.ack[1].who.source = "own" =>
          \E t \in issued : trk.ack[1].who = Own(t) /\ deliveries[t] > 0

IsEntry(entry) ==
    /\ entry = [valid |-> entry.valid, who |-> entry.who, age |-> entry.age]
    /\ entry.valid \in BOOLEAN /\ entry.age \in 0 .. HistoryGrace

\* The history, and an arrival whose entry was free for it when it was taken.
HistoryHolds ==
    /\ \A k \in Indices : IsEntry(trk.history[k])
    /\ trk.arrival # <<>> =>
        LET who == trk.arrival[1].who IN
        /\ trk.arrival = <<trk.arrival[1]>>
        /\ Entry(trk, who).valid => Recorded(trk, who) \/ Expired(trk, who)

\* Sends a slot may still ask for before g cycles are over, the one in the send register
\* not counted.
Left(s, k, g) ==
    LET slot == s.slots[k] IN
    IF slot.valid
    THEN (RetryMax - slot.retry)
         + (IF slot.pending /\ (s.send = <<>> \/ s.send[1].index # k) THEN 1 ELSE 0)
    ELSE IF slot.cooldown >= g THEN 0 ELSE RetryMax + 1

Sends(s, g) == {x \in Slots \X (1 .. (RetryMax + 1)) : x[2] <= Left(s, x[1], g)}

\* Cycles the send register is still taken.
Taken(s, stall) == IF s.send = <<>> THEN 0 ELSE MaxStall - stall + 1

\* Cycles a slot still waits for its timeouts.
Waits(slot) == (RetryMax - slot.retry) * slot.quanta - (IF slot.pending THEN 0 ELSE slot.age)

MayResend(slot) == slot.pending \/ slot.retry < RetryMax

Remaining(s, stall, k, g) ==
    (MaxStall + 2) * Cardinality(Sends(s, g)) + Taken(s, stall) + Waits(s.slots[k])

Age(t) == Entry(trk, Own(t)).age

\* Whatever may still arrive of a delivered transaction does so while the history
\* protects it.
Protected ==
    \A t \in Txn : deliveries[t] = 1 =>
        /\ Retained(t) /\ MayResend(src.slots[SlotOf(t)]) =>
              /\ Recorded(trk, Own(t))
              /\ Age(t) + Remaining(src, stalled, SlotOf(t), HistoryGrace - Age(t)) + CopyLife
                    < HistoryGrace
        /\ src.send # <<>> /\ src.send[1].id = t =>
              Recorded(trk, Own(t)) /\ Age(t) + Taken(src, stalled) + CopyLife < HistoryGrace
        /\ \A c \in copies : c.who = Own(t) =>
              Recorded(trk, Own(t)) /\ Age(t) + c.life < HistoryGrace
        /\ trk.arrival # <<>> /\ trk.arrival[1].who = Own(t) =>
              Recorded(trk, Own(t)) /\ ~Expired(trk, Own(t))

\* The send register names a transaction that waits to be sent, or one completed too
\* recently for its slot to be taken again.
SendHolds ==
    src.send # <<>> =>
        LET command == src.send[1]  slot == src.slots[command.index] IN
        /\ command.index \in Slots /\ SlotOf(command.id) = command.index
        /\ slot.valid => slot.pending /\ slot.id = command.id
        /\ ~slot.valid => slot.cooldown >= Taken(src, stalled)

StallHolds == stalled \in 0 .. MaxStall /\ (\A c \in copies : c.life \in 1 .. CopyLife)

AtMostOnce == \A t \in Txn : deliveries[t] <= 1

\* What holds however long the grace periods are, and what needs them.
TraceInv == SlotsHold /\ DeliveredFirst /\ HistoryHolds
OnceInv == SendHolds /\ StallHolds /\ AtMostOnce /\ Protected
-----------------------------------------------------------------------------
(* One edge and its inputs, as far as delivery needs them. *)

OnceInputs(i, commit, arriving) ==
    /\ EdgeInputs(i, commit, arriving)
    /\ i.issue # <<>> => /\ i.issue[1].id \in Txn /\ i.issue[1].quanta \in Timeouts
                         /\ i.issue[1].id \notin issued \/ Retained(i.issue[1].id)
    /\ i.ready \in BOOLEAN
    /\ src.send # <<>> /\ ~i.ready => stalled < MaxStall
    /\ i.reset # <<>> =>
          \A t \in Txn : Retained(t) /\ deliveries[t] > 0 =>
              Recorded(trk, Own(t)) /\ Age(t) <= RerouteLimit
    /\ commit = <<>> \/ \E a \in acks : commit = <<a>>
    /\ arriving = <<>> \/ \E c : /\ arriving = <<c>> /\ CommitReady(trk, c.who)
                                 /\ c \in copies \/ c.who \in others

OnceStep(i, commit, arriving) ==
    /\ src' = SourceEdge(src, i) /\ trk' = TrackerEdge(trk, Received(arriving))
    /\ \A c \in copies' :
        \/ \E old \in copies : old.life > 1 /\ c.who = old.who /\ c.life = old.life - 1
        \/ Handed(src, i) /\ c.who = Own(src.send[1].id) /\ c.life = CopyLife
    /\ \A a \in acks' :
        \/ \E old \in acks : a.id = old.id
        \/ trk.ack # <<>> /\ trk.ack[1].who.source = "own" /\ a.id = trk.ack[1].who.id
    /\ stalled' = IF src.send # <<>> /\ ~i.ready /\ stalled < MaxStall THEN stalled + 1 ELSE 0
    /\ others' \subseteq others
    /\ issued' = IF Issues(src, i) THEN issued \cup {i.issue[1].id} ELSE issued
    /\ deliveries' = [t \in Txn |->
                        deliveries[t] + (IF Own(t) \in Delivers(trk) THEN 1 ELSE 0)]
    /\ completions' = [t \in Txn |->
                        completions[t] + (IF Succeeds(src) /\ src.decision[1].id = t
                                          THEN 1 ELSE 0)]

LEMMA OnceEdge ==
    ASSUME CountInv, Next
    PROVE  \E i, commit, arriving :
              OnceInputs(i, commit, arriving) /\ OnceStep(i, commit, arriving)
<1>1. PICK issue \in Requests, ready \in Ready, commit \in Commits,
           reset \in Reroutes, arriving \in Arrivals :
              Edge(issue, ready, commit, reset, arriving)
    BY DEF Next
<1> DEFINE i == [issue |-> issue, ready |-> ready, commit |-> Decoded(commit),
                 reset |-> reset]
<1>2. EdgeInputs(i, commit, arriving)
    BY InputsOfEdge
<1>3. OnceInputs(i, commit, arriving)
    <2>1. issue # <<>> => /\ issue[1].id \in Txn /\ issue[1].quanta \in Timeouts
                          /\ issue[1].id \notin issued \/ Retained(issue[1].id)
        <3>1. issue = <<>> \/ \E x \in [id : {t \in Txn : t \notin issued \/ Retained(t)}, epoch : {resets},
                                        quanta : Timeouts] : issue = <<x>>
            BY Zenon DEF Requests, Optional
        <3> QED BY <3>1
    <2>2. ready \in BOOLEAN /\ (src.send # <<>> /\ ~ready => stalled < MaxStall)
        BY DEF Ready
    <2>3. reset # <<>> =>
            \A t \in Txn : Retained(t) /\ deliveries[t] > 0 =>
                Recorded(trk, Own(t)) /\ Age(t) <= RerouteLimit
        BY DEF Reroutes, Age
    <2>4. commit = <<>> \/ \E a \in acks : commit = <<a>>
        BY Zenon DEF Commits, Optional
    <2>5. arriving = <<>> \/ \E c : /\ arriving = <<c>> /\ CommitReady(trk, c.who)
                                    /\ c \in copies \/ c.who \in others
        <3>1. \/ arriving = <<>>
              \/ \E c \in copies : arriving = <<c>> /\ CommitReady(trk, c.who)
              \/ \E o \in others : /\ arriving = <<[who |-> o, epoch |-> resets, life |-> 1]>>
                                   /\ CommitReady(trk, o)
            BY Zenon DEF Arrivals, Optional
        <3>2. \A o \in others : [who |-> o, epoch |-> resets, life |-> 1].who = o
            OBVIOUS
        <3> QED BY <3>1, <3>2
    <2> QED BY <1>2, <2>1, <2>2, <2>3, <2>4, <2>5 DEF OnceInputs
<1>4. OnceStep(i, commit, arriving)
    <2>1. /\ \A c \in copies : IsCopy(c)
          /\ \A a \in acks : IsAck(a)
        BY DEF CountInv, IdsTyped
    <2>2. ASSUME NEW c \in copies'
          PROVE  \/ \E old \in copies : old.life > 1 /\ c.who = old.who /\ c.life = old.life - 1
                 \/ Handed(src, i) /\ c.who = Own(src.send[1].id) /\ c.life = CopyLife
        <3>1. CASE c \in Older(copies \ Range(arriving))
            <4>1. PICK v \in copies : v.life > 1 /\ c = [v EXCEPT !.life = @ - 1]
                BY <3>1, Zenon DEF Older
            <4>2. v = [who |-> v.who, epoch |-> v.epoch, life |-> v.life]
                BY <2>1, <4>1 DEF IsCopy
            <4>3. c.who = v.who /\ c.life = v.life - 1
                BY <4>1, <4>2
            <4> QED BY <4>1, <4>3
        <3>2. CASE /\ Handed(src, i)
                   /\ c = [who |-> Own(src.send[1].id), epoch |-> src.send[1].epoch,
                           life |-> CopyLife]
            BY <3>2
        <3>3. copies' = Older(copies \ Range(arriving))
                 \cup (IF Handed(src, i)
                       THEN {[who |-> Own(src.send[1].id), epoch |-> src.send[1].epoch,
                              life |-> CopyLife]}
                       ELSE {})
            BY <1>1 DEF Edge
        <3> QED BY <3>1, <3>2, <3>3, Zenon
    <2>3. ASSUME NEW a \in acks'
          PROVE  \/ \E old \in acks : a.id = old.id
                 \/ trk.ack # <<>> /\ trk.ack[1].who.source = "own" /\ a.id = trk.ack[1].who.id
        <3>1. CASE a \in Older(acks \ Range(commit))
            <4>1. PICK v \in acks : v.life > 1 /\ a = [v EXCEPT !.life = @ - 1]
                BY <3>1, Zenon DEF Older
            <4>2. v = [id |-> v.id, epoch |-> v.epoch, life |-> v.life]
                BY <2>1, <4>1 DEF IsAck
            <4>3. a.id = v.id
                BY <4>1, <4>2
            <4> QED BY <4>3
        <3>2. CASE /\ trk.ack # <<>> /\ trk.ack[1].who.source = "own"
                   /\ a = [id |-> trk.ack[1].who.id, epoch |-> trk.ack[1].epoch,
                           life |-> AckLife]
            BY <3>2
        <3>3. acks' = Older(acks \ Range(commit))
               \cup (IF trk.ack # <<>> /\ trk.ack[1].who.source = "own"
                     THEN {[id |-> trk.ack[1].who.id, epoch |-> trk.ack[1].epoch,
                            life |-> AckLife]}
                     ELSE {})
            BY <1>1 DEF Edge
        <3> QED BY <3>1, <3>2, <3>3, Zenon
    <2>4. /\ src' = SourceEdge(src, i) /\ trk' = TrackerEdge(trk, Received(arriving))
          /\ stalled' = IF src.send # <<>> /\ ~i.ready /\ stalled < MaxStall
                        THEN stalled + 1 ELSE 0
          /\ others' \subseteq others
          /\ issued' = IF Issues(src, i) THEN issued \cup {i.issue[1].id} ELSE issued
          /\ deliveries' = [t \in Txn |->
                            deliveries[t] + (IF Own(t) \in Delivers(trk) THEN 1 ELSE 0)]
          /\ completions' = [t \in Txn |->
                            completions[t] + (IF Succeeds(src) /\ src.decision[1].id = t
                                              THEN 1 ELSE 0)]
        BY <1>1 DEF Edge
    <2> HIDE DEF i
    <2> QED BY <2>2, <2>3, <2>4 DEF OnceStep
<1> HIDE DEF i
<1> QED BY <1>3, <1>4
-----------------------------------------------------------------------------
(* Slots. *)

SameTxn(new, slot) == new.valid /\ new.id = slot.id /\ new.quanta = slot.quanta

\* A slot that is neither renumbered nor freed.
Stays(new, slot, handed) ==
    /\ SameTxn(new, slot)
    /\ handed => ~new.pending /\ new.age = 0 /\ new.retry = slot.retry
    /\ ~handed /\ slot.pending =>
          new.pending /\ new.age = slot.age /\ new.retry = slot.retry
    /\ ~handed /\ ~slot.pending /\ slot.age + 1 < slot.quanta =>
          ~new.pending /\ new.age = slot.age + 1 /\ new.retry = slot.retry
    /\ ~handed /\ ~slot.pending /\ slot.age + 1 >= slot.quanta /\ slot.retry < RetryMax =>
          new.pending /\ new.age = 0 /\ new.retry = slot.retry + 1
    /\ ~handed /\ ~slot.pending /\ slot.age + 1 >= slot.quanta /\ ~(slot.retry < RetryMax) =>
          ~new.pending /\ new.age = 0 /\ new.retry = slot.retry

LEMMA SlotMoves ==
    ASSUME NEW s, NEW i, NEW k \in Slots, s.slots \in [Slots -> SlotRecord],
           i.ready \in BOOLEAN
    PROVE  LET slot == s.slots[k]  new == SlotAfter(s, i, k) IN
           /\ slot.valid /\ i.reset # <<>> =>
                 SameTxn(new, slot) /\ new.pending /\ new.age = 0 /\ new.retry = Retried(slot)
           /\ slot.valid /\ i.reset = <<>> /\ CompletedSlot(s, k) => new = FreeSlot(ReuseGrace)
           /\ slot.valid /\ i.reset = <<>> /\ ~CompletedSlot(s, k) =>
                 Stays(new, slot, Handed(s, i) /\ s.send[1].index = k)
           /\ ~slot.valid /\ slot.cooldown > 0 => new = FreeSlot(slot.cooldown - 1)
           /\ ~slot.valid /\ ~(slot.cooldown > 0) =>
                 new = IF Issues(s, i) /\ SlotOf(i.issue[1].id) = k
                       THEN NewSlot(i.issue[1]) ELSE slot
<1> DEFINE slot == s.slots[k]
           new == SlotAfter(s, i, k)
           handed == Handed(s, i) /\ s.send[1].index = k
<1>1. slot \in SlotRecord
    OBVIOUS
<1>2. slot.valid /\ i.reset # <<>> =>
        SameTxn(new, slot) /\ new.pending /\ new.age = 0 /\ new.retry = Retried(slot)
    <2>1. SUFFICES ASSUME slot.valid, i.reset # <<>>
                   PROVE  SameTxn(new, slot) /\ new.pending /\ new.age = 0
                          /\ new.retry = Retried(slot)
        OBVIOUS
    <2>2. new = Rerouted(slot, i.reset[1])
        BY <2>1 DEF SlotAfter
    <2> HIDE DEF new, slot
    <2> QED BY <1>1, <2>1, <2>2 DEF Rerouted, SlotRecord, SameTxn
<1>3. slot.valid /\ i.reset = <<>> /\ CompletedSlot(s, k) => new = FreeSlot(ReuseGrace)
    BY DEF SlotAfter
<1>4. slot.valid /\ i.reset = <<>> /\ ~CompletedSlot(s, k) => Stays(new, slot, handed)
    <2>1. SUFFICES ASSUME slot.valid, i.reset = <<>>, ~CompletedSlot(s, k)
                   PROVE  Stays(new, slot, handed)
        OBVIOUS
    <2>2. new = IF handed THEN [slot EXCEPT !.pending = FALSE, !.age = 0]
                ELSE IF slot.pending THEN slot ELSE Waited(slot)
        BY <2>1 DEF SlotAfter
    <2> HIDE DEF new, slot, handed
    <2>3. CASE handed
        BY <1>1, <2>1, <2>2, <2>3 DEF Stays, SameTxn, SlotRecord
    <2>4. CASE ~handed /\ slot.pending
        BY <1>1, <2>1, <2>2, <2>4 DEF Stays, SameTxn, SlotRecord
    <2>5. CASE ~handed /\ ~slot.pending
        <3>1. new = Waited(slot) /\ slot.age \in Nat /\ slot.quanta \in Nat
            BY <1>1, <2>2, <2>5 DEF SlotRecord
        <3>2. CASE slot.age + 1 < slot.quanta
            <4>1. ~Expires(slot)
                BY <3>1, <3>2 DEF Expires
            <4>2. new = [slot EXCEPT !.age = @ + 1]
                BY <3>1, <4>1 DEF Waited
            <4> QED BY <1>1, <2>1, <2>5, <3>1, <3>2, <4>2 DEF Stays, SameTxn, SlotRecord
        <3>3. CASE slot.age + 1 >= slot.quanta
            <4>1. Expires(slot)
                BY <2>5, <3>1, <3>3 DEF Expires
            <4>2. new = [slot EXCEPT !.age = 0, !.retry = Retried(slot),
                                     !.pending = slot.retry < RetryMax]
                BY <3>1, <4>1 DEF Waited
            <4>3. new.age = 0 /\ new.retry = Retried(slot)
                  /\ new.pending = (slot.retry < RetryMax) /\ SameTxn(new, slot)
                BY <1>1, <2>1, <4>2 DEF SlotRecord, SameTxn
            <4>4. slot.retry < RetryMax => new.pending
                BY <4>3, Zenon
            <4>5. ~(slot.retry < RetryMax) => ~new.pending
                BY <4>3, Zenon
            <4> QED BY <2>5, <3>1, <3>3, <4>3, <4>4, <4>5 DEF Stays, Retried
        <3> QED BY <3>1, <3>2, <3>3
    <2> QED BY <2>3, <2>4, <2>5
<1>5. ~slot.valid /\ slot.cooldown > 0 => new = FreeSlot(slot.cooldown - 1)
    BY DEF SlotAfter
<1>6. ~slot.valid /\ ~(slot.cooldown > 0) =>
        new = IF Issues(s, i) /\ SlotOf(i.issue[1].id) = k THEN NewSlot(i.issue[1]) ELSE slot
    BY DEF SlotAfter
<1> HIDE DEF slot, new, handed
<1> QED BY <1>2, <1>3, <1>4, <1>5, <1>6 DEF slot, new, handed
-----------------------------------------------------------------------------
(* The source: slots and send register. *)

LEMMA EdgeSource ==
    ASSUME CountInv, NEW i, NEW commit, NEW arriving,
           OnceInputs(i, commit, arriving), OnceStep(i, commit, arriving)
    PROVE  /\ src.slots \in [Slots -> SlotRecord] /\ src'.slots \in [Slots -> SlotRecord]
           /\ \A k \in Slots : src'.slots[k] = SlotAfter(src, i, k)
           /\ src'.send = SendAfter(src, i) /\ src'.ack = Decoded(commit)
           /\ src'.decision = IF src.ack = <<>> THEN <<>>
                              ELSE <<[id |-> src.ack[1].id, success |-> Matches(src, src.ack[1])]>>
           /\ i.ready \in BOOLEAN
<1>1. src' = SourceEdge(src, i) /\ EdgeInputs(i, commit, arriving) /\ i.ready \in BOOLEAN
    BY DEF OnceStep, OnceInputs
<1>2. src'.slots \in [Slots -> SlotRecord]
    BY <1>1, EdgeIds
<1> QED BY <1>1, <1>2 DEF SourceEdge, EdgeInputs, CountInv, IdsTyped

\* A completion is counted; it names what is issued, and in a taken slot only the
\* transaction of that slot.
LEMMA EdgeCompletes ==
    ASSUME CountInv, TraceInv, NEW i, NEW commit, NEW arriving,
           OnceInputs(i, commit, arriving), OnceStep(i, commit, arriving),
           NEW t \in Txn
    PROVE  /\ t \in Nat /\ SlotOf(t) \in Slots /\ completions[t] \in Nat
           /\ completions'[t] = completions[t]
                 + (IF Succeeds(src) /\ src.decision[1].id = t THEN 1 ELSE 0)
           /\ Succeeds(src) /\ src.decision[1].id = t =>
                 t \in issued /\ deliveries[t] > 0 /\ CompletedSlot(src, SlotOf(t))
           /\ Retained(t) /\ CompletedSlot(src, SlotOf(t)) =>
                 Succeeds(src) /\ src.decision[1].id = t
<1>1. t \in Nat /\ SlotOf(t) \in Slots
    BY TransactionsAssumption, SlotOfType
<1>2. /\ completions[t] \in Nat
      /\ completions'[t] = completions[t]
                 + (IF Succeeds(src) /\ src.decision[1].id = t THEN 1 ELSE 0)
    BY DEF OnceStep, TraceInv, DeliveredFirst
<1>3. Succeeds(src) /\ src.decision[1].id = t =>
        t \in issued /\ deliveries[t] > 0 /\ CompletedSlot(src, SlotOf(t))
    BY DEF TraceInv, DeliveredFirst, Succeeds, CompletedSlot
<1>4. Retained(t) /\ CompletedSlot(src, SlotOf(t)) => Succeeds(src) /\ src.decision[1].id = t
    <2>1. SUFFICES ASSUME Retained(t), CompletedSlot(src, SlotOf(t))
                   PROVE  Succeeds(src) /\ src.decision[1].id = t
        OBVIOUS
    <2>2. Succeeds(src) /\ SlotOf(src.decision[1].id) = SlotOf(t)
        BY <2>1 DEF CompletedSlot
    <2>3. src.slots[SlotOf(t)].id = src.decision[1].id
        BY <2>1, <2>2 DEF CountInv, DecisionHolds, Retained
    <2> QED BY <2>1, <2>2, <2>3 DEF Retained
<1> QED BY <1>1, <1>2, <1>3, <1>4

LEMMA SlotsKeep ==
    ASSUME CountInv, TraceInv, NEW i, NEW commit, NEW arriving,
           OnceInputs(i, commit, arriving), OnceStep(i, commit, arriving)
    PROVE  SlotsHold'
<1>1. /\ src.slots \in [Slots -> SlotRecord] /\ src'.slots \in [Slots -> SlotRecord]
      /\ \A k \in Slots : src'.slots[k] = SlotAfter(src, i, k)
      /\ i.ready \in BOOLEAN
    BY EdgeSource
<1>2. SlotsHold /\ issued \subseteq Txn /\ RetryMax \in Nat
    BY SourceAssumption DEF TraceInv, DeliveredFirst
<1>3. /\ issued \subseteq issued' /\ (Issues(src, i) => i.issue[1].id \in issued')
      /\ issued' \subseteq issued \cup {i.issue[1].id}
      /\ ~Issues(src, i) => issued' = issued
    BY DEF OnceStep
<1>4. Issues(src, i) =>
        LET id == i.issue[1].id IN
        /\ id \in Txn /\ i.issue[1].quanta \in Timeouts
        /\ i.issue[1].quanta # 0 /\ i.issue[1].quanta \in Nat
        /\ ~src.slots[SlotOf(id)].valid /\ src.slots[SlotOf(id)].cooldown = 0
    BY TransactionsAssumption DEF Issues, IssueReady, OnceInputs
<1>5. ASSUME NEW k \in Slots, src'.slots[k].valid
      PROVE  /\ SlotOf(src'.slots[k].id) = k /\ src'.slots[k].id \in issued'
             /\ src'.slots[k].quanta \in Timeouts /\ src'.slots[k].quanta > 0
             /\ src'.slots[k].retry <= RetryMax
             /\ ~src'.slots[k].pending => src'.slots[k].age < src'.slots[k].quanta
    <2> DEFINE slot == src.slots[k]  new == src'.slots[k]
               Holds == /\ SlotOf(new.id) = k /\ new.id \in issued'
                        /\ new.quanta \in Timeouts /\ new.quanta > 0 /\ new.retry <= RetryMax
                        /\ ~new.pending => new.age < new.quanta
    <2>1. slot \in SlotRecord /\ new \in SlotRecord /\ new = SlotAfter(src, i, k)
        BY <1>1
    <2>2. slot.valid =>
            /\ SlotOf(slot.id) = k /\ slot.id \in issued
            /\ slot.quanta \in Timeouts /\ slot.quanta > 0 /\ slot.retry <= RetryMax
            /\ ~slot.pending => slot.age < slot.quanta
        BY <1>2 DEF SlotsHold
    <2>3. CASE slot.valid /\ i.reset # <<>>
        <3>1. SameTxn(new, slot) /\ new.pending /\ new.age = 0 /\ new.retry = Retried(slot)
            BY <1>1, <2>1, <2>3, SlotMoves
        <3> HIDE DEF slot, new
        <3>2. Retried(slot) <= RetryMax /\ slot.retry \in Nat /\ slot.quanta \in Nat
            <4>1. slot.retry \in Nat /\ slot.retry <= RetryMax /\ slot.quanta \in Nat
                BY <2>1, <2>2, <2>3 DEF SlotRecord
            <4> QED BY <1>2, <4>1 DEF Retried
        <3>3. Holds
            BY <1>3, <2>2, <2>3, <3>1, <3>2 DEF SameTxn
        <3> QED BY <3>3 DEF new
    <2>4. CASE slot.valid /\ i.reset = <<>>
        <3>1. ~CompletedSlot(src, k)
            <4>1. SUFFICES ASSUME CompletedSlot(src, k) PROVE FALSE
                OBVIOUS
            <4>2. new = FreeSlot(ReuseGrace)
                BY <1>1, <2>1, <2>4, <4>1, SlotMoves
            <4> QED BY <1>5, <4>2 DEF FreeSlot
        <3>2. Stays(new, slot, Handed(src, i) /\ src.send[1].index = k)
            BY <1>1, <2>1, <2>4, <3>1, SlotMoves
        <3>3. SameTxn(new, slot) /\ new.retry <= RetryMax
              /\ (~new.pending => new.age < new.quanta)
            <4> HIDE DEF slot, new
            <4>1. SameTxn(new, slot)
                BY <3>2 DEF Stays
            <4>2. slot.retry \in Nat /\ slot.age \in Nat /\ slot.quanta \in Nat
                  /\ slot.retry <= RetryMax /\ slot.quanta > 0
                  /\ new.quanta = slot.quanta
                BY <2>1, <2>2, <2>4, <4>1 DEF SlotRecord, SameTxn
            <4>3. slot.pending \/ slot.age < slot.quanta
                BY <2>2, <2>4
            <4>4. CASE Handed(src, i) /\ src.send[1].index = k
                BY <3>2, <4>1, <4>2, <4>4 DEF Stays
            <4>5. CASE ~(Handed(src, i) /\ src.send[1].index = k)
                BY <1>2, <3>2, <4>1, <4>2, <4>3, <4>5 DEF Stays
            <4> QED BY <4>4, <4>5
        <3> HIDE DEF slot, new
        <3>4. Holds
            BY <1>3, <2>2, <2>4, <3>3 DEF SameTxn
        <3> QED BY <3>4 DEF new
    <2>5. CASE ~slot.valid
        <3>1. Issues(src, i) /\ SlotOf(i.issue[1].id) = k /\ new = NewSlot(i.issue[1])
            <4>1. slot.cooldown > 0 => new = FreeSlot(slot.cooldown - 1)
                BY <1>1, <2>1, <2>5, SlotMoves
            <4>2. ~(slot.cooldown > 0)
                BY <1>5, <4>1 DEF FreeSlot
            <4>3. new = IF Issues(src, i) /\ SlotOf(i.issue[1].id) = k
                        THEN NewSlot(i.issue[1]) ELSE slot
                BY <1>1, <2>1, <2>5, <4>2, SlotMoves
            <4> QED BY <1>5, <2>5, <4>3
        <3>2. new.id = i.issue[1].id /\ new.quanta = i.issue[1].quanta
              /\ new.retry = 0 /\ new.pending
            BY <3>1 DEF NewSlot
        <3> HIDE DEF new
        <3>3. Holds
            BY <1>2, <1>3, <1>4, <3>1, <3>2
        <3> QED BY <3>3 DEF new
    <2> QED BY <2>3, <2>4, <2>5
<1>6. ASSUME NEW t \in issued', completions'[t] = 0
      PROVE  Retained(t)'
    <2>1. CASE t \in issued
        <3>1. t \in Txn /\ SlotOf(t) \in Slots
            BY <1>2, <2>1, EdgeCompletes
        <3>2. completions[t] = 0 /\ ~(Succeeds(src) /\ src.decision[1].id = t)
            BY <1>6, <3>1, EdgeCompletes
        <3>3. Retained(t) /\ ~CompletedSlot(src, SlotOf(t))
            BY <1>2, <2>1, <3>1, <3>2, EdgeCompletes DEF SlotsHold
        <3>4. SameTxn(SlotAfter(src, i, SlotOf(t)), src.slots[SlotOf(t)])
            BY <1>1, <3>1, <3>3, SlotMoves DEF Retained, Stays
        <3>5. SameTxn(src'.slots[SlotOf(t)], src.slots[SlotOf(t)])
            BY <1>1, <3>1, <3>4
        <3> QED BY <3>3, <3>5 DEF Retained, SameTxn
    <2>2. CASE t \notin issued
        <3>1. Issues(src, i) /\ t = i.issue[1].id
            BY <1>3, <1>6, <2>2
        <3>2. t \in Txn /\ SlotOf(t) \in Slots /\ ~src.slots[SlotOf(t)].valid
              /\ src.slots[SlotOf(t)].cooldown = 0
            BY <1>4, <3>1, EdgeCompletes
        <3>3. SlotAfter(src, i, SlotOf(t)) = NewSlot(i.issue[1])
            BY <1>1, <3>1, <3>2, SlotMoves
        <3>4. src'.slots[SlotOf(t)].valid /\ src'.slots[SlotOf(t)].id = t
            BY <1>1, <3>1, <3>2, <3>3 DEF NewSlot
        <3> QED BY <3>4 DEF Retained
    <2> QED BY <2>1, <2>2
<1> QED BY <1>5, <1>6 DEF SlotsHold

\* The send register is emptied, keeps its command, or takes the one of a slot.
Emptied(i) ==
    /\ src'.send = <<>>
    /\ \/ i.reset # <<>> \/ Handed(src, i) \/ (src.send = <<>> /\ Sendable(src) = {})
       \/ src.send # <<>> /\ Succeeds(src) /\ src.send[1].id = src.decision[1].id

Kept(i) ==
    /\ i.reset = <<>> /\ src.send # <<>> /\ ~Handed(src, i) /\ src'.send = src.send
    /\ stalled < MaxStall /\ stalled' = stalled + 1
    /\ ~(Succeeds(src) /\ src.send[1].id = src.decision[1].id)

Loaded(i, k) ==
    /\ i.reset = <<>> /\ src.send = <<>> /\ stalled' = 0
    /\ k \in Sendable(src) /\ src'.send = <<Command(src, k)>>

LEMMA SendMoves ==
    ASSUME CountInv, TraceInv, NEW i, NEW commit, NEW arriving,
           OnceInputs(i, commit, arriving), OnceStep(i, commit, arriving)
    PROVE  Emptied(i) \/ Kept(i) \/ \E k \in Sendable(src) : Loaded(i, k)
<1>1. src'.send = SendAfter(src, i) /\ i.ready \in BOOLEAN
    BY EdgeSource
<1>2. /\ stalled' = IF src.send # <<>> /\ ~i.ready /\ stalled < MaxStall
                    THEN stalled + 1 ELSE 0
      /\ src.send # <<>> /\ ~i.ready => stalled < MaxStall
    BY DEF OnceStep, OnceInputs
<1>3. CASE i.reset # <<>> \/ Handed(src, i)
    BY <1>1, <1>3 DEF SendAfter, Emptied
<1>4. CASE i.reset = <<>> /\ ~Handed(src, i) /\ src.send # <<>>
    BY <1>1, <1>2, <1>4 DEF SendAfter, Emptied, Kept, Handed
<1>5. CASE i.reset = <<>> /\ ~Handed(src, i) /\ src.send = <<>>
    <2>1. CASE Sendable(src) = {}
        BY <1>1, <1>5, <2>1 DEF SendAfter, Emptied
    <2>2. CASE Sendable(src) # {}
        <3>1. Lowest(Sendable(src)) \in Sendable(src)
            BY <2>2, LowestIsMember DEF Sendable
        <3>2. src'.send = <<Command(src, Lowest(Sendable(src)))>>
            BY <1>1, <1>5, <2>2, Zenon DEF SendAfter
        <3> QED BY <1>2, <1>5, <3>1, <3>2 DEF Loaded
    <2> QED BY <2>1, <2>2
<1> QED BY <1>3, <1>4, <1>5

LEMMA StallKeeps ==
    ASSUME CountInv, OnceInv, NEW i, NEW commit, NEW arriving,
           OnceInputs(i, commit, arriving), OnceStep(i, commit, arriving)
    PROVE  StallHolds'
<1>1. StallHolds /\ MaxStall \in Nat /\ CopyLife \in Nat \ {0}
    BY TransactionsAssumption DEF OnceInv
<1>2. stalled' \in 0 .. MaxStall
    BY <1>1 DEF StallHolds, OnceStep
<1>3. ASSUME NEW c \in copies' PROVE c.life \in 1 .. CopyLife
    <2>1. \/ \E old \in copies : old.life > 1 /\ c.life = old.life - 1
          \/ c.life = CopyLife
        BY <1>3 DEF OnceStep
    <2> QED BY <1>1, <2>1 DEF StallHolds
<1> QED BY <1>2, <1>3 DEF StallHolds

\* Any timeout that is asked for leaves room for a stall.
LEMMA GraceCovers ==
    ASSUME EnoughGrace, NEW wait \in Timeouts
    PROVE  /\ Horizon(wait) \in Nat /\ wait \in Nat
           /\ (MaxStall + 2) * (SlotCount * (RetryMax + 1)) \in Nat /\ RetryMax * wait \in Nat
           /\ RerouteLimit + Horizon(wait) + CopyLife + 1 < HistoryGrace
           /\ MaxStall + Horizon(wait) + CopyLife + 1 < HistoryGrace
           /\ MaxStall + 1 < HistoryGrace /\ RerouteLimit < HistoryGrace
           /\ CopyLife < HistoryGrace
           /\ HistoryGrace <= ReuseGrace
           /\ HistoryGrace \in Nat /\ ReuseGrace \in Nat /\ MaxStall \in Nat
           /\ RerouteLimit \in Nat /\ CopyLife \in Nat
<1>1. /\ wait \in Nat /\ SlotCount \in Nat /\ RetryMax \in Nat /\ MaxStall \in Nat
      /\ RerouteLimit \in Nat /\ CopyLife \in Nat /\ HistoryGrace \in Nat /\ ReuseGrace \in Nat
    BY SourceAssumption, TrackerAssumption, TransactionsAssumption
<1>2. SlotCount * (RetryMax + 1) \in Nat /\ RetryMax * wait \in Nat
    BY <1>1
<1>3. (MaxStall + 2) * (SlotCount * (RetryMax + 1)) \in Nat
    BY <1>1, <1>2
<1>4. Horizon(wait) = (MaxStall + 2) * (SlotCount * (RetryMax + 1)) + RetryMax * wait
    BY DEF Horizon
<1>5. Horizon(wait) \in Nat
    BY <1>2, <1>3, <1>4
<1>6. /\ RerouteLimit + Horizon(wait) + CopyLife + 1 < HistoryGrace
      /\ MaxStall + Horizon(wait) + CopyLife + 1 < HistoryGrace
      /\ ReuseGrace >= HistoryGrace
    BY DEF EnoughGrace
<1> HIDE DEF Horizon
<1> QED BY <1>1, <1>2, <1>3, <1>5, <1>6

LEMMA SendKeeps ==
    ASSUME CountInv, TraceInv, OnceInv, EnoughGrace, NEW i, NEW commit, NEW arriving,
           OnceInputs(i, commit, arriving), OnceStep(i, commit, arriving)
    PROVE  SendHolds'
<1>1. /\ src.slots \in [Slots -> SlotRecord] /\ src'.slots \in [Slots -> SlotRecord]
      /\ \A k \in Slots : src'.slots[k] = SlotAfter(src, i, k)
      /\ i.ready \in BOOLEAN
    BY EdgeSource
<1>2. stalled \in 0 .. MaxStall /\ stalled' \in 0 .. MaxStall /\ MaxStall \in Nat
    BY StallKeeps, TransactionsAssumption DEF OnceInv, StallHolds
<1>3. CASE Emptied(i)
    BY <1>3 DEF Emptied, SendHolds
<1>4. CASE Kept(i)
    <2> DEFINE command == src.send[1]
               k == command.index
               slot == src.slots[k]
               new == src'.slots[k]
    <2>1. /\ k \in Slots /\ SlotOf(command.id) = k
          /\ slot.valid => slot.pending /\ slot.id = command.id
          /\ ~slot.valid => slot.cooldown >= Taken(src, stalled)
        BY <1>4 DEF OnceInv, SendHolds, Kept
    <2>2. /\ Taken(src, stalled) = MaxStall - stalled + 1
          /\ Taken(src', stalled') = MaxStall - stalled
          /\ src'.send[1] = command
        BY <1>2, <1>4 DEF Kept, Taken
    <2>3. slot.valid => new.valid /\ new.pending /\ new.id = command.id
        <3>1. SUFFICES ASSUME slot.valid PROVE new.valid /\ new.pending /\ new.id = command.id
            OBVIOUS
        <3>2. ~CompletedSlot(src, k)
            <4>1. SUFFICES ASSUME CompletedSlot(src, k) PROVE FALSE
                OBVIOUS
            <4>2. Succeeds(src) /\ src.decision[1].id = slot.id
                BY <3>1, <4>1 DEF CountInv, DecisionHolds, CompletedSlot
            <4> QED BY <1>4, <2>1, <3>1, <4>2 DEF Kept
        <3>3. Stays(SlotAfter(src, i, k), slot, Handed(src, i) /\ src.send[1].index = k)
            BY <1>1, <1>4, <2>1, <3>1, <3>2, SlotMoves DEF Kept
        <3>4. Stays(new, slot, FALSE)
            BY <1>1, <1>4, <2>1, <3>3 DEF Kept, Stays
        <3> QED BY <2>1, <3>1, <3>4 DEF Stays, SameTxn
    <2>4. ~slot.valid => ~new.valid /\ new.cooldown = slot.cooldown - 1
        <3>1. SUFFICES ASSUME ~slot.valid PROVE ~new.valid /\ new.cooldown = slot.cooldown - 1
            OBVIOUS
        <3>2. slot.cooldown > 0
            BY <1>1, <1>2, <2>1, <2>2, <3>1 DEF SlotRecord
        <3>3. SlotAfter(src, i, k) = FreeSlot(slot.cooldown - 1)
            BY <1>1, <2>1, <3>1, <3>2, SlotMoves
        <3> QED BY <1>1, <2>1, <3>3 DEF FreeSlot
    <2>5. slot.cooldown \in Nat
        BY <1>1, <2>1 DEF SlotRecord
    <2>6. src'.send # <<>> => LET com == src'.send[1]  sl == src'.slots[com.index] IN
            /\ com.index \in Slots /\ SlotOf(com.id) = com.index
            /\ sl.valid => sl.pending /\ sl.id = com.id
            /\ ~sl.valid => sl.cooldown >= Taken(src', stalled')
        <3> HIDE DEF command, k, slot, new
        <3>1. /\ k \in Slots /\ SlotOf(command.id) = k
              /\ new.valid => new.pending /\ new.id = command.id
              /\ ~new.valid => new.cooldown >= Taken(src', stalled')
            BY <1>2, <2>1, <2>2, <2>3, <2>4, <2>5
        <3> QED BY <2>2, <3>1 DEF k, new
    <2> QED BY <2>6 DEF SendHolds
<1>5. ASSUME NEW k \in Sendable(src), Loaded(i, k)
      PROVE  SendHolds'
    <2> DEFINE slot == src.slots[k]
               new == src'.slots[k]
    <2>1. /\ k \in Slots /\ slot \in SlotRecord /\ slot.valid /\ slot.pending
          /\ new = SlotAfter(src, i, k)
        BY <1>1 DEF Sendable
    <2>2. /\ src'.send # <<>> /\ src'.send[1].index = k /\ src'.send[1].id = slot.id
          /\ Taken(src', stalled') = MaxStall + 1 /\ i.reset = <<>> /\ ~Handed(src, i)
        BY <1>2, <1>5 DEF Loaded, Command, Taken, Handed
    <2>3. SlotOf(slot.id) = k /\ slot.quanta \in Timeouts
        BY <2>1 DEF TraceInv, SlotsHold
    <2>4. CASE CompletedSlot(src, k)
        <3>1. new = FreeSlot(ReuseGrace)
            BY <1>1, <2>1, <2>2, <2>4, SlotMoves
        <3>2. ~new.valid /\ new.cooldown = ReuseGrace
            BY <3>1 DEF FreeSlot
        <3>3. ReuseGrace >= MaxStall + 1
            BY <2>3, GraceCovers
        <3> HIDE DEF slot, new
        <3>4. new.cooldown >= Taken(src', stalled')
            BY <2>2, <3>2, <3>3
        <3> QED BY <2>1, <2>2, <2>3, <3>2, <3>4 DEF SendHolds, new
    <2>5. CASE ~CompletedSlot(src, k)
        <3>1. Stays(new, slot, Handed(src, i) /\ src.send[1].index = k)
            BY <1>1, <2>1, <2>2, <2>5, SlotMoves
        <3>2. new.valid /\ new.pending /\ new.id = slot.id
            BY <2>1, <2>2, <3>1 DEF Stays, SameTxn
        <3> HIDE DEF slot, new
        <3> QED BY <2>1, <2>2, <2>3, <3>2 DEF SendHolds, new
    <2> QED BY <2>4, <2>5
<1> QED BY <1>3, <1>4, <1>5, SendMoves
-----------------------------------------------------------------------------
(* What remains to be sent. *)

LEMMA TimesMonotone ==
    ASSUME NEW a \in Nat, NEW b \in Nat, NEW c \in Nat
    PROVE  /\ a * b \in Nat
           /\ b <= c => a * b <= a * c
           /\ b + 1 <= c => a * b + a <= a * c
<1>1. a * b \in Nat
    OBVIOUS
<1>2. ASSUME b <= c PROVE a * b <= a * c
    <2>1. c - b \in Nat /\ a * (c - b) \in Nat
        BY <1>2
    <2>2. a * c = a * b + a * (c - b)
        OBVIOUS
    <2> QED BY <1>1, <2>1, <2>2
<1>3. ASSUME b + 1 <= c PROVE a * b + a <= a * c
    <2>1. c - b - 1 \in Nat /\ a * (c - b - 1) \in Nat
        BY <1>3
    <2>2. a * c = a * b + a + a * (c - b - 1)
        OBVIOUS
    <2> QED BY <1>1, <2>1, <2>2
<1> QED BY <1>1, <1>2, <1>3

LEMMA LeftType ==
    ASSUME NEW s, NEW k \in Slots, NEW g \in Int, s.slots \in [Slots -> SlotRecord],
           s.slots[k].valid => s.slots[k].retry <= RetryMax
    PROVE  Left(s, k, g) \in 0 .. (RetryMax + 1)
<1>1. s.slots[k] \in SlotRecord /\ RetryMax \in Nat
    BY SourceAssumption
<1>2. s.slots[k].retry \in Nat
    BY <1>1 DEF SlotRecord
<1> QED BY <1>1, <1>2 DEF Left

LEMMA SendsFinite ==
    ASSUME NEW s, NEW g
    PROVE  /\ IsFiniteSet(Sends(s, g)) /\ Cardinality(Sends(s, g)) \in Nat
           /\ Cardinality(Sends(s, g)) <= SlotCount * (RetryMax + 1)
<1> DEFINE All == Slots \X (1 .. (RetryMax + 1))
<1>1. RetryMax \in Nat /\ SlotCount \in Nat
    BY SourceAssumption
<1>2. IsFiniteSet(1 .. (RetryMax + 1)) /\ Cardinality(1 .. (RetryMax + 1)) = RetryMax + 1
    BY <1>1, FS_Interval
<1>3. IsFiniteSet(All) /\ Cardinality(All) = SlotCount * (RetryMax + 1)
    BY <1>2, SlotsFinite, FS_Product
<1>4. Sends(s, g) \subseteq All
    BY DEF Sends
<1> QED BY <1>3, <1>4, FS_Subset, FS_CardinalityType

\* With no slot gaining sends, the set does not grow, and shrinks with any slot's.
LEMMA SendsShrink ==
    ASSUME NEW s, NEW r, NEW g, NEW h,
           \A k \in Slots : /\ Left(s, k, g) \in 0 .. (RetryMax + 1)
                            /\ Left(r, k, h) \in 0 .. (RetryMax + 1)
                            /\ Left(r, k, h) <= Left(s, k, g)
    PROVE  /\ Cardinality(Sends(r, h)) <= Cardinality(Sends(s, g))
           /\ \A k \in Slots : Left(r, k, h) + 1 <= Left(s, k, g) =>
                 Cardinality(Sends(r, h)) + 1 <= Cardinality(Sends(s, g))
<1>1. RetryMax \in Nat
    BY SourceAssumption
<1>2. Sends(r, h) \subseteq Sends(s, g)
    <2>1. ASSUME NEW k \in Slots, NEW n \in 1 .. (RetryMax + 1), n <= Left(r, k, h)
          PROVE  n <= Left(s, k, g)
        BY <1>1, <2>1
    <2> QED BY <2>1 DEF Sends
<1>3. IsFiniteSet(Sends(s, g)) /\ Cardinality(Sends(s, g)) \in Nat
    BY SendsFinite
<1>4. ASSUME NEW k \in Slots, Left(r, k, h) + 1 <= Left(s, k, g)
      PROVE  Cardinality(Sends(r, h)) + 1 <= Cardinality(Sends(s, g))
    <2> DEFINE x == <<k, Left(s, k, g)>>
    <2>1. Left(s, k, g) \in 1 .. (RetryMax + 1) /\ ~(Left(s, k, g) <= Left(r, k, h))
        BY <1>1, <1>4
    <2>2. x \in Sends(s, g) /\ x \notin Sends(r, h)
        BY <2>1 DEF Sends
    <2> HIDE DEF x
    <2>3. Cardinality(Sends(s, g) \ {x}) = Cardinality(Sends(s, g)) - 1
          /\ IsFiniteSet(Sends(s, g) \ {x})
        BY <1>3, <2>2, FS_RemoveElement
    <2>4. Sends(r, h) \subseteq Sends(s, g) \ {x}
        BY <1>2, <2>2
    <2>5. Cardinality(Sends(r, h)) <= Cardinality(Sends(s, g) \ {x})
          /\ Cardinality(Sends(r, h)) \in Nat
        BY <2>3, <2>4, FS_Subset, FS_CardinalityType
    <2> QED BY <1>3, <2>3, <2>5
<1> QED BY <1>2, <1>3, <1>4, FS_Subset

\* Without a change of route no slot gains sends, and the one that is loaded loses one.
LEMMA LeftFalls ==
    ASSUME CountInv, TraceInv, OnceInv, EnoughGrace, NEW i, NEW commit, NEW arriving,
           OnceInputs(i, commit, arriving), OnceStep(i, commit, arriving),
           i.reset = <<>>, NEW g \in 1 .. HistoryGrace, NEW k \in Slots
    PROVE  /\ Left(src, k, g) \in 0 .. (RetryMax + 1)
           /\ Left(src', k, g - 1) \in 0 .. (RetryMax + 1)
           /\ Left(src', k, g - 1) <= Left(src, k, g)
           /\ Loaded(i, k) => Left(src', k, g - 1) + 1 <= Left(src, k, g)
<1> DEFINE slot == src.slots[k]
           new == src'.slots[k]
           staged == src.send # <<>> /\ src.send[1].index = k
           restaged == src'.send # <<>> /\ src'.send[1].index = k
<1>1. /\ src.slots \in [Slots -> SlotRecord] /\ src'.slots \in [Slots -> SlotRecord]
      /\ slot \in SlotRecord /\ new \in SlotRecord /\ new = SlotAfter(src, i, k)
      /\ i.ready \in BOOLEAN
    BY EdgeSource
<1>2. SlotsHold /\ SlotsHold' /\ RetryMax \in Nat /\ HistoryGrace \in Nat
      /\ ReuseGrace >= HistoryGrace /\ ReuseGrace \in Nat
    BY SlotsKeep, SourceAssumption, TrackerAssumption DEF TraceInv, EnoughGrace
<1>3. g \in Int /\ g - 1 \in Int /\ g \in Nat /\ g <= HistoryGrace /\ g >= 1
    BY <1>2
<1>4. Left(src, k, g) \in 0 .. (RetryMax + 1) /\ Left(src', k, g - 1) \in 0 .. (RetryMax + 1)
    <2>1. /\ slot.valid => slot.retry <= RetryMax
          /\ new.valid => new.retry <= RetryMax
        BY <1>2 DEF SlotsHold
    <2> QED BY <1>1, <1>3, <2>1, LeftType
<1>5. /\ slot.valid => Left(src, k, g) = (RetryMax - slot.retry)
                                         + (IF slot.pending /\ ~staged THEN 1 ELSE 0)
      /\ ~slot.valid => Left(src, k, g) = IF slot.cooldown >= g THEN 0 ELSE RetryMax + 1
      /\ new.valid => Left(src', k, g - 1) = (RetryMax - new.retry)
                                         + (IF new.pending /\ ~restaged THEN 1 ELSE 0)
      /\ ~new.valid => Left(src', k, g - 1) = IF new.cooldown >= g - 1 THEN 0 ELSE RetryMax + 1
    BY DEF Left
<1>6. slot.retry \in Nat /\ slot.cooldown \in Nat /\ new.retry \in Nat /\ new.cooldown \in Nat
    BY <1>1 DEF SlotRecord
<1>7. Loaded(i, k) => slot.valid /\ slot.pending /\ ~staged /\ restaged
    BY DEF Loaded, Sendable, Command
<1>8. CASE slot.valid /\ CompletedSlot(src, k)
    <2>1. new = FreeSlot(ReuseGrace)
        BY <1>1, <1>8, SlotMoves
    <2>2. ~new.valid /\ new.cooldown = ReuseGrace
        BY <2>1 DEF FreeSlot
    <2>3. Left(src', k, g - 1) = 0
        BY <1>2, <1>3, <1>5, <2>2
    <2>4. Loaded(i, k) => Left(src, k, g) >= 1
        <3>1. slot.retry <= RetryMax
            BY <1>2, <1>8 DEF SlotsHold
        <3> HIDE DEF slot, new, staged, restaged
        <3> QED BY <1>2, <1>5, <1>6, <1>7, <1>8, <3>1
    <2> QED BY <1>4, <2>3, <2>4
<1>9. CASE slot.valid /\ ~CompletedSlot(src, k)
    <2>1. Stays(new, slot, Handed(src, i) /\ src.send[1].index = k)
        BY <1>1, <1>9, SlotMoves
    <2>2. slot.retry <= RetryMax
        BY <1>2, <1>9 DEF SlotsHold
    <2>3. new.valid
        BY <2>1 DEF Stays, SameTxn
    <2>4. staged => slot.pending
        BY <1>9 DEF OnceInv, SendHolds
    <2>5. staged => Handed(src, i) \/ restaged
        <3>1. SUFFICES ASSUME staged, ~Handed(src, i) PROVE restaged
            OBVIOUS
        <3>2. CASE Emptied(i)
            <4>1. Succeeds(src) /\ src.send[1].id = src.decision[1].id
                BY <3>1, <3>2 DEF Emptied
            <4>2. CompletedSlot(src, k)
                BY <3>1, <4>1 DEF OnceInv, SendHolds, CompletedSlot
            <4> QED BY <1>9, <4>2
        <3>3. CASE Kept(i)
            BY <3>1, <3>3 DEF Kept
        <3>4. CASE \E j \in Sendable(src) : Loaded(i, j)
            BY <3>1, <3>4 DEF Loaded
        <3> QED BY <3>2, <3>3, <3>4, SendMoves
    <2>6. Handed(src, i) /\ src.send[1].index = k => staged
        BY DEF Handed
    <2>7. restaged /\ ~staged => Loaded(i, k)
        <3>1. SUFFICES ASSUME restaged, ~staged PROVE Loaded(i, k)
            OBVIOUS
        <3>2. ~Emptied(i) /\ ~Kept(i)
            BY <3>1 DEF Emptied, Kept
        <3>3. PICK j \in Sendable(src) : Loaded(i, j)
            BY <3>2, SendMoves
        <3>4. j = k
            BY <3>1, <3>3 DEF Loaded, Command
        <3> QED BY <3>3, <3>4
    <2>8. CASE Handed(src, i) /\ src.send[1].index = k
        <3>1. ~new.pending /\ new.retry = slot.retry /\ staged
            BY <2>1, <2>6, <2>8 DEF Stays
        <3> HIDE DEF slot, new, staged, restaged
        <3> QED BY <1>2, <1>4, <1>5, <1>6, <1>7, <1>9, <2>2, <2>3, <3>1
    <2>9. CASE ~(Handed(src, i) /\ src.send[1].index = k)
        <3>1. CASE slot.pending
            <4>1. new.pending /\ new.retry = slot.retry
                BY <2>1, <2>9, <3>1 DEF Stays
            <4>2. staged => restaged
                BY <2>5, <2>9
            <4> HIDE DEF slot, new, staged, restaged
            <4> QED BY <1>2, <1>4, <1>5, <1>6, <1>7, <1>9, <2>2, <2>3, <3>1, <4>1, <4>2
        <3>2. CASE ~slot.pending
            <4>1. ~staged
                BY <2>4, <3>2
            <4>2. \/ ~new.pending /\ new.retry = slot.retry
                  \/ new.pending /\ new.retry = slot.retry + 1
                <5>1. slot.age \in Nat /\ slot.quanta \in Nat
                    BY <1>1 DEF SlotRecord
                <5> HIDE DEF slot, new, staged, restaged
                <5> QED BY <2>1, <2>9, <3>2, <5>1 DEF Stays
            <4> HIDE DEF slot, new, staged, restaged
            <4> QED BY <1>2, <1>4, <1>5, <1>6, <1>7, <1>9, <2>2, <2>3, <3>2, <4>1, <4>2
        <3> QED BY <3>1, <3>2
    <2> QED BY <2>8, <2>9
<1>10. CASE ~slot.valid /\ slot.cooldown >= g
    <2>1. new = FreeSlot(slot.cooldown - 1)
        BY <1>1, <1>3, <1>6, <1>10, SlotMoves
    <2>2. ~new.valid /\ new.cooldown = slot.cooldown - 1
        BY <2>1 DEF FreeSlot
    <2> HIDE DEF slot, new, staged, restaged
    <2> QED BY <1>3, <1>4, <1>5, <1>6, <1>7, <1>10, <2>2
<1>11. CASE ~slot.valid /\ ~(slot.cooldown >= g)
    <2> HIDE DEF slot, new, staged, restaged
    <2> QED BY <1>2, <1>4, <1>5, <1>7, <1>11
<1> QED BY <1>8, <1>9, <1>10, <1>11

\* A transaction that waits for its timeout has one cycle less to wait.
LEMMA WaitsFall ==
    ASSUME NEW slot \in SlotRecord, NEW new \in SlotRecord, NEW handed \in BOOLEAN,
           Stays(new, slot, handed), handed => slot.pending,
           slot.quanta > 0, slot.retry <= RetryMax, ~slot.pending => slot.age < slot.quanta,
           MayResend(new)
    PROVE  /\ MayResend(slot)
           /\ Waits(slot) \in Nat /\ Waits(new) \in Nat
           /\ Waits(new) <= Waits(slot)
           /\ ~slot.pending => Waits(new) + 1 <= Waits(slot)
<1> DEFINE q == slot.quanta
           r == RetryMax - slot.retry
<1>1. /\ q \in Nat /\ slot.retry \in Nat /\ slot.age \in Nat /\ new.retry \in Nat
      /\ new.age \in Nat /\ RetryMax \in Nat /\ q > 0
    BY SourceAssumption DEF SlotRecord
<1>2. r \in Nat /\ r * q \in Nat
    BY <1>1
<1>3. new.quanta = q
    BY DEF Stays, SameTxn
<1>4. /\ slot.pending => Waits(slot) = r * q
      /\ ~slot.pending => Waits(slot) = r * q - slot.age
      /\ new.pending => Waits(new) = (RetryMax - new.retry) * q
      /\ ~new.pending => Waits(new) = (RetryMax - new.retry) * q - new.age
    <2>1. r * q - 0 = r * q /\ (RetryMax - new.retry) * q - 0 = (RetryMax - new.retry) * q
        <3>1. RetryMax - new.retry \in Int /\ (RetryMax - new.retry) * q \in Int
            BY <1>1
        <3> QED BY <1>2, <3>1
    <2> QED BY <1>3, <2>1 DEF Waits
<1>5. r >= 1 => r * q >= q /\ (r - 1) * q = r * q - q /\ r - 1 \in Nat
    <2>1. SUFFICES ASSUME r >= 1 PROVE r * q >= q /\ (r - 1) * q = r * q - q /\ r - 1 \in Nat
        OBVIOUS
    <2>2. r - 1 \in Nat /\ (r - 1) * q \in Nat
        BY <1>1, <1>2, <2>1
    <2>3. r * q = (r - 1) * q + q
        BY <1>1, <1>2
    <2> QED BY <1>1, <2>2, <2>3
<1>6. CASE slot.pending
    <2>1. new.retry = slot.retry /\ (~new.pending => new.age = 0)
        BY <1>6 DEF Stays
    <2>2. (RetryMax - new.retry) * q = r * q
        BY <2>1
    <2> HIDE DEF r, q
    <2> QED BY <1>2, <1>4, <1>6, <2>1, <2>2 DEF MayResend
<1>7. CASE ~slot.pending /\ slot.age + 1 < q
    <2>1. ~new.pending /\ new.retry = slot.retry /\ new.age = slot.age + 1
        BY <1>7 DEF Stays
    <2>2. (RetryMax - new.retry) * q = r * q
        BY <2>1
    <2>3. r >= 1 /\ slot.retry < RetryMax
        BY <1>1, <2>1 DEF MayResend
    <2> HIDE DEF r, q
    <2> QED BY <1>1, <1>2, <1>4, <1>5, <1>7, <2>1, <2>2, <2>3 DEF MayResend
<1>8. CASE ~slot.pending /\ slot.age + 1 >= q /\ slot.retry < RetryMax
    <2>1. new.pending /\ new.retry = slot.retry + 1
        BY <1>8 DEF Stays
    <2>2. slot.age + 1 = q /\ r >= 1
        BY <1>1, <1>8
    <2>3. RetryMax - new.retry = r - 1
        BY <1>1, <2>1
    <2>4. Waits(new) = r * q - q
        BY <1>4, <1>5, <2>1, <2>2, <2>3
    <2>5. Waits(slot) = r * q - slot.age
        BY <1>4, <1>8
    <2> HIDE DEF r, q
    <2> QED BY <1>1, <1>2, <1>5, <1>8, <2>2, <2>4, <2>5 DEF MayResend
<1>9. CASE ~slot.pending /\ slot.age + 1 >= q /\ ~(slot.retry < RetryMax)
    <2>1. ~new.pending /\ new.retry = slot.retry
        BY <1>9 DEF Stays
    <2> QED BY <1>9, <2>1 DEF MayResend
<1>10. \/ slot.pending
       \/ ~slot.pending /\ slot.age + 1 < q
       \/ ~slot.pending /\ slot.age + 1 >= q
    BY <1>1
<1> QED BY <1>6, <1>7, <1>8, <1>9, <1>10

LEMMA WaitsBound ==
    ASSUME NEW slot \in SlotRecord, slot.retry <= RetryMax, slot.quanta > 0,
           ~slot.pending => slot.age < slot.quanta, MayResend(slot)
    PROVE  Waits(slot) \in Nat /\ Waits(slot) <= RetryMax * slot.quanta
<1> DEFINE q == slot.quanta
           r == RetryMax - slot.retry
<1>1. /\ q \in Nat /\ slot.retry \in Nat /\ slot.age \in Nat /\ RetryMax \in Nat /\ r \in Nat
    BY SourceAssumption DEF SlotRecord
<1>2. r * q \in Nat /\ r * q <= RetryMax * q
    <2>1. q * r \in Nat /\ (r <= RetryMax => q * r <= q * RetryMax)
        BY <1>1, TimesMonotone
    <2>2. q * r = r * q /\ q * RetryMax = RetryMax * q
        BY <1>1
    <2> QED BY <1>1, <2>1, <2>2
<1>3. ~slot.pending => r * q >= q
    <2>1. SUFFICES ASSUME ~slot.pending PROVE r * q >= q
        OBVIOUS
    <2>2. r >= 1
        BY <1>1, <2>1 DEF MayResend
    <2>3. q * 1 <= q * r
        BY <1>1, <2>2, TimesMonotone
    <2>4. q * r = r * q /\ q * 1 = q
        BY <1>1
    <2> QED BY <1>1, <1>2, <2>3, <2>4
<1>4. Waits(slot) = IF slot.pending THEN r * q ELSE r * q - slot.age
    BY <1>2 DEF Waits
<1> HIDE DEF r, q
<1>5. ~slot.pending => slot.age < q
    BY DEF q
<1>6. Waits(slot) \in Nat /\ Waits(slot) <= RetryMax * q
    BY <1>1, <1>2, <1>3, <1>4, <1>5
<1> QED BY <1>6 DEF q

LEMMA RemainingBound ==
    ASSUME EnoughGrace, NEW s, NEW stall \in 0 .. MaxStall, NEW k \in Slots, NEW g,
           s.slots[k] \in SlotRecord, s.slots[k].quanta \in Timeouts, s.slots[k].quanta > 0,
           s.slots[k].retry <= RetryMax,
           ~s.slots[k].pending => s.slots[k].age < s.slots[k].quanta, MayResend(s.slots[k])
    PROVE  /\ Remaining(s, stall, k, g) \in Nat
           /\ Remaining(s, stall, k, g) <= Horizon(s.slots[k].quanta) + Taken(s, stall)
<1> DEFINE slot == s.slots[k]
           n == Cardinality(Sends(s, g))
           most == SlotCount * (RetryMax + 1)
<1>1. /\ slot \in SlotRecord /\ slot.quanta \in Timeouts /\ slot.quanta > 0
      /\ slot.retry <= RetryMax /\ (~slot.pending => slot.age < slot.quanta)
    OBVIOUS
<1>2. Waits(slot) \in Nat /\ Waits(slot) <= RetryMax * slot.quanta
    BY <1>1, WaitsBound
<1>3. n \in Nat /\ n <= most /\ most \in Nat
    BY SendsFinite, SourceAssumption
<1>4. MaxStall \in Nat /\ MaxStall + 2 \in Nat
    BY TransactionsAssumption
<1>5. (MaxStall + 2) * n \in Nat /\ (MaxStall + 2) * n <= (MaxStall + 2) * most
    BY <1>3, <1>4, TimesMonotone
<1>6. Taken(s, stall) \in Nat
    BY <1>4 DEF Taken
<1>7. (MaxStall + 2) * most \in Nat /\ RetryMax * slot.quanta \in Nat
    BY <1>1, GraceCovers
<1>8. Remaining(s, stall, k, g) = (MaxStall + 2) * n + Taken(s, stall) + Waits(slot)
    BY DEF Remaining
<1>9. Horizon(slot.quanta) = (MaxStall + 2) * most + RetryMax * slot.quanta
    BY DEF Horizon
<1> DEFINE a == (MaxStall + 2) * n
           b == (MaxStall + 2) * most
           c == RetryMax * slot.quanta
<1>10. a + Taken(s, stall) + Waits(slot) \in Nat
       /\ a + Taken(s, stall) + Waits(slot) <= b + c + Taken(s, stall)
    <2>1. a \in Nat /\ b \in Nat /\ c \in Nat /\ a <= b /\ Waits(slot) <= c
        BY <1>2, <1>5, <1>7
    <2> HIDE DEF a, b, c, slot, n, most
    <2> QED BY <1>2, <1>6, <2>1
<1> QED BY <1>1, <1>8, <1>9, <1>10

\* At every edge without a change of route, less remains.
LEMMA RemainingFalls ==
    ASSUME CountInv, TraceInv, OnceInv, EnoughGrace, NEW i, NEW commit, NEW arriving,
           OnceInputs(i, commit, arriving), OnceStep(i, commit, arriving),
           i.reset = <<>>, NEW g \in 1 .. HistoryGrace, NEW k \in Slots,
           src.slots[k].valid, ~CompletedSlot(src, k), MayResend(src'.slots[k])
    PROVE  /\ MayResend(src.slots[k])
           /\ Remaining(src, stalled, k, g) \in Nat
           /\ Remaining(src', stalled', k, g - 1) \in Nat
           /\ Remaining(src', stalled', k, g - 1) + 1 <= Remaining(src, stalled, k, g)
<1> DEFINE slot == src.slots[k]
           new == src'.slots[k]
           n == Cardinality(Sends(src, g))
           m == Cardinality(Sends(src', g - 1))
           spell == MaxStall + 2
<1>1. /\ slot \in SlotRecord /\ new \in SlotRecord /\ new = SlotAfter(src, i, k)
      /\ src.slots \in [Slots -> SlotRecord] /\ i.ready \in BOOLEAN
    BY EdgeSource
<1>2. Stays(new, slot, Handed(src, i) /\ src.send[1].index = k)
    BY <1>1, SlotMoves
<1>3. Handed(src, i) /\ src.send[1].index = k => slot.pending
    BY DEF OnceInv, SendHolds, Handed
<1>4. /\ slot.quanta > 0 /\ slot.retry <= RetryMax /\ (~slot.pending => slot.age < slot.quanta)
    BY DEF TraceInv, SlotsHold
<1>5. /\ MayResend(slot) /\ Waits(slot) \in Nat /\ Waits(new) \in Nat
      /\ Waits(new) <= Waits(slot)
      /\ ~slot.pending => Waits(new) + 1 <= Waits(slot)
    <2>1. (Handed(src, i) /\ src.send[1].index = k) \in BOOLEAN
        OBVIOUS
    <2> DEFINE handed == Handed(src, i) /\ src.send[1].index = k
    <2>2. handed \in BOOLEAN /\ Stays(new, slot, handed) /\ (handed => slot.pending)
        BY <1>2, <1>3
    <2> HIDE DEF slot, new, handed
    <2>3. MayResend(new)
        BY DEF new
    <2> QED BY <1>1, <1>4, <2>2, <2>3, WaitsFall
<1>6. /\ n \in Nat /\ m \in Nat /\ m <= n
      /\ \A j \in Slots : Loaded(i, j) => m + 1 <= n
    <2>1. \A j \in Slots : /\ Left(src, j, g) \in 0 .. (RetryMax + 1)
                           /\ Left(src', j, g - 1) \in 0 .. (RetryMax + 1)
                           /\ Left(src', j, g - 1) <= Left(src, j, g)
                           /\ Loaded(i, j) => Left(src', j, g - 1) + 1 <= Left(src, j, g)
        BY LeftFalls
    <2>2. /\ m <= n
          /\ \A j \in Slots : Left(src', j, g - 1) + 1 <= Left(src, j, g) => m + 1 <= n
        BY <2>1, SendsShrink
    <2> QED BY <2>1, <2>2, SendsFinite
<1>7. stalled \in 0 .. MaxStall /\ stalled' \in 0 .. MaxStall /\ MaxStall \in Nat /\ spell \in Nat
    BY StallKeeps, TransactionsAssumption DEF OnceInv, StallHolds
<1>8. /\ spell * n \in Nat /\ spell * m \in Nat /\ spell * m <= spell * n
      /\ m + 1 <= n => spell * m + spell <= spell * n
    <2> HIDE DEF spell, n, m
    <2> QED BY <1>6, <1>7, TimesMonotone
<1>9. /\ Remaining(src, stalled, k, g) = spell * n + Taken(src, stalled) + Waits(slot)
      /\ Remaining(src', stalled', k, g - 1) = spell * m + Taken(src', stalled') + Waits(new)
    BY DEF Remaining
<1>10. /\ src.send # <<>> => Taken(src, stalled) = MaxStall - stalled + 1
       /\ src.send = <<>> => Taken(src, stalled) = 0
       /\ src'.send = <<>> => Taken(src', stalled') = 0
       /\ src'.send # <<>> => Taken(src', stalled') = MaxStall - stalled' + 1
    BY DEF Taken
<1>11. /\ Taken(src, stalled) \in Nat /\ Taken(src', stalled') \in Nat
    BY <1>7, <1>10
<1>12. \/ spell * m + Taken(src', stalled') + 1 <= spell * n + Taken(src, stalled)
       \/ ~slot.pending /\ Taken(src', stalled') <= Taken(src, stalled)
    <2>1. CASE Emptied(i)
        <3>1. src'.send = <<>> /\ (src.send # <<>> \/ Sendable(src) = {})
            BY <2>1 DEF Emptied, Handed
        <3>2. CASE src.send # <<>>
            <4>1. Taken(src, stalled) >= 1 /\ Taken(src', stalled') = 0
                BY <1>7, <1>10, <3>1, <3>2
            <4> HIDE DEF spell, n, m
            <4> QED BY <1>8, <1>11, <4>1
        <3>3. CASE Sendable(src) = {}
            <4>1. ~slot.pending
                BY <3>3 DEF Sendable
            <4> QED BY <1>10, <1>11, <3>1, <4>1
        <3> QED BY <3>1, <3>2, <3>3
    <2>2. CASE Kept(i)
        <3>1. Taken(src', stalled') + 1 = Taken(src, stalled)
            BY <1>7, <1>10, <2>2 DEF Kept
        <3> HIDE DEF spell, n, m
        <3> QED BY <1>8, <1>11, <3>1
    <2>3. ASSUME NEW j \in Sendable(src), Loaded(i, j)
          PROVE  spell * m + Taken(src', stalled') + 1 <= spell * n + Taken(src, stalled)
        <3>1. Taken(src', stalled') = MaxStall + 1 /\ Taken(src, stalled) = 0
            BY <1>7, <1>10, <2>3 DEF Loaded
        <3>2. m + 1 <= n
            BY <1>6, <2>3 DEF Sendable
        <3>3. spell = MaxStall + 1 + 1
            BY <1>7
        <3> HIDE DEF spell, n, m
        <3> QED BY <1>7, <1>8, <1>11, <3>1, <3>2, <3>3
    <2> QED BY <2>1, <2>2, <2>3, SendMoves
<1> HIDE DEF slot, new, n, m, spell
<1>13. /\ Remaining(src, stalled, k, g) \in Nat
       /\ Remaining(src', stalled', k, g - 1) \in Nat
       /\ Remaining(src', stalled', k, g - 1) + 1 <= Remaining(src, stalled, k, g)
    <2> DEFINE all == spell * n
               rest == spell * m
    <2>1. all \in Nat /\ rest \in Nat /\ rest <= all
        BY <1>8
    <2>2. /\ Remaining(src, stalled, k, g) = all + Taken(src, stalled) + Waits(slot)
          /\ Remaining(src', stalled', k, g - 1) = rest + Taken(src', stalled') + Waits(new)
        BY <1>9
    <2>3. \/ rest + Taken(src', stalled') + 1 <= all + Taken(src, stalled)
          \/ ~slot.pending /\ Taken(src', stalled') <= Taken(src, stalled)
        BY <1>12
    <2> HIDE DEF all, rest
    <2>4. \A a, b, c, d, e, f \in Nat :
            /\ b <= a /\ f <= e /\ (b + d + 1 <= a + c \/ (f + 1 <= e /\ d <= c))
            => b + d + f + 1 <= a + c + e
        OBVIOUS
    <2> QED BY <1>5, <1>11, <2>1, <2>2, <2>3, <2>4
<1> QED BY <1>5, <1>13 DEF slot
-----------------------------------------------------------------------------
(* The history. *)

LEMMA DeliversOne ==
    ASSUME HistoryHolds, NEW who
    PROVE  who \in Delivers(trk) <=>
              /\ trk.arrival # <<>> /\ who = trk.arrival[1].who
              /\ ~(Recorded(trk, who) /\ ~Expired(trk, who))
<1>1. CASE trk.arrival = <<>>
    BY <1>1 DEF Delivers
<1>2. CASE trk.arrival # <<>>
    <2> DEFINE b == trk.arrival[1]
    <2>1. trk.arrival = <<b>>
        BY <1>2 DEF HistoryHolds
    <2> HIDE DEF b
    <2>2. {trk.arrival[n] : n \in DOMAIN trk.arrival} = {b}
        BY <2>1
    <2>3. Delivers(trk) = {a.who : a \in {x \in {b} :
                              ~(Recorded(trk, x.who) /\ ~Expired(trk, x.who))}}
        BY <2>2 DEF Delivers
    <2>4. who \in Delivers(trk) <=>
              who = b.who /\ ~(Recorded(trk, who) /\ ~Expired(trk, who))
        BY <2>3
    <2> QED BY <1>2, <2>4 DEF b
<1> QED BY <1>1, <1>2

\* An entry is taken over by what is delivered, and grows older otherwise.
LEMMA EntryMoves ==
    ASSUME HistoryHolds, NEW i, NEW commit, NEW arriving, OnceStep(i, commit, arriving),
           NEW who, who.id \in Nat
    PROVE  /\ IndexOf(who) \in Indices
           /\ IsEntry(Entry(trk, who)) /\ IsEntry(Entry(trk', who))
           /\ \A w \in Delivers(trk) : IndexOf(w) = IndexOf(who) =>
                 LET new == Entry(trk', who) IN new.valid /\ new.who = w /\ new.age = 0
           /\ (\A w \in Delivers(trk) : IndexOf(w) # IndexOf(who)) =>
                 LET old == Entry(trk, who)  new == Entry(trk', who) IN
                 /\ new.valid = old.valid /\ new.who = old.who
                 /\ new.age = IF old.valid /\ old.age < HistoryGrace THEN old.age + 1
                              ELSE old.age
<1> DEFINE k == IndexOf(who)
           old == Entry(trk, who)
           new == Entry(trk', who)
<1>1. k \in Indices
    BY TrackerAssumption DEF IndexOf, Indices
<1>2. /\ old = trk.history[k] /\ IsEntry(old) /\ HistoryGrace \in Nat
    BY <1>1, TrackerAssumption DEF Entry, HistoryHolds
<1>3. new = IF \E w \in Delivers(trk) : IndexOf(w) = k
            THEN [valid |-> TRUE, who |-> trk.arrival[1].who, age |-> 0]
            ELSE Aged(trk, k)
    BY <1>1 DEF Entry, OnceStep, TrackerEdge
<1>4. Aged(trk, k) = IF old.valid /\ old.age < HistoryGrace
                     THEN [old EXCEPT !.age = @ + 1] ELSE old
    BY <1>2 DEF Aged
<1>5. ASSUME NEW w \in Delivers(trk), IndexOf(w) = k
      PROVE  new.valid /\ new.who = w /\ new.age = 0 /\ IsEntry(new)
    <2>1. w = trk.arrival[1].who
        BY <1>5, DeliversOne
    <2>2. new = [valid |-> TRUE, who |-> w, age |-> 0]
        BY <1>3, <1>5, <2>1
    <2> HIDE DEF new
    <2> QED BY <1>2, <2>2 DEF IsEntry
<1>6. ASSUME \A w \in Delivers(trk) : IndexOf(w) # k
      PROVE  /\ new.valid = old.valid /\ new.who = old.who
             /\ new.age = IF old.valid /\ old.age < HistoryGrace THEN old.age + 1 ELSE old.age
             /\ IsEntry(new)
    <2>1. new = IF old.valid /\ old.age < HistoryGrace THEN [old EXCEPT !.age = @ + 1] ELSE old
        BY <1>3, <1>4, <1>6
    <2> HIDE DEF new, old
    <2> QED BY <1>2, <2>1 DEF IsEntry
<1>7. IsEntry(new)
    BY <1>5, <1>6
<1> QED BY <1>1, <1>2, <1>5, <1>6, <1>7

\* A protected entry outlives the edge, one cycle older; a delivery makes a fresh one.
LEMMA EntryKeeps ==
    ASSUME CountInv, TraceInv, NEW i, NEW commit, NEW arriving,
           OnceStep(i, commit, arriving), NEW who, who.id \in Nat
    PROVE  /\ Entry(trk, who).age \in Nat /\ Entry(trk', who).age \in Nat
           /\ Recorded(trk, who) /\ ~Expired(trk, who) =>
                 /\ who \notin Delivers(trk)
                 /\ Recorded(trk', who) /\ Entry(trk', who).age = Entry(trk, who).age + 1
           /\ who \in Delivers(trk) => Recorded(trk', who) /\ Entry(trk', who).age = 0
           /\ Recorded(trk', who) => Recorded(trk, who) \/ who \in Delivers(trk)
<1> DEFINE old == Entry(trk, who)
           new == Entry(trk', who)
<1>1. HistoryHolds /\ HistoryGrace \in Nat
    BY TrackerAssumption DEF TraceInv
<1>2. /\ IsEntry(old) /\ IsEntry(new)
      /\ \A w \in Delivers(trk) : IndexOf(w) = IndexOf(who) =>
            new.valid /\ new.who = w /\ new.age = 0
      /\ (\A w \in Delivers(trk) : IndexOf(w) # IndexOf(who)) =>
            /\ new.valid = old.valid /\ new.who = old.who
            /\ new.age = IF old.valid /\ old.age < HistoryGrace THEN old.age + 1 ELSE old.age
    BY <1>1, EntryMoves
<1>3. old.age \in Nat /\ new.age \in Nat
    BY <1>1, <1>2 DEF IsEntry
<1>4. ASSUME Recorded(trk, who), ~Expired(trk, who)
      PROVE  /\ who \notin Delivers(trk)
             /\ Recorded(trk', who) /\ new.age = old.age + 1
    <2>1. old.valid /\ old.who = who /\ old.age < HistoryGrace
        BY <1>1, <1>3, <1>4 DEF Recorded, Expired
    <2>2. ASSUME NEW w \in Delivers(trk) PROVE IndexOf(w) # IndexOf(who)
        <3>1. SUFFICES ASSUME IndexOf(w) = IndexOf(who) PROVE FALSE
            OBVIOUS
        <3>2. /\ trk.arrival # <<>> /\ w = trk.arrival[1].who
              /\ ~(Recorded(trk, w) /\ ~Expired(trk, w))
            BY <1>1, DeliversOne
        <3>3. Entry(trk, w) = old
            BY <3>1 DEF Entry
        <3>4. Recorded(trk, w) \/ Expired(trk, w)
            BY <1>1, <2>1, <3>2, <3>3 DEF HistoryHolds
        <3>5. ~Expired(trk, w)
            BY <1>4, <3>3 DEF Expired
        <3> QED BY <3>2, <3>4, <3>5
    <2>3. who \notin Delivers(trk)
        BY <2>2
    <2>4. new.valid = old.valid /\ new.who = old.who /\ new.age = old.age + 1
        BY <1>2, <2>1, <2>2
    <2>5. Recorded(trk', who)
        BY <2>1, <2>4 DEF Recorded
    <2> QED BY <2>3, <2>4, <2>5
<1>5. who \in Delivers(trk) => Recorded(trk', who) /\ new.age = 0
    BY <1>2 DEF Recorded
<1>6. Recorded(trk', who) => Recorded(trk, who) \/ who \in Delivers(trk)
    <2>1. SUFFICES ASSUME new.valid, new.who = who, who \notin Delivers(trk)
                   PROVE  old.valid /\ old.who = who
        BY DEF Recorded
    <2>2. \A w \in Delivers(trk) : IndexOf(w) # IndexOf(who)
        BY <1>2, <2>1
    <2> QED BY <1>2, <2>1, <2>2
<1> QED BY <1>3, <1>4, <1>5, <1>6

\* What is taken at the edge was free to come in.
LEMMA EdgeArrival ==
    ASSUME NEW i, NEW commit, NEW arriving,
           OnceInputs(i, commit, arriving), OnceStep(i, commit, arriving)
    PROVE  trk'.arrival # <<>> =>
              \E c : /\ trk'.arrival[1].who = c.who /\ CommitReady(trk, c.who)
                     /\ trk'.arrival = <<trk'.arrival[1]>>
                     /\ c \in copies \/ c.who \in others
<1>1. SUFFICES ASSUME trk'.arrival # <<>>
               PROVE  \E c : /\ trk'.arrival[1].who = c.who /\ CommitReady(trk, c.who)
                             /\ trk'.arrival = <<trk'.arrival[1]>>
                             /\ c \in copies \/ c.who \in others
    OBVIOUS
<1>2. trk'.arrival = IF Received(arriving) # <<>> /\ CommitReady(trk, Received(arriving)[1].who)
                     THEN Received(arriving) ELSE <<>>
    BY DEF OnceStep, TrackerEdge
<1>3. trk'.arrival = Received(arriving) /\ arriving # <<>>
    BY <1>1, <1>2 DEF Received
<1>4. PICK c : /\ arriving = <<c>> /\ CommitReady(trk, c.who)
               /\ c \in copies \/ c.who \in others
    BY <1>3 DEF OnceInputs
<1>5. Received(arriving) = <<[who |-> c.who, epoch |-> c.epoch]>>
    BY <1>4 DEF Received
<1>6. trk'.arrival[1].who = c.who /\ trk'.arrival = <<trk'.arrival[1]>>
    BY <1>3, <1>5
<1> QED BY <1>4, <1>6

LEMMA HistoryKeeps ==
    ASSUME CountInv, TraceInv, NEW i, NEW commit, NEW arriving,
           OnceInputs(i, commit, arriving), OnceStep(i, commit, arriving)
    PROVE  HistoryHolds'
<1>1. HistoryHolds /\ HistoryGrace \in Nat
    BY TrackerAssumption DEF TraceInv
<1>2. ASSUME NEW k \in Indices PROVE IsEntry(trk'.history[k])
    <2> DEFINE who == [source |-> "own", id |-> k]
    <2>1. who.id \in Nat /\ IndexOf(who) = k
        BY TrackerAssumption DEF IndexOf, Indices
    <2>2. IsEntry(Entry(trk', who))
        BY <1>1, <2>1, EntryMoves
    <2> HIDE DEF who
    <2> QED BY <2>1, <2>2 DEF Entry
<1>3. ASSUME trk'.arrival # <<>>
      PROVE  LET who == trk'.arrival[1].who IN
             /\ trk'.arrival = <<trk'.arrival[1]>>
             /\ Entry(trk', who).valid => Recorded(trk', who) \/ Expired(trk', who)
    <2> DEFINE who == trk'.arrival[1].who
               old == Entry(trk, who)
               new == Entry(trk', who)
    <2>1. /\ CommitReady(trk, who) /\ trk'.arrival = <<trk'.arrival[1]>> /\ who.id \in Nat
        BY <1>3, EdgeArrival DEF CountInv, IdsTyped, IsCopy
    <2>2. /\ IsEntry(old) /\ IsEntry(new)
          /\ \A w \in Delivers(trk) : IndexOf(w) = IndexOf(who) =>
                new.valid /\ new.who = w /\ new.age = 0
          /\ (\A w \in Delivers(trk) : IndexOf(w) # IndexOf(who)) =>
                /\ new.valid = old.valid /\ new.who = old.who
                /\ new.age = IF old.valid /\ old.age < HistoryGrace THEN old.age + 1 ELSE old.age
        <3> HIDE DEF who
        <3> QED BY <1>1, <2>1, EntryMoves
    <2> HIDE DEF who, old, new
    <2>3. new.valid => (new.valid /\ new.who = who) \/ new.age >= HistoryGrace
        <3>1. CASE trk.arrival # <<>> /\ IndexOf(trk.arrival[1].who) = IndexOf(who)
            <4>1. trk.arrival[1].who = who
                BY <2>1, <3>1 DEF CommitReady
            <4>2. \A w \in Delivers(trk) : w = who
                BY <1>1, <4>1, DeliversOne
            <4>3. CASE who \in Delivers(trk)
                BY <2>2, <4>3
            <4>4. CASE who \notin Delivers(trk)
                <5>1. old.valid /\ old.who = who
                    BY <1>1, <3>1, <4>1, <4>4, DeliversOne DEF Recorded, old
                <5> QED BY <2>2, <4>2, <4>4, <5>1
            <4> QED BY <4>3, <4>4
        <3>2. CASE ~(trk.arrival # <<>> /\ IndexOf(trk.arrival[1].who) = IndexOf(who))
            <4>1. ~old.valid \/ (old.valid /\ old.who = who) \/ old.age >= HistoryGrace
                BY <2>1, <3>2 DEF CommitReady, Recorded, Expired, old
            <4>2. \A w \in Delivers(trk) : IndexOf(w) # IndexOf(who)
                BY <1>1, <3>2, DeliversOne
            <4>3. /\ new.valid = old.valid /\ new.who = old.who
                  /\ new.age = IF old.valid /\ old.age < HistoryGrace THEN old.age + 1
                               ELSE old.age
                BY <2>2, <4>2
            <4>4. old.age \in Nat
                BY <1>1, <2>2 DEF IsEntry
            <4>5. old.age >= HistoryGrace => new.age >= HistoryGrace
                BY <1>1, <4>3, <4>4
            <4> QED BY <4>1, <4>3, <4>5
        <3> QED BY <3>1, <3>2
    <2> QED BY <2>1, <2>3 DEF Recorded, Expired, who, new
<1> QED BY <1>2, <1>3 DEF HistoryHolds, Entry, Recorded, Expired
-----------------------------------------------------------------------------
(* Deliveries. *)

\* What is delivered was issued, and stays delivered.
LEMMA EdgeTraces ==
    ASSUME TraceInv, NEW i, NEW commit, NEW arriving, OnceStep(i, commit, arriving),
           NEW t \in Txn
    PROVE  /\ t \in Nat /\ Own(t).id = t /\ Own(t).id \in Nat /\ Own(t).source = "own"
           /\ deliveries[t] \in Nat /\ deliveries'[t] \in Nat
           /\ deliveries'[t] = deliveries[t] + (IF Own(t) \in Delivers(trk) THEN 1 ELSE 0)
           /\ deliveries[t] > 0 => deliveries'[t] > 0
           /\ deliveries'[t] > 0 => deliveries[t] > 0 \/ Own(t) \in Delivers(trk)
           /\ Own(t) \in Delivers(trk) => t \in issued /\ deliveries'[t] > 0
<1>1. t \in Nat /\ Own(t).id = t /\ Own(t).source = "own"
    BY TransactionsAssumption DEF Own
<1>2. /\ deliveries[t] \in Nat
      /\ deliveries'[t] = deliveries[t] + (IF Own(t) \in Delivers(trk) THEN 1 ELSE 0)
    BY DEF TraceInv, DeliveredFirst, OnceStep
<1>3. ASSUME Own(t) \in Delivers(trk) PROVE t \in issued
    <2>1. trk.arrival # <<>> /\ trk.arrival[1].who = Own(t)
        BY <1>3, DeliversOne DEF TraceInv
    <2>2. PICK u \in issued : Own(t) = Own(u)
        BY <1>1, <2>1 DEF TraceInv, DeliveredFirst
    <2>3. Own(u).id = u
        BY DEF Own
    <2> QED BY <1>1, <2>2, <2>3
<1> QED BY <1>1, <1>2, <1>3

\* Nothing delivered is delivered again: its arrival finds it in the history.
LEMMA EdgeDelivers ==
    ASSUME CountInv, TraceInv, OnceInv, NEW i, NEW commit, NEW arriving,
           OnceInputs(i, commit, arriving), OnceStep(i, commit, arriving), NEW t \in Txn
    PROVE  /\ t \in Nat /\ Own(t).id = t /\ Own(t).id \in Nat /\ Own(t).source = "own"
           /\ deliveries[t] \in 0 .. 1 /\ deliveries'[t] \in 0 .. 1
           /\ deliveries[t] = 1 => Own(t) \notin Delivers(trk) /\ deliveries'[t] = 1
           /\ deliveries'[t] = 1 => deliveries[t] = 1 \/ Own(t) \in Delivers(trk)
           /\ Own(t) \in Delivers(trk) =>
                 deliveries[t] = 0 /\ deliveries'[t] = 1 /\ t \in issued
<1>1. /\ t \in Nat /\ Own(t).id = t /\ Own(t).source = "own"
      /\ deliveries'[t] = deliveries[t] + (IF Own(t) \in Delivers(trk) THEN 1 ELSE 0)
      /\ Own(t) \in Delivers(trk) => t \in issued
    BY EdgeTraces
<1>2. deliveries[t] \in 0 .. 1
    <2>1. deliveries[t] \in Nat /\ deliveries[t] <= 1
        BY EdgeTraces DEF OnceInv, AtMostOnce
    <2> QED BY <2>1
<1>3. ASSUME Own(t) \in Delivers(trk) PROVE deliveries[t] = 0
    <2>1. /\ trk.arrival # <<>> /\ trk.arrival[1].who = Own(t)
          /\ ~(Recorded(trk, Own(t)) /\ ~Expired(trk, Own(t)))
        BY <1>3, DeliversOne DEF TraceInv
    <2>2. deliveries[t] # 1
        BY <2>1 DEF OnceInv, Protected
    <2> QED BY <1>2, <2>2
<1> QED BY <1>1, <1>2, <1>3

LEMMA DeliveredKeeps ==
    ASSUME CountInv, TraceInv, NEW i, NEW commit, NEW arriving,
           OnceInputs(i, commit, arriving), OnceStep(i, commit, arriving)
    PROVE  DeliveredFirst'
<1>1. DeliveredFirst /\ SlotsHold
    BY DEF TraceInv
<1>2. issued \subseteq issued' /\ issued' \subseteq Txn
    BY <1>1 DEF OnceStep, OnceInputs, Issues, DeliveredFirst
<1>3. deliveries' \in [Txn -> Nat]
    <2>1. \A t \in Txn : deliveries[t] + (IF Own(t) \in Delivers(trk) THEN 1 ELSE 0) \in Nat
        BY <1>1 DEF DeliveredFirst
    <2> QED BY <2>1 DEF OnceStep
<1>4. completions' \in [Txn -> Nat]
    <2>1. \A t \in Txn : completions[t]
                + (IF Succeeds(src) /\ src.decision[1].id = t THEN 1 ELSE 0) \in Nat
        BY <1>1 DEF DeliveredFirst
    <2> QED BY <2>1 DEF OnceStep
<1>5. \A t \in issued : t \in Txn /\ (deliveries[t] > 0 => deliveries'[t] > 0)
    BY <1>1, EdgeTraces DEF DeliveredFirst
<1>6. ASSUME NEW t \in Txn
      PROVE  /\ deliveries'[t] > 0 => t \in issued'
             /\ completions'[t] > 0 => deliveries'[t] > 0
             /\ Recorded(trk', Own(t)) => deliveries'[t] > 0
    <2>1. deliveries'[t] > 0 => t \in issued'
        BY <1>1, <1>2, EdgeTraces DEF DeliveredFirst
    <2>2. completions'[t] > 0 => deliveries'[t] > 0
        <3>1. completions'[t] > 0 => completions[t] > 0 \/ deliveries[t] > 0
            BY EdgeCompletes
        <3> QED BY <1>1, <3>1, EdgeTraces DEF DeliveredFirst
    <2>3. Recorded(trk', Own(t)) => deliveries'[t] > 0
        BY <1>1, EdgeTraces, EntryKeeps DEF DeliveredFirst
    <2> QED BY <2>1, <2>2, <2>3
<1>7. src'.send # <<>> => src'.send[1].id \in issued'
    <2>1. Kept(i) => src'.send = src.send /\ src.send # <<>>
        BY DEF Kept
    <2>2. ASSUME NEW k \in Sendable(src), Loaded(i, k) PROVE src'.send[1].id \in issued
        BY <1>1, <2>2 DEF Loaded, Command, Sendable, SlotsHold
    <2>3. Emptied(i) => src'.send = <<>>
        BY DEF Emptied
    <2> QED BY <1>1, <1>2, <2>1, <2>2, <2>3, SendMoves DEF DeliveredFirst
<1>8. ASSUME NEW c \in copies' PROVE \E t \in issued' : c.who = Own(t)
    <2>1. \/ \E old \in copies : c.who = old.who
          \/ src.send # <<>> /\ c.who = Own(src.send[1].id)
        BY <1>8 DEF OnceStep, Handed
    <2> QED BY <1>1, <1>2, <2>1 DEF DeliveredFirst
<1>9. \A o \in others' : o.source = "other"
    BY <1>1 DEF DeliveredFirst, OnceStep
<1>10. ASSUME NEW a \in acks' PROVE a.id \in issued' /\ deliveries'[a.id] > 0
    <2>1. CASE \E old \in acks : a.id = old.id
        BY <1>1, <1>2, <1>5, <2>1 DEF DeliveredFirst
    <2>2. CASE trk.ack # <<>> /\ trk.ack[1].who.source = "own" /\ a.id = trk.ack[1].who.id
        <3>1. PICK t \in issued : trk.ack[1].who = Own(t) /\ deliveries[t] > 0
            BY <1>1, <2>2 DEF DeliveredFirst
        <3>2. a.id = t
            BY <2>2, <3>1 DEF Own
        <3> QED BY <1>2, <1>5, <3>1, <3>2
    <2> QED BY <1>10, <2>1, <2>2 DEF OnceStep
<1>11. src'.ack # <<>> => src'.ack[1].id \in issued' /\ deliveries'[src'.ack[1].id] > 0
    <2>1. src'.ack = Decoded(commit) /\ (commit = <<>> \/ \E a \in acks : commit = <<a>>)
        BY EdgeSource DEF OnceInputs
    <2>2. src'.ack # <<>> => \E a \in acks : src'.ack[1].id = a.id
        BY <2>1 DEF Decoded
    <2> QED BY <1>1, <1>2, <1>5, <2>2 DEF DeliveredFirst
<1>12. src'.decision # <<>> =>
          src'.decision[1].id \in issued' /\ deliveries'[src'.decision[1].id] > 0
    <2>1. src'.decision # <<>> => src.ack # <<>> /\ src'.decision[1].id = src.ack[1].id
        BY EdgeSource
    <2> QED BY <1>1, <1>2, <1>5, <2>1 DEF DeliveredFirst
<1>13. trk'.arrival # <<>> /\ trk'.arrival[1].who.source = "own" =>
          \E t \in issued' : trk'.arrival[1].who = Own(t)
    <2>1. SUFFICES ASSUME trk'.arrival # <<>>, trk'.arrival[1].who.source = "own"
                   PROVE  \E t \in issued' : trk'.arrival[1].who = Own(t)
        OBVIOUS
    <2>2. PICK c : trk'.arrival[1].who = c.who /\ (c \in copies \/ c.who \in others)
        BY <2>1, EdgeArrival
    <2>3. c.who \notin others
        BY <1>1, <2>1, <2>2 DEF DeliveredFirst
    <2> QED BY <1>1, <1>2, <2>2, <2>3 DEF DeliveredFirst
<1>14. trk'.ack # <<>> /\ trk'.ack[1].who.source = "own" =>
          \E t \in issued' : trk'.ack[1].who = Own(t) /\ deliveries'[t] > 0
    <2>1. SUFFICES ASSUME trk'.ack # <<>>, trk'.ack[1].who.source = "own"
                   PROVE  \E t \in issued' : trk'.ack[1].who = Own(t) /\ deliveries'[t] > 0
        OBVIOUS
    <2>2. trk'.ack = trk.arrival
        BY DEF OnceStep, TrackerEdge
    <2>3. PICK t \in issued : trk.arrival[1].who = Own(t)
        BY <1>1, <2>1, <2>2 DEF DeliveredFirst
    <2>4. Own(t) \in Delivers(trk) \/ Recorded(trk, Own(t))
        BY <2>1, <2>2, <2>3, DeliversOne DEF TraceInv
    <2>5. t \in Txn /\ deliveries'[t] > 0
        BY <1>1, <1>5, <2>4, EdgeTraces DEF DeliveredFirst
    <2> QED BY <1>2, <2>2, <2>3, <2>5
<1> QED BY <1>2, <1>3, <1>4, <1>6, <1>7, <1>8, <1>9, <1>10, <1>11, <1>12, <1>13, <1>14
        DEF DeliveredFirst
-----------------------------------------------------------------------------
(* Protection. *)

\* A protected entry is one cycle older after the edge.
LEMMA AgeMoves ==
    ASSUME CountInv, TraceInv, OnceInv, NEW i, NEW commit, NEW arriving,
           OnceInputs(i, commit, arriving), OnceStep(i, commit, arriving), NEW t \in Txn
    PROVE  /\ Age(t) \in Nat /\ Age(t)' \in Nat /\ HistoryGrace \in Nat
           /\ Expired(trk, Own(t)) <=> Age(t) >= HistoryGrace
           /\ Expired(trk', Own(t)) <=> Age(t)' >= HistoryGrace
           /\ Recorded(trk, Own(t)) /\ Age(t) < HistoryGrace =>
                 Recorded(trk', Own(t)) /\ Age(t)' = Age(t) + 1
<1>1. Own(t).id \in Nat
    BY EdgeDelivers
<1>2. HistoryGrace \in Nat /\ Age(t) \in Nat /\ Age(t)' \in Nat
    BY <1>1, EntryKeeps, TrackerAssumption DEF Age
<1>3. /\ Expired(trk, Own(t)) <=> Age(t) >= HistoryGrace
      /\ Expired(trk', Own(t)) <=> Age(t)' >= HistoryGrace
    BY DEF Expired, Age
<1>4. Recorded(trk, Own(t)) /\ ~Expired(trk, Own(t)) =>
         Recorded(trk', Own(t)) /\ Age(t)' = Age(t) + 1
    BY <1>1, EntryKeeps DEF Age
<1>5. Age(t) < HistoryGrace => ~Expired(trk, Own(t))
    BY <1>2, <1>3
<1> QED BY <1>2, <1>3, <1>4, <1>5

\* What is delivered at the edge is still retained, and its entry is new.
LEMMA JustDelivered ==
    ASSUME CountInv, TraceInv, OnceInv, EnoughGrace, NEW i, NEW commit, NEW arriving,
           OnceInputs(i, commit, arriving), OnceStep(i, commit, arriving), NEW t \in Txn,
           Own(t) \in Delivers(trk)
    PROVE  /\ Recorded(trk', Own(t)) /\ Age(t)' = 0
           /\ Retained(t) /\ src.slots[SlotOf(t)].quanta \in Timeouts
           /\ MaxStall + 1 + CopyLife < HistoryGrace /\ CopyLife < HistoryGrace
<1>1. Recorded(trk', Own(t)) /\ Age(t)' = 0
    BY EdgeDelivers, EntryKeeps DEF Age
<1>2. deliveries[t] = 0 /\ t \in issued
    BY EdgeDelivers
<1>3. completions[t] = 0
    <2>1. completions[t] \in Nat /\ (completions[t] > 0 => deliveries[t] > 0)
        BY DEF TraceInv, DeliveredFirst
    <2> QED BY <1>2, <2>1
<1>4. Retained(t)
    BY <1>2, <1>3 DEF TraceInv, SlotsHold
<1>5. SlotOf(t) \in Slots
    BY EdgeCompletes
<1>6. src.slots[SlotOf(t)].quanta \in Timeouts
    BY <1>4, <1>5 DEF TraceInv, SlotsHold, Retained
<1>7. MaxStall + 1 + CopyLife < HistoryGrace /\ CopyLife < HistoryGrace
    <2> DEFINE h == Horizon(src.slots[SlotOf(t)].quanta)
    <2>1. /\ h \in Nat /\ MaxStall \in Nat /\ CopyLife \in Nat /\ HistoryGrace \in Nat
          /\ MaxStall + h + CopyLife + 1 < HistoryGrace
        BY <1>6, GraceCovers
    <2> HIDE DEF h
    <2> QED BY <2>1
<1> QED BY <1>1, <1>4, <1>6, <1>7

\* A retained transaction that may be sent again is done with that in time.
LEMMA RetainedProtected ==
    ASSUME CountInv, TraceInv, OnceInv, EnoughGrace, NEW i, NEW commit, NEW arriving,
           OnceInputs(i, commit, arriving), OnceStep(i, commit, arriving), NEW t \in Txn,
           deliveries'[t] = 1, Retained(t)', MayResend(src'.slots[SlotOf(t)])
    PROVE  /\ Recorded(trk', Own(t))
           /\ Age(t)' + Remaining(src', stalled', SlotOf(t), HistoryGrace - Age(t)') + CopyLife
                 < HistoryGrace
<1> DEFINE k == SlotOf(t)
           wait == src'.slots[k].quanta
           rest == Remaining(src', stalled', k, HistoryGrace - Age(t)')
<1>1. /\ src.slots \in [Slots -> SlotRecord] /\ src'.slots \in [Slots -> SlotRecord]
      /\ src'.slots[k] = SlotAfter(src, i, k) /\ k \in Slots /\ i.ready \in BOOLEAN
    BY EdgeSource, EdgeCompletes
<1>2. Retained(t)
    <2>1. t \in issued
        BY EdgeDelivers DEF TraceInv, DeliveredFirst
    <2>2. SUFFICES ASSUME ~src.slots[k].valid PROVE FALSE
        <3>1. SUFFICES ASSUME src.slots[k].valid PROVE src.slots[k].id = t
            BY <2>2 DEF Retained
        <3>2. CompletedSlot(src, k) /\ i.reset = <<>> => ~SlotAfter(src, i, k).valid
            BY <1>1, <3>1, SlotMoves DEF FreeSlot
        <3>3. SameTxn(SlotAfter(src, i, k), src.slots[k])
            BY <1>1, <3>1, <3>2, SlotMoves DEF Stays, Retained
        <3> QED BY <1>1, <3>3 DEF SameTxn, Retained
    <2>3. ~(src.slots[k].cooldown > 0)
        <3>1. src.slots[k].cooldown > 0 => ~SlotAfter(src, i, k).valid
            BY <1>1, <2>2, SlotMoves DEF FreeSlot
        <3> QED BY <1>1, <3>1 DEF Retained
    <2>4. Issues(src, i) /\ SlotAfter(src, i, k) = NewSlot(i.issue[1])
        <3>1. SlotAfter(src, i, k) = IF Issues(src, i) /\ SlotOf(i.issue[1].id) = k
                                     THEN NewSlot(i.issue[1]) ELSE src.slots[k]
            BY <1>1, <2>2, <2>3, SlotMoves
        <3>2. SlotAfter(src, i, k).valid
            BY <1>1 DEF Retained
        <3> QED BY <2>2, <3>1, <3>2
    <2>5. i.issue[1].id = t /\ (t \notin issued \/ Retained(t))
        BY <1>1, <2>4 DEF Retained, NewSlot, OnceInputs, Issues
    <2> QED BY <2>1, <2>2, <2>5 DEF Retained
<1>3. i.reset = <<>> => ~CompletedSlot(src, k)
    <2>1. CompletedSlot(src, k) /\ i.reset = <<>> => ~SlotAfter(src, i, k).valid
        BY <1>1, <1>2, SlotMoves DEF FreeSlot, Retained
    <2> QED BY <1>1, <2>1 DEF Retained
<1>4. stalled' \in 0 .. MaxStall
    BY StallKeeps DEF StallHolds
<1>5. /\ wait \in Timeouts /\ rest \in Nat /\ rest <= Horizon(wait) + Taken(src', stalled')
    <2>1. SlotsHold'
        BY SlotsKeep
    <2>2. LET new == src'.slots[k] IN
          /\ new \in SlotRecord /\ new.quanta \in Timeouts /\ new.quanta > 0
          /\ new.retry <= RetryMax /\ (~new.pending => new.age < new.quanta)
        BY <1>1, <2>1 DEF SlotsHold, Retained
    <2> QED BY <1>1, <1>4, <2>2, RemainingBound
<1>6. /\ Horizon(wait) \in Nat /\ MaxStall \in Nat /\ RerouteLimit \in Nat
      /\ CopyLife \in Nat /\ HistoryGrace \in Nat
      /\ RerouteLimit + Horizon(wait) + CopyLife + 1 < HistoryGrace
      /\ MaxStall + Horizon(wait) + CopyLife + 1 < HistoryGrace
      /\ RerouteLimit < HistoryGrace /\ CopyLife < HistoryGrace
    BY <1>5, GraceCovers
<1>7. /\ Age(t) \in Nat
      /\ Recorded(trk, Own(t)) /\ Age(t) < HistoryGrace =>
            Recorded(trk', Own(t)) /\ Age(t)' = Age(t) + 1
    BY AgeMoves
<1>8. /\ Taken(src', stalled') \in Nat /\ Taken(src', stalled') <= MaxStall + 1
      /\ i.reset # <<>> => Taken(src', stalled') = 0
    <2>1. i.reset # <<>> => src'.send = <<>>
        BY EdgeSource DEF SendAfter
    <2> QED BY <1>4, <1>6, <2>1 DEF Taken
<1>9. CASE Own(t) \in Delivers(trk)
    <2>1. Recorded(trk', Own(t)) /\ Age(t)' = 0
        BY <1>9, JustDelivered
    <2> HIDE DEF wait, rest
    <2>2. Age(t)' + rest + CopyLife < HistoryGrace
        BY <1>5, <1>6, <1>8, <2>1
    <2> QED BY <2>1, <2>2 DEF rest
<1>10. CASE Own(t) \notin Delivers(trk) /\ i.reset # <<>>
    <2>1. deliveries[t] = 1
        BY <1>10, EdgeDelivers
    <2>2. Recorded(trk, Own(t)) /\ Age(t) <= RerouteLimit
        BY <1>2, <1>10, <2>1 DEF OnceInputs
    <2>3. Recorded(trk', Own(t)) /\ Age(t)' = Age(t) + 1
        BY <1>6, <1>7, <2>2
    <2>4. Taken(src', stalled') = 0
        BY <1>8, <1>10
    <2> HIDE DEF wait, rest
    <2>5. rest <= Horizon(wait)
        BY <1>5, <1>6, <2>4
    <2>6. Age(t)' + rest + CopyLife < HistoryGrace
        BY <1>5, <1>6, <1>7, <2>2, <2>3, <2>5
    <2> QED BY <2>3, <2>6 DEF rest
<1>11. CASE Own(t) \notin Delivers(trk) /\ i.reset = <<>>
    <2> DEFINE g == HistoryGrace - Age(t)
               before == Remaining(src, stalled, k, g)
    <2>1. deliveries[t] = 1
        BY <1>11, EdgeDelivers
    <2>2. src.slots[k].valid
        BY <1>2 DEF Retained
    <2>3. MayResend(src.slots[k])
        <3>1. HistoryGrace \in 1 .. HistoryGrace
            BY <1>6
        <3> QED BY <1>1, <1>3, <1>11, <2>2, <3>1, RemainingFalls
    <2>4. Recorded(trk, Own(t)) /\ Age(t) + before + CopyLife < HistoryGrace
        BY <1>2, <2>1, <2>3 DEF OnceInv, Protected
    <2>5. before \in Nat
        <3>1. SlotsHold /\ stalled \in 0 .. MaxStall
            BY DEF TraceInv, OnceInv, StallHolds
        <3>2. LET slot == src.slots[k] IN
              /\ slot \in SlotRecord /\ slot.quanta \in Timeouts /\ slot.quanta > 0
              /\ slot.retry <= RetryMax /\ (~slot.pending => slot.age < slot.quanta)
            BY <1>1, <2>2, <3>1 DEF SlotsHold
        <3> QED BY <1>1, <2>3, <3>1, <3>2, RemainingBound
    <2>6. Age(t) < HistoryGrace /\ g \in 1 .. HistoryGrace
        <3> HIDE DEF before
        <3>1. Age(t) < HistoryGrace
            BY <1>6, <1>7, <2>4, <2>5
        <3> QED BY <1>6, <1>7, <3>1
    <2>7. /\ Remaining(src', stalled', k, g - 1) + 1 <= before
        <3> HIDE DEF g
        <3> QED BY <1>1, <1>3, <1>11, <2>2, <2>6, RemainingFalls
    <2>8. Recorded(trk', Own(t)) /\ Age(t)' = Age(t) + 1
        BY <1>7, <2>4, <2>6
    <2>9. g - 1 = HistoryGrace - Age(t)'
        BY <1>6, <1>7, <2>8
    <2>10. rest + 1 <= before
        BY <2>7, <2>9
    <2> HIDE DEF g, before, rest
    <2>11. Age(t)' + rest + CopyLife < HistoryGrace
        BY <1>5, <1>6, <1>7, <2>4, <2>5, <2>8, <2>10
    <2> QED BY <2>8, <2>11 DEF rest
<1> QED BY <1>9, <1>10, <1>11

\* A transaction in the send register is handed over in time.
LEMMA SendProtected ==
    ASSUME CountInv, TraceInv, OnceInv, EnoughGrace, NEW i, NEW commit, NEW arriving,
           OnceInputs(i, commit, arriving), OnceStep(i, commit, arriving), NEW t \in Txn,
           deliveries'[t] = 1, src'.send # <<>>, src'.send[1].id = t
    PROVE  /\ Recorded(trk', Own(t))
           /\ Age(t)' + Taken(src', stalled') + CopyLife < HistoryGrace
<1>1. /\ Age(t) \in Nat /\ HistoryGrace \in Nat /\ CopyLife \in Nat /\ MaxStall \in Nat
      /\ Recorded(trk, Own(t)) /\ Age(t) < HistoryGrace =>
            Recorded(trk', Own(t)) /\ Age(t)' = Age(t) + 1
    BY AgeMoves, TransactionsAssumption
<1>2. stalled \in 0 .. MaxStall /\ stalled' \in 0 .. MaxStall
    BY StallKeeps DEF OnceInv, StallHolds
<1>3. /\ Taken(src', stalled') = MaxStall - stalled' + 1
      /\ Taken(src', stalled') \in Nat /\ Taken(src', stalled') <= MaxStall + 1
    <2>1. Taken(src', stalled') = MaxStall - stalled' + 1
        BY Zenon DEF Taken
    <2>2. stalled' \in Nat /\ stalled' <= MaxStall
        BY <1>1, <1>2
    <2>3. \A m, s \in Nat : s <= m => m - s + 1 \in Nat /\ m - s + 1 <= m + 1
        OBVIOUS
    <2>4. MaxStall \in Nat
        BY <1>1
    <2> QED BY <2>1, <2>2, <2>3, <2>4, Zenon
<1>4. CASE Own(t) \in Delivers(trk)
    <2>1. /\ Recorded(trk', Own(t)) /\ Age(t)' = 0
          /\ MaxStall + 1 + CopyLife < HistoryGrace
        BY <1>4, JustDelivered
    <2> QED BY <1>1, <1>3, <2>1
<1>5. CASE deliveries[t] = 1 /\ Kept(i)
    <2>1. /\ src.send # <<>> /\ src.send[1].id = t /\ stalled' = stalled + 1
        BY <1>5 DEF Kept
    <2>2. Recorded(trk, Own(t)) /\ Age(t) + Taken(src, stalled) + CopyLife < HistoryGrace
        BY <1>5, <2>1 DEF OnceInv, Protected
    <2>3. Taken(src, stalled) = MaxStall - stalled + 1
        BY <2>1 DEF Taken
    <2>4. Age(t) < HistoryGrace
        BY <1>1, <1>2, <2>2, <2>3
    <2> QED BY <1>1, <1>2, <1>3, <2>1, <2>2, <2>3, <2>4
<1>6. ASSUME deliveries[t] = 1, NEW k \in Sendable(src), Loaded(i, k)
      PROVE  /\ Recorded(trk', Own(t))
             /\ Age(t)' + Taken(src', stalled') + CopyLife < HistoryGrace
    <2> DEFINE slot == src.slots[k]
               g == HistoryGrace - Age(t)
               n == Cardinality(Sends(src, g))
    <2>1. /\ k \in Slots /\ slot.valid /\ slot.pending /\ slot.id = t
          /\ src.send = <<>>
        BY <1>6 DEF Sendable, Loaded, Command
    <2>2. /\ slot \in SlotRecord /\ SlotOf(slot.id) = k /\ slot.quanta > 0
          /\ slot.retry <= RetryMax /\ slot.retry \in Nat
        BY <2>1, EdgeSource DEF TraceInv, SlotsHold, SlotRecord
    <2>3. Retained(t) /\ SlotOf(t) = k /\ MayResend(slot)
        BY <2>1, <2>2 DEF Retained, MayResend
    <2>4. /\ Recorded(trk, Own(t))
          /\ Age(t) + Remaining(src, stalled, k, g) + CopyLife < HistoryGrace
        BY <1>6, <2>3 DEF OnceInv, Protected
    <2>5. Waits(slot) \in Nat
        BY <2>1, <2>2, <2>3, WaitsBound
    <2>6. n \in Nat /\ n >= 1
        <3>1. RetryMax \in Nat /\ RetryMax >= slot.retry
            BY <2>2, SourceAssumption
        <3>2. Left(src, k, g) = RetryMax - slot.retry + 1
            BY <2>1, <2>2, <3>1 DEF Left
        <3>3. 1 <= Left(src, k, g) /\ 1 \in 1 .. (RetryMax + 1)
            BY <2>2, <3>1, <3>2
        <3>4. <<k, 1>> \in Sends(src, g)
            <4>1. <<k, 1>>[1] = k /\ <<k, 1>>[2] = 1
                OBVIOUS
            <4>2. <<k, 1>> \in Slots \X (1 .. (RetryMax + 1))
                BY <2>1, <3>3
            <4> QED BY <3>3, <4>1, <4>2 DEF Sends
        <3>5. IsFiniteSet(Sends(src, g)) /\ n \in Nat
            BY SendsFinite
        <3>6. n # 0
            BY <3>4, <3>5, FS_EmptySet
        <3> QED BY <3>5, <3>6
    <2>7. /\ (MaxStall + 2) * n \in Nat /\ (MaxStall + 2) * n >= MaxStall + 2
        <3> HIDE DEF n
        <3>1. (MaxStall + 2) * 1 <= (MaxStall + 2) * n /\ (MaxStall + 2) * n \in Nat
            BY <1>1, <2>6, TimesMonotone
        <3> QED BY <1>1, <3>1
    <2>8. Remaining(src, stalled, k, g) = (MaxStall + 2) * n + 0 + Waits(slot)
        BY <2>1 DEF Remaining, Taken
    <2> DEFINE a == (MaxStall + 2) * n
    <2>9. a \in Nat /\ a >= MaxStall + 2 /\ Remaining(src, stalled, k, g) = a + Waits(slot)
        <3> HIDE DEF slot
        <3> QED BY <2>5, <2>7, <2>8
    <2> HIDE DEF a, n, slot, g
    <2>10. Age(t) + MaxStall + 2 + CopyLife < HistoryGrace
        BY <1>1, <2>4, <2>5, <2>9
    <2>11. Recorded(trk', Own(t)) /\ Age(t)' = Age(t) + 1
        BY <1>1, <2>4, <2>10
    <2> QED BY <1>1, <1>3, <2>10, <2>11
<1>7. deliveries[t] = 1 \/ Own(t) \in Delivers(trk)
    BY EdgeDelivers
<1>8. Kept(i) \/ \E k \in Sendable(src) : Loaded(i, k)
    BY SendMoves DEF Emptied
<1> QED BY <1>4, <1>5, <1>6, <1>7, <1>8

\* What is under way arrives in time.
LEMMA CopyProtected ==
    ASSUME CountInv, TraceInv, OnceInv, EnoughGrace, NEW i, NEW commit, NEW arriving,
           OnceInputs(i, commit, arriving), OnceStep(i, commit, arriving), NEW t \in Txn,
           deliveries'[t] = 1, NEW c \in copies', c.who = Own(t)
    PROVE  Recorded(trk', Own(t)) /\ Age(t)' + c.life < HistoryGrace
<1>1. /\ Age(t) \in Nat /\ HistoryGrace \in Nat /\ CopyLife \in Nat \ {0} /\ MaxStall \in Nat
      /\ Recorded(trk, Own(t)) /\ Age(t) < HistoryGrace =>
            Recorded(trk', Own(t)) /\ Age(t)' = Age(t) + 1
    BY AgeMoves, TransactionsAssumption
<1>2. stalled \in 0 .. MaxStall /\ c.life \in 1 .. CopyLife
    BY StallKeeps DEF OnceInv, StallHolds
<1>3. CASE Own(t) \in Delivers(trk)
    <2>1. Recorded(trk', Own(t)) /\ Age(t)' = 0 /\ CopyLife < HistoryGrace
        BY <1>3, JustDelivered
    <2> QED BY <1>1, <1>2, <2>1
<1>4. ASSUME deliveries[t] = 1, NEW old \in copies, old.life > 1, c.who = old.who,
             c.life = old.life - 1
      PROVE  Recorded(trk', Own(t)) /\ Age(t)' + c.life < HistoryGrace
    <2>1. Recorded(trk, Own(t)) /\ Age(t) + old.life < HistoryGrace
        BY <1>4 DEF OnceInv, Protected
    <2>2. old.life \in 1 .. CopyLife
        BY DEF OnceInv, StallHolds
    <2>3. Recorded(trk', Own(t)) /\ Age(t)' = Age(t) + 1
        BY <1>1, <2>1, <2>2
    <2> QED BY <1>1, <1>4, <2>1, <2>2, <2>3
<1>5. ASSUME deliveries[t] = 1, Handed(src, i), c.who = Own(src.send[1].id), c.life = CopyLife
      PROVE  Recorded(trk', Own(t)) /\ Age(t)' + c.life < HistoryGrace
    <2>1. src.send # <<>> /\ src.send[1].id = t
        <3>1. Own(t).id = t /\ Own(src.send[1].id).id = src.send[1].id
            BY DEF Own
        <3> QED BY <1>5, <3>1 DEF Handed
    <2>2. Recorded(trk, Own(t)) /\ Age(t) + Taken(src, stalled) + CopyLife < HistoryGrace
        BY <1>5, <2>1 DEF OnceInv, Protected
    <2>3. Taken(src, stalled) \in Nat /\ Taken(src, stalled) >= 1
        BY <1>1, <1>2, <2>1 DEF Taken
    <2>4. Age(t) + 1 + CopyLife < HistoryGrace
        BY <1>1, <2>2, <2>3
    <2>5. Recorded(trk', Own(t)) /\ Age(t)' = Age(t) + 1
        BY <1>1, <2>2, <2>4
    <2> QED BY <1>1, <1>5, <2>4, <2>5
<1>6. deliveries[t] = 1 \/ Own(t) \in Delivers(trk)
    BY EdgeDelivers
<1>7. \/ \E old \in copies : old.life > 1 /\ c.who = old.who /\ c.life = old.life - 1
      \/ Handed(src, i) /\ c.who = Own(src.send[1].id) /\ c.life = CopyLife
    BY DEF OnceStep
<1> QED BY <1>3, <1>4, <1>5, <1>6, <1>7

LEMMA ArrivalProtected ==
    ASSUME CountInv, TraceInv, OnceInv, EnoughGrace, NEW i, NEW commit, NEW arriving,
           OnceInputs(i, commit, arriving), OnceStep(i, commit, arriving), NEW t \in Txn,
           deliveries'[t] = 1, trk'.arrival # <<>>, trk'.arrival[1].who = Own(t)
    PROVE  Recorded(trk', Own(t)) /\ ~Expired(trk', Own(t))
<1>1. /\ Age(t) \in Nat /\ Age(t)' \in Nat /\ HistoryGrace \in Nat /\ CopyLife \in Nat
      /\ Expired(trk', Own(t)) <=> Age(t)' >= HistoryGrace
      /\ Recorded(trk, Own(t)) /\ Age(t) < HistoryGrace =>
            Recorded(trk', Own(t)) /\ Age(t)' = Age(t) + 1
    BY AgeMoves, TransactionsAssumption
<1>2. CASE Own(t) \in Delivers(trk)
    <2>1. Recorded(trk', Own(t)) /\ Age(t)' = 0 /\ CopyLife < HistoryGrace
        BY <1>2, JustDelivered
    <2> QED BY <1>1, <2>1
<1>3. CASE deliveries[t] = 1
    <2>1. PICK c : trk'.arrival[1].who = c.who /\ (c \in copies \/ c.who \in others)
        BY EdgeArrival
    <2>2. c \in copies
        <3>1. Own(t).source = "own"
            BY EdgeDelivers
        <3> QED BY <2>1, <3>1 DEF TraceInv, DeliveredFirst
    <2>3. Recorded(trk, Own(t)) /\ Age(t) + c.life < HistoryGrace /\ c.life \in 1 .. CopyLife
        BY <1>3, <2>1, <2>2 DEF OnceInv, Protected, StallHolds
    <2>4. Recorded(trk', Own(t)) /\ Age(t)' = Age(t) + 1
        BY <1>1, <2>3
    <2> QED BY <1>1, <2>3, <2>4
<1> QED BY <1>2, <1>3, EdgeDelivers

LEMMA ProtectedKeeps ==
    ASSUME CountInv, TraceInv, OnceInv, EnoughGrace, NEW i, NEW commit, NEW arriving,
           OnceInputs(i, commit, arriving), OnceStep(i, commit, arriving)
    PROVE  Protected'
<1>1. SUFFICES ASSUME NEW t \in Txn, deliveries'[t] = 1
               PROVE  /\ Retained(t)' /\ MayResend(src'.slots[SlotOf(t)]) =>
                         /\ Recorded(trk', Own(t))
                         /\ Age(t)' + Remaining(src', stalled', SlotOf(t),
                                                HistoryGrace - Age(t)') + CopyLife
                               < HistoryGrace
                      /\ src'.send # <<>> /\ src'.send[1].id = t =>
                            /\ Recorded(trk', Own(t))
                            /\ Age(t)' + Taken(src', stalled') + CopyLife < HistoryGrace
                      /\ \A c \in copies' : c.who = Own(t) =>
                            Recorded(trk', Own(t)) /\ Age(t)' + c.life < HistoryGrace
                      /\ trk'.arrival # <<>> /\ trk'.arrival[1].who = Own(t) =>
                            Recorded(trk', Own(t)) /\ ~Expired(trk', Own(t))
    BY Zenon DEF Protected
<1> QED BY <1>1, RetainedProtected, SendProtected, CopyProtected, ArrivalProtected
-----------------------------------------------------------------------------
(* The invariant. *)

LEMMA OnceInit == Init => TraceInv /\ OnceInv
<1> SUFFICES ASSUME Init PROVE TraceInv /\ OnceInv
    OBVIOUS
<1>1. /\ \A k \in Slots : ~src.slots[k].valid
      /\ src.send = <<>> /\ src.ack = <<>> /\ src.decision = <<>>
    BY DEF Init, SourceReset, FreeSlot
<1>2. /\ \A k \in Indices : trk.history[k] = NoEntry
      /\ trk.arrival = <<>> /\ trk.ack = <<>>
    BY DEF Init, TrackerReset
<1>3. /\ issued = {} /\ copies = {} /\ acks = {} /\ stalled = 0 /\ others = Others
      /\ deliveries = [t \in Txn |-> 0] /\ completions = [t \in Txn |-> 0]
    BY DEF Init
<1>4. SlotsHold
    BY <1>1, <1>3 DEF SlotsHold
<1>5. SendHolds
    BY <1>1 DEF SendHolds
<1>6. DeliveredFirst
    <2>1. ASSUME NEW t \in Txn PROVE ~Recorded(trk, Own(t))
        <3>1. IndexOf(Own(t)) \in Indices
            BY TransactionsAssumption, TrackerAssumption DEF IndexOf, Indices, Own
        <3> QED BY <1>2, <3>1 DEF Recorded, Entry, NoEntry
    <2>2. \A o \in others : o.source = "other"
        BY <1>3, TransactionsAssumption
    <2>3. deliveries \in [Txn -> Nat] /\ completions \in [Txn -> Nat]
        BY <1>3
    <2> QED BY <1>1, <1>2, <1>3, <2>1, <2>2, <2>3 DEF DeliveredFirst
<1>7. HistoryHolds
    <2>1. IsEntry(NoEntry)
        BY TrackerAssumption DEF IsEntry, NoEntry
    <2> QED BY <1>2, <2>1 DEF HistoryHolds
<1>8. StallHolds
    BY <1>3, TransactionsAssumption DEF StallHolds
<1>9. AtMostOnce /\ Protected
    BY <1>3 DEF AtMostOnce, Protected
<1> QED BY <1>4, <1>5, <1>6, <1>7, <1>8, <1>9 DEF TraceInv, OnceInv

LEMMA OnceStutter ==
    ASSUME UNCHANGED vars
    PROVE  (TraceInv => TraceInv') /\ (OnceInv => OnceInv')
<1>1. /\ src' = src /\ trk' = trk /\ copies' = copies /\ acks' = acks /\ stalled' = stalled
      /\ others' = others /\ issued' = issued /\ deliveries' = deliveries
      /\ completions' = completions
    BY DEF vars, network, history
<1>2. SlotsHold => SlotsHold'
    BY <1>1, Zenon DEF SlotsHold, Retained
<1>3. SendHolds => SendHolds'
    BY <1>1, Zenon DEF SendHolds
<1>4. DeliveredFirst => DeliveredFirst'
    BY <1>1, Zenon DEF DeliveredFirst
<1>5. HistoryHolds => HistoryHolds'
    BY <1>1, Zenon DEF HistoryHolds
<1>6. StallHolds => StallHolds'
    BY <1>1, Zenon DEF StallHolds
<1>7. Protected => Protected'
    BY <1>1, Zenon DEF Protected, Retained, Age
<1>8. AtMostOnce => AtMostOnce'
    BY <1>1, Zenon DEF AtMostOnce
<1> QED BY <1>2, <1>3, <1>4, <1>5, <1>6, <1>7, <1>8 DEF TraceInv, OnceInv

LEMMA TraceKeeps ==
    ASSUME CountInv, TraceInv, [Next]_vars
    PROVE  TraceInv'
<1>1. CASE Next
    <2>1. PICK i, commit, arriving :
              OnceInputs(i, commit, arriving) /\ OnceStep(i, commit, arriving)
        BY <1>1, OnceEdge
    <2>2. SlotsHold' /\ DeliveredFirst' /\ HistoryHolds'
        BY <2>1, SlotsKeep, DeliveredKeeps, HistoryKeeps
    <2> QED BY <2>2 DEF TraceInv
<1> QED BY <1>1, OnceStutter

LEMMA OnceStepKeeps ==
    ASSUME CountInv, TraceInv, OnceInv, EnoughGrace, [Next]_vars
    PROVE  OnceInv'
<1>1. CASE Next
    <2>1. PICK i, commit, arriving :
              OnceInputs(i, commit, arriving) /\ OnceStep(i, commit, arriving)
        BY <1>1, OnceEdge
    <2>2. SendHolds' /\ StallHolds' /\ Protected'
        BY <2>1, SendKeeps, StallKeeps, ProtectedKeeps
    <2>3. \A t \in Txn : deliveries'[t] <= 1
        BY <2>1, EdgeDelivers
    <2> QED BY <2>2, <2>3 DEF OnceInv, AtMostOnce
<1> QED BY <1>1, OnceStutter

\* An edge delivers what was issued and never delivered, and completes what was
\* delivered.
LEMMA EdgeProgresses ==
    ASSUME CountInv, TraceInv, OnceInv, Next
    PROVE  Service!DeliversOnce /\ Service!CompletesDelivered
<1>1. PICK i, commit, arriving : OnceInputs(i, commit, arriving) /\ OnceStep(i, commit, arriving)
    BY OnceEdge
<1>2. issued \subseteq issued'
    BY <1>1 DEF OnceStep
<1>3. ASSUME NEW t \in Txn, deliveries'[t] # deliveries[t]
      PROVE  t \in issued /\ deliveries[t] = 0 /\ deliveries'[t] = 1
    <2>1. deliveries[t] \in 0 .. 1 /\ deliveries'[t] \in 0 .. 1
        BY <1>1, EdgeDelivers
    <2>2. Own(t) \in Delivers(trk)
        BY <1>1, <1>3, <2>1, EdgeDelivers
    <2> QED BY <1>1, <2>2, EdgeDelivers
<1>4. ASSUME NEW t \in Txn, completions'[t] # completions[t]
      PROVE  deliveries[t] = 1 /\ completions'[t] = completions[t] + 1
    <2>1. /\ completions'[t] = completions[t]
                + (IF Succeeds(src) /\ src.decision[1].id = t THEN 1 ELSE 0)
          /\ completions[t] \in Nat
          /\ Succeeds(src) /\ src.decision[1].id = t => deliveries[t] > 0
        BY <1>1, EdgeCompletes
    <2>2. Succeeds(src) /\ src.decision[1].id = t
        BY <1>4, <2>1
    <2>3. deliveries[t] = 1
        BY <1>1, <2>1, <2>2, EdgeDelivers
    <2> QED BY <2>1, <2>2, <2>3
<1> QED BY <1>2, <1>3, <1>4 DEF Service!DeliversOnce, Service!CompletesDelivered

\* kdlink_global_transaction_source.v:137-176 - whatever is lost, repeated or delayed,
\* however often the route changes and however short the grace periods are: a
\* transaction stays in the table until its completion has been reported, and it is
\* never reported completed before it was delivered.
THEOREM NothingIsLost == Spec => []NothingLost
<1>1. TraceInv => NothingLost
    <2>1. SUFFICES ASSUME TraceInv, NEW t \in issued
                   PROVE  /\ Retained(t) \/ completions[t] > 0
                          /\ completions[t] > 0 => deliveries[t] > 0
        BY DEF NothingLost
    <2>2. t \in Txn /\ completions[t] \in Nat
        BY <2>1 DEF TraceInv, DeliveredFirst
    <2>3. completions[t] = 0 => Retained(t)
        BY <2>1 DEF TraceInv, SlotsHold
    <2>4. completions[t] > 0 => deliveries[t] > 0
        BY <2>1, <2>2 DEF TraceInv, DeliveredFirst
    <2> QED BY <2>2, <2>3, <2>4
<1> QED BY <1>1, TraceKeeps, OnceInit, DecisionsHold, PTL DEF Spec

\* kdlink_global_commit_tracker.v:43 - while anything may still arrive of a delivered
\* transaction, a send of its slot that is still allowed, the command in the send
\* register, a copy on its way or the arrival in the pipeline, the history holds its
\* entry and protects it for long enough.
LEMMA HistoryOutlivesCopies ==
    ASSUME EnoughGrace
    PROVE  Spec => [](TraceInv /\ OnceInv)
<1>1. CountInv /\ TraceInv /\ OnceInv /\ [Next]_vars => TraceInv' /\ OnceInv'
    BY TraceKeeps, OnceStepKeeps
<1> QED BY <1>1, OnceInit, DecisionsHold, PTL DEF Spec

\* kdlink_requirements.md:286-291 (KDL-MD-005) - as long as the timeouts, the retry
\* budget and the changes of route fit into the grace periods, each transaction is
\* delivered once and completed only after its delivery, however copies and
\* acknowledgements are delayed, lost, repeated and reordered: the detailed model
\* implements KDDeliveryService.
THEOREM EveryTransactionOnce ==
    ASSUME EnoughGrace
    PROVE  Spec => DeliveredOnce
<1>1. Init => Service!SInit
    BY DEF Init, Service!SInit
<1>2. CountInv /\ TraceInv /\ OnceInv /\ [Next]_vars =>
         [Service!DeliversOnce /\ Service!CompletesDelivered]_Service!svars
    <2>1. CountInv /\ TraceInv /\ OnceInv /\ Next =>
             Service!DeliversOnce /\ Service!CompletesDelivered
        BY EdgeProgresses
    <2>2. UNCHANGED vars => UNCHANGED Service!svars
        BY DEF vars, history, Service!svars
    <2> QED BY <2>1, <2>2
<1> QED BY <1>1, <1>2, HistoryOutlivesCopies, DecisionsHold, PTL
        DEF Spec, DeliveredOnce, Service!RSpec
=============================================================================
