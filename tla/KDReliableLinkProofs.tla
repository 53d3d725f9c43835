------------------------ MODULE KDReliableLinkProofs ------------------------
(***************************************************************************)
(* Proofs about KDReliableLink for every number of packets, of one flit or *)
(* of more, every size of window, history, contexts, FIFOs and credits,    *)
(* any damage and loss of answers, and a consumer of any pace: what is     *)
(* handed over is whole and in order, and a packet of two flits or more is *)
(* handed over, at least once, before its slot is released.                *)
(*                                                                         *)
(* Sequence numbers are reused, so the argument is about age.  A packet is *)
(* Live from its first flit until a Later packet of its slot, of two flits *)
(* or more, is released; an answer to a packet of one flit may be a false  *)
(* one, and bounds nothing.  LinkInv says that everything under way, in    *)
(* either direction, is of a live packet (LiveInv, AnswerInv); that of two *)
(* packets of one slot the older is ahead of the younger in every FIFO     *)
(* (WireInv, OrderInv, ContextInv, AnswerInv); that a packet begun and no  *)
(* longer retained was handed over (DeliveryInv), and that each entry of   *)
(* the history names the latest packet of it that was (HistoryInv).        *)
(* WindowInv and ReplayInv say what the slots and the replay walk hold,    *)
(* GatherInv and ContextInv what the receiver has of a packet.             *)
(***************************************************************************)
EXTENDS KDReliableLink, SequenceTheorems, TLAPS

\* The receiver judges these by the history, at their first flit.
Multi(p) == Lengths[p + 1] > 1

\* When numbers and history tell packets apart.  The endpoint's sizes are 512
\* slots, 512 entries and 4096 numbers (REPLAY_SLOT_BITS, header_sequence).  A
\* packet of one flit may be acknowledged and never handed over, so a row of them
\* leaves an old number in the history: before it comes round, one packet of that
\* entry has two flits or more.
Unambiguous ==
    /\ HistorySlots % WindowSlots = 0
    /\ SeqSpace % HistorySlots = 0
    /\ \A p \in Packets : p >= SeqSpace =>
          \E q \in Packets :
             Multi(q) /\ p - SeqSpace < q /\ q < p /\ q % HistorySlots = p % HistorySlots
-----------------------------------------------------------------------------
(* Flits and packets. *)

FlitRecord ==
    [vc : Channels, seq : Nat, sop : BOOLEAN, eop : BOOLEAN, index : Nat, load : Nat,
     good : BOOLEAN]

\* A flit as the sender made it; only its channel may say that it is sent again.
Genuine ==
    {f \in FlitRecord :
        /\ f.load \in Packets /\ f.seq = f.load % SeqSpace
        /\ f.index < Lengths[f.load + 1]
        /\ f.sop = (f.index = 0)
        /\ f.eop = (f.index + 1 = Lengths[f.load + 1])
        /\ f.good = TRUE}

\* The flits of s are those of one packet, from the first on.
InOrder(s) ==
    \A n \in 1 .. Len(s) : s[n].load = s[1].load /\ s[n].index = n - 1

OnePacket(s) == s # <<>> /\ \A n \in 1 .. Len(s) : s[n].load = s[1].load

SlotRecord ==
    [valid : BOOLEAN, complete : BOOLEAN, seq : Nat, flits : Seq(Genuine), retries : Nat]
ReplayRecord == [slot : Slots, flits : Seq(Genuine)]
ContextRecord == [flits : Seq(Genuine), total : Nat]
AnswerRecord == [type : {"ack", "nack", "credit"}, seq : Nat, vc : Channels, total : Nat]

AtMostOne(s) == s = <<>> \/ s = <<s[1]>>

LinkTyped ==
    /\ next \in [packet : Nat, flit : Nat]
    /\ next.packet <= Len(Lengths)
    /\ next.flit > 0 => next.packet \in Packets /\ next.flit < Lengths[next.packet + 1]
    /\ deliveries \in [Packets -> Nat]
    /\ win.slots \in [Slots -> SlotRecord]
    /\ win.replaying \in Seq(ReplayRecord) /\ AtMostOne(win.replaying)
    /\ win.out \in Seq(Genuine) /\ AtMostOne(win.out)
    /\ wire \in Seq(Genuine)
    /\ rx.gathered \in Seq(Genuine) /\ rx.duplicate \in BOOLEAN /\ rx.drain \in BOOLEAN
    /\ rx.contexts \in Seq(ContextRecord)
    /\ rx.responses \in Seq(AnswerRecord) /\ reverse \in Seq(AnswerRecord)
    /\ rx.totals \in [Channels -> Nat]
    /\ DOMAIN rx.history = HistoryEntries
-----------------------------------------------------------------------------
(* What is known of a packet. *)

\* Packets are begun in order: this many of them.
BegunCount == next.packet + (IF next.flit > 0 THEN 1 ELSE 0)

\* Packet q has the slot of p after it.
Later(p, q) == p < q /\ q % WindowSlots = p % WindowSlots

\* A copy or an answer of a packet may be under way as long as no later packet of
\* its slot has been released, those of one flit left aside.
Live(p) ==
    /\ p < BegunCount
    /\ \A q \in Packets : Later(p, q) /\ Multi(q) /\ q < BegunCount => Retained(q)

Sent(f) == f.load < next.packet \/ (f.load = next.packet /\ f.index < next.flit)

Replayed(p) ==
    \/ win.out # <<>> /\ win.out[1].load = p
    \/ win.replaying # <<>> /\ win.replaying[1].flits[1].load = p
OnWire(p)    == \E n \in 1 .. Len(wire) : wire[n].load = p
Coming(p)    == Replayed(p) \/ OnWire(p)
Gathering(p) == rx.gathered # <<>> /\ rx.gathered[1].load = p
Waiting(p)   == \E n \in 1 .. Len(rx.contexts) : rx.contexts[n].flits[1].load = p
Delivered(p) == deliveries[p] > 0

Answers    == reverse \o rx.responses
Acks(a, p) == a.type = "ack" /\ a.seq = p % SeqSpace
-----------------------------------------------------------------------------
(* The inductive invariant. *)

SlotHolds(k) ==
    LET slot == win.slots[k]  p == slot.flits[1].load IN
    slot.valid =>
        /\ OnePacket(slot.flits)
        /\ p % WindowSlots = k /\ slot.seq = p % SeqSpace
        /\ p < BegunCount /\ BegunCount <= p + WindowSlots
        /\ slot.complete => p < next.packet

StoringHolds ==
    IF next.flit = 0 THEN win.storing = <<>>
    ELSE LET k == next.packet % WindowSlots IN
         /\ win.storing = <<k>>
         /\ win.slots[k].valid /\ win.slots[k].flits[1].load = next.packet

WindowInv == (\A k \in Slots : SlotHolds(k)) /\ StoringHolds

\* The packet being sent again; before its first flit is loaded no answer can have
\* released it.
ReplayInv ==
    /\ win.replaying # <<>> =>
        LET flits == win.replaying[1].flits  p == flits[1].load IN
        /\ OnePacket(flits) /\ p < next.packet
        /\ win.out = <<>> => Retained(p)
        /\ win.out # <<>> => win.out[1].load = p
    /\ win.out # <<>> => win.out[1].load < next.packet

WireInv ==
    /\ \A n \in 1 .. Len(wire) : Sent(wire[n])
    /\ \A n \in 1 .. Len(wire), m \in 1 .. Len(wire) :
          m < n => ~Later(wire[n].load, wire[m].load)

GatherInv ==
    rx.gathered # <<>> =>
        LET p == rx.gathered[1].load IN
        /\ InOrder(rx.gathered)
        /\ rx.duplicate => Delivered(p)

ContextInv ==
    /\ \A n \in 1 .. Len(rx.contexts) :
        LET flits == rx.contexts[n].flits  p == flits[1].load IN
        /\ flits # <<>> /\ InOrder(flits) /\ Len(flits) = Lengths[p + 1]
        /\ p < next.packet
    /\ \A n \in 1 .. Len(rx.contexts), m \in 1 .. Len(rx.contexts) :
        m < n => ~Later(rx.contexts[n].flits[1].load, rx.contexts[m].flits[1].load)

DeliveryInv ==
    \A p \in Packets :
        /\ Delivered(p) => p < next.packet
        /\ Multi(p) /\ p < BegunCount /\ ~Retained(p) => Delivered(p)

LiveInv == \A p \in Packets : Coming(p) \/ Gathering(p) \/ Waiting(p) => Live(p)

\* What is under way of a packet is older than what is of a later one of its slot.
OrderInv ==
    \A p \in Packets, later \in Packets :
        Later(p, later) =>
            /\ Replayed(p) => ~OnWire(later)
            /\ Gathering(later) => ~Coming(p)
            /\ Waiting(later) => ~Coming(p) /\ ~Gathering(p)
            /\ Delivered(later) => ~Coming(p) /\ ~Gathering(p) /\ ~Waiting(p)

\* An answer in earnest: of a packet sent to its end and, of two flits or more,
\* handed over.
Earned(p) == p < next.packet /\ (Multi(p) => Delivered(p))

AnswerInv ==
    /\ \A n \in 1 .. Len(Answers) :
        Answers[n].type = "ack" => \E p \in Packets : Live(p) /\ Earned(p) /\ Acks(Answers[n], p)
    /\ \A m \in 1 .. Len(Answers), n \in 1 .. Len(Answers), p \in Packets, later \in Packets :
        /\ m < n
        /\ Later(p, later) /\ Multi(later) /\ Live(p) /\ Live(later)
        /\ Acks(Answers[m], later)
        => ~Acks(Answers[n], p)

\* An entry of the history names the latest packet of it that was handed over.
Latest(p, h) ==
    /\ p % HistorySlots = h /\ Delivered(p)
    /\ \A q \in Packets : q % HistorySlots = h /\ q > p => ~Delivered(q)

HistoryInv ==
    \A h \in HistoryEntries :
        \/ /\ rx.history[h] = <<>>
           /\ \A p \in Packets : p % HistorySlots = h => ~Delivered(p)
        \/ \E p \in Packets : Latest(p, h) /\ rx.history[h] = <<p % SeqSpace>>

LinkInv ==
    /\ LinkTyped /\ WindowInv /\ ReplayInv /\ WireInv /\ GatherInv /\ ContextInv
    /\ DeliveryInv /\ LiveInv /\ OrderInv /\ AnswerInv /\ HistoryInv
-----------------------------------------------------------------------------
(* Arithmetic. *)

LEMMA ModParts ==
    ASSUME NEW m \in Nat \ {0}, NEW a \in Nat
    PROVE  /\ a % m \in 0 .. (m - 1) /\ a % m \in Nat
           /\ \E k \in Nat : a = m * k + (a % m)
<1>1. a % m \in 0 .. (m - 1)
    OBVIOUS
<1>2. a = m * (a \div m) + (a % m) /\ a \div m \in Nat
    OBVIOUS
<1>3. a % m \in Nat
    OBVIOUS
<1>4. \E k \in Nat : a = m * k + (a % m)
    BY <1>2
<1> QED BY <1>1, <1>3, <1>4

LEMMA ModOf ==
    ASSUME NEW m \in Nat \ {0}, NEW k \in Int, NEW r \in 0 .. (m - 1)
    PROVE  (m * k + r) % m = r
OBVIOUS

\* Reducing by a multiple of the modulus first leaves the residue.
LEMMA ModOfMultiple ==
    ASSUME NEW m \in Nat \ {0}, NEW n \in Nat \ {0}, NEW a \in Nat, n % m = 0
    PROVE  (a % n) % m = a % m
<1>1. PICK j \in Nat : n = m * j + (n % m)
    BY ModParts
<1>2. n = m * j
    BY <1>1
<1>3. PICK k \in Nat : a = n * k + (a % n)
    BY ModParts
<1> DEFINE b == a % n
<1>4. b \in Nat
    BY ModParts
<1>5. PICK l \in Nat : b = m * l + (b % m)
    BY <1>4, ModParts
<1> DEFINE r == b % m
<1>6. r \in 0 .. (m - 1)
    BY <1>4, ModParts
<1> HIDE DEF r, b
<1>7. n * k = m * (j * k) /\ m * (j * k) + m * l = m * (j * k + l)
      /\ j * k + l \in Int /\ m * l \in Int /\ m * (j * k) \in Int
    BY <1>2
<1>8. a = n * k + b /\ b = m * l + r
    BY <1>3, <1>5 DEF b, r
<1>9. a = m * (j * k + l) + r
    BY <1>6, <1>7, <1>8
<1>10. a % m = r
    BY <1>6, <1>7, <1>9, ModOf
<1> QED BY <1>10 DEF r, b

\* Numbers of one residue are a multiple of the modulus apart.
LEMMA ModApart ==
    ASSUME NEW m \in Nat \ {0}, NEW a \in Nat, NEW b \in Nat, a < b, a % m = b % m
    PROVE  b = a + m \/ b >= a + 2 * m
<1> DEFINE r == a % m
<1>1. PICK j \in Nat : a = m * j + r
    BY ModParts
<1>2. PICK k \in Nat : b = m * k + (b % m)
    BY ModParts
<1>3. r \in Nat
    BY ModParts
<1> HIDE DEF r
<1>4. b = m * k + r
    BY <1>2 DEF r
<1>5. m * j \in Int /\ m * k \in Int /\ m * (k - j) = m * k - m * j
    OBVIOUS
<1>6. b = a + m * (k - j)
    BY <1>1, <1>3, <1>4, <1>5
<1>7. k - j > 0
    <2>1. SUFFICES ASSUME k - j <= 0 PROVE FALSE
        OBVIOUS
    <2>2. m * (k - j) <= 0
        BY <2>1
    <2> QED BY <1>5, <1>6, <2>2
<1>8. CASE k - j = 1
    BY <1>6, <1>8
<1>9. CASE k - j >= 2
    <2>1. m * (k - j) >= m * 2
        BY <1>9
    <2> QED BY <1>5, <1>6, <2>1
<1> QED BY <1>7, <1>8, <1>9

LEMMA ModNext ==
    ASSUME NEW m \in Nat \ {0}, NEW a \in Nat
    PROVE  (a + m) % m = a % m
<1> DEFINE r == a % m
<1>1. PICK j \in Nat : a = m * j + r
    BY ModParts
<1>2. r \in 0 .. (m - 1)
    BY ModParts
<1> HIDE DEF r
<1>3. m * j \in Int /\ m * (j + 1) = m * j + m
    OBVIOUS
<1>4. a + m = m * (j + 1) + r
    BY <1>1, <1>2, <1>3
<1>5. (m * (j + 1) + r) % m = r
    BY <1>2, ModOf
<1> QED BY <1>4, <1>5 DEF r

\* The sizes, each a multiple of the one before.
LEMMA Sizes ==
    ASSUME Unambiguous
    PROVE  /\ WindowSlots \in Nat \ {0} /\ HistorySlots \in Nat \ {0} /\ SeqSpace \in Nat \ {0}
           /\ HistorySlots % WindowSlots = 0
           /\ SeqSpace % WindowSlots = 0 /\ SeqSpace % HistorySlots = 0
<1>1. /\ WindowSlots \in Nat \ {0} /\ HistorySlots \in Nat \ {0} /\ SeqSpace \in Nat \ {0}
      /\ HistorySlots % WindowSlots = 0 /\ SeqSpace % HistorySlots = 0
    BY WindowAssumption, RxCommitAssumption, LinkAssumption DEF Unambiguous
<1>2. (SeqSpace % HistorySlots) % WindowSlots = SeqSpace % WindowSlots
    BY <1>1, ModOfMultiple
<1>3. 0 % WindowSlots = 0
    BY <1>1
<1> QED BY <1>1, <1>2, <1>3

\* A number names a slot and an entry of the history, as its packet does.
LEMMA SeqFacts ==
    ASSUME Unambiguous, NEW p \in Nat
    PROVE  /\ p % SeqSpace \in Nat
           /\ SlotOf(p % SeqSpace) = p % WindowSlots /\ p % WindowSlots \in Slots
           /\ (p % SeqSpace) % HistorySlots = p % HistorySlots
           /\ p % HistorySlots \in HistoryEntries
           /\ (p % HistorySlots) % WindowSlots = p % WindowSlots
<1>1. p % SeqSpace \in Nat /\ p % WindowSlots \in 0 .. (WindowSlots - 1)
      /\ p % HistorySlots \in 0 .. (HistorySlots - 1)
    BY Sizes, ModParts
<1>2. (p % SeqSpace) % WindowSlots = p % WindowSlots
    BY Sizes, ModOfMultiple
<1>3. (p % SeqSpace) % HistorySlots = p % HistorySlots
    BY Sizes, ModOfMultiple
<1>4. (p % HistorySlots) % WindowSlots = p % WindowSlots
    BY Sizes, ModOfMultiple
<1> QED BY <1>1, <1>2, <1>3, <1>4 DEF SlotOf, Slots, HistoryEntries

LEMMA PacketFacts ==
    /\ Len(Lengths) \in Nat
    /\ \A p : p \in Packets <=> p \in Nat /\ p < Len(Lengths)
    /\ \A p \in Packets : Lengths[p + 1] \in Nat /\ Lengths[p + 1] > 0 /\ Lengths[p + 1] <= MaxFlits
    /\ MaxFlits \in Nat
<1>1. Lengths \in Seq(1 .. MaxFlits) /\ MaxFlits \in Nat
    BY LinkAssumption, RxCommitAssumption
<1>2. Len(Lengths) \in Nat
    BY <1>1
<1>3. \A p : p \in Packets <=> p \in Nat /\ p < Len(Lengths)
    BY <1>2 DEF Packets
<1>4. \A n \in 1 .. Len(Lengths) : Lengths[n] \in 1 .. MaxFlits
    BY <1>1
<1>5. ASSUME NEW p \in Packets
      PROVE  Lengths[p + 1] \in Nat /\ Lengths[p + 1] > 0 /\ Lengths[p + 1] <= MaxFlits
    <2>1. p + 1 \in 1 .. Len(Lengths)
        BY <1>2, <1>3
    <2> QED BY <1>1, <1>4, <2>1
<1> QED BY <1>1, <1>2, <1>3, <1>5

\* A later packet of the slot is a window later.
LEMMA LaterFacts ==
    ASSUME Unambiguous, NEW p \in Nat, NEW q \in Nat, Later(p, q)
    PROVE  p < q /\ p + WindowSlots <= q /\ q % WindowSlots = p % WindowSlots
<1>1. WindowSlots \in Nat \ {0}
    BY Sizes
<1>2. p < q /\ p % WindowSlots = q % WindowSlots
    BY DEF Later
<1>3. q = p + WindowSlots \/ q >= p + 2 * WindowSlots
    BY <1>1, <1>2, ModApart
<1> QED BY <1>1, <1>2, <1>3

\* Packets of one entry of the history have one slot.
LEMMA EntryLater ==
    ASSUME Unambiguous, NEW p \in Nat, NEW q \in Nat, p < q,
           p % HistorySlots = q % HistorySlots
    PROVE  Later(p, q)
<1>1. p % WindowSlots = q % WindowSlots
    BY SeqFacts
<1> QED BY <1>1 DEF Later

\* Before a number comes round there is a packet of two flits or more in its entry.
LEMMA Between ==
    ASSUME Unambiguous, NEW p \in Nat, NEW q \in Packets, p < q, p % SeqSpace = q % SeqSpace
    PROVE  \E r \in Packets :
              /\ Multi(r) /\ r \in Nat /\ r % HistorySlots = q % HistorySlots
              /\ Later(p, r) /\ Later(r, q) /\ p < r /\ r < q
<1>1. q \in Nat /\ SeqSpace \in Nat \ {0}
    BY PacketFacts, Sizes
<1>2. q = p + SeqSpace \/ q >= p + 2 * SeqSpace
    BY <1>1, ModApart
<1>3. q >= SeqSpace /\ p <= q - SeqSpace
    BY <1>1, <1>2
<1>4. PICK r \in Packets :
        Multi(r) /\ q - SeqSpace < r /\ r < q /\ r % HistorySlots = q % HistorySlots
    BY <1>3 DEF Unambiguous
<1>5. r \in Nat
    BY PacketFacts
<1>6. p < r
    BY <1>1, <1>3, <1>4, <1>5
<1>7. p % HistorySlots = q % HistorySlots
    <2>1. (p % SeqSpace) % HistorySlots = p % HistorySlots
          /\ (q % SeqSpace) % HistorySlots = q % HistorySlots
        BY <1>1, SeqFacts
    <2> QED BY <2>1
<1>8. Later(p, r) /\ Later(r, q)
    BY <1>1, <1>4, <1>5, <1>6, <1>7, EntryLater
<1> QED BY <1>4, <1>5, <1>6, <1>8
-----------------------------------------------------------------------------
(* One state. *)

LEMMA SeqFirst ==
    ASSUME NEW T, NEW s \in Seq(T), s # <<>>
    PROVE  /\ Len(s) \in Nat /\ Len(s) >= 1 /\ 1 \in 1 .. Len(s) /\ s[1] \in T
           /\ Head(s) = s[1]
<1>1. Len(s) \in Nat /\ Len(s) # 0
    BY EmptySeq, LenProperties
<1>2. 1 \in 1 .. Len(s)
    BY <1>1
<1>3. s[1] \in T
    BY <1>2, ElementOfSeq
<1>4. Head(s) = s[1]
    BY <1>1
<1> QED BY <1>1, <1>2, <1>3, <1>4

LEMMA OnePacketAppend ==
    ASSUME NEW s \in Seq(Genuine), OnePacket(s), NEW f \in Genuine, f.load = s[1].load
    PROVE  /\ Append(s, f) \in Seq(Genuine) /\ OnePacket(Append(s, f))
           /\ Append(s, f)[1] = s[1]
<1> DEFINE more == Append(s, f)
<1>1. Len(s) \in Nat /\ Len(s) >= 1
    BY SeqFirst DEF OnePacket
<1>2. /\ more \in Seq(Genuine) /\ more # <<>> /\ Len(more) = Len(s) + 1
      /\ \A n \in 1 .. Len(s) : more[n] = s[n]
      /\ more[Len(s) + 1] = f
    BY AppendProperties
<1> HIDE DEF more
<1>3. more[1] = s[1]
    BY <1>1, <1>2
<1>4. ASSUME NEW n \in 1 .. Len(more)
      PROVE  more[n].load = s[1].load
    <2>1. n = Len(s) + 1 \/ n \in 1 .. Len(s)
        BY <1>1, <1>2
    <2>2. CASE n = Len(s) + 1
        BY <1>2, <2>2
    <2>3. CASE n \in 1 .. Len(s)
        BY <1>2, <2>3 DEF OnePacket
    <2> QED BY <2>1, <2>2, <2>3
<1>5. OnePacket(more)
    BY <1>2, <1>3, <1>4 DEF OnePacket
<1> QED BY <1>2, <1>3, <1>5 DEF more

LEMMA CountFacts ==
    ASSUME LinkTyped
    PROVE  /\ BegunCount \in Nat /\ BegunCount <= Len(Lengths)
           /\ next.packet \in Nat /\ next.flit \in Nat
           /\ next.packet <= BegunCount /\ BegunCount <= next.packet + 1
           /\ next.flit = 0 => BegunCount = next.packet
           /\ next.flit > 0 => BegunCount = next.packet + 1 /\ next.packet \in Packets
<1>1. next.packet \in Nat /\ next.flit \in Nat /\ next.packet <= Len(Lengths)
    BY DEF LinkTyped
<1>2. next.flit > 0 => next.packet < Len(Lengths)
    BY PacketFacts DEF LinkTyped
<1>3. next.flit > 0 => next.packet \in Packets
    BY DEF LinkTyped
<1> QED BY <1>1, <1>2, <1>3, PacketFacts DEF BegunCount

\* Begun, as an initial part of the packets.
LEMMA BegunFacts ==
    ASSUME LinkTyped
    PROVE  Begun = {p \in Packets : p < BegunCount}
<1>1. ASSUME NEW p \in Packets
      PROVE  (next.packet > p \/ (next.packet = p /\ next.flit > 0)) <=> p < BegunCount
    <2>1. p \in Nat /\ next.packet \in Nat /\ next.flit \in Nat
        BY PacketFacts, CountFacts
    <2> QED BY <2>1 DEF BegunCount
<1> QED BY <1>1 DEF Begun

LEMMA SlotFacts ==
    ASSUME LinkTyped, WindowInv, NEW k \in Slots, win.slots[k].valid
    PROVE  LET slot == win.slots[k]  p == slot.flits[1].load IN
           /\ slot \in SlotRecord /\ slot.flits \in Seq(Genuine)
           /\ OnePacket(slot.flits) /\ p \in Packets /\ p \in Nat
           /\ p % WindowSlots = k /\ slot.seq = p % SeqSpace
           /\ p < BegunCount /\ BegunCount <= p + WindowSlots
           /\ slot.complete => p < next.packet
<1> DEFINE slot == win.slots[k]
           p == slot.flits[1].load
<1>1. slot \in SlotRecord
    BY DEF LinkTyped
<1>2. slot.flits \in Seq(Genuine)
    BY <1>1 DEF SlotRecord
<1>3. /\ OnePacket(slot.flits)
      /\ p % WindowSlots = k /\ slot.seq = p % SeqSpace
      /\ p < BegunCount /\ BegunCount <= p + WindowSlots
      /\ slot.complete => p < next.packet
    BY DEF WindowInv, SlotHolds
<1>4. slot.flits[1] \in Genuine
    BY <1>2, <1>3, SeqFirst DEF OnePacket
<1>5. p \in Packets
    BY <1>4 DEF Genuine
<1> QED BY <1>1, <1>2, <1>3, <1>5, PacketFacts

LEMMA RetainedFacts ==
    ASSUME Unambiguous, LinkTyped, WindowInv, NEW p \in Nat
    PROVE  LET k == p % WindowSlots IN
           /\ k \in Slots
           /\ Retained(p) <=> win.slots[k].valid /\ win.slots[k].flits[1].load = p
           /\ Retained(p) =>
                /\ p \in Packets /\ p < BegunCount /\ BegunCount <= p + WindowSlots
                /\ win.slots[k].seq = p % SeqSpace
<1> DEFINE k == p % WindowSlots
<1>1. k \in Slots
    BY SeqFacts
<1>2. Retained(p) => win.slots[k].valid /\ win.slots[k].flits[1].load = p
    <2>1. ASSUME NEW j \in Slots, win.slots[j].valid, win.slots[j].flits[1].load = p
          PROVE  j = k
        BY <2>1, SlotFacts
    <2> QED BY <2>1 DEF Retained
<1>3. win.slots[k].valid /\ win.slots[k].flits[1].load = p => Retained(p)
    BY <1>1 DEF Retained
<1>4. ASSUME Retained(p)
      PROVE  /\ p \in Packets /\ p < BegunCount /\ BegunCount <= p + WindowSlots
             /\ win.slots[k].seq = p % SeqSpace
    BY <1>1, <1>2, <1>4, SlotFacts
<1> QED BY <1>1, <1>2, <1>3, <1>4

\* A packet of which a later one of its slot is begun is not retained.
LEMMA Overtaken ==
    ASSUME Unambiguous, LinkTyped, WindowInv,
           NEW p \in Nat, NEW q \in Nat, Later(p, q), q < BegunCount
    PROVE  ~Retained(p)
<1>1. p + WindowSlots <= q /\ WindowSlots \in Nat /\ BegunCount \in Nat
    BY LaterFacts, Sizes, CountFacts
<1>2. Retained(p) => BegunCount <= p + WindowSlots
    BY RetainedFacts
<1> QED BY <1>1, <1>2

\* Two live packets differ in their sequence numbers.
LEMMA LiveUnique ==
    ASSUME Unambiguous, LinkTyped, WindowInv,
           NEW p \in Packets, NEW q \in Packets, Live(p), Live(q), p % SeqSpace = q % SeqSpace
    PROVE  p = q
<1>1. ASSUME NEW x \in Packets, NEW y \in Packets, Live(x), Live(y), x < y,
             x % SeqSpace = y % SeqSpace
      PROVE  FALSE
    <2>1. x \in Nat /\ y \in Nat /\ BegunCount \in Nat
        BY PacketFacts, CountFacts
    <2>2. PICK r \in Packets :
            /\ Multi(r) /\ r \in Nat
            /\ Later(x, r) /\ Later(r, y) /\ x < r /\ r < y
        BY <1>1, <2>1, Between
    <2>3. y < BegunCount
        BY <1>1 DEF Live
    <2>4. r < BegunCount
        BY <2>1, <2>2, <2>3
    <2>5. Retained(r)
        BY <1>1, <2>2, <2>4 DEF Live
    <2> QED BY <2>1, <2>2, <2>3, <2>5, Overtaken
<1>2. p \in Nat /\ q \in Nat
    BY PacketFacts
<1>3. ~(p < q) /\ ~(q < p)
    BY <1>1
<1> QED BY <1>2, <1>3

\* An answer under way is in earnest about the live packet of its number.
LEMMA AckNames ==
    ASSUME Unambiguous, LinkTyped, WindowInv, AnswerInv,
           NEW n \in 1 .. Len(Answers), Answers[n].type = "ack",
           NEW q \in Packets, Live(q), q % SeqSpace = Answers[n].seq
    PROVE  Earned(q) /\ Acks(Answers[n], q)
<1>1. PICK p \in Packets : Live(p) /\ Earned(p) /\ Acks(Answers[n], p)
    BY DEF AnswerInv
<1>2. p = q
    BY <1>1, LiveUnique DEF Acks
<1> QED BY <1>1, <1>2

LEMMA RetainedIsLive ==
    ASSUME Unambiguous, LinkTyped, WindowInv, NEW p \in Nat, Retained(p)
    PROVE  Live(p) /\ p \in Packets
<1>1. p \in Packets /\ p < BegunCount
    BY RetainedFacts
<1>2. \A q \in Packets : ~(Later(p, q) /\ q < BegunCount)
    BY Overtaken, PacketFacts
<1> QED BY <1>1, <1>2 DEF Live
-----------------------------------------------------------------------------
(* The sender's edge: slots. *)

WindowInput(grant, message, due) ==
    [store |-> IF NormalSend(grant) THEN Offer ELSE <<>>,
     ack |-> Named(message, "ack"), nack |-> Named(message, "nack"),
     due |-> due, ready |-> ReplaySend(grant)]

Arrived(message) == message = <<>> \/ (reverse # <<>> /\ message = <<Head(reverse)>>)

ReleasedSlots(grant, message, due) == Released(win, WindowInput(grant, message, due))

LEMMA AnswersFacts ==
    ASSUME LinkTyped
    PROVE  /\ Answers \in Seq(AnswerRecord)
           /\ Len(reverse) \in Nat /\ Len(rx.responses) \in Nat /\ Len(Answers) \in Nat
           /\ Len(Answers) = Len(reverse) + Len(rx.responses)
           /\ reverse # <<>> => 1 \in 1 .. Len(Answers) /\ Answers[1] = Head(reverse)
<1>1. reverse \in Seq(AnswerRecord) /\ rx.responses \in Seq(AnswerRecord)
    BY DEF LinkTyped
<1>2. /\ Answers \in Seq(AnswerRecord)
      /\ Len(Answers) = Len(reverse) + Len(rx.responses)
      /\ \A n \in 1 .. Len(reverse) + Len(rx.responses) :
            Answers[n] = IF n <= Len(reverse) THEN reverse[n] ELSE rx.responses[n - Len(reverse)]
    BY <1>1, ConcatProperties DEF Answers
<1>3. Len(reverse) \in Nat /\ Len(rx.responses) \in Nat
    BY <1>1, LenProperties
<1>4. ASSUME reverse # <<>>
      PROVE  1 \in 1 .. Len(Answers) /\ Answers[1] = Head(reverse)
    <2>1. Len(reverse) >= 1 /\ Head(reverse) = reverse[1]
        BY <1>1, <1>4, SeqFirst
    <2> QED BY <1>2, <1>3, <2>1
<1> QED BY <1>2, <1>3, <1>4

LEMMA NamedFacts ==
    ASSUME NEW message, NEW type, Arrived(message), Named(message, type) # <<>>
    PROVE  /\ reverse # <<>> /\ message = <<Head(reverse)>>
           /\ Head(reverse).type = type
           /\ Named(message, type) = <<Head(reverse).seq>>
<1>1. message # <<>> /\ message[1].type = type /\ Named(message, type) = <<message[1].seq>>
    BY DEF Named
<1>2. reverse # <<>> /\ message = <<Head(reverse)>>
    BY <1>1 DEF Arrived
<1>3. message[1] = Head(reverse)
    BY <1>2
<1> QED BY <1>1, <1>2, <1>3

\* What is released was answered in earnest, and its answer is the oldest one.
LEMMA ReleasedFacts ==
    ASSUME Unambiguous, LinkInv, NEW grant, NEW message, NEW due, Arrived(message),
           NEW k \in ReleasedSlots(grant, message, due)
    PROVE  LET p == win.slots[k].flits[1].load IN
           /\ k \in Slots /\ win.slots[k].valid /\ p \in Packets /\ p % WindowSlots = k
           /\ Earned(p) /\ p < next.packet
           /\ reverse # <<>> /\ message = <<Head(reverse)>> /\ Acks(Head(reverse), p)
<1> DEFINE p == win.slots[k].flits[1].load
           i == WindowInput(grant, message, due)
<1>1. k \in Slots /\ i.ack # <<>> /\ Holds(win.slots[k], i.ack[1])
    BY DEF ReleasedSlots, Released
<1>2. i.ack = Named(message, "ack")
    BY DEF WindowInput
<1> HIDE DEF i
<1>3. /\ reverse # <<>> /\ message = <<Head(reverse)>>
      /\ Head(reverse).type = "ack" /\ i.ack = <<Head(reverse).seq>>
    BY <1>1, <1>2, NamedFacts
<1>4. win.slots[k].valid /\ win.slots[k].seq = Head(reverse).seq
    BY <1>1, <1>3 DEF Holds
<1>5. LinkTyped /\ WindowInv /\ AnswerInv /\ DeliveryInv
    BY DEF LinkInv
<1>6. /\ p \in Packets /\ p \in Nat /\ p % WindowSlots = k
      /\ win.slots[k].seq = p % SeqSpace
    BY <1>1, <1>4, <1>5, SlotFacts
<1>7. Retained(p)
    BY <1>1, <1>4 DEF Retained
<1>8. Live(p)
    BY <1>5, <1>6, <1>7, RetainedIsLive
<1>9. 1 \in 1 .. Len(Answers) /\ Answers[1] = Head(reverse)
    BY <1>3, <1>5, AnswersFacts
<1>10. Earned(p) /\ Acks(Answers[1], p)
    BY <1>3, <1>4, <1>5, <1>6, <1>8, <1>9, AckNames
<1>11. p < next.packet
    BY <1>10 DEF Earned
<1> QED BY <1>1, <1>3, <1>4, <1>6, <1>9, <1>10, <1>11

LEMMA OfferFacts ==
    ASSUME Unambiguous, LinkTyped, NEW grant, NormalSend(grant)
    PROVE  LET f == Flit(next.packet, next.flit) IN
           /\ next.packet \in Packets /\ Offer = <<f>> /\ f \in Genuine
           /\ next.packet \in Nat /\ next.flit \in Nat
           /\ f.load = next.packet /\ f.seq = next.packet % SeqSpace /\ f.index = next.flit
           /\ f.eop = (next.flit + 1 = Lengths[next.packet + 1])
           /\ next.flit < Lengths[next.packet + 1] /\ Lengths[next.packet + 1] \in Nat
           /\ win.out = <<>> /\ grant /\ StoreReady(win, f)
<1> DEFINE f == Flit(next.packet, next.flit)
<1>1. Offer # <<>> /\ win.out = <<>> /\ grant /\ StoreReady(win, Offer[1])
    BY DEF NormalSend
<1>2. next.packet \in Packets /\ Offer = <<f>>
    BY <1>1 DEF Offer
<1>3. next.packet \in Nat /\ next.flit \in Nat
    BY CountFacts
<1>4. Lengths[next.packet + 1] \in Nat /\ Lengths[next.packet + 1] > 0
    BY <1>2, PacketFacts
<1>5. next.flit < Lengths[next.packet + 1]
    BY <1>3, <1>4 DEF LinkTyped
<1>6. f = [vc |-> "data", seq |-> next.packet % SeqSpace, sop |-> next.flit = 0,
           eop |-> next.flit + 1 = Lengths[next.packet + 1], index |-> next.flit,
           load |-> next.packet, good |-> TRUE]
    BY DEF Flit
<1>7. next.packet % SeqSpace \in Nat /\ "data" \in Channels
    BY <1>3, SeqFacts, LinkAssumption
<1>8. f \in FlitRecord
    BY <1>3, <1>6, <1>7 DEF FlitRecord
<1>9. f \in Genuine
    BY <1>2, <1>5, <1>6, <1>8 DEF Genuine
<1>10. StoreReady(win, f)
    BY <1>1, <1>2
<1> QED BY <1>1, <1>2, <1>3, <1>4, <1>5, <1>6, <1>9, <1>10

\* Where a flit of normal traffic is stored.
LEMMA StoreFacts ==
    ASSUME Unambiguous, LinkInv, NEW grant, NormalSend(grant)
    PROVE  LET f == Flit(next.packet, next.flit)  k == next.packet % WindowSlots IN
           /\ k \in Slots /\ StoreSlot(win, f) = k
           /\ next.flit = 0 => win.storing = <<>> /\ ~win.slots[k].valid
           /\ next.flit > 0 => win.storing = <<k>> /\ win.slots[k].valid
                               /\ win.slots[k].flits[1].load = next.packet
<1> DEFINE f == Flit(next.packet, next.flit)
           k == next.packet % WindowSlots
<1>1. LinkTyped /\ StoringHolds
    BY DEF LinkInv, WindowInv
<1>2. next.packet \in Nat /\ next.flit \in Nat /\ f.seq = next.packet % SeqSpace
      /\ StoreReady(win, f)
    BY <1>1, OfferFacts
<1>3. k \in Slots /\ SlotOf(f.seq) = k
    BY <1>2, SeqFacts
<1> HIDE DEF f
<1>4. CASE next.flit = 0
    <2>1. win.storing = <<>>
        BY <1>1, <1>4 DEF StoringHolds
    <2> QED BY <1>2, <1>3, <1>4, <2>1 DEF StoreSlot, StoreReady, f
<1>5. CASE next.flit > 0
    <2>1. win.storing = <<k>> /\ win.slots[k].valid /\ win.slots[k].flits[1].load = next.packet
        BY <1>1, <1>5 DEF StoringHolds
    <2>2. win.storing # <<>> /\ win.storing[1] = k
        BY <2>1
    <2> QED BY <1>3, <1>5, <2>1, <2>2 DEF StoreSlot, f
<1> QED BY <1>2, <1>4, <1>5

SameSlot(old, new) ==
    /\ new.valid = old.valid /\ new.complete = old.complete
    /\ new.seq = old.seq /\ new.flits = old.flits

\* The slot new holds packet x, of which flit number j was stored last.
TakesFlit(new, x, j) ==
    /\ new.valid /\ OnePacket(new.flits) /\ new.flits[1].load = x
    /\ new.seq = x % SeqSpace
    /\ new.complete = (j + 1 = Lengths[x + 1])

LEMMA StoredStep ==
    ASSUME Unambiguous, LinkInv, NEW grant, NEW message, NEW due, NEW k \in Slots
    PROVE  LET new == Stored(win, WindowInput(grant, message, due), k)
               stores == NormalSend(grant) /\ k = next.packet % WindowSlots IN
           /\ new \in SlotRecord
           /\ ~stores => new = win.slots[k]
           /\ stores => TakesFlit(new, next.packet, next.flit)
<1> DEFINE i == WindowInput(grant, message, due)
           new == Stored(win, i, k)
           old == win.slots[k]
           f == Flit(next.packet, next.flit)
           stores == NormalSend(grant) /\ k = next.packet % WindowSlots
<1> SUFFICES /\ new \in SlotRecord
             /\ ~stores => new = old
             /\ stores => TakesFlit(new, next.packet, next.flit)
    OBVIOUS
<1>1. old \in SlotRecord /\ LinkTyped /\ WindowInv
    BY DEF LinkInv, LinkTyped
<1>2. i.store = IF NormalSend(grant) THEN Offer ELSE <<>>
    BY DEF WindowInput
<1> HIDE DEF i
<1>3. CASE ~NormalSend(grant)
    <2>1. new = old
        BY <1>2, <1>3 DEF Stored
    <2> QED BY <1>1, <1>3, <2>1
<1>4. CASE NormalSend(grant)
    <2>1. /\ i.store = <<f>> /\ f \in Genuine /\ f.load = next.packet
          /\ f.seq = next.packet % SeqSpace
          /\ f.eop = (next.flit + 1 = Lengths[next.packet + 1])
          /\ next.flit \in Nat /\ next.packet \in Nat
        BY <1>1, <1>2, <1>4, OfferFacts
    <2>2. i.store # <<>> /\ i.store[1] = f
        BY <2>1
    <2>3. StoreSlot(win, f) = next.packet % WindowSlots
        BY <1>4, StoreFacts
    <2>4. CASE k # next.packet % WindowSlots
        <3>1. new = old
            BY <2>2, <2>3, <2>4 DEF Stored
        <3> QED BY <1>1, <2>4, <3>1
    <2>5. CASE k = next.packet % WindowSlots /\ next.flit > 0
        <3>1. win.storing # <<>> /\ old.valid /\ old.flits[1].load = next.packet
            <4> DEFINE j == next.packet % WindowSlots
            <4>1. /\ win.storing = <<j>> /\ win.slots[j].valid
                  /\ win.slots[j].flits[1].load = next.packet
                BY <1>4, <2>5, StoreFacts
            <4>2. win.storing # <<>>
                BY <4>1
            <4> QED BY <2>5, <4>1, <4>2
        <3>2. new = [old EXCEPT !.flits = Append(old.flits, f), !.complete = f.eop]
            BY <2>2, <2>3, <2>5, <3>1 DEF Stored
        <3>3. old.flits \in Seq(Genuine) /\ OnePacket(old.flits) /\ old.seq = next.packet % SeqSpace
            BY <1>1, <3>1, SlotFacts
        <3> DEFINE more == Append(old.flits, f)
        <3>4. more \in Seq(Genuine)
            BY <2>1, <3>1, <3>3, OnePacketAppend
        <3>5. OnePacket(more) /\ more[1].load = next.packet
            BY <2>1, <3>1, <3>3, OnePacketAppend
        <3> HIDE DEF more
        <3>6. new = [old EXCEPT !.flits = more, !.complete = f.eop]
            BY <3>2 DEF more
        <3>7. f.eop \in BOOLEAN
            BY <2>1 DEF Genuine, FlitRecord
        <3> HIDE DEF f, new
        <3>8. new \in SlotRecord /\ new.valid = old.valid /\ new.flits = more
              /\ new.complete = f.eop /\ new.seq = old.seq
            BY <1>1, <3>4, <3>6, <3>7 DEF SlotRecord
        <3> QED BY <1>4, <2>1, <2>5, <3>1, <3>3, <3>5, <3>8 DEF TakesFlit
    <2>6. CASE k = next.packet % WindowSlots /\ next.flit = 0
        <3>1. win.storing = <<>>
            BY <1>4, <2>6, StoreFacts
        <3>2. new = [valid |-> TRUE, complete |-> f.eop, seq |-> f.seq, flits |-> <<f>>, retries |-> 0]
            BY <2>2, <2>3, <2>6, <3>1 DEF Stored
        <3>3. f.eop \in BOOLEAN /\ f.seq \in Nat /\ <<f>> \in Seq(Genuine)
            BY <2>1 DEF Genuine, FlitRecord
        <3>4. OnePacket(<<f>>) /\ <<f>>[1].load = next.packet
            BY <2>1 DEF OnePacket
        <3> HIDE DEF f, new
        <3>5. new \in SlotRecord
            BY <3>2, <3>3 DEF SlotRecord
        <3> QED BY <1>4, <2>1, <2>6, <3>2, <3>4, <3>5 DEF TakesFlit
    <2> QED BY <2>1, <2>4, <2>5, <2>6
<1> QED BY <1>3, <1>4

LEMMA SlotAlike ==
    ASSUME NEW old \in SlotRecord, NEW new, NEW x, NEW j,
           new = old \/ new = [old EXCEPT !.retries = @ + 1]
    PROVE  /\ new \in SlotRecord /\ SameSlot(old, new)
           /\ TakesFlit(old, x, j) => TakesFlit(new, x, j)
<1>1. CASE new = old
    BY <1>1 DEF SameSlot
<1>2. CASE new = [old EXCEPT !.retries = @ + 1]
    <2>1. /\ new.valid = old.valid /\ new.complete = old.complete
          /\ new.seq = old.seq /\ new.flits = old.flits /\ new \in SlotRecord
        BY <1>2 DEF SlotRecord
    <2>2. ASSUME TakesFlit(old, x, j) PROVE TakesFlit(new, x, j)
        <3>1. OnePacket(new.flits)
            BY <2>1, <2>2 DEF TakesFlit
        <3> QED BY <2>1, <2>2, <3>1 DEF TakesFlit
    <2> QED BY <2>1, <2>2 DEF SameSlot
<1> QED BY <1>1, <1>2

LEMMA SlotStep ==
    ASSUME Unambiguous, LinkInv, NEW grant, NEW message, NEW due, Arrived(message),
           SenderEdge(grant, message, due), NEW k \in Slots
    PROVE  LET old == win.slots[k]  new == win'.slots[k]
               released == k \in ReleasedSlots(grant, message, due)
               stores == NormalSend(grant) /\ k = next.packet % WindowSlots IN
           /\ new \in SlotRecord
           /\ released => ~new.valid
           /\ ~released /\ ~stores => SameSlot(old, new)
           /\ ~released /\ stores => TakesFlit(new, next.packet, next.flit)
<1> DEFINE i == WindowInput(grant, message, due)
           old == win.slots[k]
           new == win'.slots[k]
           released == k \in ReleasedSlots(grant, message, due)
           stores == NormalSend(grant) /\ k = next.packet % WindowSlots
           kept == Stored(win, i, k)
<1> SUFFICES /\ new \in SlotRecord
             /\ released => ~new.valid
             /\ ~released /\ ~stores => SameSlot(old, new)
             /\ ~released /\ stores => TakesFlit(new, next.packet, next.flit)
    OBVIOUS
<1>1. win' = WindowEdge(win, i)
    BY DEF SenderEdge, WindowInput
<1>2. new = SlotAfter(win, i, k)
    BY <1>1 DEF WindowEdge
<1>3. released <=> k \in Released(win, i)
    BY DEF ReleasedSlots
<1>4. /\ kept \in SlotRecord
      /\ ~stores => kept = old
      /\ stores => TakesFlit(kept, next.packet, next.flit)
    BY StoredStep
<1> HIDE DEF i, kept, stores, released, new, old
<1>5. CASE released
    <2>1. new = EmptySlot
        BY <1>2, <1>3, <1>5 DEF SlotAfter
    <2>2. EmptySlot \in SlotRecord
        <3>1. <<>> \in Seq(Genuine)
            BY EmptySeq
        <3> QED BY <3>1 DEF EmptySlot, SlotRecord
    <2> QED BY <1>5, <2>1, <2>2 DEF EmptySlot
<1>6. CASE ~released
    <2>1. new = kept \/ new = [kept EXCEPT !.retries = @ + 1]
        BY <1>2, <1>3, <1>6 DEF SlotAfter, kept
    <2>2. new \in SlotRecord /\ SameSlot(kept, new)
        BY <1>4, <2>1, SlotAlike
    <2>3. stores => TakesFlit(new, next.packet, next.flit)
        BY <1>4, <2>1, SlotAlike
    <2>4. ~stores => SameSlot(old, new)
        BY <1>4, <2>2
    <2> QED BY <1>6, <2>2, <2>3, <2>4
<1> QED BY <1>5, <1>6

\* What the sender has begun after an edge.
LEMMA NextStep ==
    ASSUME Unambiguous, LinkInv, NEW grant, NEW message, NEW due,
           SenderEdge(grant, message, due)
    PROVE  /\ next' \in [packet : Nat, flit : Nat]
           /\ next'.packet <= Len(Lengths)
           /\ next'.flit > 0 => next'.packet \in Packets /\ next'.flit < Lengths[next'.packet + 1]
           /\ next.packet <= next'.packet /\ BegunCount <= BegunCount'
           /\ ~NormalSend(grant) => next' = next /\ BegunCount' = BegunCount
           /\ NormalSend(grant) =>
                /\ BegunCount' = next.packet + 1
                /\ IF next.flit + 1 = Lengths[next.packet + 1]
                   THEN next'.packet = next.packet + 1 /\ next'.flit = 0
                   ELSE next'.packet = next.packet /\ next'.flit = next.flit + 1
<1>1. LinkTyped
    BY DEF LinkInv
<1>2. next' = IF NormalSend(grant) THEN Following(next) ELSE next
    BY DEF SenderEdge
<1>3. CASE ~NormalSend(grant)
    <2>1. next' = next
        BY <1>2, <1>3
    <2>2. BegunCount' = BegunCount
        BY <2>1 DEF BegunCount
    <2> QED BY <1>1, <1>3, <2>1, <2>2, CountFacts DEF LinkTyped
<1>4. CASE NormalSend(grant)
    <2>1. /\ next.packet \in Packets /\ next.packet \in Nat /\ next.flit \in Nat
          /\ next.flit < Lengths[next.packet + 1] /\ Lengths[next.packet + 1] \in Nat
        BY <1>1, <1>4, OfferFacts
    <2>2. next \in [packet : Nat, flit : Nat]
        BY <1>1 DEF LinkTyped
    <2>3. next.packet + 1 <= Len(Lengths) /\ Len(Lengths) \in Nat
        BY <2>1, PacketFacts
    <2>4. BegunCount \in Nat /\ BegunCount <= next.packet + 1
        BY <1>1, CountFacts
    <2>5. CASE next.flit + 1 = Lengths[next.packet + 1]
        <3>1. next' = [packet |-> next.packet + 1, flit |-> 0]
            BY <1>2, <1>4, <2>1, <2>5 DEF Following
        <3>2. BegunCount' = next.packet + 1
            BY <2>1, <3>1 DEF BegunCount
        <3> QED BY <1>4, <2>1, <2>3, <2>4, <2>5, <3>1, <3>2
    <2>6. CASE next.flit + 1 # Lengths[next.packet + 1]
        <3>1. next' = [next EXCEPT !.flit = @ + 1]
            BY <1>2, <1>4, <2>1, <2>6 DEF Following
        <3>2. next' \in [packet : Nat, flit : Nat] /\ next'.packet = next.packet
              /\ next'.flit = next.flit + 1
            BY <2>1, <2>2, <3>1
        <3>3. BegunCount' = next.packet + 1
            BY <2>1, <3>2 DEF BegunCount
        <3> QED BY <1>4, <2>1, <2>3, <2>4, <2>6, <3>2, <3>3
    <2> QED BY <2>5, <2>6
<1> QED BY <1>3, <1>4

\* A packet the sender begins finds its slot free, one it goes on with is there.
LEMMA StoreKeeps ==
    ASSUME Unambiguous, LinkInv, NEW grant, NEW message, NEW due, Arrived(message)
    PROVE  /\ next.flit > 0 => next.packet % WindowSlots \notin ReleasedSlots(grant, message, due)
           /\ NormalSend(grant) =>
                next.packet % WindowSlots \notin ReleasedSlots(grant, message, due)
<1> DEFINE k == next.packet % WindowSlots
<1>1. ASSUME k \in ReleasedSlots(grant, message, due)
      PROVE  /\ win.slots[k].valid /\ win.slots[k].flits[1].load \in Packets
             /\ win.slots[k].flits[1].load < next.packet
    BY <1>1, ReleasedFacts
<1>2. ASSUME next.flit > 0, k \in ReleasedSlots(grant, message, due) PROVE FALSE
    <2>1. win.slots[k].flits[1].load = next.packet
        BY <1>2 DEF LinkInv, WindowInv, StoringHolds
    <2>2. next.packet \in Nat
        BY CountFacts DEF LinkInv
    <2> QED BY <1>1, <1>2, <2>1, <2>2
<1>3. ASSUME NormalSend(grant), k \in ReleasedSlots(grant, message, due) PROVE FALSE
    <2>1. next.flit \in Nat
        BY CountFacts DEF LinkInv
    <2>2. next.flit = 0
        BY <1>2, <1>3, <2>1
    <2> QED BY <1>1, <1>3, <2>2, StoreFacts
<1> QED BY <1>2, <1>3

LEMMA SlotsKept ==
    ASSUME Unambiguous, LinkInv, NEW grant, NEW message, NEW due, Arrived(message),
           SenderEdge(grant, message, due)
    PROVE  /\ win'.slots \in [Slots -> SlotRecord]
           /\ WindowInv'
<1>1. LinkTyped /\ WindowInv
    BY DEF LinkInv
<1>2. /\ next.packet \in Nat /\ next.flit \in Nat /\ BegunCount \in Nat
      /\ BegunCount <= next.packet + 1 /\ next.packet <= BegunCount
      /\ next.flit = 0 => BegunCount = next.packet
    BY <1>1, CountFacts
<1>3. /\ next'.packet \in Nat /\ next'.flit \in Nat
      /\ next.packet <= next'.packet
      /\ BegunCount <= BegunCount'
      /\ ~NormalSend(grant) => next' = next /\ BegunCount' = BegunCount
      /\ NormalSend(grant) =>
            /\ BegunCount' = next.packet + 1
            /\ IF next.flit + 1 = Lengths[next.packet + 1]
               THEN next'.packet = next.packet + 1 /\ next'.flit = 0
               ELSE next'.packet = next.packet /\ next'.flit = next.flit + 1
    BY NextStep
<1>4. WindowSlots \in Nat \ {0}
    BY Sizes
<1> DEFINE home == next.packet % WindowSlots
           freed == ReleasedSlots(grant, message, due)
<1>5. win'.slots \in [Slots -> SlotRecord]
    <2>1. \A k \in Slots : win'.slots[k] \in SlotRecord
        BY SlotStep
    <2>2. win'.slots = [k \in Slots |-> SlotAfter(win, WindowInput(grant, message, due), k)]
        BY DEF SenderEdge, WindowInput, WindowEdge
    <2> QED BY <2>1, <2>2
<1>6. ASSUME NEW k \in Slots PROVE SlotHolds(k)'
    <2> DEFINE old == win.slots[k]
               new == win'.slots[k]
               p == new.flits[1].load
    <2>1. SUFFICES ASSUME new.valid
                   PROVE  /\ OnePacket(new.flits)
                          /\ p % WindowSlots = k /\ new.seq = p % SeqSpace
                          /\ p < BegunCount' /\ BegunCount' <= p + WindowSlots
                          /\ new.complete => p < next'.packet
        BY DEF SlotHolds
    <2>2. k \notin freed
        BY <2>1, SlotStep
    <2>3. CASE NormalSend(grant) /\ k = home
        <3>1. TakesFlit(new, next.packet, next.flit)
            BY <2>2, <2>3, SlotStep
        <3>2. p = next.packet /\ OnePacket(new.flits) /\ new.seq = p % SeqSpace
              /\ new.complete = (next.flit + 1 = Lengths[p + 1])
            BY <3>1 DEF TakesFlit
        <3> HIDE DEF p, new
        <3>3. p % WindowSlots = k /\ p < BegunCount' /\ BegunCount' <= p + WindowSlots
            BY <1>2, <1>3, <1>4, <2>3, <3>2
        <3>4. ASSUME new.complete PROVE p < next'.packet
            <4>1. next.flit + 1 = Lengths[next.packet + 1]
                BY <3>2, <3>4
            <4>2. next'.packet = next.packet + 1
                BY <1>3, <2>3, <4>1
            <4> QED BY <1>2, <3>2, <4>2
        <3> QED BY <3>2, <3>3, <3>4
    <2>4. CASE ~(NormalSend(grant) /\ k = home)
        <3>1. SameSlot(old, new)
            BY <2>2, <2>4, SlotStep
        <3>2. old.valid /\ new.flits = old.flits /\ new.seq = old.seq /\ new.complete = old.complete
            BY <2>1, <3>1 DEF SameSlot
        <3>3. /\ OnePacket(new.flits) /\ p \in Nat
              /\ p % WindowSlots = k /\ new.seq = p % SeqSpace
              /\ p < BegunCount /\ BegunCount <= p + WindowSlots
              /\ new.complete => p < next.packet
            BY <1>1, <3>2, SlotFacts
        <3> HIDE DEF p, new, old
        <3>4. BegunCount' <= p + WindowSlots
            <4>1. CASE ~NormalSend(grant)
                BY <1>3, <3>3, <4>1
            <4>2. CASE NormalSend(grant)
                <5>1. p + WindowSlots # next.packet
                    <6>1. SUFFICES ASSUME p + WindowSlots = next.packet PROVE FALSE
                        OBVIOUS
                    <6>2. next.packet % WindowSlots = p % WindowSlots
                        BY <1>4, <3>3, <6>1, ModNext
                    <6> QED BY <2>4, <3>3, <4>2, <6>2
                <5>2. next.packet <= p + WindowSlots
                    BY <1>2, <1>4, <3>3
                <5> QED BY <1>2, <1>3, <1>4, <3>3, <4>2, <5>1, <5>2
            <4> QED BY <4>1, <4>2
        <3>5. p < BegunCount' /\ (new.complete => p < next'.packet)
            <4>1. BegunCount' \in Nat
                BY <1>2, <1>3
            <4> QED BY <1>2, <1>3, <3>3, <4>1
        <3> QED BY <3>3, <3>4, <3>5
    <2> QED BY <2>3, <2>4
<1>7. StoringHolds'
    <2> DEFINE i == WindowInput(grant, message, due)
    <2>1. win'.storing = StoringAfter(win, i)
        BY DEF SenderEdge, WindowInput, WindowEdge
    <2>2. i.store = IF NormalSend(grant) THEN Offer ELSE <<>>
        BY DEF WindowInput
    <2> HIDE DEF i
    <2>3. CASE ~NormalSend(grant)
        <3>1. win'.storing = win.storing /\ next' = next
            BY <1>3, <2>1, <2>2, <2>3 DEF StoringAfter
        <3>2. CASE next.flit = 0
            BY <1>1, <3>1, <3>2 DEF WindowInv, StoringHolds
        <3>3. CASE next.flit > 0
            <4>1. win.storing = <<home>> /\ win.slots[home].valid
                  /\ win.slots[home].flits[1].load = next.packet
                BY <1>1, <3>3 DEF WindowInv, StoringHolds
            <4>2. home \in Slots /\ home \notin freed
                BY <1>2, <3>3, SeqFacts, StoreKeeps
            <4>3. SameSlot(win.slots[home], win'.slots[home])
                BY <2>3, <4>2, SlotStep
            <4> HIDE DEF home
            <4>4. win'.slots[home].valid /\ win'.slots[home].flits[1].load = next.packet
                BY <4>1, <4>3 DEF SameSlot
            <4> QED BY <3>1, <3>3, <4>1, <4>4 DEF StoringHolds, home
        <3> QED BY <1>2, <3>2, <3>3
    <2>4. CASE NormalSend(grant)
        <3> DEFINE f == Flit(next.packet, next.flit)
        <3>1. i.store # <<>> /\ i.store[1] = f /\ f.eop = (next.flit + 1 = Lengths[next.packet + 1])
            BY <1>1, <2>2, <2>4, OfferFacts
        <3>2. home \in Slots /\ StoreSlot(win, f) = home
            BY <2>4, StoreFacts
        <3> HIDE DEF f
        <3>3. win'.storing = IF f.eop THEN <<>> ELSE <<home>>
            BY <2>1, <3>1, <3>2 DEF StoringAfter
        <3>4. CASE f.eop
            <4>1. next.flit + 1 = Lengths[next.packet + 1]
                BY <3>1, <3>4
            <4>2. next'.flit = 0
                BY <1>3, <2>4, <4>1
            <4> QED BY <3>3, <3>4, <4>2 DEF StoringHolds
        <3>5. CASE ~f.eop
            <4>1. next'.flit # 0 /\ next'.packet = next.packet
                <5>1. next.flit + 1 # Lengths[next.packet + 1]
                    BY <3>1, <3>5
                <5>2. next'.flit = next.flit + 1 /\ next'.packet = next.packet
                    BY <1>3, <2>4, <5>1
                <5> QED BY <1>2, <5>2
            <4>2. home \notin freed
                BY <2>4, StoreKeeps
            <4>3. TakesFlit(win'.slots[home], next.packet, next.flit)
                BY <2>4, <3>2, <4>2, SlotStep
            <4>4. win'.storing = <<home>>
                BY <3>3, <3>5
            <4>5. win'.slots[home].valid /\ win'.slots[home].flits[1].load = next.packet
                BY <4>3 DEF TakesFlit
            <4>6. home = next'.packet % WindowSlots
                BY <4>1
            <4> HIDE DEF home
            <4> QED BY <4>1, <4>4, <4>5, <4>6 DEF StoringHolds
        <3> QED BY <3>4, <3>5
    <2> QED BY <2>3, <2>4
<1> QED BY <1>5, <1>6, <1>7 DEF WindowInv
-----------------------------------------------------------------------------
(* The sender's edge: packets. *)

\* The slot of a packet that is begun is free.
LEMMA FreshSlot ==
    ASSUME Unambiguous, LinkInv, NEW grant, NormalSend(grant), next.flit = 0,
           NEW q \in Nat, q % WindowSlots = next.packet % WindowSlots
    PROVE  ~Retained(q)
<1>1. LinkTyped /\ WindowInv
    BY DEF LinkInv
<1>2. ~win.slots[q % WindowSlots].valid
    BY StoreFacts
<1> QED BY <1>1, <1>2, RetainedFacts

\* A packet that is begun has a number no live packet has.
LEMMA FreshNumber ==
    ASSUME Unambiguous, LinkInv, NEW grant, NormalSend(grant), next.flit = 0,
           NEW q \in Packets, Live(q)
    PROVE  q % SeqSpace # next.packet % SeqSpace
<1> DEFINE x == next.packet
<1>1. LinkTyped /\ WindowInv
    BY DEF LinkInv
<1>2. x \in Packets /\ x \in Nat /\ BegunCount = x /\ q \in Nat
    BY <1>1, CountFacts, OfferFacts, PacketFacts
<1>3. q < x
    BY <1>2 DEF Live
<1>4. SUFFICES ASSUME q % SeqSpace = x % SeqSpace PROVE FALSE
    OBVIOUS
<1>5. PICK r \in Packets :
        /\ Multi(r) /\ r \in Nat /\ Later(q, r) /\ Later(r, x) /\ r < x
    BY <1>2, <1>3, <1>4, Between
<1>6. Retained(r)
    BY <1>2, <1>5 DEF Live
<1>7. r % WindowSlots = next.packet % WindowSlots
    BY <1>5 DEF Later
<1> QED BY <1>5, <1>6, <1>7, FreshSlot

LEMMA RetainedStep ==
    ASSUME Unambiguous, LinkInv, NEW grant, NEW message, NEW due, Arrived(message),
           SenderEdge(grant, message, due), NEW p \in Nat
    PROVE  /\ Retained(p) /\ ~Retained(p)' =>
                /\ p \in Packets /\ Earned(p)
                /\ reverse # <<>> /\ message = <<Head(reverse)>> /\ Acks(Head(reverse), p)
           /\ Retained(p)' =>
                Retained(p) \/ (NormalSend(grant) /\ p = next.packet /\ next.flit = 0)
           /\ NormalSend(grant) /\ p = next.packet => Retained(p)'
<1> DEFINE k == p % WindowSlots
           old == win.slots[k]
           new == win'.slots[k]
           freed == ReleasedSlots(grant, message, due)
<1>1. LinkTyped /\ WindowInv /\ WindowInv' /\ next.flit \in Nat
    BY SlotsKept, CountFacts DEF LinkInv
<1>2. k \in Slots /\ (Retained(p) <=> old.valid /\ old.flits[1].load = p)
    BY <1>1, RetainedFacts
<1>3. Retained(p)' <=> new.valid /\ new.flits[1].load = p
    <2>1. new.valid /\ new.flits[1].load = p => Retained(p)'
        BY <1>2 DEF Retained
    <2>2. ASSUME Retained(p)' PROVE new.valid /\ new.flits[1].load = p
        <3>1. PICK j \in Slots : win'.slots[j].valid /\ win'.slots[j].flits[1].load = p
            BY <2>2 DEF Retained
        <3>2. SlotHolds(j)'
            BY <1>1 DEF WindowInv
        <3>3. p % WindowSlots = j
            BY <3>1, <3>2 DEF SlotHolds
        <3> QED BY <3>1, <3>3
    <2> QED BY <2>1, <2>2
<1>4. CASE k \in freed
    <2>1. ~new.valid
        BY <1>2, <1>4, SlotStep
    <2>2. /\ old.flits[1].load \in Packets /\ Earned(old.flits[1].load)
          /\ reverse # <<>> /\ message = <<Head(reverse)>>
          /\ Acks(Head(reverse), old.flits[1].load)
        BY <1>4, ReleasedFacts
    <2>3. ~(NormalSend(grant) /\ p = next.packet)
        BY <1>4, StoreKeeps
    <2> QED BY <1>2, <1>3, <2>1, <2>2, <2>3
<1>5. CASE k \notin freed /\ ~(NormalSend(grant) /\ k = next.packet % WindowSlots)
    <2>1. SameSlot(old, new)
        BY <1>2, <1>5, SlotStep
    <2> HIDE DEF old, new
    <2>2. Retained(p)' <=> Retained(p)
        BY <1>2, <1>3, <2>1 DEF SameSlot
    <2>3. ~(NormalSend(grant) /\ p = next.packet)
        BY <1>5
    <2> QED BY <2>2, <2>3
<1>6. CASE k \notin freed /\ NormalSend(grant) /\ k = next.packet % WindowSlots
    <2>1. TakesFlit(new, next.packet, next.flit)
        BY <1>2, <1>6, SlotStep
    <2> HIDE DEF new
    <2>2. Retained(p)' <=> p = next.packet
        BY <1>3, <2>1 DEF TakesFlit
    <2>3. CASE next.flit = 0
        <3>1. ~Retained(p)
            BY <1>6, <2>3, FreshSlot
        <3> QED BY <1>6, <2>2, <2>3, <3>1
    <2>4. CASE next.flit > 0
        <3>1. old.valid /\ old.flits[1].load = next.packet
            BY <1>6, <2>4, StoreFacts
        <3>2. Retained(p) <=> p = next.packet
            BY <1>2, <3>1
        <3> QED BY <1>6, <2>2, <3>2
    <2> QED BY <1>1, <2>3, <2>4
<1> QED BY <1>4, <1>5, <1>6

\* A packet ceases to be live when the oldest answer releases a later one of its slot.
LEMMA LiveStep ==
    ASSUME Unambiguous, LinkInv, NEW grant, NEW message, NEW due, Arrived(message),
           SenderEdge(grant, message, due), NEW p \in Nat
    PROVE  /\ Live(p) /\ ~Live(p)' =>
                /\ p \in Packets
                /\ \E later \in Packets :
                    /\ Later(p, later) /\ Multi(later) /\ Live(later) /\ Earned(later)
                    /\ reverse # <<>> /\ message = <<Head(reverse)>>
                    /\ Acks(Head(reverse), later)
           /\ Live(p)' /\ ~Live(p) =>
                NormalSend(grant) /\ p = next.packet /\ next.flit = 0
<1>1. LinkTyped /\ WindowInv
    BY DEF LinkInv
<1>2. /\ BegunCount \in Nat /\ BegunCount <= Len(Lengths) /\ Len(Lengths) \in Nat
      /\ next.packet \in Nat /\ next.flit \in Nat
      /\ next.packet <= BegunCount /\ BegunCount <= next.packet + 1
      /\ next.flit = 0 => BegunCount = next.packet
      /\ next.flit > 0 => BegunCount = next.packet + 1
    BY <1>1, CountFacts, PacketFacts
<1>3. /\ BegunCount <= BegunCount'
      /\ ~NormalSend(grant) => BegunCount' = BegunCount
      /\ NormalSend(grant) => BegunCount' = next.packet + 1
    BY NextStep
<1>4. BegunCount' \in Nat
    BY <1>2, <1>3
<1>5. \A q \in Packets : q \in Nat
    BY PacketFacts
<1>6. ASSUME Live(p), ~Live(p)'
      PROVE  /\ p \in Packets
             /\ \E later \in Packets :
                /\ Later(p, later) /\ Multi(later) /\ Live(later) /\ Earned(later)
                /\ reverse # <<>> /\ message = <<Head(reverse)>> /\ Acks(Head(reverse), later)
    <2>1. p < BegunCount /\ p < BegunCount'
        BY <1>2, <1>3, <1>4, <1>6 DEF Live
    <2>2. PICK later \in Packets :
            Later(p, later) /\ Multi(later) /\ later < BegunCount' /\ ~Retained(later)'
        BY <1>6, <2>1 DEF Live, Later
    <2>3. later \in Nat
        BY <1>5
    <2>4. later < BegunCount
        <3>1. CASE NormalSend(grant) /\ later >= BegunCount
            <4>1. later = next.packet
                BY <1>2, <1>3, <2>2, <2>3, <3>1
            <4> QED BY <2>2, <2>3, <3>1, <4>1, RetainedStep
        <3> QED BY <1>2, <1>3, <2>2, <2>3, <3>1
    <2>5. Retained(later)
        BY <1>6, <2>2, <2>4 DEF Live
    <2>6. Live(later) /\ p \in Packets
        <3>1. p < Len(Lengths)
            BY <1>2, <2>1
        <3> QED BY <1>1, <2>3, <2>5, <3>1, RetainedIsLive, PacketFacts
    <2> QED BY <2>2, <2>3, <2>5, <2>6, RetainedStep
<1>7. ASSUME Live(p)', ~Live(p)
      PROVE  NormalSend(grant) /\ p = next.packet /\ next.flit = 0
    <2>1. CASE p < BegunCount
        <3>1. PICK later \in Packets :
                Later(p, later) /\ Multi(later) /\ later < BegunCount /\ ~Retained(later)
            BY <1>7, <2>1 DEF Live
        <3>2. later \in Nat /\ later < BegunCount'
            BY <1>2, <1>3, <1>4, <1>5, <3>1
        <3>3. Retained(later)'
            BY <1>7, <3>1, <3>2 DEF Live, Later
        <3>4. later = next.packet /\ next.flit = 0
            BY <3>1, <3>2, <3>3, RetainedStep
        <3> QED BY <1>2, <3>1, <3>2, <3>4
    <2>2. CASE p >= BegunCount
        <3>1. p < BegunCount'
            BY <1>7 DEF Live
        <3> QED BY <1>2, <1>3, <1>4, <2>2, <3>1
    <2> QED BY <1>2, <2>1, <2>2
<1> QED BY <1>6, <1>7

\* Nothing is under way of a packet that ceases to be live.
LEMMA Quiet ==
    ASSUME Unambiguous, LinkInv, NEW grant, NEW message, NEW due, Arrived(message),
           SenderEdge(grant, message, due), NEW p \in Nat, Live(p), ~Live(p)'
    PROVE  /\ ~Coming(p) /\ ~Gathering(p) /\ ~Waiting(p)
           /\ reverse # <<>> /\ message = <<Head(reverse)>>
           /\ \A n \in 1 .. Len(Answers) : n > 1 => ~Acks(Answers[n], p)
<1>1. p \in Packets
    BY LiveStep
<1>2. PICK later \in Packets :
        /\ Later(p, later) /\ Multi(later) /\ Live(later) /\ Earned(later)
        /\ reverse # <<>> /\ message = <<Head(reverse)>> /\ Acks(Head(reverse), later)
    BY LiveStep
<1>3. ~Coming(p) /\ ~Gathering(p) /\ ~Waiting(p)
    BY <1>1, <1>2 DEF LinkInv, OrderInv, Earned
<1>4. 1 \in 1 .. Len(Answers) /\ Answers[1] = Head(reverse)
    BY <1>2, AnswersFacts DEF LinkInv
<1>5. ASSUME NEW n \in 1 .. Len(Answers), n > 1 PROVE ~Acks(Answers[n], p)
    BY <1>1, <1>2, <1>4, <1>5 DEF LinkInv, AnswerInv
<1> QED BY <1>2, <1>3, <1>5
-----------------------------------------------------------------------------
(* The sender's edge: flits under way. *)

LEMMA OneElement ==
    ASSUME NEW T, NEW x \in T
    PROVE  <<x>> \in Seq(T) /\ AtMostOne(<<x>>) /\ <<x>>[1] = x /\ <<x>> # <<>> /\ Len(<<x>>) = 1
BY DEF AtMostOne

LEMMA NoElement ==
    ASSUME NEW T
    PROVE  <<>> \in Seq(T) /\ AtMostOne(<<>>)
BY EmptySeq DEF AtMostOne

LEMMA OnePacketTail ==
    ASSUME NEW s \in Seq(Genuine), OnePacket(s), s # <<s[1]>>
    PROVE  Tail(s) \in Seq(Genuine) /\ OnePacket(Tail(s)) /\ Tail(s)[1].load = s[1].load
<1> DEFINE t == Tail(s)
<1>1. s # <<>> /\ Len(s) \in Nat /\ Len(s) >= 1
    BY SeqFirst DEF OnePacket
<1>2. /\ t \in Seq(Genuine) /\ Len(t) = Len(s) - 1
      /\ \A n \in 1 .. Len(t) : t[n] = s[n + 1]
    BY <1>1, HeadTailProperties
<1>3. Len(s) # 1
    <2>1. SUFFICES ASSUME Len(s) = 1 PROVE s = <<s[1]>>
        OBVIOUS
    <2>2. s[1] \in Genuine
        BY <1>1, SeqFirst
    <2>3. <<s[1]>> \in Seq(Genuine) /\ Len(<<s[1]>>) = 1
        BY <2>2
    <2>4. \A i \in 1 .. Len(s) : s[i] = <<s[1]>>[i]
        BY <2>1
    <2> QED BY <2>1, <2>3, <2>4, SeqEqual
<1> HIDE DEF t
<1>4. ASSUME NEW n \in 1 .. Len(t) PROVE t[n].load = s[1].load
    <2>1. n + 1 \in 1 .. Len(s)
        BY <1>1, <1>2
    <2>2. s[n + 1].load = s[1].load
        BY <2>1 DEF OnePacket
    <2> QED BY <1>2, <2>2
<1>5. 1 \in 1 .. Len(t)
    BY <1>1, <1>2, <1>3
<1>6. t # <<>>
    <2>1. SUFFICES ASSUME t = <<>> PROVE FALSE
        OBVIOUS
    <2>2. Len(t) = 0
        BY <2>1
    <2> QED BY <1>5, <2>2
<1>7. t[1].load = s[1].load
    BY <1>4, <1>5
<1>8. OnePacket(t)
    BY <1>4, <1>6, <1>7 DEF OnePacket
<1> QED BY <1>2, <1>7, <1>8 DEF t

LEMMA AsReplay ==
    ASSUME NEW f \in Genuine
    PROVE  [f EXCEPT !.vc = "replay"] \in Genuine /\ [f EXCEPT !.vc = "replay"].load = f.load
<1>1. "replay" \in Channels
    BY LinkAssumption
<1> QED BY <1>1 DEF Genuine, FlitRecord

\* What the replay registers hold.
LEMMA ReplayFacts ==
    ASSUME LinkTyped, ReplayInv
    PROVE  /\ win.replaying # <<>> =>
                LET r == win.replaying[1]  p == r.flits[1].load IN
                /\ win.replaying = <<r>> /\ r \in ReplayRecord /\ r.flits \in Seq(Genuine)
                /\ OnePacket(r.flits) /\ r.flits[1] \in Genuine
                /\ p \in Packets /\ p \in Nat /\ p < next.packet
                /\ win.out = <<>> => Retained(p)
                /\ win.out # <<>> => win.out[1].load = p
           /\ win.out # <<>> =>
                /\ win.out = <<win.out[1]>> /\ win.out[1] \in Genuine
                /\ win.out[1].load \in Packets /\ win.out[1].load \in Nat
                /\ win.out[1].load < next.packet
<1>1. ASSUME win.replaying # <<>>
      PROVE  LET r == win.replaying[1]  p == r.flits[1].load IN
                /\ win.replaying = <<r>> /\ r \in ReplayRecord /\ r.flits \in Seq(Genuine)
                /\ OnePacket(r.flits) /\ r.flits[1] \in Genuine
                /\ p \in Packets /\ p \in Nat /\ p < next.packet
                /\ win.out = <<>> => Retained(p)
                /\ win.out # <<>> => win.out[1].load = p
    <2> DEFINE r == win.replaying[1]
               p == r.flits[1].load
    <2>1. win.replaying = <<r>> /\ r \in ReplayRecord
        BY <1>1, SeqFirst DEF LinkTyped, AtMostOne
    <2>2. r.flits \in Seq(Genuine)
        BY <2>1 DEF ReplayRecord
    <2>3. /\ OnePacket(r.flits) /\ p < next.packet
          /\ win.out = <<>> => Retained(p)
          /\ win.out # <<>> => win.out[1].load = p
        BY <1>1 DEF ReplayInv
    <2>4. r.flits[1] \in Genuine
        BY <2>2, <2>3, SeqFirst DEF OnePacket
    <2>5. p \in Packets
        BY <2>4 DEF Genuine
    <2> HIDE DEF r
    <2> QED BY <2>1, <2>2, <2>3, <2>4, <2>5, PacketFacts DEF r
<1>2. ASSUME win.out # <<>>
      PROVE  /\ win.out = <<win.out[1]>> /\ win.out[1] \in Genuine
             /\ win.out[1].load \in Packets /\ win.out[1].load \in Nat
             /\ win.out[1].load < next.packet
    <2>1. win.out = <<win.out[1]>> /\ win.out[1] \in Genuine
        BY <1>2, SeqFirst DEF LinkTyped, AtMostOne
    <2>2. win.out[1].load \in Packets
        BY <2>1 DEF Genuine
    <2>3. win.out[1].load < next.packet
        BY <1>2 DEF ReplayInv
    <2> QED BY <2>1, <2>2, <2>3, PacketFacts
<1> QED BY <1>1, <1>2

\* A packet that is to be sent again is whole and not released at the same edge.
LEMMA ReplaysFacts ==
    ASSUME Unambiguous, LinkInv, NEW grant, NEW message, NEW due, Arrived(message),
           SenderEdge(grant, message, due),
           NEW k \in Replays(win, WindowInput(grant, message, due))
    PROVE  /\ win.replaying = <<>> /\ win.out = <<>>
           /\ k \in Slots /\ win.slots[k].flits \in Seq(Genuine) /\ OnePacket(win.slots[k].flits)
           /\ \E p \in Packets :
                /\ win.slots[k].flits[1].load = p
                /\ p \in Nat /\ p < next.packet /\ Retained(p) /\ Retained(p)'
<1> DEFINE i == WindowInput(grant, message, due)
           slot == win.slots[k]
<1>1. k \in Requested(win, i)
    BY DEF Replays
<1>2. Idle(win)
    BY <1>1 DEF Requested
<1>3. /\ k \in Slots /\ slot.valid /\ slot.complete
      /\ k \notin Released(win, i) \/ i.nack # <<>>
    <2> HIDE DEF i
    <2> QED BY <1>1, <1>2 DEF Requested, Holds
<1>4. k \notin Released(win, i)
    <2>1. SUFFICES ASSUME i.nack # <<>>, i.ack # <<>> PROVE FALSE
        BY <1>3 DEF Released
    <2>2. Named(message, "nack") # <<>> /\ Named(message, "ack") # <<>>
        BY <2>1 DEF WindowInput
    <2>3. Head(reverse).type = "nack" /\ Head(reverse).type = "ack"
        BY <2>2, NamedFacts
    <2> QED BY <2>3
<1>5. /\ slot.flits \in Seq(Genuine) /\ OnePacket(slot.flits)
      /\ \E p \in Packets : slot.flits[1].load = p /\ p \in Nat
                           /\ p % WindowSlots = k /\ p < next.packet
    BY <1>3, SlotFacts DEF LinkInv
<1>p. PICK p \in Packets : slot.flits[1].load = p /\ p \in Nat
                           /\ p % WindowSlots = k /\ p < next.packet
    BY <1>5
<1>6. Retained(p)
    BY <1>3, <1>p DEF Retained
<1>7. ~(NormalSend(grant) /\ k = next.packet % WindowSlots)
    <2>1. SUFFICES ASSUME NormalSend(grant), k = next.packet % WindowSlots PROVE FALSE
        OBVIOUS
    <2>2. next.packet \in Nat /\ next.flit \in Nat
        BY CountFacts DEF LinkInv
    <2>3. CASE next.flit = 0
        BY <1>3, <2>1, <2>3, StoreFacts
    <2>4. CASE next.flit > 0
        <3>1. p = next.packet
            BY <1>p, <2>1, <2>4, StoreFacts
        <3> QED BY <1>p, <2>2, <3>1
    <2> QED BY <2>2, <2>3, <2>4
<1>8. k \notin ReleasedSlots(grant, message, due)
    BY <1>4 DEF ReleasedSlots
<1>9. SameSlot(slot, win'.slots[k])
    BY <1>3, <1>7, <1>8, SlotStep
<1>10. win'.slots[k].valid /\ win'.slots[k].flits[1].load = p
    <2> HIDE DEF slot
    <2> QED BY <1>3, <1>9, <1>p DEF SameSlot
<1>11. Retained(p)'
    BY <1>3, <1>10 DEF Retained
<1> QED BY <1>2, <1>3, <1>5, <1>6, <1>11, <1>p DEF Idle

\* Sent again after the edge is what was before, or what the edge begins to.
LEMMA ReplayStep ==
    ASSUME Unambiguous, LinkInv, NEW grant, NEW message, NEW due, Arrived(message),
           SenderEdge(grant, message, due)
    PROVE  /\ win'.replaying \in Seq(ReplayRecord) /\ AtMostOne(win'.replaying)
           /\ win'.out \in Seq(Genuine) /\ AtMostOne(win'.out)
           /\ ReplayInv'
           /\ \A p \in Packets : Replayed(p)' =>
                \/ Replayed(p)
                \/ win.out = <<>> /\ Retained(p) /\ Retained(p)'
<1> DEFINE i == WindowInput(grant, message, due)
<1>1. LinkTyped /\ ReplayInv /\ WindowInv
    BY DEF LinkInv
<1>2. win'.replaying = ReplayingAfter(win, i) /\ win'.out = OutAfter(win, i)
    BY DEF SenderEdge, WindowInput, WindowEdge
<1>3. i.ready = ReplaySend(grant) /\ (i.ready => win.out # <<>>)
    BY DEF WindowInput, ReplaySend
<1>4. next.packet \in Nat /\ next'.packet \in Nat /\ next.packet <= next'.packet
    BY <1>1, NextStep, CountFacts
<1>5. \A k \in Replays(win, i) :
        /\ win.replaying = <<>> /\ win.out = <<>>
        /\ k \in Slots /\ win.slots[k].flits \in Seq(Genuine) /\ OnePacket(win.slots[k].flits)
        /\ \E p \in Packets :
            /\ win.slots[k].flits[1].load = p
            /\ p \in Nat /\ p < next.packet /\ Retained(p) /\ Retained(p)'
    BY ReplaysFacts
<1> HIDE DEF i
<1>6. CASE Loads(win, i)
    <2> DEFINE r == win.replaying[1]
               p == r.flits[1].load
               f == [r.flits[1] EXCEPT !.vc = "replay"]
    <2>1. win.replaying # <<>>
        BY <1>6 DEF Loads
    <2>2. /\ r \in ReplayRecord /\ r.flits \in Seq(Genuine)
          /\ OnePacket(r.flits) /\ r.flits[1] \in Genuine /\ p \in Nat /\ p < next.packet
        BY <1>1, <2>1, ReplayFacts
    <2>3. win'.out = <<f>> /\ f \in Genuine /\ f.load = p
        BY <1>2, <1>6, <2>2, AsReplay DEF OutAfter
    <2>4. win'.replaying = IF r.flits = <<r.flits[1]>> THEN <<>>
                           ELSE <<[slot |-> r.slot, flits |-> Tail(r.flits)]>>
        BY <1>2, <1>6 DEF ReplayingAfter, Walked
    <2>5. Replayed(p)
        BY <2>1 DEF Replayed
    <2>6. p < next'.packet
        BY <1>4, <2>2
    <2> HIDE DEF f
    <2>7. win'.out \in Seq(Genuine) /\ AtMostOne(win'.out) /\ win'.out # <<>> /\ win'.out[1].load = p
        BY <2>3, OneElement
    <2>8. CASE r.flits = <<r.flits[1]>>
        <3>1. win'.replaying = <<>>
            BY <2>4, <2>8
        <3>2. ReplayInv'
            BY <2>6, <2>7, <3>1 DEF ReplayInv
        <3>3. \A q \in Packets : Replayed(q)' => Replayed(q)
            BY <2>5, <2>7, <3>1 DEF Replayed
        <3> QED BY <2>7, <3>1, <3>2, <3>3, NoElement
    <2>9. CASE r.flits # <<r.flits[1]>>
        <3> DEFINE t == Tail(r.flits)
                   s == [slot |-> r.slot, flits |-> t]
        <3>1. t \in Seq(Genuine) /\ OnePacket(t) /\ t[1].load = p
            BY <2>2, <2>9, OnePacketTail
        <3>2. win'.replaying = <<s>>
            BY <2>4, <2>9
        <3> HIDE DEF t, p
        <3>3. s \in ReplayRecord /\ s.flits = t
            BY <2>2, <3>1 DEF ReplayRecord
        <3> HIDE DEF s
        <3>4. win'.replaying \in Seq(ReplayRecord) /\ AtMostOne(win'.replaying)
              /\ win'.replaying # <<>> /\ win'.replaying[1] = s
            BY <3>2, <3>3, OneElement
        <3>5. ReplayInv'
            BY <2>6, <2>7, <3>1, <3>3, <3>4 DEF ReplayInv
        <3>6. \A q \in Packets : Replayed(q)' => Replayed(q)
            BY <2>5, <2>7, <3>1, <3>3, <3>4 DEF Replayed
        <3> QED BY <2>7, <3>4, <3>5, <3>6
    <2> QED BY <2>8, <2>9
<1>7. CASE ~Loads(win, i) /\ Replays(win, i) # {}
    <2> DEFINE k == CHOOSE s \in Replays(win, i) : TRUE
    <2>1. k \in Replays(win, i)
        BY <1>7
    <2> HIDE DEF k
    <2> DEFINE s == [slot |-> k, flits |-> win.slots[k].flits]
    <2>a. /\ win.replaying = <<>> /\ win.out = <<>>
          /\ k \in Slots /\ win.slots[k].flits \in Seq(Genuine) /\ OnePacket(win.slots[k].flits)
        BY <1>5, <2>1
    <2>p. PICK p \in Packets :
            /\ win.slots[k].flits[1].load = p
            /\ p \in Nat /\ p < next.packet /\ Retained(p) /\ Retained(p)'
        BY <1>5, <2>1
    <2>2. /\ win.replaying = <<>> /\ win.out = <<>>
          /\ k \in Slots /\ win.slots[k].flits \in Seq(Genuine) /\ OnePacket(win.slots[k].flits)
          /\ p \in Packets /\ p \in Nat /\ p < next.packet /\ Retained(p) /\ Retained(p)'
        BY <2>a, <2>p
    <2>3. win'.replaying = <<s>>
        BY <1>2, <1>7 DEF ReplayingAfter, k
    <2>4. win'.out = <<>>
        BY <1>2, <1>3, <1>7, <2>2 DEF OutAfter
    <2>5. p < next'.packet
        BY <1>4, <2>2
    <2>6. s \in ReplayRecord /\ s.flits = win.slots[k].flits
        BY <2>2 DEF ReplayRecord
    <2> HIDE DEF s
    <2>7. win'.replaying \in Seq(ReplayRecord) /\ AtMostOne(win'.replaying)
          /\ win'.replaying # <<>> /\ win'.replaying[1] = s
        BY <2>3, <2>6, OneElement
    <2>8. OnePacket(s.flits) /\ s.flits[1].load = p
        BY <2>2, <2>6, <2>p
    <2>9. ReplayInv'
        BY <2>2, <2>4, <2>5, <2>7, <2>8 DEF ReplayInv
    <2>10. \A q \in Packets : Replayed(q)' => q = p
        BY <2>4, <2>7, <2>8 DEF Replayed
    <2> QED BY <2>2, <2>4, <2>7, <2>9, <2>10, NoElement
<1>8. CASE ~Loads(win, i) /\ Replays(win, i) = {}
    <2>1. win'.replaying = win.replaying
        BY <1>2, <1>8 DEF ReplayingAfter
    <2>2. win'.out = IF i.ready THEN <<>> ELSE win.out
        BY <1>2, <1>8 DEF OutAfter
    <2>3. win.replaying # <<>> => win.out # <<>> /\ win'.out = win.out
        BY <1>8, <2>2 DEF Loads
    <2>4. win'.out = <<>> \/ win'.out = win.out
        BY <2>2
    <2>5. win'.out \in Seq(Genuine) /\ AtMostOne(win'.out)
          /\ win'.replaying \in Seq(ReplayRecord) /\ AtMostOne(win'.replaying)
        BY <1>1, <2>1, <2>4, NoElement DEF LinkTyped
    <2>6. ReplayInv'
        <3>1. ASSUME win'.replaying # <<>>
              PROVE  LET flits == win'.replaying[1].flits  p == flits[1].load IN
                     /\ OnePacket(flits) /\ p < next'.packet
                     /\ win'.out # <<>> /\ win'.out[1].load = p
            <4> DEFINE flits == win.replaying[1].flits
            <4>1. /\ OnePacket(flits) /\ flits[1].load \in Nat /\ flits[1].load < next.packet
                  /\ win.out # <<>> /\ win.out[1].load = flits[1].load /\ win'.out = win.out
                BY <1>1, <2>1, <2>3, <3>1, ReplayFacts
            <4>2. flits[1].load < next'.packet
                BY <1>4, <4>1
            <4> QED BY <2>1, <4>1, <4>2
        <3>2. ASSUME win'.out # <<>> PROVE win'.out[1].load < next'.packet
            <4>1. win'.out = win.out /\ win.out[1].load \in Nat /\ win.out[1].load < next.packet
                BY <1>1, <2>4, <3>2, ReplayFacts
            <4> QED BY <1>4, <4>1
        <3> QED BY <3>1, <3>2 DEF ReplayInv
    <2>7. \A q \in Packets : Replayed(q)' => Replayed(q)
        BY <2>1, <2>4 DEF Replayed
    <2> QED BY <2>5, <2>6, <2>7
<1> QED BY <1>6, <1>7, <1>8

LEMMA OneMore ==
    ASSUME NEW T, NEW s \in Seq(T), NEW f \in T
    PROVE  /\ s \o <<f>> \in Seq(T) /\ Len(s) \in Nat /\ Len(s \o <<f>>) = Len(s) + 1
           /\ \A n \in 1 .. Len(s \o <<f>>) :
                \/ n \in 1 .. Len(s) /\ (s \o <<f>>)[n] = s[n]
                \/ n = Len(s) + 1 /\ (s \o <<f>>)[n] = f
<1> DEFINE t == s \o <<f>>
<1>1. <<f>> \in Seq(T) /\ Len(<<f>>) = 1 /\ <<f>>[1] = f /\ Len(s) \in Nat
    BY OneElement, LenProperties
<1>2. /\ t \in Seq(T) /\ Len(t) = Len(s) + Len(<<f>>)
      /\ \A n \in 1 .. Len(s) + Len(<<f>>) :
            t[n] = IF n <= Len(s) THEN s[n] ELSE <<f>>[n - Len(s)]
    BY <1>1, ConcatProperties
<1> HIDE DEF t
<1>3. ASSUME NEW n \in 1 .. Len(t)
      PROVE  \/ n \in 1 .. Len(s) /\ t[n] = s[n]
             \/ n = Len(s) + 1 /\ t[n] = f
    <2>1. CASE n <= Len(s)
        BY <1>1, <1>2, <2>1
    <2>2. CASE n = Len(s) + 1
        <3>1. n \in 1 .. Len(s) + Len(<<f>>) /\ ~(n <= Len(s)) /\ n - Len(s) = 1
            BY <1>1, <2>2
        <3>2. t[n] = <<f>>[1]
            BY <1>2, <3>1
        <3> QED BY <1>1, <2>2, <3>2
    <2> QED BY <1>1, <1>2, <2>1, <2>2
<1> QED BY <1>1, <1>2, <1>3 DEF t

\* What an edge may put on the wire: a flit sent again, or one of normal traffic.
LEMMA WireChange ==
    ASSUME Unambiguous, LinkInv, NEW grant, NEW message, NEW due,
           SenderEdge(grant, message, due)
    PROVE  \/ wire' = wire /\ ~ReplaySend(grant) /\ ~NormalSend(grant)
           \/ \E f \in Genuine :
                /\ wire' = wire \o <<f>> /\ Sent(f)'
                /\ \/ /\ ReplaySend(grant) /\ ~NormalSend(grant)
                      /\ win.out # <<>> /\ f = win.out[1]
                   \/ NormalSend(grant) /\ f.load = next.packet
<1>1. LinkTyped /\ ReplayInv
    BY DEF LinkInv
<1>2. wire' = IF ReplaySend(grant) THEN wire \o win.out
              ELSE IF NormalSend(grant) THEN wire \o Offer ELSE wire
    BY DEF SenderEdge
<1>3. next.packet \in Nat /\ next'.packet \in Nat /\ next.packet <= next'.packet
    BY <1>1, NextStep, CountFacts
<1>4. CASE ReplaySend(grant)
    <2>1. win.out # <<>> /\ ~NormalSend(grant)
        BY <1>4 DEF ReplaySend, NormalSend
    <2>2. win.out = <<win.out[1]>> /\ win.out[1] \in Genuine /\ win.out[1].load \in Nat
          /\ win.out[1].load < next.packet
        BY <1>1, <2>1, ReplayFacts
    <2>3. PICK f \in Genuine : f = win.out[1]
        BY <2>2
    <2>4. wire' = wire \o <<f>>
        BY <1>2, <1>4, <2>2, <2>3
    <2>5. f.load < next'.packet
        BY <1>3, <2>2, <2>3
    <2>6. Sent(f)'
        BY <2>5 DEF Sent
    <2> QED BY <1>4, <2>1, <2>3, <2>4, <2>6
<1>5. CASE ~ReplaySend(grant) /\ NormalSend(grant)
    <2>1. PICK f \in Genuine :
            /\ Offer = <<f>> /\ f.load = next.packet /\ f.index = next.flit
            /\ next.flit \in Nat
        BY <1>1, <1>5, OfferFacts
    <2>2. wire' = wire \o <<f>>
        BY <1>2, <1>5, <2>1
    <2>3. \/ next'.packet = next.packet + 1
          \/ next'.packet = next.packet /\ next'.flit = next.flit + 1
        BY <1>5, NextStep
    <2>4. \/ f.load < next'.packet
          \/ f.load = next'.packet /\ f.index < next'.flit
        BY <1>3, <2>1, <2>3
    <2>5. Sent(f)'
        BY <2>4 DEF Sent
    <2> QED BY <1>5, <2>1, <2>2, <2>5
<1>6. CASE ~ReplaySend(grant) /\ ~NormalSend(grant)
    BY <1>2, <1>6
<1> QED BY <1>4, <1>5, <1>6

\* A packet on the wire after the edge was there, or is sent by it.
LEMMA OnWireStep ==
    ASSUME Unambiguous, LinkInv, NEW grant, NEW message, NEW due,
           SenderEdge(grant, message, due), NEW p \in Packets, OnWire(p)'
    PROVE  \/ OnWire(p)
           \/ ReplaySend(grant) /\ win.out # <<>> /\ win.out[1].load = p
           \/ NormalSend(grant) /\ p = next.packet
<1>1. PICK n \in 1 .. Len(wire') : wire'[n].load = p
    BY DEF OnWire
<1>2. CASE wire' = wire
    BY <1>1, <1>2 DEF OnWire
<1>3. CASE wire' # wire
    <2>1. PICK f \in Genuine :
                /\ wire' = wire \o <<f>>
                /\ \/ ReplaySend(grant) /\ win.out # <<>> /\ f = win.out[1]
                   \/ NormalSend(grant) /\ f.load = next.packet
        BY <1>3, WireChange
    <2>2. wire \in Seq(Genuine)
        BY DEF LinkInv, LinkTyped
    <2>3. (n \in 1 .. Len(wire) /\ wire'[n] = wire[n]) \/ wire'[n] = f
        BY <1>1, <2>1, <2>2, OneMore
    <2> QED BY <1>1, <2>1, <2>3 DEF OnWire
<1> QED BY <1>2, <1>3

LEMMA GenuineLoad ==
    ASSUME NEW f \in Genuine
    PROVE  f.load \in Packets /\ f.load \in Nat
BY PacketFacts DEF Genuine

\* The wire holds genuine flits that were sent.
LEMMA WireFacts ==
    ASSUME LinkTyped, WireInv, NEW n \in 1 .. Len(wire)
    PROVE  /\ wire[n] \in Genuine /\ wire[n].load \in Packets /\ wire[n].load \in Nat
           /\ Sent(wire[n]) /\ OnWire(wire[n].load)
<1>1. wire[n] \in Genuine
    BY ElementOfSeq DEF LinkTyped
<1> QED BY <1>1, GenuineLoad DEF WireInv, OnWire

LEMMA SentStep ==
    ASSUME Unambiguous, LinkInv, NEW grant, NEW message, NEW due,
           SenderEdge(grant, message, due), NEW f \in Genuine, Sent(f)
    PROVE  Sent(f)'
<1>1. /\ next.packet \in Nat /\ next.flit \in Nat /\ f.load \in Nat
      /\ next'.packet \in Nat /\ next'.flit \in Nat /\ f.index \in Nat
    BY NextStep, CountFacts, GenuineLoad DEF LinkInv, Genuine, FlitRecord
<1>2. \/ next' = next
      \/ next'.packet = next.packet + 1
      \/ next'.packet = next.packet /\ next'.flit = next.flit + 1
    BY NextStep
<1> QED BY <1>1, <1>2 DEF Sent

LEMMA WireKept ==
    ASSUME Unambiguous, LinkInv, NEW grant, NEW message, NEW due,
           SenderEdge(grant, message, due)
    PROVE  wire' \in Seq(Genuine) /\ WireInv'
<1>1. LinkTyped /\ WireInv /\ OrderInv /\ LiveInv /\ ReplayInv /\ wire \in Seq(Genuine)
    BY DEF LinkInv, LinkTyped
<1>2. /\ WindowSlots \in Nat \ {0} /\ next.packet \in Nat /\ BegunCount \in Nat
      /\ BegunCount <= next.packet + 1
    BY <1>1, Sizes, CountFacts
<1>3. CASE wire' = wire
    <2>1. \A n \in 1 .. Len(wire) : wire[n] \in Genuine /\ Sent(wire[n])
        BY <1>1, WireFacts
    <2>2. \A n \in 1 .. Len(wire) : Sent(wire[n])'
        <3>1. ASSUME NEW n \in 1 .. Len(wire) PROVE Sent(wire[n])'
            <4>1. PICK f \in Genuine : f = wire[n] /\ Sent(f)
                BY <2>1
            <4>2. Sent(f)'
                BY <4>1, SentStep
            <4> QED BY <1>3, <4>1, <4>2 DEF Sent
        <3> QED BY <3>1
    <2> QED BY <1>1, <1>3, <2>2 DEF WireInv, Later
<1>4. CASE wire' # wire
    <2>1. PICK f \in Genuine :
                /\ wire' = wire \o <<f>> /\ Sent(f)'
                /\ \/ ReplaySend(grant) /\ win.out # <<>> /\ f = win.out[1]
                   \/ NormalSend(grant) /\ f.load = next.packet
        BY <1>4, WireChange
    <2>2. /\ wire' \in Seq(Genuine) /\ Len(wire) \in Nat
          /\ Len(wire') = Len(wire) + 1
          /\ \A n \in 1 .. Len(wire') :
                \/ n \in 1 .. Len(wire) /\ wire'[n] = wire[n]
                \/ n = Len(wire) + 1 /\ wire'[n] = f
        BY <1>1, <2>1, OneMore
    <2>3. ASSUME NEW n \in 1 .. Len(wire') PROVE Sent(wire[n])'
        <3>1. CASE n \in 1 .. Len(wire) /\ wire'[n] = wire[n]
            <4>1. PICK g \in Genuine : g = wire[n] /\ Sent(g)
                BY <1>1, <3>1, WireFacts
            <4>2. Sent(g)'
                BY <4>1, SentStep
            <4> QED BY <3>1, <4>1, <4>2 DEF Sent
        <3>2. CASE wire'[n] = f
            BY <2>1, <3>2 DEF Sent
        <3> QED BY <2>2, <3>1, <3>2
    <2>4. ASSUME NEW m \in 1 .. Len(wire) PROVE ~Later(f.load, wire[m].load)
        <3>1. wire[m].load \in Packets /\ wire[m].load \in Nat /\ OnWire(wire[m].load)
            BY <1>1, WireFacts
        <3>2. f.load \in Packets /\ f.load \in Nat
            BY GenuineLoad
        <3>3. CASE win.out # <<>> /\ f = win.out[1]
            <4>1. Replayed(f.load)
                BY <3>3 DEF Replayed
            <4> QED BY <1>1, <3>1, <3>2, <4>1 DEF OrderInv
        <3>4. CASE f.load = next.packet
            <4>1. Live(wire[m].load)
                BY <1>1, <3>1 DEF LiveInv, Coming
            <4>2. wire[m].load < BegunCount
                BY <4>1 DEF Live
            <4> QED BY <1>2, <3>1, <3>4, <4>2 DEF Later
        <3> QED BY <2>1, <3>3, <3>4
    <2>5. ASSUME NEW n \in 1 .. Len(wire'), NEW m \in 1 .. Len(wire'), m < n
          PROVE  ~Later(wire'[n].load, wire'[m].load)
        <3>1. m \in 1 .. Len(wire) /\ wire'[m] = wire[m]
            BY <2>2, <2>5
        <3>2. CASE n \in 1 .. Len(wire) /\ wire'[n] = wire[n]
            BY <1>1, <2>5, <3>1, <3>2 DEF WireInv
        <3>3. CASE wire'[n] = f
            BY <2>4, <3>1, <3>3
        <3> QED BY <2>2, <3>2, <3>3
    <2>6. WireInv' <=>
            /\ \A n \in 1 .. Len(wire') : Sent(wire[n])'
            /\ \A n \in 1 .. Len(wire'), m \in 1 .. Len(wire') :
                  m < n => ~Later(wire'[n].load, wire'[m].load)
        BY DEF WireInv, Later
    <2> QED BY <2>2, <2>3, <2>5, <2>6
<1> QED BY <1>3, <1>4
-----------------------------------------------------------------------------
(* The sender's edge: the invariant. *)

LEMMA ComingStep ==
    ASSUME Unambiguous, LinkInv, NEW grant, NEW message, NEW due, Arrived(message),
           SenderEdge(grant, message, due), NEW p \in Packets, Coming(p)'
    PROVE  \/ Coming(p)
           \/ win.out = <<>> /\ Retained(p) /\ Retained(p)'
           \/ NormalSend(grant) /\ p = next.packet
<1>1. CASE Replayed(p)'
    <2>1. Replayed(p) \/ (win.out = <<>> /\ Retained(p) /\ Retained(p)')
        BY <1>1, ReplayStep
    <2> QED BY <2>1 DEF Coming
<1>2. CASE OnWire(p)'
    BY <1>2, OnWireStep DEF Coming, Replayed
<1> QED BY <1>1, <1>2 DEF Coming

LEMMA SenderLive ==
    ASSUME Unambiguous, LinkInv, NEW grant, NEW message, NEW due, Arrived(message),
           SenderEdge(grant, message, due), rx' = rx
    PROVE  LiveInv'
<1>1. SUFFICES ASSUME NEW p \in Packets, Coming(p)' \/ Gathering(p)' \/ Waiting(p)'
               PROVE  Live(p)'
    BY DEF LiveInv
<1>2. p \in Nat /\ BegunCount \in Nat /\ LinkTyped /\ WindowInv /\ LiveInv
    BY PacketFacts, CountFacts DEF LinkInv
<1>3. (Gathering(p)' => Gathering(p)) /\ (Waiting(p)' => Waiting(p))
    BY DEF Gathering, Waiting
<1>4. \/ Coming(p) \/ Gathering(p) \/ Waiting(p)
      \/ Retained(p)
      \/ NormalSend(grant) /\ p = next.packet
    BY <1>1, <1>3, ComingStep
<1>5. CASE Coming(p) \/ Gathering(p) \/ Waiting(p)
    <2>1. Live(p)
        BY <1>2, <1>5 DEF LiveInv
    <2> QED BY <1>2, <1>5, <2>1, Quiet
<1>6. CASE Retained(p)
    <2>1. Live(p)
        BY <1>2, <1>6, RetainedIsLive
    <2>2. SUFFICES ASSUME ~Live(p)' PROVE FALSE
        OBVIOUS
    <2>3. PICK later \in Packets : Later(p, later) /\ Live(later)
        BY <1>2, <2>1, <2>2, LiveStep
    <2>4. later \in Nat /\ later < BegunCount
        BY <2>3, PacketFacts DEF Live
    <2> QED BY <1>2, <1>6, <2>3, <2>4, Overtaken
<1>7. CASE NormalSend(grant) /\ p = next.packet
    <2>1. BegunCount' = p + 1
        BY <1>7, NextStep
    <2>2. p < BegunCount' /\ \A q \in Packets : Later(p, q) => ~(q < BegunCount')
        BY <1>2, <2>1, PacketFacts DEF Later
    <2> QED BY <2>2 DEF Live, Later
<1> QED BY <1>4, <1>5, <1>6, <1>7

LEMMA SenderOrder ==
    ASSUME Unambiguous, LinkInv, NEW grant, NEW message, NEW due, Arrived(message),
           SenderEdge(grant, message, due), rx' = rx, deliveries' = deliveries
    PROVE  OrderInv'
<1>1. LinkTyped /\ WindowInv /\ LiveInv /\ OrderInv /\ ReplayInv /\ DeliveryInv
    BY DEF LinkInv
<1>2. /\ BegunCount \in Nat /\ next.packet \in Nat /\ next.flit \in Nat
      /\ next.packet <= BegunCount /\ BegunCount <= next.packet + 1
      /\ next.flit > 0 => BegunCount = next.packet + 1
    BY <1>1, CountFacts
<1>3. SUFFICES ASSUME NEW p \in Packets, NEW later \in Packets, Later(p, later)
               PROVE  /\ ~(Replayed(p)' /\ OnWire(later)')
                      /\ Gathering(later)' => ~Coming(p)'
                      /\ Waiting(later)' => ~Coming(p)' /\ ~Gathering(p)'
                      /\ Delivered(later)' => ~Coming(p)' /\ ~Gathering(p)' /\ ~Waiting(p)'
    BY DEF OrderInv, Later
<1>4. /\ p \in Nat /\ later \in Nat /\ p < later
      /\ later % WindowSlots = p % WindowSlots
    BY <1>3, PacketFacts, LaterFacts
<1>5. /\ Replayed(p) => ~OnWire(later)
      /\ Gathering(later) => ~Coming(p)
      /\ Waiting(later) => ~Coming(p) /\ ~Gathering(p)
      /\ Delivered(later) => ~Coming(p) /\ ~Gathering(p) /\ ~Waiting(p)
    BY <1>1, <1>3 DEF OrderInv
\* No later packet of its slot is begun while a packet is retained.
<1>6. ASSUME Retained(p) PROVE ~(later < BegunCount)
    BY <1>1, <1>3, <1>4, <1>6, Overtaken
<1>7. ASSUME Replayed(p)', OnWire(later)' PROVE FALSE
    <2>1. Replayed(p) \/ (win.out = <<>> /\ Retained(p))
        BY <1>7, ReplayStep
    <2>2. \/ OnWire(later)
          \/ win.out # <<>> /\ win.out[1].load = later
          \/ NormalSend(grant) /\ later = next.packet
        BY <1>7, OnWireStep
    <2>3. CASE OnWire(later)
        <3>1. Live(later)
            BY <1>1, <2>3 DEF LiveInv, Coming
        <3>2. later < BegunCount
            BY <3>1 DEF Live
        <3> QED BY <1>5, <1>6, <2>1, <2>3, <3>2
    <2>4. CASE win.out # <<>> /\ win.out[1].load = later
        <3>1. Replayed(p)
            BY <2>1, <2>4
        <3>2. win.out[1].load = p
            BY <1>1, <2>4, <3>1, ReplayFacts DEF Replayed
        <3> QED BY <1>4, <2>4, <3>2
    <2>5. CASE NormalSend(grant) /\ later = next.packet
        <3>1. win.out = <<>>
            BY <2>5 DEF NormalSend
        <3>2. Retained(p)
            <4>1. CASE Replayed(p)
                BY <1>1, <3>1, <4>1, ReplayFacts DEF Replayed
            <4> QED BY <2>1, <4>1
        <3>3. next.flit = 0
            BY <1>2, <1>6, <2>5, <3>2
        <3> QED BY <1>4, <2>5, <3>2, <3>3, FreshSlot
    <2> QED BY <2>2, <2>3, <2>4, <2>5
\* What the receiver has of the later packet was sent before.
<1>8. ASSUME later < BegunCount, ~Coming(p) PROVE ~Coming(p)'
    <2>1. SUFFICES ASSUME Coming(p)' PROVE FALSE
        OBVIOUS
    <2>2. CASE Retained(p)
        BY <1>6, <1>8, <2>2
    <2>3. CASE p = next.packet
        BY <1>2, <1>4, <1>8, <2>3
    <2> QED BY <1>8, <2>1, <2>2, <2>3, ComingStep
<1>9. /\ Gathering(later)' => Gathering(later)
      /\ Gathering(p)' => Gathering(p)
      /\ Waiting(later)' => Waiting(later)
      /\ Waiting(p)' => Waiting(p)
      /\ Delivered(later)' => Delivered(later)
    BY DEF Gathering, Waiting, Delivered
<1>10. Gathering(later) \/ Waiting(later) \/ Delivered(later) => later < BegunCount
    <2>1. Gathering(later) \/ Waiting(later) => later < BegunCount
        BY <1>1 DEF LiveInv, Live
    <2>2. Delivered(later) => later < next.packet
        BY <1>1 DEF DeliveryInv
    <2> QED BY <1>2, <1>4, <2>1, <2>2
<1> QED BY <1>5, <1>7, <1>8, <1>9, <1>10

\* The answers when the oldest one is taken.
LEMMA AnswersTail ==
    ASSUME LinkTyped, reverse # <<>>, NEW rest, rest = Tail(reverse) \o rx.responses
    PROVE  /\ Tail(reverse) \in Seq(AnswerRecord)
           /\ Len(Answers) \in Nat /\ Len(rest) \in Nat /\ Len(rest) = Len(Answers) - 1
           /\ \A n \in 1 .. Len(rest) : n + 1 \in 1 .. Len(Answers) /\ rest[n] = Answers[n + 1]
<1>1. reverse \in Seq(AnswerRecord) /\ rx.responses \in Seq(AnswerRecord)
    BY DEF LinkTyped
<1> DEFINE t == Tail(reverse)
           r == rx.responses
<1>2. /\ t \in Seq(AnswerRecord) /\ Len(t) = Len(reverse) - 1
      /\ \A n \in 1 .. Len(t) : t[n] = reverse[n + 1]
    BY <1>1, HeadTailProperties
<1>3. Len(reverse) \in Nat /\ Len(r) \in Nat /\ Len(t) \in Nat
    BY <1>1, <1>2, LenProperties
<1>4. /\ Len(Answers) = Len(reverse) + Len(r)
      /\ \A n \in 1 .. Len(reverse) + Len(r) :
            Answers[n] = IF n <= Len(reverse) THEN reverse[n] ELSE r[n - Len(reverse)]
    BY <1>1, ConcatProperties DEF Answers
<1> HIDE DEF t, r
<1>5. /\ Len(rest) = Len(t) + Len(r)
      /\ \A n \in 1 .. Len(t) + Len(r) : rest[n] = IF n <= Len(t) THEN t[n] ELSE r[n - Len(t)]
    <2>1. rest = t \o r /\ r \in Seq(AnswerRecord)
        BY <1>1 DEF t, r
    <2>2. t \in Seq(AnswerRecord)
        BY <1>2
    <2>3. /\ Len(t \o r) = Len(t) + Len(r)
          /\ \A n \in 1 .. Len(t) + Len(r) : (t \o r)[n] = IF n <= Len(t) THEN t[n] ELSE r[n - Len(t)]
        BY <2>1, <2>2, ConcatProperties
    <2> QED BY <2>1, <2>3
<1>6. ASSUME NEW n \in 1 .. Len(rest)
      PROVE  n + 1 \in 1 .. Len(Answers) /\ rest[n] = Answers[n + 1]
    <2>1. n \in 1 .. Len(t) + Len(r) /\ n + 1 \in 1 .. Len(reverse) + Len(r)
        BY <1>2, <1>3, <1>5
    <2>2. CASE n <= Len(t)
        <3>1. rest[n] = t[n] /\ t[n] = reverse[n + 1]
            BY <1>2, <1>3, <1>5, <2>1, <2>2
        <3>2. Answers[n + 1] = reverse[n + 1]
            BY <1>2, <1>3, <1>4, <2>1, <2>2
        <3> QED BY <1>4, <2>1, <3>1, <3>2
    <2>3. CASE n > Len(t)
        <3>1. rest[n] = r[n - Len(t)]
            BY <1>3, <1>5, <2>1, <2>3
        <3>2. Answers[n + 1] = r[(n + 1) - Len(reverse)]
            BY <1>2, <1>3, <1>4, <2>1, <2>3
        <3>3. n - Len(t) = (n + 1) - Len(reverse)
            BY <1>2, <1>3
        <3> QED BY <1>4, <2>1, <3>1, <3>2, <3>3
    <2> QED BY <1>3, <2>1, <2>2, <2>3
<1> QED BY <1>2, <1>3, <1>4, <1>5, <1>6 DEF t, r

LEMMA SenderAnswers ==
    ASSUME Unambiguous, LinkInv, NEW grant, NEW message, NEW due, Arrived(message),
           SenderEdge(grant, message, due), rx' = rx, deliveries' = deliveries,
           \/ message = <<>> /\ reverse' = reverse
           \/ reverse # <<>> /\ message = <<Head(reverse)>> /\ reverse' = Tail(reverse)
    PROVE  reverse' \in Seq(AnswerRecord) /\ AnswerInv'
<1>1. LinkTyped /\ WindowInv /\ AnswerInv /\ reverse \in Seq(AnswerRecord)
    BY DEF LinkInv, LinkTyped
<1> DEFINE d == IF message = <<>> THEN 0 ELSE 1
           after == Answers'
<1>2. after = reverse' \o rx.responses
    BY DEF Answers
<1>3. /\ reverse' \in Seq(AnswerRecord)
      /\ Len(after) \in Nat
      /\ \A n \in 1 .. Len(after) : n + d \in 1 .. Len(Answers) /\ after[n] = Answers[n + d]
    <2>1. CASE message = <<>> /\ reverse' = reverse
        <3>1. after = Answers /\ d = 0
            BY <1>2, <2>1 DEF Answers
        <3>2. Len(Answers) \in Nat
            BY <1>1, AnswersFacts
        <3> HIDE DEF d, after
        <3>3. \A n \in 1 .. Len(after) : n + d = n
            BY <3>1, <3>2
        <3> QED BY <1>1, <2>1, <3>1, <3>2, <3>3
    <2>2. CASE reverse # <<>> /\ message = <<Head(reverse)>> /\ reverse' = Tail(reverse)
        <3>1. after = Tail(reverse) \o rx.responses /\ d = 1
            BY <1>2, <2>2
        <3> HIDE DEF d, after
        <3> QED BY <1>1, <2>2, <3>1, AnswersTail
    <2> QED BY <2>1, <2>2
<1>4. d \in {0, 1} /\ (d = 0 => message = <<>>)
    OBVIOUS
<1>5. /\ BegunCount \in Nat /\ next.packet \in Nat /\ BegunCount <= next.packet + 1
      /\ next'.packet \in Nat /\ next.packet <= next'.packet
    BY <1>1, CountFacts, NextStep
<1> HIDE DEF d, after
<1>6. ASSUME NEW n \in 1 .. Len(after), NEW p \in Packets, Live(p), Acks(after[n], p)
      PROVE  Live(p)'
    <2>1. SUFFICES ASSUME ~Live(p)' PROVE FALSE
        OBVIOUS
    <2>2. p \in Nat
        BY PacketFacts
    <2>3. message # <<>>
        <3>1. message = <<Head(reverse)>>
            BY <1>6, <2>1, <2>2, Quiet
        <3>2. <<Head(reverse)>> # <<>>
            OBVIOUS
        <3> QED BY <3>1, <3>2
    <2>4. n + d \in 1 .. Len(Answers) /\ n + d > 1 /\ Acks(Answers[n + d], p)
        BY <1>3, <1>4, <1>6, <2>3
    <2> QED BY <1>6, <2>1, <2>2, <2>4, Quiet
<1>7. ASSUME NEW n \in 1 .. Len(after), after[n].type = "ack"
      PROVE  \E p \in Packets :
                Live(p)' /\ Earned(p)' /\ Acks(after[n], p) /\ Live(p)
    <2>1. n + d \in 1 .. Len(Answers) /\ after[n] = Answers[n + d]
        BY <1>3
    <2>2. PICK p \in Packets : Live(p) /\ Earned(p) /\ Acks(after[n], p)
        BY <1>1, <1>7, <2>1 DEF AnswerInv
    <2>3. p \in Nat
        BY PacketFacts
    <2>4. p < next'.packet /\ (Multi(p) => deliveries[p] > 0)
        BY <1>5, <2>2, <2>3 DEF Earned, Delivered
    <2>5. Earned(p)'
        BY <2>4 DEF Earned, Delivered, Multi
    <2> QED BY <1>6, <2>2, <2>5
<1>8. ASSUME NEW m \in 1 .. Len(after), NEW n \in 1 .. Len(after), NEW p \in Packets,
             NEW later \in Packets, Later(p, later), Multi(later),
             m < n, Live(p)', Live(later)', Acks(after[m], later), Acks(after[n], p)
      PROVE  FALSE
    <2>1. p \in Nat /\ later \in Nat /\ p < later
        BY <1>8, PacketFacts, LaterFacts
    <2>2. Live(p)
        <3>1. SUFFICES ASSUME ~Live(p) PROVE FALSE
            OBVIOUS
        <3>2. NormalSend(grant) /\ p = next.packet
            BY <1>8, <2>1, <3>1, LiveStep
        <3>3. BegunCount' = p + 1
            BY <3>2, NextStep
        <3>4. later < BegunCount'
            BY <1>8 DEF Live
        <3> QED BY <1>5, <1>8, <2>1, <3>3, <3>4
    <2>3. Live(later)
        <3>1. SUFFICES ASSUME ~Live(later) PROVE FALSE
            OBVIOUS
        <3>2. NormalSend(grant) /\ later = next.packet /\ next.flit = 0
            BY <1>8, <2>1, <3>1, LiveStep
        <3>3. PICK q \in Packets : Live(q) /\ Acks(after[m], q)
            BY <1>7, <1>8 DEF Acks
        <3>4. q \in Nat /\ q % SeqSpace = later % SeqSpace
            BY <1>8, <3>3, PacketFacts DEF Acks
        <3> QED BY <3>2, <3>3, <3>4, FreshNumber
    <2>4. /\ m + d \in 1 .. Len(Answers) /\ n + d \in 1 .. Len(Answers) /\ m + d < n + d
          /\ after[m] = Answers[m + d] /\ after[n] = Answers[n + d]
        BY <1>3, <1>4, <1>8
    <2> QED BY <1>1, <1>8, <2>2, <2>3, <2>4 DEF AnswerInv
<1>9. AnswerInv'
    <2>1. ASSUME NEW n \in 1 .. Len(after), after[n].type = "ack"
          PROVE  \E p \in Packets : Live(p)' /\ Earned(p)' /\ Acks(after[n], p)
        BY <1>7, <2>1
    <2>2. ASSUME NEW m \in 1 .. Len(after), NEW n \in 1 .. Len(after), NEW p \in Packets,
                 NEW later \in Packets, Later(p, later), Multi(later),
                 m < n, Live(p)', Live(later)', Acks(after[m], later)
          PROVE  ~Acks(after[n], p)
        BY <1>8, <2>2
    <2> QED BY <2>1, <2>2 DEF AnswerInv, after, Acks, Later, Multi
<1> QED BY <1>3, <1>9

LEMMA SenderDelivery ==
    ASSUME Unambiguous, LinkInv, NEW grant, NEW message, NEW due, Arrived(message),
           SenderEdge(grant, message, due), deliveries' = deliveries
    PROVE  DeliveryInv'
<1>1. LinkTyped /\ DeliveryInv
    BY DEF LinkInv
<1>2. SUFFICES ASSUME NEW p \in Packets
               PROVE  /\ Delivered(p) => p < next'.packet
                      /\ Multi(p) /\ p < BegunCount' /\ ~Retained(p)' => Delivered(p)
    BY DEF DeliveryInv, Delivered, Multi
<1>3. /\ p \in Nat /\ next.packet \in Nat /\ next'.packet \in Nat
      /\ BegunCount \in Nat /\ BegunCount' \in Nat
      /\ next.packet <= next'.packet /\ next.packet <= BegunCount
      /\ ~NormalSend(grant) => BegunCount' = BegunCount
      /\ NormalSend(grant) => BegunCount' = next.packet + 1
    BY <1>1, PacketFacts, NextStep, CountFacts
<1>4. ASSUME Delivered(p) PROVE p < next'.packet
    <2>1. p < next.packet
        BY <1>1, <1>4 DEF DeliveryInv
    <2> QED BY <1>3, <2>1
<1>5. ASSUME Multi(p), p < BegunCount', ~Retained(p)' PROVE Delivered(p)
    <2>1. ~(NormalSend(grant) /\ p = next.packet)
        BY <1>3, <1>5, RetainedStep
    <2>2. p < BegunCount
        BY <1>3, <1>5, <2>1
    <2>3. CASE Retained(p)
        BY <1>3, <1>5, <2>3, RetainedStep DEF Earned
    <2>4. CASE ~Retained(p)
        BY <1>1, <1>5, <2>2, <2>4 DEF DeliveryInv
    <2> QED BY <2>3, <2>4
<1> QED BY <1>4, <1>5

LEMMA SenderKeeps ==
    ASSUME Unambiguous, LinkInv, NEW grant, NEW message, NEW due, Arrived(message),
           SenderEdge(grant, message, due), rx' = rx, deliveries' = deliveries,
           \/ message = <<>> /\ reverse' = reverse
           \/ reverse # <<>> /\ message = <<Head(reverse)>> /\ reverse' = Tail(reverse)
    PROVE  LinkInv'
<1>1. LinkTyped /\ GatherInv /\ ContextInv /\ HistoryInv
    BY DEF LinkInv
<1>2. LinkTyped'
    <2>1. reverse' \in Seq(AnswerRecord)
        BY SenderAnswers
    <2>2. /\ next' \in [packet : Nat, flit : Nat]
          /\ next'.packet <= Len(Lengths)
          /\ next'.flit > 0 => next'.packet \in Packets /\ next'.flit < Lengths[next'.packet + 1]
        BY NextStep
    <2>3. win'.slots \in [Slots -> SlotRecord]
        BY SlotsKept
    <2>4. /\ win'.replaying \in Seq(ReplayRecord) /\ AtMostOne(win'.replaying)
          /\ win'.out \in Seq(Genuine) /\ AtMostOne(win'.out)
        BY ReplayStep
    <2>5. wire' \in Seq(Genuine)
        BY WireKept
    <2> QED BY <1>1, <2>1, <2>2, <2>3, <2>4, <2>5 DEF LinkTyped
<1>3. ContextInv'
    <2>1. next.packet \in Nat /\ next'.packet \in Nat /\ next.packet <= next'.packet
        BY <1>1, NextStep, CountFacts
    <2>2. ASSUME NEW n \in 1 .. Len(rx.contexts)
          PROVE  rx.contexts[n].flits[1].load < next'.packet
        <3>1. rx.contexts[n] \in ContextRecord
            BY <1>1, ElementOfSeq DEF LinkTyped
        <3>2. rx.contexts[n].flits \in Seq(Genuine) /\ rx.contexts[n].flits # <<>>
            BY <1>1, <3>1 DEF ContextRecord, ContextInv
        <3>3. rx.contexts[n].flits[1] \in Genuine
            BY <3>2, SeqFirst
        <3>4. rx.contexts[n].flits[1].load \in Nat
            BY <3>3, GenuineLoad
        <3>5. rx.contexts[n].flits[1].load < next.packet
            BY <1>1 DEF ContextInv
        <3> QED BY <2>1, <3>4, <3>5
    <2> QED BY <1>1, <2>2 DEF ContextInv, Later
<1>4. GatherInv' /\ HistoryInv'
    <2>1. GatherInv'
        BY <1>1 DEF GatherInv, Delivered
    <2>2. HistoryInv'
        BY <1>1 DEF HistoryInv, Latest, Delivered
    <2> QED BY <2>1, <2>2
<1>5. WindowInv' /\ ReplayInv' /\ WireInv'
    BY SlotsKept, ReplayStep, WireKept
<1>6. DeliveryInv' /\ LiveInv' /\ OrderInv' /\ AnswerInv'
    BY SenderDelivery, SenderLive, SenderOrder, SenderAnswers
<1> QED BY <1>2, <1>3, <1>4, <1>5, <1>6 DEF LinkInv

\* What does not speak of the answers, when nothing else moves.
LEMMA RestKeeps ==
    ASSUME LinkInv, win' = win, next' = next, rx' = rx, deliveries' = deliveries, wire' = wire
    PROVE  /\ WindowInv' /\ ReplayInv' /\ WireInv' /\ GatherInv' /\ ContextInv'
           /\ DeliveryInv' /\ LiveInv' /\ OrderInv' /\ HistoryInv'
<1>1. /\ WindowInv /\ ReplayInv /\ WireInv /\ GatherInv /\ ContextInv
      /\ DeliveryInv /\ LiveInv /\ OrderInv /\ HistoryInv
    BY DEF LinkInv
<1>2. WindowInv' /\ ReplayInv' /\ WireInv'
    BY <1>1 DEF WindowInv, SlotHolds, StoringHolds, BegunCount, ReplayInv, Retained,
                WireInv, Sent, Later
<1>3. GatherInv' /\ ContextInv' /\ HistoryInv'
    BY <1>1 DEF GatherInv, Delivered, ContextInv, Later, HistoryInv, Latest
<1>4. DeliveryInv'
    BY <1>1 DEF DeliveryInv, Delivered, Multi, BegunCount, Retained
<1>5. LiveInv' /\ OrderInv'
    BY <1>1 DEF LiveInv, OrderInv, Coming, Replayed, OnWire, Gathering, Delivered,
                Waiting, Live, Later, Multi, BegunCount, Retained
<1> QED BY <1>2, <1>3, <1>4, <1>5

\* An answer that is lost.
LEMMA LossKeeps ==
    ASSUME Unambiguous, LinkInv, LoseAnswer
    PROVE  LinkInv'
<1>1. /\ reverse # <<>> /\ reverse' = Tail(reverse)
      /\ win' = win /\ next' = next /\ rx' = rx /\ deliveries' = deliveries /\ wire' = wire
    BY DEF LoseAnswer, sender, receiver
<1>2. LinkTyped /\ AnswerInv
    BY DEF LinkInv
<1> DEFINE rest == Tail(reverse) \o rx.responses
<1>3. Answers' = rest
    BY <1>1 DEF Answers
<1>4. /\ Tail(reverse) \in Seq(AnswerRecord)
      /\ Len(Answers) \in Nat /\ Len(rest) \in Nat /\ Len(rest) = Len(Answers) - 1
      /\ \A n \in 1 .. Len(rest) : n + 1 \in 1 .. Len(Answers) /\ rest[n] = Answers[n + 1]
    BY <1>1, <1>2, AnswersTail
<1>5. LinkTyped'
    BY <1>1, <1>2, <1>4 DEF LinkTyped
<1>6. \A p : Live(p)' = Live(p)
    BY <1>1 DEF Live, Later, Multi, BegunCount, Retained
<1> HIDE DEF rest
<1>7. AnswerInv'
    <2>1. ASSUME NEW n \in 1 .. Len(rest), rest[n].type = "ack"
          PROVE  \E p \in Packets : Live(p) /\ Earned(p) /\ Acks(rest[n], p)
        BY <1>2, <1>4, <2>1 DEF AnswerInv
    <2>2. ASSUME NEW m \in 1 .. Len(rest), NEW n \in 1 .. Len(rest), NEW p \in Packets,
                 NEW later \in Packets, Later(p, later), Multi(later),
                 m < n, Live(p), Live(later), Acks(rest[m], later)
          PROVE  ~Acks(rest[n], p)
        <3>1. /\ m + 1 \in 1 .. Len(Answers) /\ n + 1 \in 1 .. Len(Answers) /\ m + 1 < n + 1
              /\ rest[m] = Answers[m + 1] /\ rest[n] = Answers[n + 1]
            BY <1>4, <2>2
        <3> QED BY <1>2, <2>2, <3>1 DEF AnswerInv
    <2> QED BY <1>1, <1>3, <1>6, <2>1, <2>2 DEF AnswerInv, Acks, Earned, Delivered, Multi, Later
<1>8. /\ WindowInv' /\ ReplayInv' /\ WireInv' /\ GatherInv' /\ ContextInv'
      /\ DeliveryInv' /\ LiveInv' /\ OrderInv' /\ HistoryInv'
    BY <1>1, RestKeeps
<1> QED BY <1>5, <1>7, <1>8 DEF LinkInv

LEMMA TransmitKeeps ==
    ASSUME Unambiguous, LinkInv, Transmit
    PROVE  LinkInv'
<1>1. rx' = rx /\ deliveries' = deliveries
    BY DEF Transmit, receiver
<1>2. PICK grant \in Grants, due \in Optional(Overdue) :
        \/ SenderEdge(grant, <<>>, due) /\ UNCHANGED reverse
        \/ /\ reverse # <<>>
           /\ SenderEdge(grant, <<Head(reverse)>>, due)
           /\ reverse' = Tail(reverse)
    BY DEF Transmit
<1>3. CASE SenderEdge(grant, <<>>, due) /\ reverse' = reverse
    <2>1. Arrived(<<>>)
        BY DEF Arrived
    <2> QED BY <1>1, <1>3, <2>1, SenderKeeps
<1>4. CASE /\ reverse # <<>> /\ SenderEdge(grant, <<Head(reverse)>>, due)
           /\ reverse' = Tail(reverse)
    <2>1. Arrived(<<Head(reverse)>>) /\ <<Head(reverse)>> # <<>>
        BY <1>4 DEF Arrived
    <2> QED BY <1>1, <1>4, <2>1, SenderKeeps
<1> QED BY <1>2, <1>3, <1>4
-----------------------------------------------------------------------------
(* The receiver's edge: what it takes and hands over. *)

ReceiverInput(flit, ready) ==
    [flit |-> flit, ready |-> ready, pop |-> rx.responses # <<>> /\ Len(reverse) < ReverseDepth]

\* The flit that is next on the wire, its packet, and the packet the consumer has next.
Newest == wire[1].load
Oldest == rx.contexts[1].flits[1].load

Receives(flit, ready) ==
    /\ flit \in Arrivals /\ ReceiverEdge(flit, ready)
    /\ win' = win /\ next' = next

LEMMA DamagedFacts ==
    ASSUME Unambiguous, NEW f \in FlitRecord, NEW g \in Damaged(f)
    PROVE  g \in FlitRecord /\ ~g.good
<1>1. PICK e \in BOOLEAN, s \in {p % SeqSpace : p \in Packets} : g = Misread(f, e, s)
    BY DEF Damaged
<1>2. s \in Nat
    BY PacketFacts, SeqFacts
<1> QED BY <1>1, <1>2 DEF Misread, FlitRecord

LEMMA ArrivalFacts ==
    ASSUME Unambiguous, LinkInv, NEW flit \in Arrivals, flit # <<>>
    PROVE  /\ wire # <<>> /\ 1 \in 1 .. Len(wire) /\ Head(wire) = wire[1] /\ wire[1] \in Genuine
           /\ flit[1] \in FlitRecord
           /\ flit[1].good => flit[1] = wire[1]
<1>1. wire # <<>>
    BY DEF Arrivals
<1>2. wire \in Seq(Genuine)
    BY DEF LinkInv, LinkTyped
<1>3. 1 \in 1 .. Len(wire) /\ Head(wire) = wire[1] /\ wire[1] \in Genuine
    BY <1>1, <1>2, SeqFirst
<1> DEFINE f == Head(wire)
<1>4. flit \in Optional({f} \cup (IF damaged < MaxDamaged THEN Damaged(f) ELSE {}))
    BY <1>1 DEF Arrivals, Optional
<1>5. flit[1] \in {f} \cup Damaged(f)
    BY <1>4 DEF Optional
<1>6. f \in FlitRecord
    BY <1>3 DEF Genuine
<1>7. ASSUME NEW g \in Damaged(f) PROVE g \in FlitRecord /\ ~g.good
    BY <1>6, <1>7, DamagedFacts
<1>8. flit[1] \in FlitRecord /\ (flit[1].good => flit[1] = f)
    BY <1>5, <1>6, <1>7
<1> QED BY <1>1, <1>3, <1>8

\* The history knows the packet that arrives if and only if it was handed over.
LEMMA KnownFacts ==
    ASSUME Unambiguous, LinkInv, NEW f \in Genuine, Coming(f.load)
    PROVE  Known(rx, f) <=> Delivered(f.load)
<1> DEFINE p == f.load
           h == p % HistorySlots
<1>1. LinkTyped /\ WindowInv /\ DeliveryInv /\ LiveInv /\ OrderInv /\ HistoryInv
    BY DEF LinkInv
<1>2. p \in Packets /\ p \in Nat /\ f.seq = p % SeqSpace
    BY GenuineLoad DEF Genuine
<1> SUFFICES Known(rx, f) <=> Delivered(p)
    OBVIOUS
<1> HIDE DEF p
<1>3. Live(p) /\ Coming(p) /\ p < BegunCount
    BY <1>1, <1>2 DEF LiveInv, Live, p
<1>4. next.packet \in Nat /\ BegunCount \in Nat /\ next.packet <= BegunCount
    BY <1>1, CountFacts
<1>5. h \in HistoryEntries /\ f.seq % HistorySlots = h
    BY <1>2, SeqFacts
<1>6. p % HistorySlots = h
    OBVIOUS
<1> HIDE DEF h
<1>7. Known(rx, f) <=> rx.history[h] = <<p % SeqSpace>>
    BY <1>2, <1>5 DEF Known
<1>8. CASE rx.history[h] = <<>> /\ \A q \in Packets : q % HistorySlots = h => ~Delivered(q)
    BY <1>2, <1>6, <1>7, <1>8
<1>9. ASSUME NEW q \in Packets, Latest(q, h), rx.history[h] = <<q % SeqSpace>>
      PROVE  Known(rx, f) <=> Delivered(p)
    <2>1. /\ q \in Nat /\ q % HistorySlots = h /\ Delivered(q)
          /\ \A r \in Packets : r % HistorySlots = h /\ r > q => ~Delivered(r)
        BY <1>9, PacketFacts DEF Latest
    <2>2. q < BegunCount
        <3>1. q < next.packet
            BY <1>1, <2>1 DEF DeliveryInv
        <3> QED BY <1>4, <2>1, <3>1
    <2>3. ASSUME Known(rx, f) PROVE Delivered(p)
        <3>1. q % SeqSpace = p % SeqSpace
            BY <1>7, <1>9, <2>3
        <3>2. CASE q = p
            BY <2>1, <3>2
        <3>3. CASE q > p
            <4>1. PICK r \in Packets : /\ Multi(r) /\ r \in Nat
                                       /\ Later(p, r) /\ Later(r, q) /\ r < q
                BY <1>2, <2>1, <3>1, <3>3, Between
            <4>2. r < BegunCount
                BY <1>4, <2>1, <2>2, <4>1
            <4>3. Retained(r)
                BY <1>3, <4>1, <4>2 DEF Live
            <4> QED BY <1>1, <2>1, <2>2, <4>1, <4>3, Overtaken
        <3>4. CASE q < p
            <4>1. PICK r \in Packets : /\ Multi(r) /\ r \in Nat /\ r % HistorySlots = p % HistorySlots
                                       /\ Later(r, p) /\ q < r /\ r < p
                BY <1>2, <2>1, <3>1, <3>4, Between
            <4>2. r < BegunCount /\ ~Retained(r)
                BY <1>1, <1>2, <1>3, <1>4, <4>1, Overtaken
            <4>3. Delivered(r)
                BY <1>1, <4>1, <4>2 DEF DeliveryInv
            <4> QED BY <1>6, <2>1, <4>1, <4>3
        <3> QED BY <1>2, <2>1, <3>2, <3>3, <3>4
    <2>4. ASSUME Delivered(p) PROVE Known(rx, f)
        <3>1. ~(p > q)
            BY <1>2, <1>6, <2>1, <2>4
        <3>2. CASE p = q
            BY <1>7, <1>9, <3>2
        <3>3. CASE p < q
            <4>1. Later(p, q)
                BY <1>2, <1>6, <2>1, <3>3, EntryLater
            <4> QED BY <1>1, <1>2, <1>3, <2>1, <4>1 DEF OrderInv
        <3> QED BY <1>2, <2>1, <3>1, <3>2, <3>3
    <2> QED BY <2>3, <2>4
<1> QED BY <1>1, <1>5, <1>8, <1>9 DEF HistoryInv

\* A flit that becomes part of a packet is the next one of the packet being gathered.
LEMMA JoinFacts ==
    ASSUME Unambiguous, LinkInv, NEW flit \in Arrivals, NEW ready,
           Joins(rx, ReceiverInput(flit, ready))
    PROVE  LET f == wire[1] IN
           /\ flit # <<>> /\ flit[1] = f /\ f \in Genuine /\ Newest \in Packets /\ Newest \in Nat
           /\ Takes(rx, ReceiverInput(flit, ready)) /\ ~rx.drain /\ ~Erroneous(rx, f)
           /\ OnWire(Newest) /\ Coming(Newest) /\ Live(Newest)
           /\ f.index = Len(rx.gathered) /\ Len(rx.gathered) \in Nat
           /\ f.eop => f.index + 1 = Lengths[Newest + 1] /\ Newest < next.packet
           /\ rx.gathered = <<>> => (Known(rx, f) <=> Delivered(Newest))
           /\ rx.gathered # <<>> => /\ Gathering(Newest) /\ Multi(Newest)
                                    /\ rx.duplicate => Delivered(Newest)
<1> DEFINE f == wire[1]
           i == ReceiverInput(flit, ready)
<1>1. LinkTyped /\ WindowInv /\ WireInv /\ LiveInv /\ GatherInv
    BY DEF LinkInv
<1>2. Takes(rx, i) /\ ~rx.drain /\ ~Erroneous(rx, i.flit[1]) /\ i.flit = flit
    BY DEF Joins, ReceiverInput
<1>3. flit # <<>>
    BY <1>2 DEF Takes
<1>4. 1 \in 1 .. Len(wire) /\ f \in Genuine /\ (flit[1].good => flit[1] = f)
    BY <1>3, ArrivalFacts
<1>5. flit[1] = f
    BY <1>2, <1>4 DEF Erroneous
<1>6. ~Erroneous(rx, f) /\ ~Misplaced(rx, f)
    BY <1>2, <1>5 DEF Erroneous
<1>7. /\ Newest \in Packets /\ Newest \in Nat /\ Sent(f) /\ OnWire(Newest)
      /\ f.load = Newest
    BY <1>1, <1>4, WireFacts DEF Newest
<1>8. Coming(Newest) /\ Live(Newest)
    BY <1>1, <1>7 DEF Coming, LiveInv
<1>9. f.seq = Newest % SeqSpace /\ f.index \in Nat /\ f.index < Lengths[Newest + 1]
      /\ (f.sop <=> f.index = 0) /\ (f.eop <=> f.index + 1 = Lengths[Newest + 1])
    BY <1>4, <1>7 DEF Genuine, FlitRecord
<1> HIDE DEF f, i
<1>10. ASSUME f.eop
       PROVE  f.index + 1 = Lengths[Newest + 1] /\ Newest < next.packet
    <2>1. f.index + 1 = Lengths[Newest + 1]
        BY <1>9, <1>10
    <2>2. next.packet \in Nat /\ next.flit \in Nat /\ Lengths[Newest + 1] \in Nat
        BY <1>1, <1>7, CountFacts, PacketFacts
    <2>3. CASE Newest = next.packet /\ f.index < next.flit
        <3>1. next.flit < Lengths[Newest + 1]
            BY <1>1, <1>9, <2>2, <2>3 DEF LinkTyped
        <3> QED BY <1>9, <2>1, <2>2, <2>3, <3>1
    <2> QED BY <1>7, <2>1, <2>3 DEF Sent
<1>11. rx.gathered \in Seq(Genuine) /\ Len(rx.gathered) \in Nat
    BY <1>1, LenProperties DEF LinkTyped
<1>12. CASE rx.gathered = <<>>
    <2>1. f.index = 0 /\ Len(rx.gathered) = 0
        BY <1>6, <1>9, <1>12, EmptySeq DEF Misplaced
    <2>2. Known(rx, f) <=> Delivered(Newest)
        BY <1>4, <1>7, <1>8, KnownFacts DEF f
    <2> QED BY <1>2, <1>3, <1>4, <1>5, <1>6, <1>7, <1>8, <1>10, <1>11, <1>12, <2>1, <2>2
            DEF f, i
<1>13. CASE rx.gathered # <<>>
    <2> DEFINE q == rx.gathered[1].load
    <2>1. f.seq = rx.gathered[1].seq /\ f.index = Len(rx.gathered)
        BY <1>6, <1>13 DEF Misplaced
    <2>2. rx.gathered[1] \in Genuine /\ Len(rx.gathered) >= 1
        BY <1>11, <1>13, SeqFirst
    <2>3. q \in Packets /\ q \in Nat /\ rx.gathered[1].seq = q % SeqSpace
        BY <2>2, GenuineLoad DEF Genuine
    <2>4. Gathering(q) /\ (rx.duplicate => Delivered(q))
        BY <1>1, <1>13 DEF Gathering, GatherInv
    <2> HIDE DEF q
    <2>5. Live(q)
        BY <1>1, <2>3, <2>4 DEF LiveInv
    <2>6. q = Newest
        BY <1>1, <1>7, <1>8, <1>9, <2>1, <2>3, <2>5, LiveUnique
    <2>7. Gathering(Newest) /\ (rx.duplicate => Delivered(Newest))
        BY <2>4, <2>6
    <2>8. Multi(Newest)
        <3>1. Lengths[Newest + 1] \in Nat
            BY <1>7, PacketFacts
        <3> QED BY <1>9, <1>11, <2>1, <2>2, <3>1 DEF Multi
    <2> QED BY <1>2, <1>3, <1>4, <1>5, <1>6, <1>7, <1>8, <1>10, <1>11, <1>13, <2>1, <2>7, <2>8
            DEF f, i
<1> QED BY <1>12, <1>13
-----------------------------------------------------------------------------
(* The receiver's edge: packets. *)

LEMMA Unmoved ==
    ASSUME win' = win, next' = next
    PROVE  /\ BegunCount' = BegunCount
           /\ \A p : Retained(p)' = Retained(p) /\ Live(p)' = Live(p) /\ Replayed(p)' = Replayed(p)
           /\ \A f : Sent(f)' = Sent(f)
<1>1. BegunCount' = BegunCount
    BY DEF BegunCount
<1>2. \A p : Retained(p)' = Retained(p)
    BY DEF Retained
<1>3. \A p : Live(p)' = Live(p)
    BY <1>1, <1>2 DEF Live, Later, Multi
<1>4. \A p : Replayed(p)' = Replayed(p)
    BY DEF Replayed
<1>5. \A f : Sent(f)' = Sent(f)
    BY DEF Sent
<1> QED BY <1>1, <1>2, <1>3, <1>4, <1>5

\* A packet that waits for the consumer.
LEMMA ContextFacts ==
    ASSUME LinkTyped, ContextInv, NEW n \in 1 .. Len(rx.contexts)
    PROVE  LET flits == rx.contexts[n].flits  p == flits[1].load IN
           /\ rx.contexts[n] \in ContextRecord /\ flits \in Seq(Genuine) /\ flits # <<>>
           /\ flits[1] \in Genuine /\ p \in Packets /\ p \in Nat /\ flits[1].seq = p % SeqSpace
           /\ p < next.packet /\ Waiting(p)
<1> DEFINE flits == rx.contexts[n].flits
           p == flits[1].load
<1>1. rx.contexts[n] \in ContextRecord
    BY ElementOfSeq DEF LinkTyped
<1>2. flits \in Seq(Genuine) /\ flits # <<>> /\ p < next.packet
    BY <1>1 DEF ContextRecord, ContextInv
<1>3. flits[1] \in Genuine
    BY <1>2, SeqFirst
<1>4. p \in Packets /\ p \in Nat /\ flits[1].seq = p % SeqSpace
    BY <1>3, GenuineLoad DEF Genuine
<1>5. Waiting(p)
    BY DEF Waiting
<1> QED BY <1>1, <1>2, <1>3, <1>4, <1>5

LEMMA OldestFacts ==
    ASSUME Unambiguous, LinkInv, rx.contexts # <<>>
    PROVE  /\ 1 \in 1 .. Len(rx.contexts) /\ rx.contexts[1] \in ContextRecord
           /\ rx.contexts[1].flits[1] \in Genuine
           /\ rx.contexts[1].flits[1].seq = Oldest % SeqSpace
           /\ Oldest \in Packets /\ Oldest \in Nat
           /\ Waiting(Oldest) /\ Live(Oldest)
           /\ Oldest < next.packet
           /\ {f.load : f \in Range(rx.contexts[1].flits)} = {Oldest}
<1>1. LinkTyped /\ ContextInv /\ LiveInv /\ rx.contexts \in Seq(ContextRecord)
    BY DEF LinkInv, LinkTyped
<1> DEFINE flits == rx.contexts[1].flits
<1>2. 1 \in 1 .. Len(rx.contexts)
    BY <1>1, SeqFirst
<1>3. /\ rx.contexts[1] \in ContextRecord /\ flits \in Seq(Genuine) /\ flits # <<>>
      /\ flits[1] \in Genuine /\ Oldest \in Packets /\ Oldest \in Nat
      /\ flits[1].seq = Oldest % SeqSpace
      /\ Oldest < next.packet /\ Waiting(Oldest)
    BY <1>1, <1>2, ContextFacts DEF Oldest
<1>4. Live(Oldest)
    BY <1>1, <1>3 DEF LiveInv
<1>5. {f.load : f \in Range(flits)} = {Oldest}
    <2>1. DOMAIN flits = 1 .. Len(flits) /\ 1 \in 1 .. Len(flits)
        BY <1>3, LenProperties, SeqFirst
    <2>2. \A n \in 1 .. Len(flits) : flits[n].load = Oldest
        BY <1>1, <1>2 DEF ContextInv, InOrder, Oldest
    <2> HIDE DEF flits
    <2>3. \A f \in Range(flits) : f.load = Oldest
        BY <2>1, <2>2 DEF Range
    <2>4. flits[1] \in Range(flits)
        BY <2>1 DEF Range
    <2> QED BY <2>3, <2>4
<1> QED BY <1>2, <1>3, <1>4, <1>5

LEMMA DequeueFacts ==
    ASSUME NEW i, Dequeues(rx, i)
    PROVE  rx.contexts # <<>>
BY DEF Dequeues, Outputs, CommitValid

LEMMA DeliveriesStep ==
    ASSUME Unambiguous, LinkInv, NEW flit, NEW ready, ReceiverEdge(flit, ready)
    PROVE  /\ deliveries' \in [Packets -> Nat]
           /\ \A p \in Packets :
                /\ deliveries[p] \in Nat
                /\ deliveries'[p] =
                     IF Dequeues(rx, ReceiverInput(flit, ready)) /\ p = Oldest
                     THEN deliveries[p] + 1 ELSE deliveries[p]
                /\ Delivered(p) => Delivered(p)'
<1> DEFINE i == ReceiverInput(flit, ready)
           gone == HandedOver(i)
<1>1. deliveries' = [p \in Packets |-> deliveries[p] + (IF p \in gone THEN 1 ELSE 0)]
    BY DEF ReceiverEdge, ReceiverInput
<1>2. deliveries \in [Packets -> Nat]
    BY DEF LinkInv, LinkTyped
<1>3. gone = IF Dequeues(rx, i) THEN {Oldest} ELSE {}
    BY DequeueFacts, OldestFacts DEF HandedOver
<1> HIDE DEF gone, i
<1>4. deliveries' \in [Packets -> Nat]
    BY <1>1, <1>2
<1>5. ASSUME NEW p \in Packets
      PROVE  /\ deliveries[p] \in Nat
             /\ deliveries'[p] = IF Dequeues(rx, i) /\ p = Oldest
                                 THEN deliveries[p] + 1 ELSE deliveries[p]
    BY <1>1, <1>2, <1>3
<1>6. ASSUME NEW p \in Packets, Delivered(p) PROVE Delivered(p)'
    BY <1>5, <1>6 DEF Delivered
<1> QED BY <1>4, <1>5, <1>6 DEF i

\* The packet being gathered, with the flit that arrives.
LEMMA JoinedFacts ==
    ASSUME Unambiguous, LinkInv, NEW flit \in Arrivals, NEW ready,
           Joins(rx, ReceiverInput(flit, ready))
    PROVE  LET more == Append(rx.gathered, wire[1]) IN
           /\ more \in Seq(Genuine) /\ more # <<>> /\ InOrder(more) /\ more[1].load = Newest
           /\ Len(more) = wire[1].index + 1
<1> DEFINE more == Append(rx.gathered, wire[1])
           s == rx.gathered
           f == wire[1]
<1>1. /\ f \in Genuine /\ f.load = Newest /\ f.index = Len(s) /\ Len(s) \in Nat
      /\ s # <<>> => Gathering(Newest)
    BY JoinFacts DEF Newest
<1>2. s \in Seq(Genuine)
    BY DEF LinkInv, LinkTyped
<1>3. /\ more \in Seq(Genuine) /\ more # <<>> /\ Len(more) = Len(s) + 1
      /\ \A n \in 1 .. Len(s) : more[n] = s[n]
      /\ more[Len(s) + 1] = f
    BY <1>1, <1>2, AppendProperties
<1>4. \A n \in 1 .. Len(s) : s[n].load = Newest /\ s[n].index = n - 1
    <2>1. CASE s = <<>>
        <3>1. Len(s) = 0
            BY <2>1
        <3> HIDE DEF s
        <3> QED BY <3>1
    <2>2. CASE s # <<>>
        <3>1. s[1].load = Newest /\ InOrder(s)
            BY <1>1, <2>2 DEF Gathering, LinkInv, GatherInv
        <3> HIDE DEF s
        <3> QED BY <3>1 DEF InOrder
    <2> QED BY <2>1, <2>2
<1> HIDE DEF more, s, f
<1>5. ASSUME NEW n \in 1 .. Len(more) PROVE more[n].load = Newest /\ more[n].index = n - 1
    <2>1. CASE n \in 1 .. Len(s)
        BY <1>3, <1>4, <2>1
    <2>2. CASE n = Len(s) + 1
        <3>1. n - 1 = Len(s)
            BY <1>1, <2>2
        <3> QED BY <1>1, <1>3, <2>2, <3>1
    <2> QED BY <1>1, <1>3, <2>1, <2>2
<1>6. 1 \in 1 .. Len(more)
    BY <1>1, <1>3
<1>7. more[1].load = Newest
    BY <1>5, <1>6
<1>8. InOrder(more)
    BY <1>5, <1>7 DEF InOrder
<1> QED BY <1>1, <1>3, <1>7, <1>8 DEF more, f

\* A packet that begins to wait is whole.
LEMMA EnqueueFacts ==
    ASSUME Unambiguous, LinkInv, NEW flit \in Arrivals, NEW ready,
           Enqueues(rx, ReceiverInput(flit, ready))
    PROVE  /\ Joins(rx, ReceiverInput(flit, ready)) /\ wire[1].eop /\ flit[1] = wire[1]
           /\ Coming(Newest) /\ Newest \in Packets /\ Newest \in Nat /\ Newest < next.packet
           /\ wire[1].index + 1 = Lengths[Newest + 1]
<1> DEFINE i == ReceiverInput(flit, ready)
<1>1. Joins(rx, i) /\ i.flit[1].eop /\ i.flit = flit
    BY DEF Enqueues, ReceiverInput
<1>2. /\ flit[1] = wire[1] /\ Newest \in Packets /\ Newest \in Nat /\ Coming(Newest)
      /\ wire[1].eop => wire[1].index + 1 = Lengths[Newest + 1] /\ Newest < next.packet
    BY <1>1, JoinFacts
<1> QED BY <1>1, <1>2

LEMMA TotalFacts ==
    ASSUME LinkTyped, NEW f \in FlitRecord
    PROVE  Total(rx, f) \in Nat
<1>1. f.vc \in Channels
    BY DEF FlitRecord
<1>2. rx.totals[f.vc] \in Nat
    BY <1>1 DEF LinkTyped
<1>3. TotalModulus \in Nat \ {0}
    BY ChannelAssumption
<1> QED BY <1>2, <1>3 DEF Total, NextTotal

\* The packets that wait after an edge: those that waited, and the one that ends.
LEMMA ContextStep ==
    ASSUME Unambiguous, LinkInv, NEW flit, NEW ready, Receives(flit, ready)
    PROVE  LET i == ReceiverInput(flit, ready)  after == rx'.contexts
               d == IF Dequeues(rx, i) THEN 1 ELSE 0 IN
           /\ after \in Seq(ContextRecord) /\ Len(after) \in Nat
           /\ \A n \in 1 .. Len(after) :
                \/ n + d \in 1 .. Len(rx.contexts) /\ after[n] = rx.contexts[n + d]
                \/ /\ Enqueues(rx, i) /\ n = Len(after)
                   /\ after[n].flits = Append(rx.gathered, wire[1])
<1> DEFINE i == ReceiverInput(flit, ready)
           after == rx'.contexts
           d == IF Dequeues(rx, i) THEN 1 ELSE 0
           kept == IF Dequeues(rx, i) THEN Tail(rx.contexts) ELSE rx.contexts
           new == [flits |-> Append(rx.gathered, flit[1]), total |-> Total(rx, flit[1])]
<1>1. LinkTyped /\ rx.contexts \in Seq(ContextRecord) /\ flit \in Arrivals
    BY DEF LinkInv, LinkTyped, Receives
<1>2. after = kept \o (IF Enqueues(rx, i) THEN <<new>> ELSE <<>>)
    BY DEF Receives, ReceiverEdge, ReceiverInput, RxEdge, ContextsAfter
<1>3. /\ kept \in Seq(ContextRecord) /\ Len(kept) \in Nat
      /\ \A n \in 1 .. Len(kept) : n + d \in 1 .. Len(rx.contexts) /\ kept[n] = rx.contexts[n + d]
    <2>1. CASE Dequeues(rx, i)
        <3>1. rx.contexts # <<>> /\ kept = Tail(rx.contexts) /\ d = 1
            BY <2>1, DequeueFacts
        <3> HIDE DEF kept, d
        <3>2. /\ kept \in Seq(ContextRecord) /\ Len(kept) = Len(rx.contexts) - 1
              /\ \A n \in 1 .. Len(kept) : kept[n] = rx.contexts[n + 1]
            BY <1>1, <3>1, HeadTailProperties
        <3>3. Len(rx.contexts) \in Nat /\ Len(kept) \in Nat
            BY <1>1, <3>2, LenProperties
        <3> QED BY <3>1, <3>2, <3>3
    <2>2. CASE ~Dequeues(rx, i)
        <3>1. kept = rx.contexts /\ d = 0 /\ Len(rx.contexts) \in Nat
            BY <1>1, <2>2, LenProperties
        <3> HIDE DEF kept, d
        <3>2. \A n \in 1 .. Len(kept) : n + d = n
            BY <3>1
        <3> QED BY <1>1, <3>1, <3>2
    <2> QED BY <2>1, <2>2
<1>4. CASE Enqueues(rx, i)
    <2>1. flit[1] = wire[1] /\ Joins(rx, i)
        BY <1>1, <1>4, EnqueueFacts
    <2>2. Append(rx.gathered, wire[1]) \in Seq(Genuine) /\ wire[1] \in FlitRecord
        BY <1>1, <2>1, JoinedFacts, JoinFacts DEF Genuine
    <2>3. Total(rx, wire[1]) \in Nat
        BY <1>1, <2>2, TotalFacts
    <2>4. new \in ContextRecord /\ new.flits = Append(rx.gathered, wire[1])
        BY <2>1, <2>2, <2>3 DEF ContextRecord
    <2>5. after = kept \o <<new>>
        BY <1>2, <1>4
    <2> HIDE DEF kept, new, after, d
    <2>6. /\ after \in Seq(ContextRecord) /\ Len(after) = Len(kept) + 1
          /\ \A n \in 1 .. Len(after) :
                \/ n \in 1 .. Len(kept) /\ after[n] = kept[n]
                \/ n = Len(kept) + 1 /\ after[n] = new
        BY <1>3, <2>4, <2>5, OneMore
    <2>7. Len(after) \in Nat
        BY <1>3, <2>6
    <2> QED BY <1>3, <1>4, <2>4, <2>6, <2>7 DEF after, d, i
<1>5. CASE ~Enqueues(rx, i)
    <2>1. after = kept \o <<>>
        BY <1>2, <1>5
    <2> HIDE DEF kept, after, d
    <2>2. after = kept
        BY <1>3, <2>1, ConcatEmptySeq
    <2> QED BY <1>3, <2>2 DEF after, d, i
<1> QED BY <1>4, <1>5

LEMMA WaitingStep ==
    ASSUME Unambiguous, LinkInv, NEW flit, NEW ready, Receives(flit, ready),
           NEW p \in Packets, Waiting(p)'
    PROVE  \/ /\ Waiting(p)
              /\ Dequeues(rx, ReceiverInput(flit, ready)) => ~Later(p, Oldest)
           \/ Enqueues(rx, ReceiverInput(flit, ready)) /\ p = Newest
<1> DEFINE i == ReceiverInput(flit, ready)
           d == IF Dequeues(rx, i) THEN 1 ELSE 0
<1>1. LinkTyped /\ ContextInv /\ flit \in Arrivals /\ ReceiverEdge(flit, ready)
    BY DEF LinkInv, Receives
<1>2. PICK n \in 1 .. Len(rx'.contexts) : rx'.contexts[n].flits[1].load = p
    BY DEF Waiting
<1>3. \/ n + d \in 1 .. Len(rx.contexts) /\ rx'.contexts[n] = rx.contexts[n + d]
      \/ Enqueues(rx, i) /\ rx'.contexts[n].flits = Append(rx.gathered, wire[1])
    BY <1>2, ContextStep
<1>4. CASE n + d \in 1 .. Len(rx.contexts) /\ rx'.contexts[n] = rx.contexts[n + d]
    <2>1. Waiting(p)
        BY <1>2, <1>4 DEF Waiting
    <2>2. Dequeues(rx, i) => ~Later(p, Oldest)
        <3>1. SUFFICES ASSUME Dequeues(rx, i) PROVE ~Later(p, Oldest)
            OBVIOUS
        <3>2. d = 1 /\ rx.contexts # <<>>
            BY <3>1, DequeueFacts
        <3>3. 1 \in 1 .. Len(rx.contexts) /\ 1 < n + d
            BY <1>2, <3>2, OldestFacts
        <3> QED BY <1>1, <1>2, <1>4, <3>3 DEF ContextInv, Oldest
    <2> QED BY <2>1, <2>2
<1>5. CASE Enqueues(rx, i) /\ rx'.contexts[n].flits = Append(rx.gathered, wire[1])
    <2>1. Append(rx.gathered, wire[1])[1].load = Newest
        BY <1>1, <1>5, EnqueueFacts, JoinedFacts
    <2> QED BY <1>2, <1>5, <2>1
<1> QED BY <1>3, <1>4, <1>5

LEMMA ContextKept ==
    ASSUME Unambiguous, LinkInv, NEW flit, NEW ready, Receives(flit, ready)
    PROVE  ContextInv'
<1> DEFINE i == ReceiverInput(flit, ready)
           after == rx'.contexts
           d == IF Dequeues(rx, i) THEN 1 ELSE 0
           Old(n) == n + d \in 1 .. Len(rx.contexts) /\ after[n] = rx.contexts[n + d]
           New(n) == /\ Enqueues(rx, i) /\ n = Len(after)
                     /\ after[n].flits = Append(rx.gathered, wire[1])
<1>1. /\ LinkTyped /\ ContextInv /\ OrderInv /\ flit \in Arrivals /\ ReceiverEdge(flit, ready)
      /\ next' = next
    BY DEF LinkInv, Receives
<1>2. Len(after) \in Nat /\ \A n \in 1 .. Len(after) : Old(n) \/ New(n)
    BY ContextStep
<1>3. d \in {0, 1}
    OBVIOUS
<1>4. ASSUME NEW n \in 1 .. Len(after), Old(n)
      PROVE  LET flits == after[n].flits  p == flits[1].load IN
             /\ flits # <<>> /\ InOrder(flits) /\ Len(flits) = Lengths[p + 1]
             /\ p < next.packet /\ Waiting(p) /\ p \in Packets
    <2> DEFINE flits == after[n].flits
               p == flits[1].load
    <2>1. flits = rx.contexts[n + d].flits /\ n + d \in 1 .. Len(rx.contexts)
        BY <1>4
    <2>2. /\ flits # <<>> /\ InOrder(flits) /\ Len(flits) = Lengths[p + 1]
          /\ p < next.packet
        BY <1>1, <2>1 DEF ContextInv
    <2>3. p \in Packets /\ Waiting(p)
        BY <1>1, <2>1, ContextFacts
    <2> QED BY <2>2, <2>3
<1>5. ASSUME NEW n \in 1 .. Len(after), New(n)
      PROVE  LET flits == after[n].flits  p == flits[1].load IN
             /\ flits # <<>> /\ InOrder(flits) /\ Len(flits) = Lengths[p + 1]
             /\ p < next.packet /\ Coming(p) /\ p \in Packets
    <2> DEFINE flits == after[n].flits
               p == flits[1].load
    <2>1. Enqueues(rx, i) /\ flits = Append(rx.gathered, wire[1])
        BY <1>5
    <2>2. /\ Joins(rx, i) /\ Coming(Newest)
          /\ Newest \in Packets /\ Newest < next.packet
          /\ wire[1].index + 1 = Lengths[Newest + 1]
        BY <1>1, <2>1, EnqueueFacts
    <2>3. flits # <<>> /\ InOrder(flits) /\ p = Newest /\ Len(flits) = wire[1].index + 1
        BY <1>1, <2>1, <2>2, JoinedFacts
    <2> HIDE DEF flits, p
    <2> QED BY <2>2, <2>3 DEF flits, p
<1>6. ASSUME NEW m \in 1 .. Len(after), NEW n \in 1 .. Len(after), m < n
      PROVE  ~Later(after[n].flits[1].load, after[m].flits[1].load)
    <2>1. Old(m)
        BY <1>2, <1>6
    <2>2. CASE Old(n)
        <3>1. m + d < n + d
            BY <1>2, <1>3, <1>6
        <3> QED BY <1>1, <2>1, <2>2, <3>1 DEF ContextInv
    <2>3. CASE New(n)
        <3>1. Waiting(after[m].flits[1].load) /\ after[m].flits[1].load \in Packets
            BY <1>4, <2>1
        <3>2. Coming(after[n].flits[1].load) /\ after[n].flits[1].load \in Packets
            BY <1>5, <2>3
        <3> QED BY <1>1, <3>1, <3>2 DEF OrderInv
    <2> QED BY <1>2, <2>2, <2>3
<1> HIDE DEF after, Old, New
<1>7. ASSUME NEW n \in 1 .. Len(after)
      PROVE  LET flits == after[n].flits  p == flits[1].load IN
             /\ flits # <<>> /\ InOrder(flits) /\ Len(flits) = Lengths[p + 1]
             /\ p < next.packet
    BY <1>2, <1>4, <1>5
<1> QED BY <1>1, <1>6, <1>7 DEF ContextInv, InOrder, Later, after

\* The packet being gathered after an edge: the same, none, or one flit more.
LEMMA GatheredStep ==
    ASSUME Unambiguous, LinkInv, NEW flit, NEW ready, Receives(flit, ready)
    PROVE  LET i == ReceiverInput(flit, ready) IN
           /\ rx'.gathered \in Seq(Genuine) /\ rx'.duplicate \in BOOLEAN
           /\ \/ /\ ~Enqueues(rx, i)
                 /\ rx'.gathered = rx.gathered /\ rx'.duplicate = rx.duplicate
              \/ rx'.gathered = <<>>
              \/ /\ Joins(rx, i) /\ ~Enqueues(rx, i)
                 /\ rx'.gathered = Append(rx.gathered, wire[1])
                 /\ rx'.duplicate => Delivered(Newest)
                 /\ ~Gathering(Newest) => (rx'.duplicate <=> Delivered(Newest))
           /\ Enqueues(rx, i) => rx'.gathered = <<>>
<1> DEFINE i == ReceiverInput(flit, ready)
<1>1. LinkTyped /\ flit \in Arrivals /\ rx.gathered \in Seq(Genuine) /\ rx.duplicate \in BOOLEAN
    BY DEF LinkInv, LinkTyped, Receives
<1>2. /\ rx'.gathered = GatheredAfter(rx, i) /\ rx'.duplicate = DuplicateAfter(rx, i)
      /\ i.flit = flit
    BY DEF Receives, ReceiverEdge, ReceiverInput, RxEdge
<1>3. CASE ~Joins(rx, i)
    <2>1. ~Enqueues(rx, i) /\ rx'.duplicate = rx.duplicate
        BY <1>2, <1>3 DEF Enqueues, DuplicateAfter
    <2>2. rx'.gathered = rx.gathered \/ rx'.gathered = <<>>
        BY <1>2, <1>3 DEF Joins, GatheredAfter
    <2>3. <<>> \in Seq(Genuine)
        BY EmptySeq
    <2> QED BY <1>1, <2>1, <2>2, <2>3
<1>4. CASE Joins(rx, i)
    <2>1. /\ flit[1] = wire[1] /\ wire[1] \in Genuine
          /\ Takes(rx, i) /\ ~rx.drain /\ ~Erroneous(rx, wire[1])
          /\ rx.gathered = <<>> => (Known(rx, wire[1]) <=> Delivered(Newest))
          /\ rx.gathered # <<>> => Gathering(Newest) /\ (rx.duplicate => Delivered(Newest))
        BY <1>1, <1>4, JoinFacts
    <2>2. rx'.gathered = IF wire[1].eop THEN <<>> ELSE Append(rx.gathered, wire[1])
        BY <1>2, <2>1 DEF GatheredAfter
    <2>3. rx'.duplicate = IF rx.gathered = <<>> THEN Known(rx, wire[1]) ELSE rx.duplicate
        BY <1>2, <1>4, <2>1 DEF DuplicateAfter
    <2>4. /\ rx'.duplicate \in BOOLEAN /\ (rx'.duplicate => Delivered(Newest))
          /\ ~Gathering(Newest) => (rx'.duplicate <=> Delivered(Newest))
        <3>1. Known(rx, wire[1]) \in BOOLEAN
            BY DEF Known
        <3> QED BY <1>1, <2>1, <2>3, <3>1
    <2>5. Enqueues(rx, i) => wire[1].eop
        BY <1>2, <2>1 DEF Enqueues
    <2>6. Append(rx.gathered, wire[1]) \in Seq(Genuine) /\ <<>> \in Seq(Genuine)
        BY <1>1, <2>1, AppendProperties, EmptySeq
    <2>7. CASE wire[1].eop
        BY <2>2, <2>4, <2>6, <2>7
    <2>8. CASE ~wire[1].eop
        BY <1>4, <2>2, <2>4, <2>5, <2>6, <2>8
    <2> QED BY <2>7, <2>8
<1> QED BY <1>3, <1>4

LEMMA GatheringStep ==
    ASSUME Unambiguous, LinkInv, NEW flit, NEW ready, Receives(flit, ready),
           NEW p \in Packets, Gathering(p)'
    PROVE  /\ ~Enqueues(rx, ReceiverInput(flit, ready))
           /\ \/ Gathering(p) /\ rx'.gathered = rx.gathered /\ rx'.duplicate = rx.duplicate
              \/ /\ Joins(rx, ReceiverInput(flit, ready)) /\ p = Newest
                 /\ rx'.gathered = Append(rx.gathered, wire[1])
                 /\ rx'.duplicate => Delivered(p)
                 /\ ~Gathering(p) => (rx'.duplicate <=> Delivered(p))
<1> DEFINE i == ReceiverInput(flit, ready)
<1>1. rx'.gathered # <<>> /\ rx'.gathered[1].load = p
    BY DEF Gathering
<1>2. flit \in Arrivals
    BY DEF Receives
<1>3. CASE ~Enqueues(rx, i) /\ rx'.gathered = rx.gathered /\ rx'.duplicate = rx.duplicate
    BY <1>1, <1>3 DEF Gathering
<1>4. CASE /\ Joins(rx, i) /\ ~Enqueues(rx, i)
           /\ rx'.gathered = Append(rx.gathered, wire[1])
           /\ rx'.duplicate => Delivered(Newest)
           /\ ~Gathering(Newest) => (rx'.duplicate <=> Delivered(Newest))
    <2>1. Append(rx.gathered, wire[1])[1].load = Newest
        BY <1>2, <1>4, JoinedFacts
    <2>2. p = Newest
        BY <1>1, <1>4, <2>1
    <2> QED BY <1>4, <2>2
<1> QED BY <1>1, <1>3, <1>4, GatheredStep

LEMMA GatherKept ==
    ASSUME Unambiguous, LinkInv, NEW flit, NEW ready, Receives(flit, ready)
    PROVE  GatherInv'
<1> DEFINE i == ReceiverInput(flit, ready)
<1>1. LinkTyped /\ GatherInv /\ flit \in Arrivals /\ ReceiverEdge(flit, ready)
    BY DEF LinkInv, Receives
<1>2. SUFFICES ASSUME rx'.gathered # <<>>, NEW p, p = rx'.gathered[1].load
               PROVE  InOrder(rx'.gathered) /\ (rx'.duplicate => deliveries'[p] > 0)
    BY DEF GatherInv, InOrder, Delivered
<1>3. rx'.gathered \in Seq(Genuine)
    BY GatheredStep
<1>4. p \in Packets
    BY <1>2, <1>3, SeqFirst, GenuineLoad
<1>5. Gathering(p)'
    BY <1>2 DEF Gathering
<1>6. InOrder(rx'.gathered) /\ (rx'.duplicate => Delivered(p))
    <2>1. CASE Gathering(p) /\ rx'.gathered = rx.gathered /\ rx'.duplicate = rx.duplicate
        BY <1>1, <2>1 DEF GatherInv, Gathering
    <2>2. CASE /\ Joins(rx, i)
               /\ rx'.gathered = Append(rx.gathered, wire[1])
               /\ rx'.duplicate => Delivered(p)
        <3>1. InOrder(Append(rx.gathered, wire[1]))
            BY <1>1, <2>2, JoinedFacts
        <3> QED BY <2>2, <3>1
    <2> QED BY <1>4, <1>5, <2>1, <2>2, GatheringStep
<1>7. Delivered(p) => deliveries'[p] > 0
    BY <1>1, <1>4, DeliveriesStep DEF Delivered
<1> QED BY <1>6, <1>7

\* The wire after an edge: the flit that is taken is the first.
LEMMA WireStep ==
    ASSUME Unambiguous, LinkInv, NEW flit, NEW ready, Receives(flit, ready)
    PROVE  /\ wire' \in Seq(Genuine) /\ WireInv'
           /\ \A p \in Packets : OnWire(p)' => OnWire(p)
<1> DEFINE i == ReceiverInput(flit, ready)
           d == IF Takes(rx, i) THEN 1 ELSE 0
<1>1. LinkTyped /\ WireInv /\ flit \in Arrivals /\ ReceiverEdge(flit, ready)
      /\ wire \in Seq(Genuine) /\ win' = win /\ next' = next
    BY DEF LinkInv, LinkTyped, Receives
<1>2. wire' = IF Takes(rx, i) THEN Tail(wire) ELSE wire
    BY <1>1 DEF ReceiverEdge, ReceiverInput
<1>3. /\ wire' \in Seq(Genuine) /\ Len(wire') \in Nat /\ d \in {0, 1}
      /\ \A n \in 1 .. Len(wire') : n + d \in 1 .. Len(wire) /\ wire'[n] = wire[n + d]
    <2>1. CASE Takes(rx, i)
        <3>1. wire # <<>>
            BY <1>1, <2>1, ArrivalFacts DEF Takes, ReceiverInput
        <3>2. wire' = Tail(wire) /\ d = 1
            BY <1>2, <2>1
        <3> HIDE DEF d
        <3>3. /\ wire' \in Seq(Genuine) /\ Len(wire') = Len(wire) - 1
              /\ \A n \in 1 .. Len(wire') : wire'[n] = wire[n + 1]
            BY <1>1, <3>1, <3>2, HeadTailProperties
        <3>4. Len(wire) \in Nat /\ Len(wire') \in Nat
            BY <1>1, <3>3, LenProperties
        <3> QED BY <3>2, <3>3, <3>4
    <2>2. CASE ~Takes(rx, i)
        <3>1. wire' = wire /\ d = 0 /\ Len(wire) \in Nat
            BY <1>1, <1>2, <2>2, LenProperties
        <3> HIDE DEF d
        <3>2. \A n \in 1 .. Len(wire') : n + d = n
            BY <3>1
        <3> QED BY <1>1, <3>1, <3>2
    <2> QED BY <2>1, <2>2
<1> HIDE DEF d
<1>4. ASSUME NEW p \in Packets, OnWire(p)' PROVE OnWire(p)
    BY <1>3, <1>4 DEF OnWire
<1>5. \A f : Sent(f)' = Sent(f)
    BY <1>1, Unmoved
<1>6. ASSUME NEW n \in 1 .. Len(wire'), NEW f, f = wire'[n] PROVE Sent(f)'
    <2>1. Sent(f)
        BY <1>1, <1>3, <1>6 DEF WireInv
    <2> QED BY <1>5, <2>1
<1>7. ASSUME NEW n \in 1 .. Len(wire'), NEW m \in 1 .. Len(wire'), m < n
      PROVE  ~Later(wire'[n].load, wire'[m].load)
    <2>1. m + d < n + d
        BY <1>3, <1>7
    <2> QED BY <1>1, <1>3, <2>1 DEF WireInv
<1>8. WireInv'
    <2>1. \A n \in 1 .. Len(wire') :
            wire'[n].load < next'.packet
              \/ (wire'[n].load = next'.packet /\ wire'[n].index < next'.flit)
        BY <1>6 DEF Sent
    <2> QED BY <1>7, <2>1 DEF WireInv, Sent, Later
<1> QED BY <1>3, <1>4, <1>8

LEMMA ReceiverDelivery ==
    ASSUME Unambiguous, LinkInv, NEW flit, NEW ready, Receives(flit, ready)
    PROVE  DeliveryInv' /\ LiveInv'
<1> DEFINE i == ReceiverInput(flit, ready)
<1>1. LinkTyped /\ DeliveryInv /\ LiveInv /\ flit \in Arrivals
      /\ ReceiverEdge(flit, ready) /\ win' = win /\ next' = next
    BY DEF LinkInv, Receives
<1>2. /\ BegunCount' = BegunCount
      /\ \A p : Retained(p)' = Retained(p) /\ Live(p)' = Live(p) /\ Replayed(p)' = Replayed(p)
    BY <1>1, Unmoved
<1>3. ASSUME NEW p \in Packets
      PROVE  /\ deliveries'[p] > 0 => p < next.packet
             /\ deliveries[p] > 0 => deliveries'[p] > 0
    <2>1. \/ deliveries'[p] = deliveries[p]
          \/ Dequeues(rx, i) /\ p = Oldest
        BY <1>1, DeliveriesStep
    <2>2. CASE Dequeues(rx, i) /\ p = Oldest
        BY <1>1, <2>2, DequeueFacts, OldestFacts, DeliveriesStep DEF Delivered
    <2> QED BY <1>1, <2>1, <2>2 DEF DeliveryInv, Delivered
<1>4. DeliveryInv'
    BY <1>1, <1>2, <1>3 DEF DeliveryInv, Delivered, Multi
<1>5. LiveInv'
    <2>1. SUFFICES ASSUME NEW p \in Packets, Coming(p)' \/ Gathering(p)' \/ Waiting(p)'
                   PROVE  Live(p)'
        BY DEF LiveInv
    <2>2. Coming(p)' => Coming(p)
        BY <1>2, WireStep DEF Coming
    <2>3. Gathering(p)' => Gathering(p) \/ Coming(p)
        BY <1>1, GatheringStep, JoinFacts
    <2>4. Waiting(p)' => Waiting(p) \/ Coming(p)
        BY <1>1, WaitingStep, EnqueueFacts
    <2>5. Live(p)
        BY <1>1, <2>1, <2>2, <2>3, <2>4 DEF LiveInv
    <2> QED BY <1>2, <2>5
<1> QED BY <1>4, <1>5

\* Nothing is under way any more of a packet before the one that arrives.
LEMMA OlderGone ==
    ASSUME Unambiguous, LinkInv, NEW flit \in Arrivals, NEW ready,
           Joins(rx, ReceiverInput(flit, ready)),
           NEW p \in Packets, Later(p, Newest)
    PROVE  ~Coming(p)
<1>1. WireInv /\ OrderInv /\ LinkTyped
    BY DEF LinkInv
<1>2. Newest \in Packets /\ Newest \in Nat /\ OnWire(Newest) /\ flit # <<>> /\ p \in Nat
    BY JoinFacts, PacketFacts
<1>3. 1 \in 1 .. Len(wire) /\ Len(wire) \in Nat
    BY <1>1, <1>2, ArrivalFacts, LenProperties DEF LinkTyped
<1>4. ~Replayed(p)
    BY <1>1, <1>2 DEF OrderInv
<1>5. ~OnWire(p)
    <2>1. SUFFICES ASSUME NEW n \in 1 .. Len(wire), wire[n].load = p PROVE FALSE
        BY DEF OnWire
    <2>2. n # 1
        BY <1>2, <2>1 DEF Newest, Later
    <2>3. 1 < n
        BY <1>3, <2>2
    <2> QED BY <1>1, <1>3, <2>1, <2>3 DEF WireInv, Newest
<1> QED BY <1>4, <1>5 DEF Coming

LEMMA ReceiverOrder ==
    ASSUME Unambiguous, LinkInv, NEW flit, NEW ready, Receives(flit, ready)
    PROVE  OrderInv'
<1> DEFINE i == ReceiverInput(flit, ready)
<1>1. LinkTyped /\ OrderInv /\ flit \in Arrivals
      /\ ReceiverEdge(flit, ready) /\ win' = win /\ next' = next
    BY DEF LinkInv, Receives
<1>2. \A p : Replayed(p)' = Replayed(p)
    BY <1>1, Unmoved
<1>3. SUFFICES ASSUME NEW p \in Packets, NEW later \in Packets, Later(p, later)
               PROVE  /\ ~(Replayed(p)' /\ OnWire(later)')
                      /\ Gathering(later)' => ~Coming(p)'
                      /\ Waiting(later)' => ~Coming(p)' /\ ~Gathering(p)'
                      /\ Delivered(later)' => ~Coming(p)' /\ ~Gathering(p)' /\ ~Waiting(p)'
    BY DEF OrderInv, Later
<1>4. /\ Replayed(p) => ~OnWire(later)
      /\ Gathering(later) => ~Coming(p)
      /\ Waiting(later) => ~Coming(p) /\ ~Gathering(p)
      /\ Delivered(later) => ~Coming(p) /\ ~Gathering(p) /\ ~Waiting(p)
    BY <1>1, <1>3 DEF OrderInv
<1>5. OnWire(later)' => OnWire(later)
    BY WireStep
<1>6. Coming(p)' => Coming(p)
    BY <1>2, WireStep DEF Coming
<1>7. Gathering(p)' => Gathering(p) \/ Coming(p)
    BY <1>1, GatheringStep, JoinFacts
<1>8. Waiting(p)' => Coming(p) \/ (Waiting(p) /\ (Dequeues(rx, i) => ~Later(p, Oldest)))
    BY <1>1, WaitingStep, EnqueueFacts
<1>9. ASSUME Gathering(later)' PROVE ~Coming(p)
    <2>1. Gathering(later) \/ (Joins(rx, i) /\ later = Newest)
        BY <1>9, GatheringStep
    <2> QED BY <1>1, <1>3, <1>4, <2>1, OlderGone
<1>10. ASSUME Waiting(later)' PROVE ~Coming(p) /\ ~Gathering(p)'
    <2>1. CASE Waiting(later)
        BY <1>4, <1>7, <2>1
    <2>2. CASE Enqueues(rx, i) /\ later = Newest
        <3>1. ~Coming(p)
            BY <1>1, <1>3, <2>2, EnqueueFacts, OlderGone
        <3>2. ~Gathering(p)'
            BY <2>2, GatheringStep
        <3> QED BY <3>1, <3>2
    <2> QED BY <1>10, <2>1, <2>2, WaitingStep
<1>11. ASSUME Delivered(later)' PROVE ~Coming(p) /\ ~Gathering(p)' /\ ~Waiting(p)'
    <2>1. CASE Delivered(later)
        BY <1>4, <1>7, <1>8, <2>1
    <2>2. CASE ~Delivered(later)
        <3>1. Dequeues(rx, i) /\ later = Oldest
            <4>1. deliveries'[later] # deliveries[later]
                BY <1>11, <2>2 DEF Delivered
            <4> QED BY <1>1, <4>1, DeliveriesStep
        <3>2. Waiting(later)
            BY <3>1, DequeueFacts, OldestFacts
        <3> QED BY <1>3, <1>4, <1>7, <1>8, <3>1, <3>2
    <2> QED BY <2>1, <2>2
<1> QED BY <1>2, <1>4, <1>5, <1>6, <1>9, <1>10, <1>11

LEMMA HistoryKept ==
    ASSUME Unambiguous, LinkInv, NEW flit, NEW ready, Receives(flit, ready)
    PROVE  DOMAIN rx'.history = HistoryEntries /\ HistoryInv'
<1> DEFINE i == ReceiverInput(flit, ready)
           x == Oldest
           k == Oldest % HistorySlots
<1>1. /\ LinkTyped /\ HistoryInv /\ OrderInv /\ ReceiverEdge(flit, ready)
      /\ DOMAIN rx.history = HistoryEntries
    BY DEF LinkInv, LinkTyped, Receives
<1>2. rx'.history = HistoryAfter(rx, i)
    BY <1>1 DEF ReceiverEdge, ReceiverInput, RxEdge
<1>3. \A p \in Packets :
        /\ deliveries[p] \in Nat
        /\ deliveries'[p] = IF Dequeues(rx, i) /\ p = Oldest THEN deliveries[p] + 1 ELSE deliveries[p]
    BY <1>1, DeliveriesStep
<1>4. CASE ~Dequeues(rx, i)
    <2>1. rx'.history = rx.history
        BY <1>2, <1>4 DEF HistoryAfter
    <2>2. \A p \in Packets : deliveries'[p] = deliveries[p]
        BY <1>3, <1>4
    <2> QED BY <1>1, <2>1, <2>2 DEF HistoryInv, Latest, Delivered
<1>5. CASE Dequeues(rx, i)
    <2>1. /\ x \in Packets /\ x \in Nat /\ Waiting(x)
          /\ rx.contexts[1].flits[1].seq = x % SeqSpace
        BY <1>5, DequeueFacts, OldestFacts
    <2>2. (x % SeqSpace) % HistorySlots = k /\ k \in HistoryEntries
        BY <2>1, SeqFacts
    <2>3. rx'.history = [rx.history EXCEPT ![k] = <<x % SeqSpace>>]
        BY <1>2, <1>5, <2>1, <2>2 DEF HistoryAfter
    <2>4. \A p \in Packets :
            (deliveries'[p] > 0) <=> (p = x \/ Delivered(p))
        BY <1>3, <1>5 DEF Delivered
    <2>5. x % HistorySlots = k
        OBVIOUS
    <2> HIDE DEF x, k, i
    <2>6. DOMAIN rx'.history = HistoryEntries
        BY <1>1, <2>3
\* No later packet of the entry was handed over while this one waited.
    <2>7. ASSUME NEW q \in Packets, q % HistorySlots = k, q > x PROVE ~(deliveries'[q] > 0)
        <3>1. q \in Nat
            BY PacketFacts
        <3>2. Later(x, q)
            BY <2>1, <2>5, <2>7, <3>1, EntryLater
        <3>3. ~Delivered(q)
            BY <1>1, <2>1, <3>2 DEF OrderInv
        <3> QED BY <2>1, <2>4, <2>7, <3>1, <3>3
    <2>8. ASSUME NEW h \in HistoryEntries
          PROVE  \/ /\ rx'.history[h] = <<>>
                    /\ \A p \in Packets : p % HistorySlots = h => ~(deliveries'[p] > 0)
                 \/ \E p \in Packets :
                        /\ p % HistorySlots = h /\ deliveries'[p] > 0
                        /\ \A q \in Packets : q % HistorySlots = h /\ q > p => ~(deliveries'[q] > 0)
                        /\ rx'.history[h] = <<p % SeqSpace>>
        <3>1. CASE h = k
            <4>1. rx'.history[h] = <<x % SeqSpace>>
                BY <1>1, <2>3, <3>1
            <4>2. deliveries'[x] > 0
                BY <2>1, <2>4
            <4> QED BY <2>1, <2>5, <2>7, <3>1, <4>1, <4>2
        <3>2. CASE h # k
            <4>1. rx'.history[h] = rx.history[h]
                BY <1>1, <2>3, <3>2
            <4>2. \A p \in Packets : p % HistorySlots = h => ((deliveries'[p] > 0) <=> Delivered(p))
                BY <2>4, <2>5, <3>2
            <4>3. CASE /\ rx.history[h] = <<>>
                       /\ \A p \in Packets : p % HistorySlots = h => ~Delivered(p)
                BY <4>1, <4>2, <4>3
            <4>4. CASE \E p \in Packets : Latest(p, h) /\ rx.history[h] = <<p % SeqSpace>>
                <5>1. PICK p \in Packets : Latest(p, h) /\ rx.history[h] = <<p % SeqSpace>>
                    BY <4>4
                <5>2. /\ p % HistorySlots = h /\ deliveries'[p] > 0
                      /\ \A q \in Packets : q % HistorySlots = h /\ q > p => ~(deliveries'[q] > 0)
                    BY <4>2, <5>1 DEF Latest
                <5> QED BY <4>1, <5>1, <5>2
            <4> QED BY <1>1, <4>3, <4>4 DEF HistoryInv
        <3> QED BY <3>1, <3>2
    <2> QED BY <2>6, <2>8 DEF HistoryInv, Latest, Delivered
<1> QED BY <1>4, <1>5
-----------------------------------------------------------------------------
(* The receiver's edge: answers. *)

LEMMA AnswerFacts ==
    ASSUME NEW type \in {"ack", "nack", "credit"}, NEW f \in FlitRecord, NEW total \in Nat
    PROVE  \E a \in AnswerRecord :
              /\ Answer(type, f, total) = <<a>> /\ a.type = type /\ a.seq = f.seq
<1> DEFINE a == [type |-> type, seq |-> f.seq, vc |-> f.vc, total |-> total]
<1>1. f.seq \in Nat /\ f.vc \in Channels
    BY DEF FlitRecord
<1>2. a \in AnswerRecord /\ a.type = type /\ a.seq = f.seq
    BY <1>1 DEF AnswerRecord
<1>3. Answer(type, f, total) = <<a>>
    BY DEF Answer
<1> QED BY <1>2, <1>3

\* A flit is acknowledged when it ends a copy of a packet; of two flits or more, one
\* that was handed over.
LEMMA InputFacts ==
    ASSUME Unambiguous, LinkInv, NEW flit \in Arrivals, NEW ready
    PROVE  \/ InputResponse(rx, ReceiverInput(flit, ready)) = <<>>
           \/ \E a \in AnswerRecord :
                /\ InputResponse(rx, ReceiverInput(flit, ready)) = <<a>>
                /\ a.type = "ack" =>
                    \E p \in Packets :
                        Live(p) /\ Coming(p) /\ Earned(p) /\ a.seq = p % SeqSpace
<1> DEFINE i == ReceiverInput(flit, ready)
           f == flit[1]
           named == IF rx.gathered # <<>> THEN rx.gathered[1] ELSE f
           total == Total(rx, f)
<1>1. LinkTyped /\ rx.gathered \in Seq(Genuine)
    BY DEF LinkInv, LinkTyped
<1>2. i.flit = flit
    BY DEF ReceiverInput
<1>3. CASE ~Takes(rx, i)
    BY <1>3 DEF InputResponse
<1>4. CASE Takes(rx, i)
    <2>1. flit # <<>>
        BY <1>2, <1>4 DEF Takes
    <2>2. f \in FlitRecord
        BY <2>1, ArrivalFacts
    <2>3. total \in Nat
        BY <1>1, <2>2, TotalFacts
    <2>4. named \in FlitRecord
        <3>1. rx.gathered # <<>> => rx.gathered[1] \in FlitRecord
            BY <1>1, SeqFirst DEF Genuine
        <3> QED BY <2>2, <3>1
    <2>5. InputResponse(rx, i) =
            IF rx.drain THEN Answer("credit", f, total)
            ELSE IF Erroneous(rx, f) THEN Answer("nack", named, total)
            ELSE IF ~f.eop THEN Answer("credit", f, total)
            ELSE IF Repeats(rx, f) THEN Answer("ack", f, total)
            ELSE <<>>
        BY <1>2, <1>4 DEF InputResponse
    <2> HIDE DEF named, total
    <2>6. CASE ~rx.drain /\ ~Erroneous(rx, f) /\ f.eop /\ Repeats(rx, f)
        <3>1. Joins(rx, i)
            BY <1>2, <1>4, <2>6 DEF Joins
        <3>2. /\ f = wire[1] /\ f \in Genuine /\ f.load = Newest
              /\ Newest \in Packets /\ Live(Newest) /\ Coming(Newest) /\ Earned(Newest)
            <4>1. f = wire[1] /\ f \in Genuine /\ f.load = Newest
                BY <3>1, JoinFacts DEF Newest
            <4>2. /\ Newest \in Packets /\ Live(Newest) /\ Coming(Newest)
                  /\ f.index = Len(rx.gathered)
                  /\ f.index + 1 = Lengths[Newest + 1] /\ Newest < next.packet
                BY <2>6, <3>1, <4>1, JoinFacts
            <4>3. ASSUME Multi(Newest) PROVE Delivered(Newest)
                <5>1. rx.gathered # <<>>
                    <6>1. SUFFICES ASSUME rx.gathered = <<>> PROVE FALSE
                        OBVIOUS
                    <6>2. Len(rx.gathered) = 0
                        BY <6>1, EmptySeq
                    <6> QED BY <4>2, <4>3, <6>2 DEF Multi
                <5>2. rx.duplicate
                    BY <2>6, <5>1 DEF Repeats
                <5> QED BY <3>1, <5>1, <5>2, JoinFacts
            <4> QED BY <4>1, <4>2, <4>3 DEF Earned
        <3>3. f.seq = Newest % SeqSpace
            BY <3>2 DEF Genuine
        <3>4. "ack" \in {"ack", "nack", "credit"}
            OBVIOUS
        <3>5. PICK a \in AnswerRecord : Answer("ack", f, total) = <<a>> /\ a.seq = f.seq
            BY <2>2, <2>3, <3>4, AnswerFacts
        <3>6. InputResponse(rx, i) = <<a>>
            BY <2>5, <2>6, <3>5
        <3> QED BY <3>2, <3>3, <3>5, <3>6
    <2>7. CASE InputResponse(rx, i) = Answer("credit", f, total)
        <3>1. "credit" \in {"ack", "nack", "credit"}
            OBVIOUS
        <3>2. PICK a \in AnswerRecord : Answer("credit", f, total) = <<a>> /\ a.type = "credit"
            BY <2>2, <2>3, <3>1, AnswerFacts
        <3>3. InputResponse(rx, i) = <<a>> /\ a.type # "ack"
            BY <2>7, <3>2
        <3> QED BY <3>3
    <2>8. CASE InputResponse(rx, i) = Answer("nack", named, total)
        <3>1. "nack" \in {"ack", "nack", "credit"}
            OBVIOUS
        <3>2. PICK a \in AnswerRecord : Answer("nack", named, total) = <<a>> /\ a.type = "nack"
            BY <2>3, <2>4, <3>1, AnswerFacts
        <3>3. InputResponse(rx, i) = <<a>> /\ a.type # "ack"
            BY <2>8, <3>2
        <3> QED BY <3>3
    <2>9. CASE InputResponse(rx, i) = <<>>
        BY <2>9
    <2> QED BY <2>5, <2>6, <2>7, <2>8, <2>9
<1> QED BY <1>3, <1>4

LEMMA OutputFacts ==
    ASSUME Unambiguous, LinkInv, NEW i
    PROVE  \/ OutputResponse(rx, i) = <<>>
           \/ /\ Dequeues(rx, i)
              /\ \E a \in AnswerRecord :
                    OutputResponse(rx, i) = <<a>> /\ a.seq = Oldest % SeqSpace
<1>1. CASE ~Dequeues(rx, i)
    BY <1>1 DEF OutputResponse
<1>2. CASE Dequeues(rx, i)
    <2> DEFINE f == rx.contexts[1].flits[1]
    <2>1. f \in Genuine /\ f.seq = Oldest % SeqSpace /\ rx.contexts[1] \in ContextRecord
        BY <1>2, DequeueFacts, OldestFacts
    <2>2. f \in FlitRecord /\ rx.contexts[1].total \in Nat
        BY <2>1 DEF Genuine, ContextRecord
    <2>3. OutputResponse(rx, i) = Answer("ack", f, rx.contexts[1].total)
        BY <1>2 DEF OutputResponse
    <2> HIDE DEF f
    <2>4. "ack" \in {"ack", "nack", "credit"}
        OBVIOUS
    <2>5. PICK a \in AnswerRecord :
            Answer("ack", f, rx.contexts[1].total) = <<a>> /\ a.seq = f.seq
        BY <2>2, <2>4, AnswerFacts
    <2>6. OutputResponse(rx, i) = <<a>> /\ a.seq = Oldest % SeqSpace
        BY <2>1, <2>3, <2>5
    <2> QED BY <1>2, <2>6
<1> QED BY <1>1, <1>2

LEMMA TwoMore ==
    ASSUME NEW T, NEW s \in Seq(T), NEW t \in Seq(T), NEW u \in Seq(T),
           AtMostOne(t), AtMostOne(u)
    PROVE  LET all == (s \o t) \o u IN
           /\ all \in Seq(T) /\ Len(all) \in Nat
           /\ \A n \in 1 .. Len(all) :
                \/ n \in 1 .. Len(s) /\ all[n] = s[n]
                \/ n = Len(s) + 1 /\ t = <<all[n]>>
                \/ n > Len(s) /\ u = <<all[n]>>
<1> DEFINE st == s \o t
           all == st \o u
<1>1. /\ st \in Seq(T) /\ Len(s) \in Nat
      /\ t = <<>> => st = s
      /\ t # <<>> =>
            /\ Len(st) = Len(s) + 1
            /\ \A n \in 1 .. Len(st) :
                \/ n \in 1 .. Len(s) /\ st[n] = s[n]
                \/ n = Len(s) + 1 /\ st[n] = t[1]
    <2>1. CASE t = <<>>
        <3>1. st = s
            BY <2>1, ConcatEmptySeq
        <3> HIDE DEF st
        <3> QED BY <2>1, <3>1, LenProperties
    <2>2. CASE t # <<>>
        <3>1. t = <<t[1]>> /\ t[1] \in T
            BY <2>2, SeqFirst DEF AtMostOne
        <3>2. st = s \o <<t[1]>>
            BY <3>1
        <3> HIDE DEF st
        <3> QED BY <2>2, <3>1, <3>2, OneMore
    <2> QED BY <2>1, <2>2
<1>2. /\ all \in Seq(T) /\ Len(st) \in Nat /\ Len(all) \in Nat
      /\ u = <<>> => all = st
      /\ u # <<>> =>
            \A n \in 1 .. Len(all) :
                \/ n \in 1 .. Len(st) /\ all[n] = st[n]
                \/ n = Len(st) + 1 /\ all[n] = u[1]
    <2> HIDE DEF st
    <2>1. CASE u = <<>>
        <3>1. all = st
            BY <1>1, <2>1, ConcatEmptySeq
        <3> HIDE DEF all
        <3> QED BY <1>1, <2>1, <3>1, LenProperties
    <2>2. CASE u # <<>>
        <3>1. u = <<u[1]>> /\ u[1] \in T
            BY <2>2, SeqFirst DEF AtMostOne
        <3>2. all = st \o <<u[1]>>
            BY <3>1
        <3> HIDE DEF all
        <3>3. all \in Seq(T) /\ Len(st) \in Nat /\ Len(all) = Len(st) + 1
            BY <1>1, <3>1, <3>2, OneMore
        <3> QED BY <1>1, <2>2, <3>1, <3>2, <3>3, OneMore
    <2> QED BY <2>1, <2>2
<1> HIDE DEF st, all
<1>3. ASSUME NEW n \in 1 .. Len(all)
      PROVE  \/ n \in 1 .. Len(s) /\ all[n] = s[n]
             \/ n = Len(s) + 1 /\ t = <<all[n]>>
             \/ n > Len(s) /\ u = <<all[n]>>
    <2>1. CASE u # <<>> /\ n = Len(st) + 1 /\ all[n] = u[1]
        <3>1. u = <<u[1]>>
            BY <2>1 DEF AtMostOne
        <3>2. Len(st) >= Len(s)
            BY <1>1
        <3> QED BY <1>1, <1>2, <2>1, <3>1, <3>2
    <2>2. CASE n \in 1 .. Len(st) /\ all[n] = st[n]
        <3>1. CASE t = <<>>
            BY <1>1, <2>2, <3>1
        <3>2. CASE t # <<>>
            <4>1. t = <<t[1]>>
                BY <3>2 DEF AtMostOne
            <4> QED BY <1>1, <2>2, <3>2, <4>1
        <3> QED BY <3>1, <3>2
    <2> QED BY <1>2, <2>1, <2>2
<1> QED BY <1>2, <1>3 DEF st, all

LEMMA HeadAndTail ==
    ASSUME NEW T, NEW s \in Seq(T), s # <<>>
    PROVE  <<Head(s)>> \o Tail(s) = s
<1> DEFINE t == Tail(s)
           h == <<Head(s)>>
           all == h \o t
<1>1. /\ t \in Seq(T) /\ Len(t) = Len(s) - 1 /\ Len(s) \in Nat /\ Len(s) >= 1
      /\ \A n \in 1 .. Len(t) : t[n] = s[n + 1]
      /\ Head(s) \in T /\ Head(s) = s[1]
    BY HeadTailProperties, SeqFirst
<1>2. h \in Seq(T) /\ Len(h) = 1 /\ h[1] = s[1]
    BY <1>1, OneElement
<1> HIDE DEF t, h
<1>3. /\ all \in Seq(T) /\ Len(all) = Len(h) + Len(t)
      /\ \A n \in 1 .. Len(h) + Len(t) : all[n] = IF n <= Len(h) THEN h[n] ELSE t[n - Len(h)]
    <2>1. h \in Seq(T) /\ t \in Seq(T)
        BY <1>1, <1>2
    <2> QED BY <2>1, ConcatProperties
<1> HIDE DEF all
<1>4. Len(all) = Len(s)
    BY <1>1, <1>2, <1>3
<1>5. ASSUME NEW n \in 1 .. Len(all) PROVE all[n] = s[n]
    <2>1. CASE n = 1
        BY <1>1, <1>2, <1>3, <1>4, <2>1
    <2>2. CASE n # 1
        <3>1. n \in 1 .. Len(h) + Len(t) /\ ~(n <= Len(h)) /\ n - Len(h) \in 1 .. Len(t)
              /\ (n - Len(h)) + 1 = n
            BY <1>1, <1>2, <1>3, <1>4, <2>2
        <3> QED BY <1>1, <1>3, <3>1
    <2> QED BY <2>1, <2>2
<1>6. all = s
    BY <1>3, <1>4, <1>5, SeqEqual
<1> QED BY <1>6 DEF all, h, t

\* The answers after an edge: those under way, then those the edge gives.
LEMMA AnswersStep ==
    ASSUME Unambiguous, LinkInv, NEW flit, NEW ready, Receives(flit, ready)
    PROVE  LET i == ReceiverInput(flit, ready) IN
           /\ reverse' \in Seq(AnswerRecord) /\ rx'.responses \in Seq(AnswerRecord)
           /\ Len(Answers') \in Nat /\ Len(Answers) \in Nat
           /\ \A n \in 1 .. Len(Answers') :
                \/ n \in 1 .. Len(Answers) /\ Answers'[n] = Answers[n]
                \/ n = Len(Answers) + 1 /\ InputResponse(rx, i) = <<Answers'[n]>>
                \/ n > Len(Answers) /\ OutputResponse(rx, i) = <<Answers'[n]>>
<1> DEFINE i == ReceiverInput(flit, ready)
           r == rx.responses
           kept == IF i.pop THEN Tail(r) ELSE r
           In == InputResponse(rx, i)
           Out == OutputResponse(rx, i)
<1>1. LinkTyped /\ flit \in Arrivals /\ reverse \in Seq(AnswerRecord) /\ r \in Seq(AnswerRecord)
    BY DEF LinkInv, LinkTyped, Receives
<1>2. /\ rx'.responses = (kept \o In) \o Out
      /\ reverse' = IF i.pop THEN Append(reverse, Head(r)) ELSE reverse
      /\ i.pop => r # <<>>
    BY DEF Receives, ReceiverEdge, ReceiverInput, RxEdge
<1>3. In \in Seq(AnswerRecord) /\ AtMostOne(In)
    <2> HIDE DEF In
    <2>1. In = <<>> \/ \E a \in AnswerRecord : In = <<a>>
        BY <1>1, InputFacts DEF In
    <2> QED BY <2>1, OneElement, NoElement
<1>4. Out \in Seq(AnswerRecord) /\ AtMostOne(Out)
    <2> HIDE DEF Out
    <2>1. Out = <<>> \/ \E a \in AnswerRecord : Out = <<a>>
        BY OutputFacts DEF Out
    <2> QED BY <2>1, OneElement, NoElement
<1> HIDE DEF In, Out
<1>5. /\ reverse' \in Seq(AnswerRecord) /\ kept \in Seq(AnswerRecord)
      /\ reverse' \o kept = Answers
    <2>1. CASE i.pop
        <3>1. r # <<>> /\ kept = Tail(r) /\ reverse' = Append(reverse, Head(r))
            BY <1>2, <2>1
        <3>2. Head(r) \in AnswerRecord /\ Tail(r) \in Seq(AnswerRecord)
            BY <1>1, <3>1, HeadTailProperties
        <3> DEFINE h == <<Head(r)>>
                   t == Tail(r)
        <3>3. reverse' = reverse \o h /\ reverse' \in Seq(AnswerRecord)
            BY <1>1, <3>1, <3>2, AppendIsConcat, AppendProperties
        <3>4. h \in Seq(AnswerRecord) /\ h \o t = r
            BY <1>1, <3>1, <3>2, OneElement, HeadAndTail
        <3> HIDE DEF h, r
        <3>5. (reverse \o h) \o t = reverse \o (h \o t)
            <4> HIDE DEF t
            <4>1. h \in Seq(AnswerRecord) /\ t \in Seq(AnswerRecord) /\ reverse \in Seq(AnswerRecord)
                BY <1>1, <3>2, <3>4 DEF t
            <4> QED BY <4>1, ConcatAssociative
        <3> QED BY <3>1, <3>2, <3>3, <3>4, <3>5 DEF Answers, r
    <2>2. CASE ~i.pop
        BY <1>1, <1>2, <2>2 DEF Answers
    <2> QED BY <2>1, <2>2
<1> HIDE DEF kept
<1>6. rx'.responses \in Seq(AnswerRecord)
    <2>1. kept \o In \in Seq(AnswerRecord)
        BY <1>3, <1>5, ConcatProperties
    <2> DEFINE m == kept \o In
    <2>2. m \o Out \in Seq(AnswerRecord)
        BY <1>4, <2>1, ConcatProperties
    <2> QED BY <1>2, <2>2
<1>7. Answers' = (Answers \o In) \o Out
    <2> DEFINE m == kept \o In
    <2>1. m \in Seq(AnswerRecord)
        BY <1>3, <1>5, ConcatProperties
    <2>2. Answers' = reverse' \o (m \o Out)
        BY <1>2 DEF Answers
    <2>3. (reverse' \o kept) \o In = reverse' \o (kept \o In)
        <3>1. /\ reverse' \in Seq(AnswerRecord) /\ kept \in Seq(AnswerRecord)
              /\ In \in Seq(AnswerRecord)
            BY <1>3, <1>5
        <3> QED BY <3>1, ConcatAssociative
    <2> HIDE DEF m
    <2>4. (reverse' \o m) \o Out = reverse' \o (m \o Out)
        BY <1>4, <1>5, <2>1, ConcatAssociative
    <2> QED BY <1>5, <2>2, <2>3, <2>4 DEF m
<1>8. Answers \in Seq(AnswerRecord) /\ Len(Answers) \in Nat
    BY <1>1, AnswersFacts
<1> DEFINE s == Answers
           after == Answers'
<1>9. after = (s \o In) \o Out /\ s \in Seq(AnswerRecord) /\ Len(s) \in Nat
    BY <1>7, <1>8
<1> HIDE DEF s, after
<1>10. /\ Len(after) \in Nat
       /\ \A n \in 1 .. Len(after) :
            \/ n \in 1 .. Len(s) /\ after[n] = s[n]
            \/ n = Len(s) + 1 /\ In = <<after[n]>>
            \/ n > Len(s) /\ Out = <<after[n]>>
    BY <1>3, <1>4, <1>9, TwoMore
<1> QED BY <1>5, <1>6, <1>9, <1>10 DEF s, after, In, Out, i

LEMMA ReceiverAnswers ==
    ASSUME Unambiguous, LinkInv, NEW flit, NEW ready, Receives(flit, ready)
    PROVE  AnswerInv'
<1> DEFINE i == ReceiverInput(flit, ready)
           s == Answers
           after == Answers'
           Old(n) == n \in 1 .. Len(s) /\ after[n] = s[n]
           New(n) == /\ n = Len(s) + 1
                     /\ after[n].type = "ack" =>
                        \E p \in Packets :
                            Live(p) /\ Coming(p) /\ Earned(p) /\ after[n].seq = p % SeqSpace
           Handed(n) == n > Len(s) /\ Dequeues(rx, i) /\ after[n].seq = Oldest % SeqSpace
<1>1. /\ LinkTyped /\ WindowInv /\ OrderInv /\ AnswerInv /\ flit \in Arrivals
      /\ ReceiverEdge(flit, ready) /\ win' = win /\ next' = next
    BY DEF LinkInv, Receives
<1>2. /\ Len(after) \in Nat /\ Len(s) \in Nat
      /\ \A n \in 1 .. Len(after) : Old(n) \/ New(n) \/ Handed(n)
    <2>1. ASSUME NEW n, NEW a, a = after[n],
                 n = Len(s) + 1, InputResponse(rx, i) = <<a>>
          PROVE  New(n)
        <3>1. PICK b \in AnswerRecord :
                /\ InputResponse(rx, i) = <<b>>
                /\ b.type = "ack" =>
                    \E p \in Packets : Live(p) /\ Coming(p) /\ Earned(p) /\ b.seq = p % SeqSpace
            BY <1>1, <2>1, InputFacts
        <3>2. a = b
            BY <2>1, <3>1
        <3> QED BY <2>1, <3>1, <3>2
    <2>2. ASSUME NEW n, NEW a, a = after[n], n > Len(s), OutputResponse(rx, i) = <<a>>
          PROVE  Handed(n)
        <3>1. Dequeues(rx, i) /\ \E b \in AnswerRecord :
                OutputResponse(rx, i) = <<b>> /\ b.seq = Oldest % SeqSpace
            BY <2>2, OutputFacts
        <3>2. PICK b \in AnswerRecord :
                OutputResponse(rx, i) = <<b>> /\ b.seq = Oldest % SeqSpace
            BY <3>1
        <3>3. a = b
            BY <2>2, <3>2
        <3> QED BY <2>2, <3>1, <3>2, <3>3
    <2>3. /\ Len(after) \in Nat /\ Len(s) \in Nat
          /\ \A n \in 1 .. Len(after) :
                \/ n \in 1 .. Len(s) /\ after[n] = s[n]
                \/ n = Len(s) + 1 /\ InputResponse(rx, i) = <<after[n]>>
                \/ n > Len(s) /\ OutputResponse(rx, i) = <<after[n]>>
        BY AnswersStep
    <2> HIDE DEF s, after, New, Handed
    <2> QED BY <2>1, <2>2, <2>3
<1>3. \A p : Live(p)' = Live(p)
    BY <1>1, Unmoved
<1>4. ASSUME NEW p \in Packets, Earned(p)
      PROVE  p < next'.packet /\ (Multi(p) => deliveries'[p] > 0)
    BY <1>1, <1>4, DeliveriesStep DEF Earned, Delivered
<1>5. Dequeues(rx, i) => /\ Oldest \in Packets /\ Oldest \in Nat /\ Live(Oldest) /\ Waiting(Oldest)
                         /\ Oldest < next.packet /\ deliveries'[Oldest] > 0
    <2>1. Dequeues(rx, i) => rx.contexts # <<>>
        BY DequeueFacts
    <2> QED BY <1>1, <2>1, OldestFacts, DeliveriesStep
<1>6. ASSUME NEW n \in 1 .. Len(after), after[n].type = "ack"
      PROVE  \E p \in Packets : /\ Live(p) /\ Acks(after[n], p)
                                /\ p < next'.packet /\ (Multi(p) => deliveries'[p] > 0)
    <2>1. CASE Old(n)
        <3>1. PICK p \in Packets : Live(p) /\ Earned(p) /\ Acks(s[n], p)
            BY <1>1, <1>6, <2>1 DEF AnswerInv
        <3> QED BY <1>4, <2>1, <3>1
    <2>2. CASE New(n)
        <3>1. PICK p \in Packets : Live(p) /\ Earned(p) /\ after[n].seq = p % SeqSpace
            BY <1>6, <2>2
        <3>2. Acks(after[n], p)
            BY <1>6, <3>1 DEF Acks
        <3> QED BY <1>4, <3>1, <3>2
    <2>3. CASE Handed(n)
        <3>1. Acks(after[n], Oldest)
            BY <1>6, <2>3 DEF Acks
        <3> QED BY <1>1, <1>5, <2>3, <3>1
    <2> QED BY <1>2, <2>1, <2>2, <2>3
<1>7. ASSUME NEW m \in 1 .. Len(after), NEW n \in 1 .. Len(after), NEW p \in Packets,
             NEW later \in Packets, Later(p, later), Multi(later),
             m < n, Live(p), Live(later), Acks(after[m], later), Acks(after[n], p)
      PROVE  FALSE
    <2>1. /\ p \in Nat /\ later \in Nat /\ p < later
          /\ after[n].type = "ack" /\ after[n].seq = p % SeqSpace
          /\ after[m].type = "ack" /\ after[m].seq = later % SeqSpace
        BY <1>7, PacketFacts DEF Acks, Later
\* An answer given before is in earnest, and so is one the edge gives for a copy.
    <2>2. ASSUME ~Handed(m) PROVE Delivered(later)
        <3>1. CASE Old(m)
            <4>1. s[m].type = "ack" /\ s[m].seq = later % SeqSpace /\ m \in 1 .. Len(s)
                BY <2>1, <3>1
            <4>2. Earned(later)
                BY <1>1, <1>7, <4>1, AckNames
            <4> QED BY <1>7, <4>2 DEF Earned
        <3>2. CASE New(m)
            <4>1. PICK q \in Packets : Live(q) /\ Earned(q) /\ after[m].seq = q % SeqSpace
                BY <2>1, <3>2
            <4>2. q = later
                BY <1>1, <1>7, <2>1, <4>1, LiveUnique
            <4> QED BY <1>7, <4>1, <4>2 DEF Earned
        <3> QED BY <1>2, <2>2, <3>1, <3>2
    <2>3. CASE Handed(n)
        <3>1. Oldest = p /\ Waiting(p)
            BY <1>1, <1>5, <1>7, <2>1, <2>3, LiveUnique
        <3>2. CASE Handed(m)
            <4>1. Oldest = later
                BY <1>1, <1>5, <1>7, <2>1, <3>2, LiveUnique
            <4> QED BY <2>1, <3>1, <4>1
        <3>3. CASE ~Handed(m)
            <4>1. Delivered(later)
                BY <2>2, <3>3
            <4> QED BY <1>1, <1>7, <3>1, <4>1 DEF OrderInv
        <3> QED BY <3>2, <3>3
    <2>4. CASE ~Handed(n)
        <3>1. Old(n) \/ New(n)
            BY <1>2, <2>4
        <3>2. m \in 1 .. Len(s)
            BY <1>2, <1>7, <3>1
        <3>3. Old(m) /\ ~Handed(m)
            BY <1>2, <3>2
        <3>4. CASE Old(n)
            BY <1>1, <1>7, <3>3, <3>4 DEF AnswerInv
        <3>5. CASE New(n)
            <4>1. PICK q \in Packets : Live(q) /\ Coming(q) /\ after[n].seq = q % SeqSpace
                BY <2>1, <3>5
            <4>2. q = p
                BY <1>1, <1>7, <2>1, <4>1, LiveUnique
            <4>3. Delivered(later)
                BY <2>2, <3>3
            <4> QED BY <1>1, <1>7, <4>1, <4>2, <4>3 DEF OrderInv
        <3> QED BY <3>1, <3>4, <3>5
    <2> QED BY <2>3, <2>4
<1>8. ASSUME NEW n \in 1 .. Len(after), after[n].type = "ack"
      PROVE  \E p \in Packets : Live(p)' /\ Earned(p)' /\ Acks(after[n], p)
    <2>1. PICK p \in Packets : /\ Live(p) /\ Acks(after[n], p)
                               /\ p < next'.packet /\ (Multi(p) => deliveries'[p] > 0)
        BY <1>6, <1>8
    <2>2. Earned(p)'
        BY <2>1 DEF Earned, Delivered, Multi
    <2> QED BY <1>3, <2>1, <2>2
<1>9. ASSUME NEW m \in 1 .. Len(after), NEW n \in 1 .. Len(after), NEW p \in Packets,
             NEW later \in Packets, Later(p, later), Multi(later),
             m < n, Live(p)', Live(later)', Acks(after[m], later)
      PROVE  ~Acks(after[n], p)
    BY <1>3, <1>7, <1>9
<1> HIDE DEF s, after
<1> QED BY <1>8, <1>9 DEF AnswerInv, after, Acks, Later, Multi

LEMMA ReceiverTyped ==
    ASSUME Unambiguous, LinkInv, NEW flit, NEW ready, Receives(flit, ready)
    PROVE  LinkTyped'
<1> DEFINE i == ReceiverInput(flit, ready)
<1>1. LinkTyped /\ flit \in Arrivals /\ ReceiverEdge(flit, ready) /\ win' = win /\ next' = next
    BY DEF LinkInv, Receives
<1>2. /\ wire' \in Seq(Genuine) /\ deliveries' \in [Packets -> Nat]
      /\ rx'.contexts \in Seq(ContextRecord)
      /\ rx'.gathered \in Seq(Genuine) /\ rx'.duplicate \in BOOLEAN
      /\ reverse' \in Seq(AnswerRecord) /\ rx'.responses \in Seq(AnswerRecord)
      /\ DOMAIN rx'.history = HistoryEntries
    BY <1>1, WireStep, DeliveriesStep, ContextStep, GatheredStep, AnswersStep, HistoryKept
<1>3. Takes(rx, i) => flit[1] \in FlitRecord /\ i.flit = flit
    BY <1>1, ArrivalFacts DEF Takes, ReceiverInput
<1>4. rx'.drain \in BOOLEAN
    <2>1. rx'.drain = DrainAfter(rx, i)
        BY <1>1 DEF ReceiverEdge, ReceiverInput, RxEdge
    <2>2. rx.drain \in BOOLEAN
        BY <1>1 DEF LinkTyped
    <2>3. CASE Takes(rx, i)
        <3>1. (~flit[1].eop) \in BOOLEAN
            OBVIOUS
        <3>2. DrainAfter(rx, i) = (~flit[1].eop) \/ DrainAfter(rx, i) = FALSE
            BY <1>3, <2>3 DEF DrainAfter
        <3> QED BY <2>1, <3>1, <3>2
    <2>4. CASE ~Takes(rx, i)
        BY <2>1, <2>2, <2>4 DEF DrainAfter
    <2> QED BY <2>3, <2>4
<1>5. rx'.totals \in [Channels -> Nat]
    <2>1. rx'.totals = TotalsAfter(rx, i)
        BY <1>1 DEF ReceiverEdge, ReceiverInput, RxEdge
    <2>2. rx.totals \in [Channels -> Nat]
        BY <1>1 DEF LinkTyped
    <2>3. CASE Takes(rx, i)
        <3>1. Total(rx, flit[1]) \in Nat
            BY <1>1, <1>3, <2>3, TotalFacts
        <3>2. rx'.totals = [rx.totals EXCEPT ![flit[1].vc] = Total(rx, flit[1])]
            BY <1>3, <2>1, <2>3 DEF TotalsAfter
        <3> QED BY <2>2, <3>1, <3>2
    <2>4. CASE ~Takes(rx, i)
        BY <2>1, <2>2, <2>4 DEF TotalsAfter
    <2> QED BY <2>3, <2>4
<1> QED BY <1>1, <1>2, <1>4, <1>5 DEF LinkTyped

LEMMA ReceiveKeeps ==
    ASSUME Unambiguous, LinkInv, Receive
    PROVE  LinkInv'
<1>1. win' = win /\ next' = next
    BY DEF Receive, sender
<1>2. PICK flit \in Arrivals, ready \in BOOLEAN : ReceiverEdge(flit, ready)
    BY DEF Receive
<1>3. Receives(flit, ready)
    BY <1>1, <1>2 DEF Receives
<1>4. WindowInv' /\ ReplayInv'
    <2>1. WindowInv /\ ReplayInv
        BY DEF LinkInv
    <2> QED BY <1>1, <2>1 DEF WindowInv, SlotHolds, StoringHolds, BegunCount, ReplayInv, Retained
<1>5. LinkTyped' /\ WireInv' /\ GatherInv' /\ ContextInv' /\ DeliveryInv' /\ LiveInv'
    BY <1>3, ReceiverTyped, WireStep, GatherKept, ContextKept, ReceiverDelivery
<1>6. OrderInv' /\ AnswerInv' /\ HistoryInv'
    BY <1>3, ReceiverOrder, ReceiverAnswers, HistoryKept
<1> QED BY <1>4, <1>5, <1>6 DEF LinkInv
-----------------------------------------------------------------------------
(* The theorems. *)

LEMMA LinkInit ==
    ASSUME Unambiguous, Init
    PROVE  LinkInv
<1>1. /\ win.slots = [k \in Slots |-> EmptySlot]
      /\ win.storing = <<>> /\ win.replaying = <<>> /\ win.out = <<>>
      /\ rx.contexts = <<>> /\ rx.gathered = <<>> /\ rx.duplicate = FALSE /\ rx.drain = FALSE
      /\ rx.history = [h \in HistoryEntries |-> <<>>] /\ rx.totals = [v \in Channels |-> 0]
      /\ rx.responses = <<>>
      /\ next = [packet |-> 0, flit |-> 0] /\ wire = <<>> /\ reverse = <<>>
      /\ deliveries = [p \in Packets |-> 0]
    BY DEF Init, WindowReset, RxReset
<1>2. \A k \in Slots : win.slots[k] = EmptySlot
    BY <1>1
<1>3. \A T : <<>> \in Seq(T)
    BY EmptySeq
<1>4. AtMostOne(<<>>)
    BY DEF AtMostOne
<1>5. Answers = <<>> /\ Len(<<>>) = 0
    BY <1>1, <1>3, ConcatEmptySeq, EmptySeq DEF Answers
<1>6. EmptySlot \in SlotRecord /\ ~EmptySlot.valid
    BY <1>3 DEF EmptySlot, SlotRecord
<1>7. 0 <= Len(Lengths)
    BY PacketFacts
<1>8. LinkTyped
    <2>1. /\ next \in [packet : Nat, flit : Nat] /\ next.packet <= Len(Lengths)
          /\ ~(next.flit > 0)
        BY <1>1, <1>7
    <2>2. /\ deliveries \in [Packets -> Nat] /\ rx.totals \in [Channels -> Nat]
          /\ win.slots \in [Slots -> SlotRecord] /\ DOMAIN rx.history = HistoryEntries
        BY <1>1, <1>6
    <2> QED BY <1>1, <1>3, <1>4, <2>1, <2>2 DEF LinkTyped
<1>9. BegunCount = 0
    BY <1>1 DEF BegunCount
<1>10. WindowInv
    <2>1. next.flit = 0
        BY <1>1
    <2> QED BY <1>1, <1>2, <1>6, <2>1 DEF WindowInv, SlotHolds, StoringHolds
<1>11. ReplayInv
    BY <1>1 DEF ReplayInv
<1>12. WireInv /\ GatherInv /\ ContextInv
    BY <1>1, <1>5 DEF WireInv, GatherInv, ContextInv
<1>13. \A p \in Packets : ~Delivered(p) /\ ~(p < BegunCount)
    <2>1. \A p \in Packets : deliveries[p] = 0
        BY <1>1
    <2> QED BY <1>9, <2>1, PacketFacts DEF Delivered
<1>14. DeliveryInv
    BY <1>13 DEF DeliveryInv
<1>15. \A p : ~Coming(p) /\ ~Gathering(p) /\ ~Waiting(p)
    BY <1>1, <1>5 DEF Coming, Replayed, OnWire, Gathering, Waiting
<1>16. LiveInv /\ OrderInv
    BY <1>13, <1>15 DEF LiveInv, OrderInv, Coming
<1>17. AnswerInv
    BY <1>5 DEF AnswerInv
<1>18. HistoryInv
    <2>1. \A h \in HistoryEntries : rx.history[h] = <<>>
        BY <1>1
    <2> QED BY <1>13, <2>1 DEF HistoryInv
<1> QED BY <1>8, <1>10, <1>11, <1>12, <1>14, <1>16, <1>17, <1>18 DEF LinkInv

LEMMA LinkStep ==
    ASSUME Unambiguous, LinkInv, [Next]_vars
    PROVE  LinkInv'
<1>1. CASE Transmit
    BY <1>1, TransmitKeeps
<1>2. CASE LoseAnswer
    BY <1>2, LossKeeps
<1>3. CASE Receive
    BY <1>3, ReceiveKeeps
<1>4. CASE UNCHANGED vars
    <2>1. /\ win' = win /\ next' = next /\ rx' = rx /\ deliveries' = deliveries /\ wire' = wire
          /\ reverse' = reverse
        BY <1>4 DEF vars, sender, receiver
    <2>2. LinkTyped /\ AnswerInv
        BY DEF LinkInv
    <2>3. LinkTyped'
        BY <2>1, <2>2 DEF LinkTyped
    <2>4. Answers' = Answers /\ \A p : Live(p)' = Live(p)
        BY <2>1, Unmoved DEF Answers
    <2>5. \A p : Earned(p)' = Earned(p)
        BY <2>1 DEF Earned, Delivered, Multi
    <2>6. AnswerInv'
        BY <2>2, <2>4, <2>5 DEF AnswerInv, Acks, Later, Multi
    <2> QED BY <2>1, <2>3, <2>6, RestKeeps DEF LinkInv
<1> QED BY <1>1, <1>2, <1>3, <1>4 DEF Next

\* The sender and the receiver keep to what they know of each other: what a slot
\* retains, what is under way of it in either direction, what the history names.
THEOREM LinkInvariant ==
    ASSUME Unambiguous
    PROVE  Spec => []LinkInv
<1>1. Init => LinkInv
    BY LinkInit
<1>2. LinkInv /\ [Next]_vars => LinkInv'
    BY LinkStep
<1> QED BY <1>1, <1>2, PTL DEF Spec

\* KDL-LINK-006: the slot of a packet of two flits or more is released after it was
\* handed over, never before, whatever flits are damaged, answers lost and packets
\* replayed.
ReleasedAfterDelivery ==
    \A p \in Packets : Multi(p) /\ p \in Begun /\ ~Retained(p) => Delivered(p)

\* No packet of two flits or more is lost by its release.
THEOREM EveryPacketDelivered ==
    ASSUME Unambiguous
    PROVE  Spec => []ReleasedAfterDelivery
<1>1. LinkInv => ReleasedAfterDelivery
    <2>1. SUFFICES ASSUME LinkInv, NEW p \in Packets, Multi(p), p \in Begun, ~Retained(p)
                   PROVE  Delivered(p)
        BY DEF ReleasedAfterDelivery
    <2>2. LinkTyped /\ DeliveryInv
        BY <2>1 DEF LinkInv
    <2>3. p < BegunCount
        BY <2>1, <2>2, BegunFacts
    <2> QED BY <2>1, <2>2, <2>3 DEF DeliveryInv
<1> QED BY <1>1, LinkInvariant, PTL

\* At the first flit of a packet the history says what is so (kdlink_rx_commit.v): it
\* is a duplicate if and only if the packet was handed over, however often numbers
\* and entries were used since.  A copy that comes while the packet still waits for
\* the consumer is no duplicate to it.
CopiesAreKnown ==
    \A p \in Packets :
        Gathering(p)' /\ ~Gathering(p) => (rx'.duplicate <=> Delivered(p))

\* A packet is taken for a repeated one when it is, and only then.
THEOREM HistoryIsTrue ==
    ASSUME Unambiguous
    PROVE  Spec => [][CopiesAreKnown]_vars
<1>1. ASSUME LinkInv, [Next]_vars, NEW p \in Packets, Gathering(p)', ~Gathering(p)
      PROVE  rx'.duplicate <=> Delivered(p)
    <2>1. CASE Receive
        <3>1. PICK flit \in Arrivals, ready \in BOOLEAN : ReceiverEdge(flit, ready)
            BY <2>1 DEF Receive
        <3>2. Receives(flit, ready)
            BY <2>1, <3>1 DEF Receives, Receive, sender
        <3> QED BY <1>1, <3>2, GatheringStep
    <2>2. CASE rx' = rx
        BY <1>1, <2>2 DEF Gathering
    <2> QED BY <1>1, <2>1, <2>2 DEF Next, Transmit, LoseAnswer, receiver, vars
<1>2. LinkInv /\ [Next]_vars => [CopiesAreKnown]_vars
    BY <1>1 DEF CopiesAreKnown
<1> QED BY <1>2, LinkInvariant, PTL DEF Spec

\* Once a packet was handed over, none before it of the same slot is any more: copies
\* under way, waiting packets and late answers never take the receiver back.
NeverBackwards ==
    \A p \in Packets, q \in Packets :
        Later(p, q) /\ Delivered(q) => deliveries'[p] = deliveries[p]

\* Within a slot packets are handed over in the order they were sent.
THEOREM SlotInOrder ==
    ASSUME Unambiguous
    PROVE  Spec => [][NeverBackwards]_vars
<1>1. ASSUME LinkInv, [Next]_vars, NEW p \in Packets, NEW q \in Packets,
             Later(p, q), Delivered(q)
      PROVE  deliveries'[p] = deliveries[p]
    <2>1. CASE Receive
        <3>1. PICK flit \in Arrivals, ready \in BOOLEAN : ReceiverEdge(flit, ready)
            BY <2>1 DEF Receive
        <3>2. ~Waiting(p)
            BY <1>1 DEF LinkInv, OrderInv
        <3>3. ~(Dequeues(rx, ReceiverInput(flit, ready)) /\ p = Oldest)
            BY <1>1, <3>2, DequeueFacts, OldestFacts
        <3> QED BY <1>1, <3>1, <3>3, DeliveriesStep
    <2>2. CASE deliveries' = deliveries
        BY <2>2
    <2> QED BY <1>1, <2>1, <2>2 DEF Next, Transmit, LoseAnswer, receiver, vars
<1>2. LinkInv /\ [Next]_vars => [NeverBackwards]_vars
    BY <1>1 DEF NeverBackwards
<1> QED BY <1>2, LinkInvariant, PTL DEF Spec

\* A packet that waits for the consumer is whole and in order: as many flits as it
\* was sent with, each the one of its place, whatever copies and broken packets came
\* between (kdlink_rx_commit.v drops up to the next end of packet).
WaitingIsWhole ==
    \A n \in 1 .. Len(rx.contexts) :
        \E p \in Packets :
            LET flits == rx.contexts[n].flits IN
            /\ Len(flits) = Lengths[p + 1]
            /\ \A k \in 1 .. Len(flits) : flits[k].load = p /\ flits[k].index = k - 1

\* No broken, intruding or repeated flit gets into what the consumer is handed.
THEOREM HandedOverWhole ==
    ASSUME Unambiguous
    PROVE  Spec => []WaitingIsWhole
<1>1. LinkInv => WaitingIsWhole
    <2>1. SUFFICES ASSUME LinkInv, NEW n \in 1 .. Len(rx.contexts)
                   PROVE  \E p \in Packets :
                            LET flits == rx.contexts[n].flits IN
                            /\ Len(flits) = Lengths[p + 1]
                            /\ \A k \in 1 .. Len(flits) :
                                    flits[k].load = p /\ flits[k].index = k - 1
        BY DEF WaitingIsWhole
    <2> DEFINE flits == rx.contexts[n].flits
               p == flits[1].load
    <2>2. LinkTyped /\ ContextInv
        BY <2>1 DEF LinkInv
    <2>3. p \in Packets
        BY <2>2, ContextFacts
    <2>4. InOrder(flits) /\ Len(flits) = Lengths[p + 1]
        BY <2>2 DEF ContextInv
    <2> HIDE DEF flits
    <2>5. \A k \in 1 .. Len(flits) : flits[k].load = p /\ flits[k].index = k - 1
        BY <2>4 DEF InOrder
    <2> QED BY <2>3, <2>4, <2>5 DEF flits
<1> QED BY <1>1, LinkInvariant, PTL

\* However late an ACK comes and however many there are of a packet, the slot whose
\* number it has holds a packet that was handed over, if that has two flits or more:
\* none releases another.
AcksSpeakTruth ==
    \A n \in 1 .. Len(Answers), p \in Packets :
        Answers[n].type = "ack" /\ Retained(p) /\ Multi(p) /\ Answers[n].seq = p % SeqSpace
            => Delivered(p)

\* A release by ACK (kdlink_replay_window.v) never drops a packet not handed over.
THEOREM AcksReleaseDelivered ==
    ASSUME Unambiguous
    PROVE  Spec => []AcksSpeakTruth
<1>1. LinkInv => AcksSpeakTruth
    <2>1. SUFFICES ASSUME LinkInv, NEW n \in 1 .. Len(Answers), NEW p \in Packets,
                          Answers[n].type = "ack", Retained(p), Multi(p),
                          Answers[n].seq = p % SeqSpace
                   PROVE  Delivered(p)
        BY DEF AcksSpeakTruth
    <2>2. LinkTyped /\ WindowInv /\ AnswerInv /\ p \in Nat
        BY <2>1, PacketFacts DEF LinkInv
    <2>3. Live(p)
        BY <2>1, <2>2, RetainedIsLive
    <2>4. Earned(p)
        BY <2>1, <2>2, <2>3, AckNames
    <2> QED BY <2>1, <2>4 DEF Earned
<1> QED BY <1>1, LinkInvariant, PTL

=============================================================================
