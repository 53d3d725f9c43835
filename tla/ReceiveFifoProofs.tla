------------------------- MODULE ReceiveFifoProofs -------------------------
(***************************************************************************)
(* Proofs about ReceiveFifo for every depth and every set of words: its    *)
(* parts keep their sizes, and read together they are one bounded queue.   *)
(***************************************************************************)
EXTENDS ReceiveFifo, SequenceTheorems, TLAPS

(* Sequences. *)

LEMMA TailConcat ==
    ASSUME NEW S, NEW s \in Seq(S), NEW t \in Seq(S), s # <<>>
    PROVE  /\ s \o t # <<>>
           /\ Tail(s \o t) = Tail(s) \o t
<1>1. /\ Len(s) \in Nat \ {0} /\ Len(t) \in Nat
      /\ Tail(s) \in Seq(S) /\ Len(Tail(s)) = Len(s) - 1
      /\ \A i \in 1 .. Len(Tail(s)) : Tail(s)[i] = s[i + 1]
    BY EmptySeq, LenProperties, HeadTailProperties
<1>2. /\ s \o t \in Seq(S) /\ Len(s \o t) = Len(s) + Len(t)
      /\ \A i \in 1 .. Len(s) + Len(t) :
            (s \o t)[i] = IF i <= Len(s) THEN s[i] ELSE t[i - Len(s)]
    BY ConcatProperties
<1>3. s \o t # <<>>
    BY ConcatEqualIffEmpty
<1>4. /\ Tail(s \o t) \in Seq(S) /\ Len(Tail(s \o t)) = Len(s) + Len(t) - 1
      /\ \A i \in 1 .. Len(Tail(s \o t)) : Tail(s \o t)[i] = (s \o t)[i + 1]
    BY <1>2, <1>3, HeadTailProperties
<1>5. /\ Tail(s) \o t \in Seq(S) /\ Len(Tail(s) \o t) = Len(s) - 1 + Len(t)
      /\ \A i \in 1 .. Len(s) - 1 + Len(t) : (Tail(s) \o t)[i] =
            IF i <= Len(s) - 1 THEN Tail(s)[i] ELSE t[i - (Len(s) - 1)]
    BY <1>1, ConcatProperties
<1>6. ASSUME NEW i \in 1 .. Len(Tail(s \o t))
      PROVE  Tail(s \o t)[i] = (Tail(s) \o t)[i]
    <2> DEFINE n == Len(s)
               m == Len(t)
    <2>1. n \in Nat \ {0} /\ m \in Nat /\ i \in 1 .. n + m - 1
        BY <1>1, <1>4
    <2>2. i + 1 \in 1 .. n + m /\ i \in 1 .. n - 1 + m
        BY <2>1
    <2>3. Tail(s \o t)[i] = IF i + 1 <= n THEN s[i + 1] ELSE t[i + 1 - n]
        BY <1>2, <1>4, <2>2
    <2>4. (Tail(s) \o t)[i] = IF i <= n - 1 THEN Tail(s)[i] ELSE t[i - (n - 1)]
        BY <1>5, <2>2
    <2>5. CASE i <= n - 1
        <3>1. Tail(s)[i] = s[i + 1]
            BY <1>1, <2>1, <2>5
        <3> QED BY <2>1, <2>3, <2>4, <2>5, <3>1
    <2>6. CASE ~(i <= n - 1)
        <3>1. ~(i + 1 <= n) /\ i + 1 - n = i - (n - 1)
            BY <2>1, <2>6
        <3> QED BY <2>3, <2>4, <2>6, <3>1
    <2> QED BY <2>5, <2>6
<1>7. Len(Tail(s \o t)) = Len(Tail(s) \o t)
    BY <1>1, <1>4, <1>5
<1> QED BY <1>3, <1>4, <1>5, <1>7, SeqEqual

LEMMA HeadTailConcat ==
    ASSUME NEW S, NEW s \in Seq(S), s # <<>>
    PROVE  <<Head(s)>> \o Tail(s) = s
<1>1. /\ Len(s) \in Nat \ {0} /\ Head(s) = s[1] /\ Head(s) \in S
      /\ Tail(s) \in Seq(S) /\ Len(Tail(s)) = Len(s) - 1
      /\ \A i \in 1 .. Len(Tail(s)) : Tail(s)[i] = s[i + 1]
    BY EmptySeq, HeadTailProperties
<1>2. <<Head(s)>> \in Seq(S) /\ Len(<<Head(s)>>) = 1 /\ <<Head(s)>>[1] = s[1]
    BY <1>1
<1>3. /\ <<Head(s)>> \o Tail(s) \in Seq(S)
      /\ Len(<<Head(s)>> \o Tail(s)) = Len(s)
      /\ \A i \in 1 .. Len(s) : (<<Head(s)>> \o Tail(s))[i] =
            IF i <= 1 THEN <<Head(s)>>[i] ELSE Tail(s)[i - 1]
    <2>1. 1 + (Len(s) - 1) = Len(s)
        BY <1>1
    <2> QED BY <1>1, <1>2, <2>1, ConcatProperties
<1>4. ASSUME NEW i \in 1 .. Len(s)
      PROVE  (<<Head(s)>> \o Tail(s))[i] = s[i]
    <2>1. CASE i = 1
        BY <1>2, <1>3, <2>1
    <2>2. CASE i # 1
        <3>1. ~(i <= 1) /\ i - 1 \in 1 .. Len(s) - 1 /\ i - 1 + 1 = i
            BY <1>1, <2>2
        <3>2. Tail(s)[i - 1] = s[i]
            BY <1>1, <3>1
        <3> QED BY <1>3, <3>1, <3>2
    <2> QED BY <2>1, <2>2
<1> QED BY <1>3, <1>4, SeqEqual

LEMMA Reassociate ==
    ASSUME NEW S, NEW s \in Seq(S), NEW t \in Seq(S), NEW r \in Seq(S)
    PROVE  s \o (t \o r) = (s \o t) \o r
BY ConcatAssociative

-----------------------------------------------------------------------------
(* One edge of the clock. *)

\* The words of a FIFO, oldest first.
Held(f) == f.visible \o f.pending \o f.unread

LEMMA PutsAreSequences ==
    /\ Puts \subseteq Seq(Words)
    /\ \A p \in Puts : Len(p) \in {0, 1} /\ (Len(p) = 0 <=> p = <<>>)
<1>1. <<>> \in Seq(Words) /\ Len(<<>>) = 0
    BY EmptySeq
<1>2. ASSUME NEW w \in Words
      PROVE  <<w>> \in Seq(Words) /\ Len(<<w>>) = 1 /\ <<w>> # <<>>
    OBVIOUS
<1>3. ASSUME NEW p \in Puts
      PROVE  p \in Seq(Words) /\ Len(p) \in {0, 1} /\ (Len(p) = 0 <=> p = <<>>)
    <2>1. CASE p = <<>>
        BY <1>1, <2>1
    <2>2. CASE p # <<>>
        <3>1. PICK w \in Words : p = <<w>>
            BY <2>2 DEF Puts
        <3> QED BY <1>2, <2>2, <3>1
    <2> QED BY <2>1, <2>2
<1> QED BY <1>3

\* The parts of a FIFO, without the bound on their total.
PartsOK(f) ==
    /\ f.unread \in Seq(Words) /\ f.visible \in Seq(Words) /\ f.pending \in Puts
    /\ Len(f.visible) + Len(f.pending) <= Cache

LEMMA HeldLength ==
    ASSUME NEW f, PartsOK(f)
    PROVE  /\ Held(f) \in Seq(Words)
           /\ Len(Held(f)) = Count(f)
           /\ Valid(f) => Held(f) # <<>> /\ Tail(Held(f)) =
                    (Tail(f.visible) \o f.pending) \o f.unread
<1> DEFINE v == f.visible
           p == f.pending
           u == f.unread
           y == v \o p
<1>1. v \in Seq(Words) /\ p \in Seq(Words) /\ u \in Seq(Words)
    BY PutsAreSequences DEF PartsOK
<1>2. y \in Seq(Words) /\ Len(y) = Len(v) + Len(p)
    BY <1>1, ConcatProperties
<1>3. /\ Len(v) \in Nat /\ Len(p) \in Nat /\ Len(u) \in Nat
    BY <1>1, LenProperties
<1>4. Held(f) = y \o u /\ Count(f) = Len(u) + Len(p) + Len(v)
    BY DEF Held, Count
<1>5. ASSUME Valid(f)
      PROVE  Held(f) # <<>> /\ Tail(Held(f)) = (Tail(v) \o p) \o u
    <2>1. v # <<>>
        BY <1>5 DEF Valid
    <2>2. y # <<>> /\ Tail(y) = Tail(v) \o p
        BY <1>1, <2>1, TailConcat
    <2> HIDE DEF y
    <2>3. y \o u # <<>> /\ Tail(y \o u) = Tail(y) \o u
        BY <1>1, <1>2, <2>2, TailConcat
    <2> QED BY <1>4, <2>2, <2>3
<1> HIDE DEF y
<1>6. y \o u \in Seq(Words) /\ Len(y \o u) = Len(y) + Len(u)
    BY <1>1, <1>2, ConcatProperties
<1>7. Len(v) + Len(p) + Len(u) = Len(u) + Len(p) + Len(v)
    <2> HIDE DEF v, p, u
    <2> QED BY <1>3
<1> QED BY <1>2, <1>4, <1>5, <1>6, <1>7

\* An edge hands out the head when it is taken and appends what is accepted;
\* the read of the storage moves a word without reordering it.
LEMMA SteppedHeld ==
    ASSUME NEW f, PartsOK(f), NEW depth, NEW put \in Puts, NEW consume \in BOOLEAN,
           NEW g, g = Stepped(f, depth, put, consume)
    PROVE  /\ Held(g) = (IF consume /\ Valid(f) THEN Tail(Held(f)) ELSE Held(f))
                        \o (IF Accepts(f, depth, put, consume) THEN put ELSE <<>>)
           /\ PartsOK(g)
<1> DEFINE v == f.visible
           p == f.pending
           u == f.unread
           pop == consume /\ Valid(f)
           read == u # <<>> /\ RoomToRead(f, pop)
           v2 == IF pop THEN Tail(v) ELSE v
           p2 == IF read THEN <<Head(u)>> ELSE <<>>
           u2 == IF read THEN Tail(u) ELSE u
           a == IF Accepts(f, depth, put, consume) THEN put ELSE <<>>
           x == v2 \o p
<1>1. v \in Seq(Words) /\ p \in Puts /\ u \in Seq(Words)
      /\ Len(v) \in Nat /\ Len(p) \in Nat /\ Len(v) + Len(p) <= Cache
    BY PutsAreSequences, LenProperties DEF PartsOK
<1>2. g = [unread |-> u2 \o a, pending |-> p2, visible |-> x]
    BY DEF Stepped
<1>3. /\ v2 \in Seq(Words)
      /\ Len(v2) = Len(v) - (IF pop THEN 1 ELSE 0)
    <2>1. CASE pop
        BY <1>1, <2>1, HeadTailProperties DEF Valid
    <2>2. CASE ~pop
        BY <1>1, <2>2
    <2> QED BY <2>1, <2>2
<1>4. /\ u2 \in Seq(Words) /\ p2 \in Puts /\ p2 \o u2 = u
      /\ Len(p2) = (IF read THEN 1 ELSE 0)
    <2>1. CASE read
        <3>1. u # <<>>
            BY <2>1
        <3>2. Head(u) \in Words /\ Tail(u) \in Seq(Words)
              /\ <<Head(u)>> \o Tail(u) = u
            BY <1>1, <3>1, HeadTailProperties, HeadTailConcat
        <3>3. <<Head(u)>> \in Puts /\ Len(<<Head(u)>>) = 1
            BY <3>2 DEF Puts
        <3> QED BY <2>1, <3>2, <3>3
    <2>2. CASE ~read
        <3>1. <<>> \o u = u /\ <<>> \in Puts /\ Len(<<>>) = 0
            BY <1>1, ConcatEmptySeq, EmptySeq DEF Puts
        <3> QED BY <1>1, <2>2, <3>1
    <2> QED BY <2>1, <2>2
<1>5. a \in Seq(Words)
    BY PutsAreSequences, EmptySeq
<1>6. p \in Seq(Words) /\ p2 \in Seq(Words)
    BY <1>1, <1>4, PutsAreSequences
<1>7. x \in Seq(Words) /\ Len(x) = Len(v2) + Len(p)
    BY <1>3, <1>6, ConcatProperties
<1>8. x \o u = IF pop THEN Tail(Held(f)) ELSE Held(f)
    <2>1. CASE pop
        BY <2>1, HeldLength
    <2>2. CASE ~pop
        BY <2>2 DEF Held
    <2> QED BY <2>1, <2>2
<1>9. Len(x) + Len(p2) <= Cache
    <2>1. CASE read
        <3>1. Len(v) + Len(p) - (IF pop THEN 1 ELSE 0) < Cache
            BY <2>1 DEF RoomToRead
        <3> HIDE DEF v, p, x, v2, p2, pop, read
        <3> QED BY <1>1, <1>3, <1>4, <1>7, <2>1, <3>1 DEF Cache
    <2>2. CASE ~read
        <3> HIDE DEF v, p, x, v2, p2, pop, read
        <3> QED BY <1>1, <1>3, <1>4, <1>7, <2>2 DEF Cache
    <2> QED BY <2>1, <2>2
<1>10. u2 \o a \in Seq(Words)
    BY <1>4, <1>5, ConcatProperties
<1>11. (x \o p2) \o (u2 \o a) = (x \o u) \o a
    <2> HIDE DEF x, p2, u2, a, u, p, v, v2, pop, read
    <2>0. x \in Seq(Words) /\ p2 \in Seq(Words) /\ u2 \in Seq(Words) /\ a \in Seq(Words)
        BY <1>4, <1>5, <1>6, <1>7
    <2>1. x \o p2 \in Seq(Words)
        BY <2>0, ConcatProperties
    <2>2. (x \o p2) \o u2 = x \o u
        <3>1. (x \o p2) \o u2 = x \o (p2 \o u2)
            BY <2>0, ConcatAssociative
        <3> QED BY <1>4, <3>1
    <2>3. ASSUME NEW y \in Seq(Words)
          PROVE  y \o (u2 \o a) = (y \o u2) \o a
        BY <2>0, Reassociate
    <2>4. (x \o p2) \o (u2 \o a) = ((x \o p2) \o u2) \o a
        BY <2>1, <2>3
    <2> QED BY <2>2, <2>4
<1> HIDE DEF x, p2, u2, a, pop
<1>12. g.unread = u2 \o a /\ g.pending = p2 /\ g.visible = x
    BY <1>2
<1>13. Held(g) = (x \o p2) \o (u2 \o a)
    BY <1>12 DEF Held
<1>14. Held(g) = (IF pop THEN Tail(Held(f)) ELSE Held(f)) \o a
    BY <1>8, <1>11, <1>13
<1> QED BY <1>4, <1>7, <1>9, <1>10, <1>12, <1>14 DEF PartsOK, pop, a
LEMMA StepHeld ==
    ASSUME PartsOK(fifo), NEW put \in Puts, NEW consume \in BOOLEAN, Step(put, consume)
    PROVE  /\ Held(fifo') = (IF consume /\ Valid(fifo) THEN Tail(Held(fifo)) ELSE Held(fifo))
                            \o (IF Accepts(fifo, Depth, put, consume) THEN put ELSE <<>>)
           /\ PartsOK(fifo')
BY SteppedHeld DEF Step
-----------------------------------------------------------------------------
LEMMA TypeOKParts == FifoTypeOK <=> PartsOK(fifo) /\ Count(fifo) <= Depth
BY DEF FifoTypeOK, PartsOK, Puts

\* What one edge does to the words held: it appends, takes the oldest, both or
\* neither; it never exceeds the depth.
QueueMove(h, h2, put, depth) ==
    \/ \E w \in Words : put = <<w>> /\ Len(h) < depth /\ h2 = Append(h, w)
    \/ h # <<>> /\ h2 = Tail(h)
    \/ /\ h # <<>> /\ Len(h) < depth
       /\ \E w \in Words : put = <<w>> /\ h2 = Append(Tail(h), w)
    \/ h2 = h

LEMMA SteppedMove ==
    ASSUME NEW depth \in Nat, NEW f, PartsOK(f), Count(f) <= depth,
           NEW put \in Puts, NEW consume \in BOOLEAN,
           NEW g, g = Stepped(f, depth, put, consume)
    PROVE  /\ QueueMove(Held(f), Held(g), put, depth)
           /\ PartsOK(g) /\ Count(g) <= depth
           /\ Count(g) = Count(f) + (IF Accepts(f, depth, put, consume) THEN 1 ELSE 0)
                                  - (IF consume /\ Valid(f) THEN 1 ELSE 0)
<1> DEFINE h  == Held(f)
           h2 == Held(g)
           pop == consume /\ Valid(f)
           acc == Accepts(f, depth, put, consume)
<1>2. /\ h2 = (IF pop THEN Tail(h) ELSE h) \o (IF acc THEN put ELSE <<>>)
      /\ PartsOK(g)
    BY SteppedHeld
<1>3. /\ h \in Seq(Words) /\ Len(h) = Count(f) /\ Len(h) \in Nat
      /\ pop => h # <<>>
    BY HeldLength, LenProperties
<1>4. Len(h2) = Count(g)
    BY <1>2, HeldLength
<1>5. ASSUME acc
      PROVE  Len(h) < depth /\ \E w \in Words : put = <<w>>
    <2>1. put # <<>> /\ Count(f) < depth
        BY <1>5 DEF Accepts, Ready
    <2> QED BY <1>3, <2>1 DEF Puts
<1>6. Len(h) <= depth
    BY <1>3
<1> HIDE DEF h, h2, pop, acc
<1> SUFFICES /\ QueueMove(h, h2, put, depth) /\ Len(h2) <= depth
             /\ Len(h2) = Len(h) + (IF acc THEN 1 ELSE 0) - (IF pop THEN 1 ELSE 0)
    BY <1>2, <1>3, <1>4 DEF h, h2, pop, acc
<1>7. CASE pop /\ acc
    <2>1. PICK w \in Words : put = <<w>>
        BY <1>5, <1>7
    <2>2. Tail(h) \in Seq(Words) /\ Len(Tail(h)) = Len(h) - 1
        BY <1>3, <1>7, HeadTailProperties
    <2>3. h2 = Tail(h) \o <<w>>
        BY <1>2, <1>7, <2>1
    <2>4. h2 = Append(Tail(h), w) /\ Len(h2) = Len(h)
        BY <1>3, <2>2, <2>3
    <2> QED BY <1>3, <1>5, <1>6, <1>7, <2>1, <2>4 DEF QueueMove
<1>8. CASE pop /\ ~acc
    <2>1. Tail(h) \in Seq(Words) /\ Len(Tail(h)) = Len(h) - 1
        BY <1>3, <1>8, HeadTailProperties
    <2>2. h2 = Tail(h)
        <3>1. h2 = Tail(h) \o <<>>
            BY <1>2, <1>8
        <3> QED BY <2>1, <3>1, ConcatEmptySeq
    <2> QED BY <1>3, <1>6, <1>8, <2>1, <2>2 DEF QueueMove
<1>9. CASE ~pop /\ acc
    <2>1. PICK w \in Words : put = <<w>>
        BY <1>5, <1>9
    <2>2. h2 = h \o <<w>>
        BY <1>2, <1>9, <2>1
    <2>3. h2 = Append(h, w) /\ Len(h2) = Len(h) + 1
        BY <1>3, <2>2
    <2> QED BY <1>3, <1>5, <1>6, <1>9, <2>1, <2>3 DEF QueueMove
<1>10. CASE ~pop /\ ~acc
    <2>1. h2 = h
        <3>1. h2 = h \o <<>>
            BY <1>2, <1>10
        <3> QED BY <1>3, <3>1, ConcatEmptySeq
    <2> QED BY <1>3, <1>6, <1>10, <2>1 DEF QueueMove
<1> QED BY <1>7, <1>8, <1>9, <1>10

\* What a FIFO does in one edge is a step of the queue.
LEMMA StepIsQueueStep ==
    ASSUME Depth \in Nat, FifoTypeOK, NEW put \in Puts, NEW consume \in BOOLEAN, Step(put, consume)
    PROVE  /\ Count(fifo') <= Depth
           /\ [Q!QNext]_(Held(fifo))
<1>1. PartsOK(fifo) /\ Count(fifo) <= Depth
    BY TypeOKParts
<1>2. QueueMove(Held(fifo), Held(fifo'), put, Depth) /\ Count(fifo') <= Depth
    BY <1>1, SteppedMove DEF Step
<1> QED BY <1>2 DEF QueueMove, Held, Q!QNext, Q!Put, Q!Take, Q!PutAndTake

LEMMA EmptyFifoHolds == PartsOK(EmptyFifo) /\ Held(EmptyFifo) = <<>> /\ Count(EmptyFifo) = 0
<1>1. <<>> \in Seq(Words) /\ Len(<<>>) = 0 /\ <<>> \o <<>> = <<>> /\ <<>> \in Puts
    BY EmptySeq, ConcatEmptySeq DEF Puts
<1> QED BY <1>1 DEF EmptyFifo, PartsOK, Held, Count, Cache

LEMMA StepKeepsTypes ==
    ASSUME Depth \in Nat, FifoTypeOK, [FifoNext]_fifo
    PROVE  FifoTypeOK' /\ [Q!QNext]_(Held(fifo))
<1>1. CASE ResetFifo
    <2>1. fifo' = EmptyFifo
        BY <1>1 DEF ResetFifo
    <2>2. PartsOK(fifo') /\ Count(fifo') <= Depth /\ Held(fifo') = <<>>
        BY <2>1, EmptyFifoHolds
    <2>3. Q!Clear
        BY <2>2 DEF Q!Clear, Held
    <2> QED BY <2>2, <2>3, TypeOKParts DEF FifoTypeOK, PartsOK, Puts, Q!QNext
<1>2. ASSUME NEW put \in Puts, NEW consume \in BOOLEAN, Step(put, consume)
      PROVE  FifoTypeOK' /\ [Q!QNext]_(Held(fifo))
    <2>1. Count(fifo') <= Depth /\ [Q!QNext]_(Held(fifo))
        BY <1>2, StepIsQueueStep
    <2>2. PartsOK(fifo')
        BY <1>2, TypeOKParts, StepHeld
    <2> QED BY <2>1, <2>2 DEF FifoTypeOK, PartsOK, Puts
<1>3. CASE UNCHANGED fifo
    BY <1>3 DEF FifoTypeOK, Count, Held
<1> QED BY <1>1, <1>2, <1>3 DEF FifoNext

\* The output cache and the read pipeline never hold more than their two
\* words and the three parts together never more than the depth.
THEOREM FifoTypeCorrect ==
    ASSUME Depth \in Nat
    PROVE  FifoSpec => []FifoTypeOK
<1>1. FifoInit => FifoTypeOK
    BY EmptyFifoHolds, TypeOKParts DEF FifoInit
<1>2. FifoTypeOK /\ [FifoNext]_fifo => FifoTypeOK'
    BY StepKeepsTypes
<1> QED BY <1>1, <1>2, PTL DEF FifoSpec

\* Storage, read pipeline and output cache, oldest first, are one bounded
\* queue: no word is lost, duplicated or overtaken between the parts.
THEOREM FifoImplementsQueue ==
    ASSUME Depth \in Nat
    PROVE  FifoSpec => ImplementsQueue
<1>1. FifoInit => Q!QInit
    BY EmptyFifoHolds DEF FifoInit, Q!QInit, Held
<1>2. FifoTypeOK /\ [FifoNext]_fifo => [Q!QNext]_(fifo.visible \o fifo.pending \o fifo.unread)
    BY StepKeepsTypes DEF Held
<1> QED BY <1>1, <1>2, FifoTypeCorrect, PTL DEF FifoSpec, ImplementsQueue, Q!QSpec
=============================================================================
