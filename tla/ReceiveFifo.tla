---------------------------- MODULE ReceiveFifo ----------------------------
(***************************************************************************)
(* ReceiveFifo (receive_fifo.py): a synchronous FIFO whose words pass from *)
(* storage (unread) through a one-word read pipeline (pending) into a      *)
(* two-word output cache (visible).  All three parts count against depth.  *)
(* The operators work on a FIFO record, so that a receiver can hold an     *)
(* array of FIFOs; the specification below is one FIFO of depth Depth.     *)
(***************************************************************************)
EXTENDS Naturals, Sequences

CONSTANTS
    Depth,    \* words the FIFO holds
    Words     \* opaque contents

VARIABLE fifo

Cache == 2    \* words in the output cache and the read pipeline together

EmptyFifo == [unread |-> <<>>, pending |-> <<>>, visible |-> <<>>]

\* outputs: the stable view before an edge.
Count(f) == Len(f.unread) + Len(f.pending) + Len(f.visible)
\* Variant: one place is never used.
ReadyOneShort(f, depth) == Count(f) + 1 < depth

Ready(f, depth) == Count(f) < depth
Valid(f) == f.visible # <<>>

\* A read of the storage needs a reserved place in the cache.
RoomToRead(f, pop) == Len(f.visible) + Len(f.pending) - (IF pop THEN 1 ELSE 0) < Cache

\* Readiness is decided before the edge: a simultaneous pop makes no room.
Accepts(f, depth, put, consume) == put # <<>> /\ Ready(f, depth)

\* Variant: the word in the read pipeline is lost at a pop.
SteppedPopDropsPending(f, depth, put, consume) ==
    LET pop  == consume /\ Valid(f)
        read == f.unread # <<>> /\ RoomToRead(f, pop)
    IN  [unread  |-> (IF read THEN Tail(f.unread) ELSE f.unread)
                     \o (IF Accepts(f, depth, put, consume) THEN put ELSE <<>>),
         pending |-> IF read THEN <<Head(f.unread)>> ELSE <<>>,
         visible |-> IF pop THEN Tail(f.visible) ELSE f.visible \o f.pending]

\* step: put is <<>> or one word; consume takes the visible head, if any.
Stepped(f, depth, put, consume) ==
    LET pop  == consume /\ Valid(f)
        read == f.unread # <<>> /\ RoomToRead(f, pop)
    IN  [unread  |-> (IF read THEN Tail(f.unread) ELSE f.unread)
                     \o (IF Accepts(f, depth, put, consume) THEN put ELSE <<>>),
         pending |-> IF read THEN <<Head(f.unread)>> ELSE <<>>,
         visible |-> (IF pop THEN Tail(f.visible) ELSE f.visible) \o f.pending]

FifoInit == fifo = EmptyFifo

Step(put, consume) == fifo' = Stepped(fifo, Depth, put, consume)
ResetFifo == fifo' = EmptyFifo

Puts == {<<>>} \cup {<<w>> : w \in Words}

FifoNext == ResetFifo \/ \E put \in Puts, consume \in BOOLEAN : Step(put, consume)

FifoSpec == FifoInit /\ [][FifoNext]_fifo

-----------------------------------------------------------------------------
\* The parts keep their sizes: the cache and the read pipeline never exceed
\* their two words, so no word is dropped between storage and output.
FifoTypeOK ==
    /\ fifo.unread \in Seq(Words) /\ fifo.visible \in Seq(Words)
    /\ fifo.pending \in {<<>>} \cup {<<w>> : w \in Words}
    /\ Len(fifo.visible) + Len(fifo.pending) <= Cache
    /\ Count(fifo) <= Depth

\* Refinement: the three parts, oldest first, are one bounded queue.
Q == INSTANCE BoundedQueue WITH Limit <- Depth,
                                queue <- fifo.visible \o fifo.pending \o fifo.unread
ImplementsQueue == Q!QSpec
=============================================================================
