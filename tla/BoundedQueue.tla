---------------------------- MODULE BoundedQueue ----------------------------
(***************************************************************************)
(* What a synchronous FIFO promises: a queue of at most Limit words that   *)
(* takes a word, hands out its oldest word, or both, in one clock edge.    *)
(***************************************************************************)
EXTENDS Naturals, Sequences

CONSTANTS Words, Limit

VARIABLE queue

QInit == queue = <<>>

Put == \E w \in Words : Len(queue) < Limit /\ queue' = Append(queue, w)

Take == queue # <<>> /\ queue' = Tail(queue)

PutAndTake ==
    /\ queue # <<>> /\ Len(queue) < Limit
    /\ \E w \in Words : queue' = Append(Tail(queue), w)

Clear == queue' = <<>>

QNext == Put \/ Take \/ PutAndTake \/ Clear

QSpec == QInit /\ [][QNext]_queue
=============================================================================
