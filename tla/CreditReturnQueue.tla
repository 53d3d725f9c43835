------------------------- MODULE CreditReturnQueue -------------------------
(***************************************************************************)
(* CreditReturnQueue (upli_credit_return.py): the metadata of retired      *)
(* beats, queued per port and returned in batches of equal records.  A     *)
(* step is one edge; UpliReceiveChannel composes it with the storage.      *)
(***************************************************************************)
EXTENDS UpliCredit, SequencesExt

CONSTANT ReturnDepth    \* retired beats a port can queue

ASSUME ReturnAssumption == ReturnDepth \in Nat \ {0}

VARIABLE retq

Least(a, b) == IF a < b THEN a ELSE b

RetReset == [queues |-> [p \in Ports |-> <<>>], outputs |-> {}]

QueueReady(p) == Len(retq.queues[p]) < ReturnDepth

\* Equal beats at the head of the queue, at most MaxBatch.
RunLength(q) ==
    CHOOSE n \in 1 .. Least(MaxBatch, Len(q)) :
        /\ \A i \in 1 .. n : q[i] = q[1]
        /\ n < Least(MaxBatch, Len(q)) => q[n + 1] # q[1]

Grant(q) == [port |-> q[1].port, vc |-> q[1].vc, pool |-> q[1].pool, count |-> RunLength(q)]

\* Variant: a port waits until it can return a full batch.
EmittingFullBatch(enabled) == {p \in enabled : Len(retq.queues[p]) >= MaxBatch}

Emitting(enabled) == {p \in enabled : retq.queues[p] # <<>>}

\* What is left of a port's queue, with the beat retired at this edge, if any.
QueueAfter(p, retired, enabled) ==
    LET q == retq.queues[p]
    IN  (IF p \in Emitting(enabled) THEN SubSeq(q, RunLength(q) + 1, Len(q)) ELSE q)
        \o SetToSeq({b \in retired : b.port = p})

RetStep(retired, enabled) ==
    retq' = [queues  |-> [p \in Ports |-> QueueAfter(p, retired, enabled)],
             outputs |-> {Grant(retq.queues[p]) : p \in Emitting(enabled)}]

ResetQueue == retq' = RetReset

RetInit == retq = RetReset

-----------------------------------------------------------------------------
\* A port queues no more than its depth, and drives at most one batch
\* (upli_credit_return.py:43 and 77-83).
RetTypeOK ==
    /\ \A p \in Ports : retq.queues[p] \in Seq(Beat) /\ Len(retq.queues[p]) <= ReturnDepth
    /\ retq.outputs \subseteq CreditReturn
    /\ \A r1, r2 \in retq.outputs : r1.port = r2.port => r1 = r2
=============================================================================
