-------------------------- MODULE MCUpliCreditLoop --------------------------
(* Model-checking instance of UpliCreditLoop. *)
EXTENDS UpliCreditLoop

\* Two ports with different storage: a pool of three needs two initial batches, an
\* account of one or two places needs one, and three accounts have no storage.
TwoPorts == [p \in {0, 1} |-> [a \in 0 .. 2 |->
    IF p = 0 THEN <<2, 0, 3>>[a + 1] ELSE <<1, 0, 0>>[a + 1]]]
=============================================================================
