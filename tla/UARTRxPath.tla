----------------------------- MODULE UARTRxPath -----------------------------
(***************************************************************************)
(* UARTRxPath (uart_rx_path.py): message framing, payload storage and the  *)
(* receive credits of one end.  The state is the record r:                 *)
(*   remaining    payload words of the present transport still to come     *)
(*   discard      they are dropped                                         *)
(*   initialized  the stream is out of reset and its credits are published *)
(*   fifo         stored words; the FIFO is taken as one bounded queue     *)
(*   counter      credits given so far, an absolute count modulo Modulus   *)
(* A stream reset clears everything but the framing, which runs on to the  *)
(* end of the present transport.  Channel4 is taken as enabled.            *)
(***************************************************************************)
EXTENDS UARTStream

CONSTANT RxDepth   \* words the receive FIFO holds (128)

ASSUME RxPathAssumption == RxDepth \in 1 .. (Modulus - 1)

RxPathReset ==
    [remaining |-> 0, discard |-> FALSE, initialized |-> FALSE, fifo |-> <<>>, counter |-> 0]

\* in is a sequence of at most one DWORD.  Only at a boundary is it a message.
Inside(r, in)          == in # <<>> /\ r.remaining > 0
AtBoundary(r, in, k)   == in # <<>> /\ r.remaining = 0 /\ in[1].kind = k

Active(r, stream_reset) == r.initialized /\ ~stream_reset

Dropping(r, stream_reset) == r.remaining > 0 /\ (r.discard \/ ~Active(r, stream_reset))

Writes(r, in, stream_reset) ==
    Inside(r, in) /\ ~Dropping(r, stream_reset) /\ Len(r.fifo) < RxDepth

\* A transport that does not fit, or a payload word that finds no place.
RxError(r, in, stream_reset) ==
    \/ Inside(r, in) /\ ~Dropping(r, stream_reset) /\ Len(r.fifo) >= RxDepth
    \/ /\ AtBoundary(r, in, "header") /\ Active(r, stream_reset)
       /\ Len(r.fifo) + in[1].value > RxDepth

\* A credit update counts only while the stream is out of reset.
CreditIn(r, in, stream_reset) ==
    IF AtBoundary(r, in, "credit") /\ Active(r, stream_reset) THEN <<in[1].value>> ELSE <<>>

Reads(r, stream_reset, fw_ready) == fw_ready /\ Active(r, stream_reset) /\ r.fifo # <<>>

\* Variant: a stream reset leaves the stored words in place.
StoredKept(r, in, stream_reset, fw_ready) ==
    (IF Reads(r, stream_reset, fw_ready) THEN Tail(r.fifo) ELSE r.fifo)
        \o (IF Writes(r, in, stream_reset) THEN in ELSE <<>>)

Stored(r, in, stream_reset, fw_ready) ==
    IF ~Active(r, stream_reset) THEN <<>>
    ELSE (IF Reads(r, stream_reset, fw_ready) THEN Tail(r.fifo) ELSE r.fifo)
         \o (IF Writes(r, in, stream_reset) THEN in ELSE <<>>)

\* Variants: credits start at nothing; a stream reset keeps the count.
CounterAfterEmpty(r, stream_reset, fw_ready) ==
    IF stream_reset \/ ~r.initialized THEN 0
    ELSE IF Reads(r, stream_reset, fw_ready) THEN (r.counter + 1) % Modulus
    ELSE r.counter

CounterAfterKept(r, stream_reset, fw_ready) ==
    IF ~r.initialized /\ r.counter = 0 THEN RxDepth
    ELSE IF Reads(r, stream_reset, fw_ready) THEN (r.counter + 1) % Modulus
    ELSE r.counter

\* Credits start at the depth on the first edge out of reset.
CounterAfter(r, stream_reset, fw_ready) ==
    IF stream_reset THEN 0
    ELSE IF ~r.initialized THEN RxDepth
    ELSE IF Reads(r, stream_reset, fw_ready) THEN (r.counter + 1) % Modulus
    ELSE r.counter

RemainingAfter(r, in, stream_reset) ==
    IF Inside(r, in) THEN r.remaining - 1
    ELSE IF AtBoundary(r, in, "header") THEN in[1].value
    ELSE r.remaining

DiscardAfter(r, in, stream_reset) ==
    IF r.remaining > 0
    THEN /\ ~(in # <<>> /\ r.remaining = 1)
         /\ r.discard \/ Dropping(r, stream_reset) \/ RxError(r, in, stream_reset)
    ELSE /\ AtBoundary(r, in, "header")
         /\ ~Active(r, stream_reset) \/ RxError(r, in, stream_reset)

RxEdge(r, in, stream_reset, fw_ready) ==
    [remaining   |-> RemainingAfter(r, in, stream_reset),
     discard     |-> DiscardAfter(r, in, stream_reset),
     initialized |-> ~stream_reset,
     fifo        |-> Stored(r, in, stream_reset, fw_ready),
     counter     |-> CounterAfter(r, stream_reset, fw_ready)]
=============================================================================
