-------------------------- MODULE UARTResetControl --------------------------
(***************************************************************************)
(* UARTResetControl (uart_reset_control.py over uart_reset.py): one end of *)
(* the stream reset exchange.  A local request is a run-out of No-Ops, a   *)
(* Request and the wait for a SUCCESS Response; a peer's Request queues a  *)
(* Response.  The state is the record c:                                   *)
(*   phase, noops     the local request and its No-Ops still to send       *)
(*   responses        peer Requests not answered yet                       *)
(*   fault            overflow of responses, sticky until global reset     *)
(* The inputs of an edge are the record in: local_request, rx_request,     *)
(* rx_response (with SUCCESS status) and timeout, which stands for the     *)
(* deadline of the wait being reached.  The scope bit, which a Response    *)
(* only echoes, is left out: there is one stream.                          *)
(***************************************************************************)
EXTENDS UARTStream

CONSTANT ResponseDepth   \* peer Requests that can wait for their Response (4)

ASSUME ResetAssumption == ResponseDepth \in Nat \ {0}

CtlState ==
    [phase : {"normal", "noops", "request", "wait"}, noops : 0 .. RunOut,
     responses : 0 .. ResponseDepth, fault : BOOLEAN]

CtlReset == [phase |-> "normal", noops |-> 0, responses |-> 0, fault |-> FALSE]

\* The events of an edge, from the state before it.  SUCCESS at the deadline
\* wins over the timeout.
Starts(c, in)   == in.local_request /\ c.phase = "normal" /\ ~c.fault
Succeeds(c, in) == c.phase = "wait" /\ in.rx_response /\ ~c.fault
Expires(c, in)  == c.phase = "wait" /\ in.timeout /\ ~in.rx_response /\ ~c.fault

StreamReset(c, in) ==
    c.fault \/ Starts(c, in) \/ in.rx_request \/ c.phase # "normal" \/ c.responses > 0

BlockMessages(c, in) ==
    c.fault \/ Starts(c, in) \/ Expires(c, in) \/ c.phase \in {"noops", "request"}

\* The maintenance DWORD on offer; a Response waits behind a local run-out.
Maintenance(c, in) ==
    IF c.fault \/ Starts(c, in) \/ Expires(c, in) THEN "none"
    ELSE IF c.phase = "noops" THEN "noop"
    ELSE IF c.phase = "request" THEN "request"
    ELSE IF c.responses > 0 THEN "response"
    ELSE "none"

\* Variant: a Response sent while a local request waits is not retired.
RepliesOnlyIdle(c, in, take) ==
    take /\ Maintenance(c, in) = "response" /\ c.phase = "normal"

\* A Response sent at this edge frees its place for a Request of this edge.
Replies(c, in, take) == take /\ Maintenance(c, in) = "response"
Overflows(c, in, take) ==
    in.rx_request /\ c.responses = ResponseDepth /\ ~Replies(c, in, take)

\* Variant: the run-out is shorter than the rest of a transport can be.
RunOutShort(c, in) == IF Starts(c, in) \/ Expires(c, in) THEN 1 ELSE c.noops

RunOutFrom(c, in) == IF Starts(c, in) \/ Expires(c, in) THEN RunOut ELSE c.noops

\* Variant: the deadline passes without a retry.
PhaseAfterNoRetry(c, in, take) ==
    IF Starts(c, in) THEN "noops"
    ELSE IF c.phase = "noops" /\ take /\ c.noops = 1 THEN "request"
    ELSE IF c.phase = "request" /\ take THEN "wait"
    ELSE IF Succeeds(c, in) THEN "normal"
    ELSE c.phase

PhaseAfter(c, in, take) ==
    IF Starts(c, in) \/ Expires(c, in) THEN "noops"
    ELSE IF c.phase = "noops" /\ take /\ c.noops = 1 THEN "request"
    ELSE IF c.phase = "request" /\ take THEN "wait"
    ELSE IF Succeeds(c, in) THEN "normal"
    ELSE c.phase

CtlEdge(c, in, take) ==
    IF c.fault THEN c
    ELSE IF Overflows(c, in, take) THEN [CtlReset EXCEPT !.fault = TRUE]
    ELSE [phase     |-> PhaseAfter(c, in, take),
          noops     |-> IF take /\ Maintenance(c, in) = "noop"
                        THEN c.noops - 1 ELSE RunOutFrom(c, in),
          responses |-> c.responses + (IF in.rx_request THEN 1 ELSE 0)
                                    - (IF Replies(c, in, take) THEN 1 ELSE 0),
          fault     |-> FALSE]
=============================================================================
