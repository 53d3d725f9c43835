--------------------------- MODULE UpliConnection ---------------------------
(***************************************************************************)
(* UpliConnection (upli_connection.py): the registered connection handshake*)
(* of one local UPLI interface.  Every action is one rising clock edge.    *)
(***************************************************************************)
EXTENDS Naturals

CONSTANTS
    MinResetCycles,   \* reset edges before a release is allowed
    CompleterWaits    \* the Completer requests only after it is connected

ASSUME ConnectionAssumption ==
    /\ MinResetCycles \in Nat \ {0}
    /\ CompleterWaits \in BOOLEAN

VARIABLE conn

Down == [orig_req |-> FALSE, comp_ack |-> FALSE, comp_req |-> FALSE, orig_ack |-> FALSE]

\* A direction is connected when its request has been acknowledged.
OrigConnected(s) == s.orig_req /\ s.comp_ack

\* The count of reset edges is only compared with the minimum: it saturates.
HoldReset ==
    conn' = [signals |-> Down, reset_n |-> FALSE,
             reset_low_cycles |-> IF conn.reset_low_cycles < MinResetCycles
                                  THEN conn.reset_low_cycles + 1 ELSE MinResetCycles]

\* The first edge out of reset; a release before the minimum is refused.
ReleaseReset ==
    /\ ~conn.reset_n
    /\ conn.reset_low_cycles >= MinResetCycles
    /\ conn' = [signals |-> Down, reset_n |-> TRUE, reset_low_cycles |-> 0]

\* Requests follow readiness, acknowledges follow the request of an earlier
\* edge, and nothing falls before the next reset.
Advanced(s, orig_ready, comp_ready) ==
    [orig_req |-> s.orig_req \/ orig_ready,
     comp_ack |-> s.comp_ack \/ (comp_ready /\ s.orig_req),
     comp_req |-> s.comp_req \/ (comp_ready /\ (~CompleterWaits \/ OrigConnected(s))),
     orig_ack |-> s.orig_ack \/ (orig_ready /\ s.comp_req)]

Handshake(orig_ready, comp_ready) ==
    /\ conn.reset_n
    /\ conn' = [conn EXCEPT !.signals = Advanced(@, orig_ready, comp_ready)]

ConnInit == conn = [signals |-> Down, reset_n |-> FALSE, reset_low_cycles |-> 0]
=============================================================================
