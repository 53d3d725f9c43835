--------------------------- MODULE UpliCreditLoop ---------------------------
(***************************************************************************)
(* One UPLI channel end to end: the connection controller, the sender's    *)
(* credit ledger, the receiving channel and its legality monitor, on one   *)
(* clock.  Every part samples the levels from before the edge.  The sender *)
(* may drive any beat its ledger permits, the consumer may select any      *)
(* account, and a reset may occur at most MaxResets times.                 *)
(***************************************************************************)
EXTENDS UpliConnection, UpliCreditLedger, UpliReceiveChannel

CONSTANT MaxResets   \* interface resets after the first (bound)

ASSUME LoopAssumption == MaxResets \in Nat

VARIABLE resets

vars == <<conn, ledger, receiver, resets>>

Init ==
    /\ ConnInit /\ LedgerInit /\ ReceiveInit /\ WatchInit
    /\ resets = 0

\* Beats the sender may drive at this edge.
Sendable == {b \in Beat : BeatPermitted(conn.signals, b)}

Selections == {{}} \cup {{<<p, a>>} : p \in Ports, a \in Accounts}

\* The datapath's part of an edge out of reset.
DataEdge(incoming, consumer) ==
    /\ LedgerStep(conn.signals, Returns, incoming, Done)
    /\ ReceiveStep(conn.signals, incoming, consumer)
    /\ WatchAccepts(Returns, Done)
    /\ WatchStep(Done)

ResetEdge ==
    /\ conn.reset_n => resets < MaxResets
    /\ ~conn.reset_n => conn.reset_low_cycles < MinResetCycles
    /\ HoldReset
    /\ ResetLedger /\ ResetReceive /\ ResetWatch
    /\ resets' = IF conn.reset_n THEN resets + 1 ELSE resets

ReleaseEdge ==
    /\ ReleaseReset
    /\ DataEdge({}, {})
    /\ UNCHANGED resets

ConnectEdge(orig_ready, comp_ready, consumer) ==
    /\ Handshake(orig_ready, comp_ready)
    /\ DataEdge({}, consumer)
    /\ UNCHANGED resets

BeatEdge(b, consumer) ==
    /\ b \in Sendable
    /\ Handshake(TRUE, TRUE)
    /\ DataEdge({b}, consumer)
    /\ UNCHANGED resets

Next ==
    \/ ResetEdge
    \/ ReleaseEdge
    \/ \E orig_ready, comp_ready \in BOOLEAN, consumer \in Selections :
          ConnectEdge(orig_ready, comp_ready, consumer)
    \/ \E b \in Beat, consumer \in Selections : BeatEdge(b, consumer)

Spec == Init /\ [][Next]_vars

\* An edge that serves account a of port p.
Serve(p, a) ==
    /\ MayRetire(p, a)
    /\ \/ ConnectEdge(TRUE, TRUE, {<<p, a>>})
       \/ \E b \in Beat : BeatEdge(b, {<<p, a>>})

\* The clock runs, both sides stay ready, and the consumer comes back to every
\* account that keeps becoming servable.
FairSpec ==
    /\ Spec
    /\ WF_vars(~conn.reset_n /\ ResetEdge) /\ WF_vars(ReleaseEdge)
    /\ WF_vars(\E consumer \in Selections : ConnectEdge(TRUE, TRUE, consumer))
    /\ \A p \in Ports, a \in Accounts : SF_vars(Serve(p, a))
-----------------------------------------------------------------------------
\* The bounds of both ends: balances within the receiver's storage, confirmations
\* that rest on InitStable edges, queues and FIFOs within their depth
\* (upli_credit.py:158-172, upli_credit_return.py:43, receive_fifo.py:50).
LoopTypeOK == LedgerTypeOK /\ ReceiverTypeOK

\* Retired beats of an account that wait in the return queue.
Owed(p, a) == Cardinality({i \in 1 .. Len(retq.queues[p]) : AccountOf(retq.queues[p][i]) = a})

\* Credits of an account the publisher has not driven yet.
Unpublished(p, a) ==
    LET pos == pub.position[p] IN
    IF pos.account < a THEN Capacity[p][a]
    ELSE IF pos.account = a THEN Capacity[p][a] - pos.sent ELSE 0

\* No credit is lost or invented between upli_credit.py:158 and
\* upli_receive.py:154: every storage place is accounted for exactly once, as a credit the sender
\* holds, on the return wires, as a stored beat, as a return still owed, or as
\* an initial credit still to be published.
CreditConservation ==
    \A p \in Ports, a \in Accounts :
        ledger.balances[p][a] + Credited(pub.returns, p, a) + Credited(retq.outputs, p, a)
            + F!Count(fifos[p][a]) + Owed(p, a) + Unpublished(p, a)
        = Capacity[p][a]

\* The sender never overruns the receiver (upli_receive.py:138-145): every beat the ledger permits is
\* stored, none is dropped with a diagnostic.
PermittedIsStored == \A b \in Sendable : Diagnostic(conn.signals, b) = 0

\* Nothing a peer does makes a model raise (upli_credit.py:128-172 and 191-194,
\* upli_receive.py:70 and 117, upli_credit_initialization.py:78): the ledger accepts the returns and
\* the done levels on the wires with any permitted beat, the monitor finds the
\* receiver's signals legal, and the publisher never sees its direction withdrawn,
\* and initial and normal returns never collide.
NobodyRaises ==
    /\ LedgerAccepts(conn.signals, Returns, {}, Done)
    /\ \A b \in Sendable : LedgerAccepts(conn.signals, Returns, {b}, Done)
    /\ WatchAccepts(Returns, Done)
    /\ pub.connected_once => ReturnConnected(conn.signals)
    /\ ReservationsDisjoint

\* The sender may use a port only after the last initial credit has arrived
\* (upli_credit_initialization.py:84-88 against upli_credit.py:170-172).
ConfirmedAfterLastCredit ==
    \A p \in ledger.initialized, a \in Accounts :
        Unpublished(p, a) = 0 /\ Credited(pub.returns, p, a) = 0

\* No account is starved for ever: its credits keep coming back through the
\* return queue (upli_credit_return.py:77-83), while both ends take part.
CreditsReturn ==
    \A p \in Ports, a \in Accounts :
        Capacity[p][a] > 0 => []<>(ledger.balances[p][a] > 0)
=============================================================================
