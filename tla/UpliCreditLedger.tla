-------------------------- MODULE UpliCreditLedger --------------------------
(***************************************************************************)
(* UpliCreditLedger (upli_credit.py): the sender's credit balances and its *)
(* confirmation that initial credit publication is over.  A step consumes  *)
(* the events of one clock edge; where the code raises, the step is not    *)
(* enabled (LedgerAccepts).                                                *)
(***************************************************************************)
EXTENDS UpliCredit

CONSTANT InitStable   \* edges CreditInitDone must be seen high (at least 2)

ASSUME LedgerAssumption == InitStable \in Nat \ {0, 1}

VARIABLE ledger

LedgerReset ==
    [balances    |-> [p \in Ports |-> [a \in Accounts |-> 0]],
     streaks     |-> [p \in Ports |-> 0],
     initialized |-> {}]

\* Returns: one per port and cycle, in a connected direction.
ReturnsLegal(s, returns) ==
    /\ \A r1, r2 \in returns : r1.port = r2.port => r1 = r2
    /\ returns # {} => ReturnConnected(s)

\* A beat needs both connections, confirmed initialisation and a credit that
\* was there before the edge.
BeatPermitted(s, b) ==
    /\ s.orig_req /\ s.comp_ack /\ s.comp_req /\ s.orig_ack
    /\ b.port \in ledger.initialized
    /\ ledger.balances[b.port][AccountOf(b)] >= 1

\* Variant: a beat is charged to every port.
SpentOnAnyPort(beats, port, account) ==
    IF \E b \in beats : AccountOf(b) = account THEN 1 ELSE 0

\* Balances after the edge: returns add, the beat (if any) takes one.
Spent(beats, port, account) ==
    IF \E b \in beats : b.port = port /\ AccountOf(b) = account THEN 1 ELSE 0

BalanceAfter(returns, beats, p, a) ==
    ledger.balances[p][a] + Credited(returns, p, a) - Spent(beats, p, a)

\* CreditInitDone of an unconfirmed port must not rise before its direction is
\* connected.
InitLegal(s, done) == (done \ ledger.initialized) # {} => ReturnConnected(s)

LedgerAccepts(s, returns, beats, done) ==
    /\ ReturnsLegal(s, returns)
    /\ \A b \in beats : BeatPermitted(s, b)
    /\ \A p \in Ports, a \in Accounts :
          BalanceAfter(returns, beats, p, a) \in 0 .. Capacity[p][a]
    /\ InitLegal(s, done)

\* Consecutive edges with CreditInitDone high; a glitch starts over.
StreakAfter(done, p) == IF p \in done THEN ledger.streaks[p] + 1 ELSE 0

LedgerStep(s, returns, beats, done) ==
    /\ LedgerAccepts(s, returns, beats, done)
    /\ ledger' =
         [balances    |-> [p \in Ports |-> [a \in Accounts |->
                              BalanceAfter(returns, beats, p, a)]],
          streaks     |-> [p \in Ports |-> IF p \in ledger.initialized
                              THEN ledger.streaks[p] ELSE StreakAfter(done, p)],
          initialized |-> ledger.initialized \cup
                          {p \in Ports : StreakAfter(done, p) >= InitStable}]

ResetLedger == ledger' = LedgerReset

LedgerInit == ledger = LedgerReset
-----------------------------------------------------------------------------
\* The ledger's bounds (upli_credit.py:158-172): balances stay within the
\* receiver's storage, and a confirmation always rests on InitStable edges.
LedgerTypeOK ==
    /\ \A p \in Ports, a \in Accounts : ledger.balances[p][a] \in 0 .. Capacity[p][a]
    /\ ledger.streaks \in [Ports -> 0 .. InitStable]
    /\ ledger.initialized = {p \in Ports : ledger.streaks[p] = InitStable}
=============================================================================
