---------------------------- MODULE KDCreditBank ----------------------------
(***************************************************************************)
(* kdlink_credit_bank8.v: the credits a sender holds for each virtual      *)
(* channel.  The receiver returns running totals, so a lost answer loses   *)
(* nothing; a total passes three registers before it takes effect:         *)
(*   input    a total, the total it is compared with, and the chain it     *)
(*            belongs to                                                   *)
(*   delta    the difference                                               *)
(*   pending  the credits to add                                           *)
(* each at most one.  observed is the newest total seen, committed the     *)
(* newest accepted.  A difference that cannot be right takes observed back *)
(* to committed and begins a new chain; what is still on its way through   *)
(* the registers belongs to the old one and is dropped.  A step is one     *)
(* clock edge.  The inputs are send (a channel) and total ([vc, value]),   *)
(* each at most one.  The diagnostic outputs are left out.                 *)
(***************************************************************************)
EXTENDS KDLinkChannels

CONSTANT
    Credits         \* INITIAL_CREDITS (64)

ASSUME BankAssumption == Credits \in Nat \ {0} /\ 2 * Credits < TotalModulus

BankReset ==
    [credit    |-> [v \in Channels |-> Credits],
     observed  |-> [v \in Channels |-> 0],
     committed |-> [v \in Channels |-> 0],
     chain     |-> [v \in Channels |-> FALSE],
     input |-> <<>>, delta |-> <<>>, pending |-> <<>>]

Admits(b, v) == b.credit[v] # 0

\* The delta stage: half of the modulus counts as negative.
Plausible(d) == d.value # 0 /\ 2 * d.value < TotalModulus /\ d.value <= Credits
InChain(b, d) == d.chain = b.chain[d.vc]

Accepted(b)    == {d \in {b.delta[n] : n \in 1 .. Len(b.delta)} : InChain(b, d) /\ Plausible(d)}
Implausible(b) == {d \in {b.delta[n] : n \in 1 .. Len(b.delta)} : InChain(b, d) /\ ~Plausible(d)}

Added(b, v) == IF b.pending # <<>> /\ b.pending[1].vc = v THEN b.pending[1].value ELSE 0
Spent(b, i, v) == IF i.send = <<v>> /\ Admits(b, v) THEN 1 ELSE 0

CreditAfter(b, i, v) ==
    LET sum == b.credit[v] + Added(b, v) - Spent(b, i, v)
    IN  IF sum > Credits THEN Credits ELSE sum

ObservedAfter(b, i, v) ==
    IF \E d \in Implausible(b) : d.vc = v THEN b.committed[v]
    ELSE IF i.total # <<>> /\ i.total[1].vc = v THEN i.total[1].value
    ELSE b.observed[v]

CommittedAfter(b, v) ==
    IF \E d \in Accepted(b) : d.vc = v THEN b.delta[1].total ELSE b.committed[v]

Captured(b, i) ==
    IF i.total = <<>> THEN <<>>
    ELSE LET t == i.total[1] IN
         <<[vc |-> t.vc, total |-> t.value, base |-> b.observed[t.vc], chain |-> b.chain[t.vc]]>>

Difference(b) ==
    IF b.input = <<>> THEN <<>>
    ELSE LET t == b.input[1] IN
         <<[vc |-> t.vc, total |-> t.total, chain |-> t.chain,
            value |-> (t.total - t.base) % TotalModulus]>>

BankEdge(b, i) ==
    [credit    |-> [v \in Channels |-> CreditAfter(b, i, v)],
     observed  |-> [v \in Channels |-> ObservedAfter(b, i, v)],
     committed |-> [v \in Channels |-> CommittedAfter(b, v)],
     chain     |-> [v \in Channels |-> b.chain[v] # (\E d \in Implausible(b) : d.vc = v)],
     input     |-> Captured(b, i),
     delta     |-> Difference(b),
     pending   |-> IF Accepted(b) = {} THEN <<>>
                   ELSE <<[vc |-> b.delta[1].vc, value |-> b.delta[1].value]>>]
=============================================================================
