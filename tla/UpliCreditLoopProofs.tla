------------------------ MODULE UpliCreditLoopProofs ------------------------
(***************************************************************************)
(* Proofs about UpliCreditLoop for every set of ports, number of virtual   *)
(* channels, storage, batch size and queue depth.                          *)
(*   The argument is one inductive invariant, LoopInv.  What makes it      *)
(* inductive is who may carry credits of a port at which time: the         *)
(* publisher only before the port is done, FIFOs and return queue only     *)
(* after, and the monitor and the ledger's streaks lag behind the done     *)
(* levels by one edge.  So at most one return of a port is on the wires,   *)
(* and what each part adds or takes at an edge balances, account by        *)
(* account (PublisherBalance, QueueBalance, FifoBalance).                  *)
(***************************************************************************)
EXTENDS UpliCreditLoop, SequenceTheorems, FiniteSetTheorems, WellFoundedInduction, TLAPS

FP == INSTANCE ReceiveFifoProofs WITH Depth <- 1, Words <- VCs, fifo <- fifos
-----------------------------------------------------------------------------
(* The invariant. *)

Signals == [orig_req : BOOLEAN, comp_ack : BOOLEAN, comp_req : BOOLEAN, orig_ack : BOOLEAN]

OnePerPort(returns) == \A r1, r2 \in returns : r1.port = r2.port => r1 = r2

ConnInv ==
    /\ conn \in [signals : Signals, reset_n : BOOLEAN, reset_low_cycles : Nat]
    /\ ~conn.reset_n => conn.signals = Down

\* Before its direction is connected, the publisher is as a reset left it.
PubInv ==
    /\ pub \in [position : [Ports -> [account : 0 .. (Pool + 1), sent : Nat]],
                connected_once : BOOLEAN, returns : SUBSET CreditReturn, done : SUBSET Ports]
    /\ \A p \in Ports : ~Published(p) => pub.position[p].sent <= Capacity[p][pub.position[p].account]
    /\ \A p \in pub.done : Published(p)
    /\ \A r \in pub.returns : r.port \notin pub.done
    /\ OnePerPort(pub.returns)
    /\ IF pub.connected_once THEN ReturnConnected(conn.signals) ELSE pub = PubReset

BeatsOf(p) == {b \in Beat : b.port = p}

\* Only ports that are done return credits of retired beats, and the monitor
\* has seen that they are.
QueueInv ==
    /\ retq \in [queues : [Ports -> Seq(Beat)], outputs : SUBSET CreditReturn]
    /\ \A p \in Ports : /\ retq.queues[p] \in Seq(BeatsOf(p))
                        /\ Len(retq.queues[p]) <= ReturnDepth
                        /\ retq.queues[p] # <<>> => p \in pub.done
    /\ OnePerPort(retq.outputs)
    /\ \A r \in retq.outputs : r.port \in watch

\* An account of a virtual channel stores only beats of that channel.
OwnWords(h, a) == a # Pool => \A i \in 1 .. Len(h) : h[i] = a

FifoInv ==
    \A p \in Ports, a \in Accounts :
        /\ FP!PartsOK(fifos[p][a])
        /\ F!Count(fifos[p][a]) <= Capacity[p][a]
        /\ Held(p, a) # <<>> => p \in pub.done
        /\ OwnWords(Held(p, a), a)

\* A streak counts done levels the monitor has seen as well.
LedgerInv ==
    /\ ledger \in [balances : [Ports -> [Accounts -> Nat]],
                   streaks : [Ports -> 0 .. InitStable], initialized : SUBSET Ports]
    /\ ledger.initialized = {p \in Ports : ledger.streaks[p] = InitStable}
    /\ \A p \in Ports : ledger.streaks[p] > 0 => p \in watch

LoopInv ==
    /\ ConnInv /\ PubInv /\ QueueInv /\ FifoInv /\ LedgerInv
    /\ watch \subseteq pub.done
    /\ CreditConservation
-----------------------------------------------------------------------------
(* Operators on accounts and returns. *)

LEMMA AccountFacts ==
    /\ NumVCs \in Nat \ {0} /\ MaxBatch \in Nat \ {0} /\ InitStable \in Nat /\ InitStable > 1
    /\ Pool = NumVCs /\ Pool \in Accounts /\ Accounts \subseteq Nat
    /\ \A p \in Ports, a \in Accounts : Capacity[p][a] \in Nat
    /\ \A b : (b \in Beat \/ b \in CreditReturn) => AccountOf(b) \in Accounts
BY CreditAssumption, LedgerAssumption DEF Pool, Accounts, AccountOf, Beat, CreditReturn, VCs

\* With one return per port, the credits of an account are the count of its return.
LEMMA CreditedIs ==
    ASSUME NEW returns, OnePerPort(returns), NEW p, NEW a
    PROVE  /\ \A r \in returns : r.port = p /\ AccountOf(r) = a => Credited(returns, p, a) = r.count
           /\ (\A r \in returns : ~(r.port = p /\ AccountOf(r) = a)) => Credited(returns, p, a) = 0
<1> DEFINE mine == {r \in returns : r.port = p /\ AccountOf(r) = a}
<1>1. ASSUME NEW r \in returns, r.port = p, AccountOf(r) = a
      PROVE  Credited(returns, p, a) = r.count
    <2>1. mine = {r}
        BY <1>1 DEF OnePerPort
    <2>2. (CHOOSE x \in mine : TRUE) = r
        BY <2>1
    <2> QED BY <2>1, <2>2 DEF Credited
<1>2. ASSUME \A r \in returns : ~(r.port = p /\ AccountOf(r) = a)
      PROVE  Credited(returns, p, a) = 0
    <2>1. mine = {}
        BY <1>2
    <2> QED BY <2>1 DEF Credited
<1> QED BY <1>1, <1>2

LEMMA CreditedType ==
    ASSUME NEW returns \in SUBSET CreditReturn, OnePerPort(returns), NEW p, NEW a
    PROVE  Credited(returns, p, a) \in Nat
<1>1. \A r \in returns : r.count \in Nat
    BY DEF CreditReturn
<1> QED BY <1>1, CreditedIs

\* Returns of different ports add up.
LEMMA CreditedUnion ==
    ASSUME NEW left \in SUBSET CreditReturn, NEW right \in SUBSET CreditReturn,
           OnePerPort(left), OnePerPort(right),
           \A r1 \in left, r2 \in right : r1.port # r2.port,
           NEW p, NEW a
    PROVE  /\ OnePerPort(left \cup right)
           /\ Credited(left \cup right, p, a) = Credited(left, p, a) + Credited(right, p, a)
<1>1. OnePerPort(left \cup right)
    BY DEF OnePerPort
<1>2. \A r \in left \cup right : r.count \in Nat
    BY DEF CreditReturn
<1>3. CASE \E r \in left : r.port = p /\ AccountOf(r) = a
    <2>1. PICK r \in left : r.port = p /\ AccountOf(r) = a
        BY <1>3
    <2>2. Credited(left, p, a) = r.count /\ Credited(left \cup right, p, a) = r.count
        BY <1>1, <2>1, CreditedIs
    <2>3. Credited(right, p, a) = 0
        BY <2>1, CreditedIs
    <2> QED BY <1>1, <1>2, <2>2, <2>3
<1>4. CASE \E r \in right : r.port = p /\ AccountOf(r) = a
    <2>1. PICK r \in right : r.port = p /\ AccountOf(r) = a
        BY <1>4
    <2>2. Credited(right, p, a) = r.count /\ Credited(left \cup right, p, a) = r.count
        BY <1>1, <2>1, CreditedIs
    <2>3. Credited(left, p, a) = 0
        BY <2>1, CreditedIs
    <2> QED BY <1>1, <1>2, <2>2, <2>3
<1>5. CASE \A r \in left \cup right : ~(r.port = p /\ AccountOf(r) = a)
    <2>1. Credited(left, p, a) = 0 /\ Credited(right, p, a) = 0 /\ Credited(left \cup right, p, a) = 0
        BY <1>1, <1>5, CreditedIs
    <2> QED BY <1>1, <2>1
<1> QED BY <1>3, <1>4, <1>5
-----------------------------------------------------------------------------
(* The publisher. *)

\* Where a port stands before and after an edge of the connected publisher.
LEMMA PublisherMoves ==
    ASSUME PubInv, NEW p \in Ports
    PROVE  LET pos == pub.position[p]
               n   == BatchSize(p)
               cap == Capacity[p][pos.account]
           IN  /\ pos.account \in 0 .. (Pool + 1) /\ pos.sent \in Nat
               /\ Published(p) => pos.account = Pool + 1 /\ NextPosition(p) = pos
               /\ ~Published(p) =>
                    /\ pos.account \in Accounts /\ cap \in Nat /\ pos.sent <= cap
                    /\ n \in 0 .. MaxBatch /\ pos.sent + n <= cap
                    /\ \/ pos.sent + n < cap
                          /\ NextPosition(p) = [account |-> pos.account, sent |-> pos.sent + n]
                       \/ pos.sent + n = cap
                          /\ NextPosition(p) = [account |-> pos.account + 1, sent |-> 0]
<1> DEFINE pos == pub.position[p]
           n   == BatchSize(p)
           cap == Capacity[p][pos.account]
<1>1. pos \in [account : 0 .. (Pool + 1), sent : Nat]
    BY DEF PubInv
<1>2. pos.account \in 0 .. (Pool + 1) /\ pos.sent \in Nat /\ Pool = NumVCs /\ NumVCs \in Nat
    BY <1>1, AccountFacts
<1>3. ASSUME Published(p)
      PROVE  pos.account = Pool + 1 /\ NextPosition(p) = pos
    BY <1>2, <1>3 DEF Published, NextPosition
<1>4. ASSUME ~Published(p)
      PROVE  /\ pos.account \in Accounts /\ cap \in Nat /\ pos.sent <= cap
             /\ n \in 0 .. MaxBatch /\ pos.sent + n <= cap
             /\ \/ pos.sent + n < cap
                   /\ NextPosition(p) = [account |-> pos.account, sent |-> pos.sent + n]
                \/ pos.sent + n = cap
                   /\ NextPosition(p) = [account |-> pos.account + 1, sent |-> 0]
    <2>1. pos.account \in Accounts
        BY <1>2, <1>4 DEF Published, Accounts
    <2>2. cap \in Nat /\ pos.sent <= cap
        BY <2>1, <1>4, AccountFacts DEF PubInv
    <2>3. n = IF MaxBatch < cap - pos.sent THEN MaxBatch ELSE cap - pos.sent
        BY DEF BatchSize, Least
    <2>4. n \in 0 .. MaxBatch /\ pos.sent + n <= cap
        <3> HIDE DEF n, cap
        <3> QED BY <1>2, <2>2, <2>3, AccountFacts
    <2>5. NextPosition(p) = IF pos.sent + n < cap THEN [pos EXCEPT !.sent = @ + n]
                            ELSE [account |-> pos.account + 1, sent |-> 0]
        BY <1>4 DEF NextPosition
    <2>6. [pos EXCEPT !.sent = @ + n] = [account |-> pos.account, sent |-> pos.sent + n]
        BY <1>1
    <2>7. pos.sent + n < cap \/ pos.sent + n = cap
        <3> HIDE DEF n, cap
        <3> QED BY <1>2, <2>2, <2>4
    <2> QED BY <2>1, <2>2, <2>4, <2>5, <2>6, <2>7
<1> QED BY <1>2, <1>3, <1>4

\* The return of a port that is still publishing.
LEMMA InitialReturnIs ==
    ASSUME PubInv, NEW p \in Ports, ~Published(p), BatchSize(p) > 0
    PROVE  /\ InitialReturn(p) \in CreditReturn
           /\ InitialReturn(p).port = p
           /\ InitialReturn(p).count = BatchSize(p)
           /\ AccountOf(InitialReturn(p)) = pub.position[p].account
<1> DEFINE pos == pub.position[p]
<1>1. pos.account \in Accounts /\ BatchSize(p) \in 1 .. MaxBatch
    BY PublisherMoves, AccountFacts
<1>2. pos.account # Pool => pos.account \in VCs
    BY <1>1, AccountFacts DEF Accounts, VCs
<1>3. 0 \in VCs
    BY AccountFacts DEF VCs
<1> QED BY <1>1, <1>2, <1>3 DEF InitialReturn, CreditReturn, AccountOf

\* What the publisher puts on the wires it no longer has to publish.
LEMMA PublisherBalance ==
    ASSUME PubInv, PubStep(conn.signals), NEW p \in Ports, NEW a \in Accounts
    PROVE  Credited(pub'.returns, p, a) + Unpublished(p, a)' = Unpublished(p, a)
<1> DEFINE pos == pub.position[p]
           n   == BatchSize(p)
<1>0. a \in Nat /\ Capacity[p][a] \in Nat /\ NumVCs \in Nat /\ Pool = NumVCs /\ a <= Pool
    BY AccountFacts DEF Accounts
<1>1. CASE ~ReturnConnected(conn.signals)
    <2>1. pub' = pub /\ pub = PubReset
        BY <1>1 DEF PubStep, PubInv
    <2>2. Credited(pub'.returns, p, a) = 0
        BY <2>1, CreditedIs DEF PubReset, OnePerPort
    <2>3. Unpublished(p, a)' = Unpublished(p, a)
        BY <2>1 DEF Unpublished
    <2>4. Unpublished(p, a) = Capacity[p][a]
        BY <2>1, <1>0 DEF Unpublished, PubReset
    <2> QED BY <1>0, <2>2, <2>3, <2>4
<1>2. CASE ReturnConnected(conn.signals)
    <2>1. pub' = [position |-> [q \in Ports |-> NextPosition(q)], connected_once |-> TRUE,
                  returns |-> {InitialReturn(q) : q \in
                                 {r \in Ports : ~Published(r) /\ BatchSize(r) > 0}},
                  done |-> DoneAfterEdge]
        BY <1>2 DEF PubStep
    <2>2. /\ pub'.position[p] = NextPosition(p)
          /\ \A r \in pub'.returns : \E q \in Ports :
                /\ r = InitialReturn(q) /\ ~Published(q) /\ BatchSize(q) > 0
          /\ ~Published(p) /\ n > 0 => InitialReturn(p) \in pub'.returns
        BY <2>1
    <2>3. \A r \in pub'.returns : r.port = p => r = InitialReturn(p) /\ ~Published(p) /\ n > 0
        BY <2>2, InitialReturnIs
    <2>4. OnePerPort(pub'.returns)
        BY <2>2, InitialReturnIs DEF OnePerPort
    <2>5. Unpublished(p, a)' = LET pos2 == NextPosition(p) IN
                               IF pos2.account < a THEN Capacity[p][a]
                               ELSE IF pos2.account = a THEN Capacity[p][a] - pos2.sent ELSE 0
        BY <2>2 DEF Unpublished
    <2>6. Unpublished(p, a) = IF pos.account < a THEN Capacity[p][a]
                              ELSE IF pos.account = a THEN Capacity[p][a] - pos.sent ELSE 0
        BY DEF Unpublished
    <2>7. CASE Published(p)
        <3>1. Credited(pub'.returns, p, a) = 0
            BY <2>3, <2>4, <2>7, CreditedIs
        <3>2. pos.account = Pool + 1 /\ NextPosition(p) = pos
            BY <2>7, PublisherMoves
        <3> QED BY <1>0, <2>5, <2>6, <3>1, <3>2
    <2>8. CASE ~Published(p)
        <3>1. /\ pos.account \in Accounts /\ pos.sent \in Nat /\ pos.account \in Nat
              /\ n \in Nat /\ Capacity[p][pos.account] \in Nat
              /\ pos.sent + n <= Capacity[p][pos.account]
              /\ \/ pos.sent + n < Capacity[p][pos.account]
                    /\ NextPosition(p) = [account |-> pos.account, sent |-> pos.sent + n]
                 \/ pos.sent + n = Capacity[p][pos.account]
                    /\ NextPosition(p) = [account |-> pos.account + 1, sent |-> 0]
            BY <2>8, PublisherMoves, AccountFacts
        <3>2. Credited(pub'.returns, p, a) = IF pos.account = a THEN n ELSE 0
            <4>1. CASE pos.account = a /\ n > 0
                BY <2>2, <2>4, <2>8, <4>1, InitialReturnIs, CreditedIs
            <4>2. CASE ~(pos.account = a /\ n > 0)
                <5>1. Credited(pub'.returns, p, a) = 0
                    BY <2>3, <2>4, <2>8, <4>2, InitialReturnIs, CreditedIs
                <5> QED BY <3>1, <4>2, <5>1
            <4> QED BY <4>1, <4>2
        <3> HIDE DEF n, pos
        <3>3. CASE pos.sent + n < Capacity[p][pos.account]
            BY <1>0, <2>5, <2>6, <3>1, <3>2, <3>3
        <3>4. CASE pos.sent + n = Capacity[p][pos.account]
            <4>1. NextPosition(p).account = pos.account + 1 /\ NextPosition(p).sent = 0
                BY <3>1, <3>4
            <4>2. CASE pos.account = a
                BY <1>0, <2>5, <2>6, <3>1, <3>2, <3>4, <4>1, <4>2
            <4>3. CASE pos.account # a
                BY <1>0, <2>5, <2>6, <3>1, <3>2, <4>1, <4>3
            <4> QED BY <4>2, <4>3
        <3> QED BY <3>1, <3>3, <3>4
    <2> QED BY <2>7, <2>8
<1> QED BY <1>1, <1>2

\* A connected direction stays connected over an edge without reset.
LEMMA PublisherKept ==
    ASSUME PubInv, PubStep(conn.signals),
           ReturnConnected(conn.signals) => ReturnConnected(conn'.signals)
    PROVE  PubInv' /\ pub.done \subseteq pub'.done
<1>1. CASE ~ReturnConnected(conn.signals)
    <2>1. pub' = pub /\ ~pub.connected_once
        BY <1>1 DEF PubStep, PubInv
    <2> QED BY <2>1 DEF PubInv, Published
<1>2. CASE ReturnConnected(conn.signals)
    <2>1. pub' = [position |-> [q \in Ports |-> NextPosition(q)], connected_once |-> TRUE,
                  returns |-> {InitialReturn(q) : q \in
                                 {r \in Ports : ~Published(r) /\ BatchSize(r) > 0}},
                  done |-> DoneAfterEdge]
        BY <1>2 DEF PubStep
    <2>2. ASSUME NEW p \in Ports
          PROVE  /\ NextPosition(p) \in [account : 0 .. (Pool + 1), sent : Nat]
                 /\ NextPosition(p).account <= Pool
                        => NextPosition(p).sent <= Capacity[p][NextPosition(p).account]
                 /\ Published(p) => NextPosition(p) = pub.position[p]
        <3>1. CASE Published(p)
            <4>1. NextPosition(p) = pub.position[p] /\ pub.position[p].account = Pool + 1
                BY <3>1, PublisherMoves
            <4>2. pub.position[p] \in [account : 0 .. (Pool + 1), sent : Nat]
                BY DEF PubInv
            <4> QED BY <4>1, <4>2, AccountFacts
        <3>2. CASE ~Published(p)
            <4> DEFINE pos == pub.position[p]
                       n == BatchSize(p)
            <4>1. /\ pos.account \in Accounts /\ pos.sent \in Nat /\ n \in Nat
                  /\ Capacity[p][pos.account] \in Nat
                  /\ \/ pos.sent + n < Capacity[p][pos.account]
                        /\ NextPosition(p) = [account |-> pos.account, sent |-> pos.sent + n]
                     \/ pos.sent + n = Capacity[p][pos.account]
                        /\ NextPosition(p) = [account |-> pos.account + 1, sent |-> 0]
                BY <3>2, PublisherMoves, AccountFacts
            <4>2. pos.account \in 0 .. Pool /\ Pool \in Nat /\ pos.account + 1 \in 0 .. (Pool + 1)
                BY <4>1, AccountFacts DEF Accounts
            <4> HIDE DEF pos, n
            <4>3. CASE pos.sent + n < Capacity[p][pos.account]
                BY <3>2, <4>1, <4>2, <4>3
            <4>4. CASE pos.sent + n = Capacity[p][pos.account]
                <5>1. NextPosition(p) = [account |-> pos.account + 1, sent |-> 0]
                    BY <4>1, <4>4
                <5>2. pos.account + 1 <= Pool => Capacity[p][pos.account + 1] \in Nat
                    BY <4>2, AccountFacts DEF Accounts
                <5> QED BY <3>2, <4>2, <5>1, <5>2
            <4> QED BY <4>1, <4>3, <4>4
        <3> QED BY <3>1, <3>2
    <2>3. \A r \in pub'.returns : \E q \in Ports :
                r = InitialReturn(q) /\ ~Published(q) /\ BatchSize(q) > 0
        BY <2>1
    <2>4. /\ pub'.returns \subseteq CreditReturn
          /\ OnePerPort(pub'.returns)
          /\ \A r \in pub'.returns : r.port \in Ports /\ ~Published(r.port)
        BY <2>3, InitialReturnIs DEF OnePerPort
    <2>5. pub'.done = {p \in Ports : Published(p)}
        BY <2>1 DEF DoneAfterEdge
    <2>6. pub' \in [position : [Ports -> [account : 0 .. (Pool + 1), sent : Nat]],
                    connected_once : BOOLEAN, returns : SUBSET CreditReturn, done : SUBSET Ports]
        BY <2>1, <2>2, <2>4, <2>5
    <2>7. \A p \in Ports : pub'.position[p] = NextPosition(p)
        BY <2>1
    <2>8. \A p \in pub'.done : pub'.position[p].account > Pool
        BY <2>2, <2>5, <2>7 DEF Published
    <2>9. \A p \in Ports : ~(pub'.position[p].account > Pool)
                => pub'.position[p].sent <= Capacity[p][pub'.position[p].account]
        BY <2>2, <2>7, AccountFacts
    <2>10. pub.done \subseteq pub'.done
        BY <2>5 DEF PubInv
    <2>11. pub'.connected_once /\ ReturnConnected(conn'.signals)
        BY <1>2, <2>1
    <2> QED BY <2>4, <2>5, <2>6, <2>8, <2>9, <2>10, <2>11 DEF PubInv, Published
<1> QED BY <1>1, <1>2
-----------------------------------------------------------------------------
(* The return queue. *)

\* Beats of an account in a sequence.
CountIn(q, a) == Cardinality({i \in 1 .. Len(q) : AccountOf(q[i]) = a})

LEMMA CountInType ==
    ASSUME NEW W, NEW q \in Seq(W), NEW a
    PROVE  CountIn(q, a) \in Nat /\ IsFiniteSet({i \in 1 .. Len(q) : AccountOf(q[i]) = a})
<1>1. Len(q) \in Nat
    BY LenProperties
<1>2. IsFiniteSet(1 .. Len(q))
    BY <1>1, FS_Interval
<1>3. {i \in 1 .. Len(q) : AccountOf(q[i]) = a} \in SUBSET (1 .. Len(q))
    OBVIOUS
<1> QED BY <1>2, <1>3, FS_Subset, FS_CardinalityType DEF CountIn

LEMMA CountInEmpty == \A a : CountIn(<<>>, a) = 0
<1>1. \A a : {i \in 1 .. Len(<<>>) : AccountOf(<<>>[i]) = a} = {}
    BY EmptySeq
<1> QED BY <1>1, FS_EmptySet DEF CountIn

LEMMA CountInAppend ==
    ASSUME NEW W, NEW q \in Seq(W), NEW b \in W, NEW a
    PROVE  CountIn(Append(q, b), a) = CountIn(q, a) + (IF AccountOf(b) = a THEN 1 ELSE 0)
<1> DEFINE n == Len(q)
           S == {i \in 1 .. n : AccountOf(q[i]) = a}
           T == {i \in 1 .. n + 1 : AccountOf(Append(q, b)[i]) = a}
<1>1. /\ n \in Nat /\ Len(Append(q, b)) = n + 1
      /\ \A i \in 1 .. n : Append(q, b)[i] = q[i]
      /\ Append(q, b)[n + 1] = b
    BY LenProperties, AppendProperties
<1>2. n + 1 \notin S /\ IsFiniteSet(S) /\ Cardinality(S) \in Nat
    <2>1. n + 1 \notin 1 .. n
        BY <1>1
    <2>2. IsFiniteSet(S) /\ CountIn(q, a) \in Nat
        BY CountInType
    <2>3. Cardinality(S) = CountIn(q, a)
        BY DEF CountIn
    <2> QED BY <2>1, <2>2, <2>3
<1>3. \A i \in 1 .. n + 1 : i \in 1 .. n \/ i = n + 1
    BY <1>1
<1>4. \A i \in 1 .. n : i \in 1 .. n + 1
    BY <1>1
<1>5. n + 1 \in 1 .. n + 1
    BY <1>1
<1>6. CASE AccountOf(b) = a
    <2>1. T = S \cup {n + 1}
        BY <1>1, <1>3, <1>4, <1>5, <1>6
    <2>2. Cardinality(T) = Cardinality(S) + 1
        BY <1>2, <2>1, FS_AddElement
    <2> QED BY <1>1, <1>6, <2>2 DEF CountIn
<1>7. CASE AccountOf(b) # a
    <2>1. T = S
        BY <1>1, <1>3, <1>4, <1>7
    <2>2. CountIn(Append(q, b), a) = Cardinality(T) /\ CountIn(q, a) = Cardinality(S)
        BY <1>1 DEF CountIn
    <2> HIDE DEF S, T
    <2> QED BY <1>2, <1>7, <2>1, <2>2
<1> QED BY <1>6, <1>7

\* A sequence without its first n elements.
AllAfter(q, n) == SubSeq(q, n + 1, Len(q))

\* Dropping n beats of one account from the head.
LEMMA CountInDrop ==
    ASSUME NEW W, NEW q \in Seq(W), NEW grant, NEW n \in Nat, n <= Len(q),
           \A i \in 1 .. n : AccountOf(q[i]) = AccountOf(grant),
           NEW rest, rest = AllAfter(q, n), NEW a
    PROVE  /\ rest \in Seq(W) /\ Len(rest) = Len(q) - n
           /\ CountIn(q, a) = CountIn(rest, a) + (IF AccountOf(grant) = a THEN n ELSE 0)
<1> DEFINE c == AccountOf(grant)
           len  == Len(q)
           S == {i \in 1 .. len : AccountOf(q[i]) = a}
           A == {i \in 1 .. n : AccountOf(q[i]) = a}
           B == {i \in n + 1 .. len : AccountOf(q[i]) = a}
           R == {i \in 1 .. len - n : AccountOf(rest[i]) = a}
<1>1. len \in Nat /\ n \in Nat /\ n <= len
    BY LenProperties
<1>2. \A i \in n + 1 .. len : q[i] \in W
    BY <1>1, ElementOfSeq
<1>3. /\ rest \in Seq(W)
      /\ Len(rest) = len - n
      /\ \A i \in 1 .. len - n : rest[i] = q[n + i]
    <2>1. /\ rest \in Seq(W)
          /\ Len(rest) = (IF n + 1 <= len THEN len - (n + 1) + 1 ELSE 0)
          /\ \A i \in 1 .. len - (n + 1) + 1 : rest[i] = q[(n + 1) + i - 1]
        BY <1>1, <1>2, SubSeqProperties DEF AllAfter
    <2>2. len - (n + 1) + 1 = len - n /\ (~(n + 1 <= len) => len - n = 0)
        BY <1>1
    <2>3. \A i \in 1 .. len - n : (n + 1) + i - 1 = n + i
        BY <1>1
    <2> QED BY <2>1, <2>2, <2>3
<1>4. IsFiniteSet(S) /\ A \in SUBSET S /\ B \in SUBSET S /\ A \cap B = {} /\ S = A \cup B
    <2>1. IsFiniteSet(S)
        BY CountInType
    <2>2. \A i \in 1 .. len : (i \in 1 .. n \/ i \in n + 1 .. len) /\ ~(i \in 1 .. n /\ i \in n + 1 .. len)
        BY <1>1
    <2>3. (1 .. n) \subseteq 1 .. len /\ (n + 1 .. len) \subseteq 1 .. len
        BY <1>1
    <2> QED BY <2>1, <2>2, <2>3
<1>5. IsFiniteSet(A) /\ IsFiniteSet(B)
    BY <1>4, FS_Subset
<1>6. Cardinality(S) = Cardinality(A) + Cardinality(B)
    <2>1. Cardinality(S) = Cardinality(A) + Cardinality(B) - Cardinality({})
        BY <1>4, <1>5, FS_Union
    <2> QED BY <1>5, <2>1, FS_EmptySet, FS_CardinalityType
<1>7. Cardinality(A) = IF c = a THEN n ELSE 0
    <2>1. CASE c = a
        <3>1. A = 1 .. n
            BY <2>1
        <3>2. Cardinality(1 .. n) = IF 1 > n THEN 0 ELSE n - 1 + 1
            BY <1>1, FS_Interval
        <3> HIDE DEF A
        <3> QED BY <1>1, <2>1, <3>1, <3>2
    <2>2. CASE c # a
        <3>1. A = {}
            BY <2>2
        <3> QED BY <2>2, <3>1, FS_EmptySet
    <2> QED BY <2>1, <2>2
<1>8. Cardinality(B) = Cardinality(R)
    <2> DEFINE f == [i \in B |-> i - n]
    <2>1. \A i \in B : i - n \in R
        <3> TAKE i \in B
        <3>1. i \in n + 1 .. len /\ i - n \in 1 .. len - n /\ n + (i - n) = i
            BY <1>1
        <3> QED BY <1>3, <3>1
    <2>2. \A j \in R : n + j \in B /\ (n + j) - n = j
        <3> TAKE j \in R
        <3>1. j \in 1 .. len - n /\ n + j \in n + 1 .. len /\ (n + j) - n = j
            BY <1>1
        <3> QED BY <1>3, <3>1
    <2>3. \A i, j \in B : i - n = j - n => i = j
        BY <1>1
    <2>4. f \in [B -> R]
        BY <2>1
    <2>5. \A x, y \in B : f[x] = f[y] => x = y
        BY <2>3
    <2>6. \A j \in R : \E x \in B : f[x] = j
        BY <2>2
    <2>7. f \in Bijection(B, R)
        <3> HIDE DEF f, B, R
        <3>1. f \in Injection(B, R)
            BY <2>4, <2>5 DEF Injection, IsInjective
        <3>2. f \in Surjection(B, R)
            BY <2>4, <2>6 DEF Surjection
        <3> QED BY <3>1, <3>2 DEF Bijection
    <2> QED BY <1>5, <2>7, FS_Bijection DEF ExistsBijection
<1>9. CountIn(rest, a) = Cardinality(R) /\ CountIn(q, a) = Cardinality(S)
    BY <1>3 DEF CountIn
<1>10. Cardinality(R) \in Nat
    BY <1>5, <1>8, FS_CardinalityType
<1>11. CountIn(q, a) = CountIn(rest, a) + (IF c = a THEN n ELSE 0)
    <2> HIDE DEF S, A, B, R
    <2> QED BY <1>1, <1>6, <1>7, <1>8, <1>9, <1>10
<1> QED BY <1>3, <1>11

\* The batch at the head of a queue: the longest run of equal beats up to the
\* batch size, and never empty.
LEMMA RunFacts ==
    ASSUME NEW W, NEW q \in Seq(W), q # <<>>
    PROVE  /\ RunLength(q) \in 1 .. MaxBatch /\ RunLength(q) <= Len(q)
           /\ \A i \in 1 .. RunLength(q) : q[i] = q[1]
<1> DEFINE m == Least(MaxBatch, Len(q))
           Equal(k) == \A i \in 1 .. k : q[i] = q[1]
           T == {k \in Nat : k < m /\ Equal(m - k)}
           Is(n) == Equal(n) /\ (n < m => q[n + 1] # q[1])
<1>1. Len(q) \in Nat \ {0} /\ MaxBatch \in Nat \ {0}
    BY EmptySeq, AccountFacts
<1>2. m \in Nat \ {0} /\ m <= MaxBatch /\ m <= Len(q)
    BY <1>1 DEF Least
<1> HIDE DEF m
<1>3. m - 1 \in T
    <2>1. m - (m - 1) = 1 /\ m - 1 < m /\ m - 1 \in Nat
        BY <1>2
    <2>2. \A i \in 1 .. 1 : i = 1
        OBVIOUS
    <2>3. Equal(m - (m - 1))
        BY <2>1, <2>2
    <2> QED BY <2>1, <2>3
<1>4. T # {} /\ T \subseteq Nat
    BY <1>3
<1>5. PICK k \in T : \A y \in T : ~ (<<y, k>> \in OpToRel(<, Nat))
    BY <1>4, WFMin, NatLessThanWellFounded, Zenon
<1>6. \A y \in T : ~(y < k)
    BY <1>5 DEF OpToRel
<1>7. k \in Nat /\ k < m /\ Equal(m - k)
    BY <1>5
<1> DEFINE n == m - k
<1>8. n \in 1 .. m
    BY <1>2, <1>7
<1>9. Is(n)
    <2> SUFFICES ASSUME n < m, q[n + 1] = q[1] PROVE FALSE
        BY <1>7
    <2>1. k - 1 \in Nat /\ k - 1 < m /\ m - (k - 1) = n + 1 /\ k - 1 < k
        BY <1>2, <1>7
    <2>2. \A i \in 1 .. n + 1 : i \in 1 .. n \/ i = n + 1
        BY <1>2, <1>7
    <2>3. Equal(n + 1)
        BY <1>7, <2>2
    <2>4. k - 1 \in T
        BY <2>1, <2>3
    <2> QED BY <1>6, <2>1, <2>4
<1> HIDE DEF n
<1>10. \E x \in 1 .. m : Is(x)
    BY <1>8, <1>9
<1>11. RunLength(q) = CHOOSE x \in 1 .. m : Is(x)
    BY DEF RunLength, m
<1>12. RunLength(q) \in 1 .. m /\ Is(RunLength(q))
    <2> HIDE DEF Is
    <2> QED BY <1>10, <1>11, Zenon
<1>13. RunLength(q) \in 1 .. MaxBatch /\ RunLength(q) <= Len(q)
    <2> HIDE DEF Is
    <2> QED BY <1>1, <1>2, <1>12
<1> QED BY <1>12, <1>13

LEMMA SetToSeqFacts ==
    /\ SetToSeq({}) = <<>>
    /\ \A b : SetToSeq({b}) = <<b>>
<1>1. SetToSeq({}) = <<>>
    <2>1. Cardinality({}) = 0
        BY FS_EmptySet
    <2>2. <<>> \in [1 .. 0 -> {}] /\ IsInjective(<<>>)
        BY DEF IsInjective
    <2>3. \A f \in [1 .. 0 -> {}] : f = <<>>
        OBVIOUS
    <2> QED BY <2>1, <2>2, <2>3 DEF SetToSeq
<1>2. ASSUME NEW b
      PROVE  SetToSeq({b}) = <<b>>
    <2>1. Cardinality({b}) = 1
        BY FS_Singleton
    <2>2. <<b>> \in [1 .. 1 -> {b}] /\ IsInjective(<<b>>)
        BY DEF IsInjective
    <2>3. \A f \in [1 .. 1 -> {b}] : f = <<b>>
        OBVIOUS
    <2> QED BY <2>1, <2>2, <2>3 DEF SetToSeq
<1> QED BY <1>1, <1>2

LEMMA FirstOfThree ==
    ASSUME NEW W, NEW s \in Seq(W), NEW t \in Seq(W), NEW u \in Seq(W), s # <<>>
    PROVE  (s \o t) \o u # <<>> /\ ((s \o t) \o u)[1] = s[1] /\ s[1] \in W
<1>1. Len(s) \in Nat \ {0} /\ Len(t) \in Nat /\ Len(u) \in Nat
    BY EmptySeq, LenProperties
<1>2. 1 \in 1 .. Len(s) /\ 1 \in 1 .. Len(s) + Len(t) /\ 1 \in 1 .. Len(s) + Len(t) + Len(u)
    BY <1>1
<1>3. s \o t \in Seq(W) /\ Len(s \o t) = Len(s) + Len(t) /\ (s \o t)[1] = s[1]
    BY <1>1, <1>2, ConcatProperties
<1> DEFINE y == s \o t
<1> HIDE DEF y
<1>4. y \in Seq(W) /\ Len(y) = Len(s) + Len(t) /\ y[1] = s[1]
    BY <1>3 DEF y
<1>5. y \o u \in Seq(W) /\ Len(y \o u) = Len(y) + Len(u)
    BY <1>4, ConcatProperties
<1>6. (y \o u)[1] = y[1]
    <2>1. 1 \in 1 .. Len(y) + Len(u) /\ 1 <= Len(y)
        BY <1>1, <1>4
    <2> QED BY <1>4, <2>1, ConcatProperties
<1>7. y \o u # <<>>
    BY <1>1, <1>4, <1>5, EmptySeq
<1> QED BY <1>2, <1>4, <1>6, <1>7, ElementOfSeq DEF y

\* The account a consumer takes a beat of at this edge.
Takes(consumer, p, a) == <<p, a>> \in consumer /\ MayRetire(p, a)

\* The consumer selects at most one account, whose head is a beat of that
\* account; its port is done and has a place in its return queue.
LEMMA RetiredFacts ==
    ASSUME FifoInv, NEW consumer \in Selections, NEW p \in Ports
    PROVE  \/ /\ {b \in Retired(consumer) : b.port = p} = {}
              /\ \A a \in Accounts : ~Takes(consumer, p, a)
           \/ \E c \in Accounts :
                 /\ {b \in Retired(consumer) : b.port = p} = {HeadBeat(p, c)}
                 /\ HeadBeat(p, c) \in BeatsOf(p) /\ AccountOf(HeadBeat(p, c)) = c
                 /\ \A a \in Accounts : Takes(consumer, p, a) <=> a = c
                 /\ QueueReady(p) /\ p \in pub.done
<1>1. CASE \E c \in Accounts : Takes(consumer, p, c)
    <2>1. PICK c \in Accounts : Takes(consumer, p, c)
        BY <1>1
    <2>2. consumer = {<<p, c>>} /\ MayRetire(p, c)
        BY <2>1 DEF Takes, Selections
    <2>3. Retired(consumer) = {HeadBeat(p, c)} /\ HeadBeat(p, c).port = p
        <3>1. {d \in consumer : MayRetire(d[1], d[2])} = {<<p, c>>}
            BY <2>2
        <3>2. Retired(consumer) = {HeadBeat(d[1], d[2]) : d \in {<<p, c>>}}
            BY <3>1 DEF Retired
        <3>3. <<p, c>>[1] = p /\ <<p, c>>[2] = c
            OBVIOUS
        <3>4. \A b : b \in {HeadBeat(d[1], d[2]) : d \in {<<p, c>>}} <=> b = HeadBeat(p, c)
            BY <3>3, Zenon
        <3> QED BY <3>2, <3>4 DEF HeadBeat
    <2> DEFINE f == fifos[p][c]
    <2>4. FP!PartsOK(f) /\ f.visible # <<>> /\ f.visible \in Seq(VCs)
        BY <2>2 DEF MayRetire, F!Valid, FifoInv, FP!PartsOK
    <2>5. FP!Held(f) \in Seq(VCs) /\ Held(p, c) = FP!Held(f) /\ FP!Held(f) # <<>>
        BY <2>4, FP!HeldLength DEF FP!Held, Held, FP!Valid
    <2>6. f.visible[1] = Held(p, c)[1] /\ 1 \in 1 .. Len(Held(p, c)) /\ f.visible[1] \in VCs
        <3>1. /\ f.visible \in Seq(VCs) /\ f.pending \in Seq(VCs) /\ f.unread \in Seq(VCs)
              /\ f.visible # <<>>
            BY <2>4, FP!PutsAreSequences DEF FP!PartsOK
        <3>2. /\ (f.visible \o f.pending) \o f.unread # <<>>
              /\ ((f.visible \o f.pending) \o f.unread)[1] = f.visible[1]
              /\ f.visible[1] \in VCs
            <4>1. \A s, t, u \in Seq(VCs) : s # <<>> =>
                    (s \o t) \o u # <<>> /\ ((s \o t) \o u)[1] = s[1] /\ s[1] \in VCs
                BY FirstOfThree
            <4> HIDE DEF f
            <4> QED BY <3>1, <4>1
        <3>3. Len(Held(p, c)) \in Nat \ {0}
            BY <2>5, EmptySeq
        <3>4. Held(p, c) = (f.visible \o f.pending) \o f.unread
            BY DEF Held
        <3>5. 1 \in 1 .. Len(Held(p, c))
            BY <3>3
        <3> QED BY <3>2, <3>4, <3>5, Zenon
    <2>7. c # Pool => f.visible[1] = c
        BY <2>6 DEF FifoInv, OwnWords
    <2>8. HeadBeat(p, c) \in BeatsOf(p) /\ AccountOf(HeadBeat(p, c)) = c
        BY <2>6, <2>7 DEF HeadBeat, BeatsOf, Beat, AccountOf
    <2>9. p \in pub.done /\ QueueReady(p)
        BY <2>2, <2>5 DEF FifoInv, MayRetire
    <2>10. \A a \in Accounts : Takes(consumer, p, a) <=> a = c
        BY <2>1, <2>2 DEF Takes
    <2> QED BY <2>3, <2>8, <2>9, <2>10
<1>2. CASE \A a \in Accounts : ~Takes(consumer, p, a)
    <2>1. \A b \in Retired(consumer) : b.port # p
        BY <1>2 DEF Retired, HeadBeat, Takes, Selections
    <2> QED BY <1>2, <2>1
<1> QED BY <1>1, <1>2

\* The batch a port's queue grants: a legal return of that port.
LEMMA GrantFacts ==
    ASSUME NEW p, NEW q \in Seq(BeatsOf(p)), q # <<>>
    PROVE  /\ Grant(q) \in CreditReturn /\ Grant(q).port = p
           /\ Grant(q).count = RunLength(q)
           /\ \A i \in 1 .. RunLength(q) : AccountOf(q[i]) = AccountOf(Grant(q))
<1>1. Len(q) \in Nat \ {0}
    BY EmptySeq
<1>2. q[1] \in BeatsOf(p)
    BY <1>1, ElementOfSeq
<1>3. RunLength(q) \in 1 .. MaxBatch /\ \A i \in 1 .. RunLength(q) : q[i] = q[1]
    BY RunFacts
<1>4. Grant(q) \in CreditReturn /\ Grant(q).port = p /\ Grant(q).count = RunLength(q)
    BY <1>2, <1>3 DEF Grant, CreditReturn, BeatsOf, Beat
<1>5. AccountOf(q[1]) = AccountOf(Grant(q))
    BY <1>2 DEF Grant, AccountOf, BeatsOf, Beat
<1> QED BY <1>3, <1>4, <1>5

LEMMA GrantRemoved ==
    ASSUME NEW p, NEW q \in Seq(BeatsOf(p)), q # <<>>,
           NEW rest, rest = AllAfter(q, RunLength(q))
    PROVE  /\ rest \in Seq(BeatsOf(p)) /\ Len(rest) = Len(q) - RunLength(q)
           /\ \A a : CountIn(q, a) = CountIn(rest, a)
                         + (IF AccountOf(Grant(q)) = a THEN RunLength(q) ELSE 0)
<1> DEFINE n == RunLength(q)
           g == Grant(q)
<1>1. n \in Nat /\ n <= Len(q) /\ \A i \in 1 .. n : AccountOf(q[i]) = AccountOf(g)
    BY RunFacts, GrantFacts, AccountFacts
<1>2. rest = AllAfter(q, n)
    OBVIOUS
<1> HIDE DEF n, g
<1>3. ASSUME NEW a
      PROVE  /\ rest \in Seq(BeatsOf(p)) /\ Len(rest) = Len(q) - n
             /\ CountIn(q, a) = CountIn(rest, a) + (IF AccountOf(g) = a THEN n ELSE 0)
    BY <1>1, <1>2, CountInDrop
<1> QED BY <1>3 DEF n, g

\* What a queue loses at an edge is on the wires after it, what it gains is the
\* retired beat.
LEMMA QueueBalance ==
    ASSUME PubInv, QueueInv, FifoInv, NEW consumer \in Selections,
           RetStep(Retired(consumer), IF ReturnConnected(conn.signals) THEN Done ELSE {}),
           NEW p \in Ports
    PROVE  /\ retq'.queues[p] \in Seq(BeatsOf(p)) /\ Len(retq'.queues[p]) <= ReturnDepth
           /\ retq'.queues[p] # <<>> => p \in pub.done
           /\ OnePerPort(retq'.outputs)
           /\ \A r \in retq'.outputs : r.port \in pub.done /\ r \in CreditReturn
           /\ \A a \in Accounts :
                Credited(retq'.outputs, p, a) + Owed(p, a)'
                    = Owed(p, a) + (IF Takes(consumer, p, a) THEN 1 ELSE 0)
<1> DEFINE enabled == IF ReturnConnected(conn.signals) THEN Done ELSE {}
           q == retq.queues[p]
           emits == p \in Emitting(enabled)
           rest == IF emits THEN SubSeq(q, RunLength(q) + 1, Len(q)) ELSE q
           new == {b \in Retired(consumer) : b.port = p}
           q2 == retq'.queues[p]
<1>1. /\ retq' = [queues |-> [x \in Ports |-> QueueAfter(x, Retired(consumer), enabled)],
                  outputs |-> {Grant(retq.queues[x]) : x \in Emitting(enabled)}]
      /\ q2 = rest \o SetToSeq(new)
    BY DEF RetStep, QueueAfter
<1>2. \A x \in Ports : retq.queues[x] \in Seq(BeatsOf(x))
    BY DEF QueueInv
<1>3. \A x \in Emitting(enabled) : x \in pub.done /\ x \in Ports /\ retq.queues[x] # <<>>
    BY DEF Emitting, Done, PubInv
<1>4. emits <=> p \in enabled /\ q # <<>>
    BY DEF Emitting
<1>5. ASSUME NEW r \in retq'.outputs
      PROVE  /\ r \in CreditReturn
             /\ r.port \in Emitting(enabled) /\ r = Grant(retq.queues[r.port])
    <2>1. PICK x \in Emitting(enabled) : r = Grant(retq.queues[x])
        BY <1>1
    <2>2. r \in CreditReturn /\ r.port = x
        BY <1>2, <1>3, <2>1, GrantFacts
    <2> QED BY <2>1, <2>2
<1>6. OnePerPort(retq'.outputs)
    BY <1>5 DEF OnePerPort
<1>7. emits => Grant(q) \in retq'.outputs
    BY <1>1
<1>8. Len(q) \in Nat /\ Len(q) <= ReturnDepth
    BY <1>2, LenProperties DEF QueueInv
<1>9. /\ rest \in Seq(BeatsOf(p)) /\ Len(rest) \in Nat /\ Len(rest) <= Len(q)
      /\ rest # <<>> => q # <<>>
      /\ \A a : CountIn(q, a) = CountIn(rest, a) + Credited(retq'.outputs, p, a)
    <2>1. CASE emits
        <3>1. q # <<>> /\ q \in Seq(BeatsOf(p))
            BY <1>2, <1>4, <2>1
        <3>2. /\ Grant(q).port = p /\ Grant(q).count = RunLength(q)
              /\ \A i \in 1 .. RunLength(q) : AccountOf(q[i]) = AccountOf(Grant(q))
            BY <3>1, GrantFacts
        <3>3. RunLength(q) <= Len(q) /\ RunLength(q) \in Nat
            BY <1>8, <3>1, RunFacts, AccountFacts
        <3>4. /\ rest \in Seq(BeatsOf(p)) /\ Len(rest) = Len(q) - RunLength(q)
              /\ \A a : CountIn(q, a) = CountIn(rest, a)
                            + (IF AccountOf(Grant(q)) = a THEN RunLength(q) ELSE 0)
            <4>1. rest = AllAfter(q, RunLength(q))
                BY <2>1 DEF AllAfter
            <4> HIDE DEF rest, q
            <4> QED BY <3>1, <4>1, GrantRemoved
        <3>5. \A a : Credited(retq'.outputs, p, a) = IF AccountOf(Grant(q)) = a THEN RunLength(q) ELSE 0
            <4> TAKE a
            <4>1. CASE AccountOf(Grant(q)) = a
                BY <1>6, <1>7, <2>1, <3>2, <4>1, CreditedIs
            <4>2. CASE AccountOf(Grant(q)) # a
                BY <1>5, <1>6, <3>2, <4>2, CreditedIs
            <4> QED BY <4>1, <4>2
        <3> HIDE DEF rest, q
        <3> QED BY <1>8, <3>1, <3>3, <3>4, <3>5
    <2>2. CASE ~emits
        <3>1. \A a : Credited(retq'.outputs, p, a) = 0
            BY <1>5, <1>6, <2>2, CreditedIs
        <3>2. rest = q /\ q \in Seq(BeatsOf(p))
            BY <1>2, <2>2
        <3>3. \A a : CountIn(q, a) \in Nat
            BY <3>2, CountInType
        <3> HIDE DEF rest, q
        <3> QED BY <1>8, <3>1, <3>2, <3>3
    <2> QED BY <2>1, <2>2
<1>10. \A a : Owed(p, a) = CountIn(q, a) /\ Owed(p, a)' = CountIn(q2, a)
    BY DEF Owed, CountIn
<1>11. q # <<>> => p \in pub.done
    BY DEF QueueInv
<1>12. \A a : CountIn(rest, a) \in Nat /\ Credited(retq'.outputs, p, a) \in Nat
    <2>1. retq'.outputs \in SUBSET CreditReturn
        BY <1>5
    <2> HIDE DEF rest
    <2> QED BY <1>6, <1>9, <2>1, CountInType, CreditedType
<1>13. ReturnDepth \in Nat
    BY ReturnAssumption
<1> SUFFICES /\ q2 \in Seq(BeatsOf(p)) /\ Len(q2) <= ReturnDepth
             /\ q2 # <<>> => p \in pub.done
             /\ \A a \in Accounts : CountIn(q2, a) = CountIn(rest, a)
                                        + (IF Takes(consumer, p, a) THEN 1 ELSE 0)
    BY <1>3, <1>5, <1>6, <1>9, <1>10, <1>12
<1>14. CASE new = {} /\ \A a \in Accounts : ~Takes(consumer, p, a)
    <2>1. q2 = rest \o <<>>
        BY <1>1, <1>14, SetToSeqFacts
    <2>2. q2 = rest
        BY <1>9, <2>1, ConcatEmptySeq
    <2> HIDE DEF rest, q, q2
    <2> QED BY <1>8, <1>9, <1>11, <1>12, <1>13, <1>14, <2>2
<1>15. ASSUME NEW c \in Accounts, new = {HeadBeat(p, c)},
              HeadBeat(p, c) \in BeatsOf(p), AccountOf(HeadBeat(p, c)) = c,
              \A a \in Accounts : Takes(consumer, p, a) <=> a = c,
              QueueReady(p), p \in pub.done
       PROVE  /\ q2 \in Seq(BeatsOf(p)) /\ Len(q2) <= ReturnDepth
              /\ q2 # <<>> => p \in pub.done
              /\ \A a \in Accounts : CountIn(q2, a) = CountIn(rest, a)
                                        + (IF Takes(consumer, p, a) THEN 1 ELSE 0)
    <2> DEFINE b == HeadBeat(p, c)
    <2>1. SetToSeq(new) = <<b>>
        BY <1>15, SetToSeqFacts
    <2>2. q2 = rest \o <<b>>
        BY <1>1, <2>1
    <2>3. Len(q) < ReturnDepth
        BY <1>15 DEF QueueReady
    <2>4. b \in BeatsOf(p) /\ AccountOf(b) = c
        BY <1>15
    <2> HIDE DEF rest, q2, b, q
    <2>5. q2 = Append(rest, b)
        BY <1>9, <2>2, <2>4, AppendIsConcat
    <2>6. q2 \in Seq(BeatsOf(p)) /\ Len(q2) = Len(rest) + 1
        BY <1>9, <2>4, <2>5, AppendProperties
    <2>7. \A a : CountIn(q2, a) = CountIn(rest, a) + (IF c = a THEN 1 ELSE 0)
        BY <1>9, <2>4, <2>5, CountInAppend
    <2> QED BY <1>8, <1>9, <1>13, <1>15, <2>3, <2>6, <2>7
<1> QED BY <1>14, <1>15, RetiredFacts
-----------------------------------------------------------------------------
(* What the invariant says of one account. *)

LEMMA FifoNames ==
    /\ \A f : FP!Count(f) = F!Count(f) /\ FP!Valid(f) = F!Valid(f)
    /\ \A f, depth, put, consume :
          /\ FP!Accepts(f, depth, put, consume) = F!Accepts(f, depth, put, consume)
          /\ FP!Stepped(f, depth, put, consume) = F!Stepped(f, depth, put, consume)
    /\ \A p, a : FP!Held(fifos[p][a]) = Held(p, a)
<1>1. \A f : FP!Count(f) = F!Count(f) /\ FP!Valid(f) = F!Valid(f)
    BY DEF FP!Count, F!Count, FP!Valid, F!Valid
<1>2. \A f, depth, put, consume :
          FP!Accepts(f, depth, put, consume) = F!Accepts(f, depth, put, consume)
    BY <1>1 DEF FP!Accepts, F!Accepts, FP!Ready, F!Ready
<1>3. \A f, depth, put, consume :
          FP!Stepped(f, depth, put, consume) = F!Stepped(f, depth, put, consume)
    BY DEF FP!Stepped, F!Stepped, FP!RoomToRead, F!RoomToRead, FP!Cache, F!Cache, FP!Valid,
           F!Valid, FP!Accepts, F!Accepts, FP!Ready, F!Ready, FP!Count, F!Count
<1>4. \A p, a : FP!Held(fifos[p][a]) = Held(p, a)
    BY DEF FP!Held, Held
<1> QED BY <1>1, <1>2, <1>3, <1>4

LEMMA AccountNumbers ==
    ASSUME LoopInv, NEW p \in Ports, NEW a \in Accounts
    PROVE  /\ ledger.balances[p][a] \in Nat
           /\ Credited(pub.returns, p, a) \in Nat /\ Credited(retq.outputs, p, a) \in Nat
           /\ F!Count(fifos[p][a]) \in Nat /\ Owed(p, a) \in Nat /\ Unpublished(p, a) \in Nat
           /\ Capacity[p][a] \in Nat
           /\ ledger.balances[p][a] + Credited(pub.returns, p, a) + Credited(retq.outputs, p, a)
                + F!Count(fifos[p][a]) + Owed(p, a) + Unpublished(p, a) = Capacity[p][a]
<1>1. ledger.balances[p][a] \in Nat
    BY DEF LoopInv, LedgerInv
<1>2. Credited(pub.returns, p, a) \in Nat
    BY CreditedType DEF LoopInv, PubInv
<1>3. Credited(retq.outputs, p, a) \in Nat
    BY CreditedType DEF LoopInv, QueueInv
<1>4. F!Count(fifos[p][a]) \in Nat
    <2>1. FP!PartsOK(fifos[p][a])
        BY DEF LoopInv, FifoInv
    <2>2. FP!Count(fifos[p][a]) \in Nat
        BY <2>1, FP!HeldLength, LenProperties
    <2> QED BY <2>2, FifoNames
<1>5. Owed(p, a) \in Nat
    <2>1. retq.queues[p] \in Seq(BeatsOf(p))
        BY DEF LoopInv, QueueInv
    <2>2. CountIn(retq.queues[p], a) \in Nat
        BY <2>1, CountInType
    <2> QED BY <2>2 DEF Owed, CountIn
<1>6. Unpublished(p, a) \in Nat
    <2>1. pub.position[p].sent \in Nat
          /\ (pub.position[p].account = a => pub.position[p].sent <= Capacity[p][a])
        <3>1. PubInv /\ a \in Nat /\ a <= Pool /\ Pool \in Nat
            BY AccountFacts DEF LoopInv, Accounts
        <3>2. pub.position[p].account = a => ~Published(p)
            BY <3>1 DEF Published
        <3> QED BY <3>1, <3>2 DEF PubInv
    <2> QED BY <2>1, AccountFacts DEF Unpublished
<1>7. Capacity[p][a] \in Nat
    BY AccountFacts
<1>8. CreditConservation
    BY DEF LoopInv
<1> QED BY <1>1, <1>2, <1>3, <1>4, <1>5, <1>6, <1>7, <1>8 DEF CreditConservation

\* A confirmed port is done.
LEMMA ConfirmedIsDone ==
    ASSUME LoopInv, NEW p \in ledger.initialized
    PROVE  p \in Ports /\ p \in watch /\ p \in pub.done
BY AccountFacts DEF LoopInv, LedgerInv

\* There is storage for a beat that a credit was there for.
LEMMA StorageForCredit ==
    ASSUME LoopInv, NEW b \in Sendable
    PROVE  /\ b \in Beat /\ b.port \in Ports /\ AccountOf(b) \in Accounts
           /\ Diagnostic(conn.signals, b) = 0
           /\ F!Count(fifos[b.port][AccountOf(b)]) < Capacity[b.port][AccountOf(b)]
           /\ ledger.balances[b.port][AccountOf(b)] >= 1
           /\ b.port \in pub.done
<1> DEFINE p == b.port
           a == AccountOf(b)
<1>1. b \in Beat /\ BeatPermitted(conn.signals, b)
    BY DEF Sendable
<1>2. p \in Ports /\ a \in Accounts /\ p \in pub.done
    BY <1>1, AccountFacts, ConfirmedIsDone DEF BeatPermitted, Beat
<1>3. ledger.balances[p][a] >= 1
    BY <1>1 DEF BeatPermitted
<1>4. F!Count(fifos[p][a]) < Capacity[p][a]
    <2> HIDE DEF p, a
    <2> QED BY <1>2, <1>3, AccountNumbers
<1>5. Diagnostic(conn.signals, b) = 0
    BY <1>1, <1>2, <1>4 DEF Diagnostic, BeatPermitted, Done, F!Ready
<1> QED BY <1>1, <1>2, <1>3, <1>4, <1>5
-----------------------------------------------------------------------------
(* The storage. *)

\* No beat, or one the ledger permits.
OneBeat(incoming) == incoming = {} \/ \E b \in Sendable : incoming = {b}

\* What reaches the FIFO of an account at an edge.
PutAt(incoming, p, a) ==
    LET mine == {b \in {c \in incoming : Diagnostic(conn.signals, c) = 0} :
                    b.port = p /\ AccountOf(b) = a}
    IN  IF mine = {} THEN <<>> ELSE <<(CHOOSE b \in mine : TRUE).vc>>

\* The beat is stored in its account, and nothing in the others.
LEMMA PutFacts ==
    ASSUME LoopInv, NEW incoming, OneBeat(incoming), NEW p \in Ports, NEW a \in Accounts
    PROVE  \/ PutAt(incoming, p, a) = <<>> /\ Spent(incoming, p, a) = 0
           \/ \E w \in VCs :
                /\ PutAt(incoming, p, a) = <<w>> /\ Spent(incoming, p, a) = 1
                /\ a # Pool => w = a
                /\ F!Count(fifos[p][a]) < Capacity[p][a] /\ ledger.balances[p][a] >= 1
                /\ p \in pub.done
<1> DEFINE mine == {b \in {c \in incoming : Diagnostic(conn.signals, c) = 0} :
                       b.port = p /\ AccountOf(b) = a}
<1>1. CASE \E b \in incoming : b.port = p /\ AccountOf(b) = a
    <2>1. PICK b \in Sendable : incoming = {b} /\ b.port = p /\ AccountOf(b) = a
        BY <1>1 DEF OneBeat
    <2>2. /\ b \in Beat /\ Diagnostic(conn.signals, b) = 0
          /\ F!Count(fifos[p][a]) < Capacity[p][a] /\ ledger.balances[p][a] >= 1
          /\ p \in pub.done
        BY <2>1, StorageForCredit
    <2>3. mine = {b}
        BY <2>1, <2>2
    <2>4. PutAt(incoming, p, a) = <<b.vc>>
        <3>1. (CHOOSE c \in mine : TRUE) = b
            BY <2>3
        <3> QED BY <2>3, <3>1 DEF PutAt
    <2>5. b.vc \in VCs /\ (a # Pool => b.vc = a)
        BY <2>1, <2>2 DEF Beat, AccountOf
    <2>6. Spent(incoming, p, a) = 1
        BY <1>1 DEF Spent
    <2> QED BY <2>2, <2>4, <2>5, <2>6
<1>2. CASE ~\E b \in incoming : b.port = p /\ AccountOf(b) = a
    <2>1. mine = {}
        BY <1>2
    <2>2. PutAt(incoming, p, a) = <<>>
        BY <2>1 DEF PutAt
    <2>3. Spent(incoming, p, a) = 0
        BY <1>2 DEF Spent
    <2> QED BY <2>2, <2>3
<1> QED BY <1>1, <1>2

LEMMA StoredIs ==
    ASSUME NEW incoming, NEW consumer \in Selections,
           ReceiveStep(conn.signals, incoming, consumer), NEW p \in Ports, NEW a \in Accounts
    PROVE  fifos'[p][a] = F!Stepped(fifos[p][a], Capacity[p][a], PutAt(incoming, p, a),
                                    Takes(consumer, p, a))
<1>1. <<p, a>> \in {c \in consumer : MayRetire(c[1], c[2])} <=> Takes(consumer, p, a)
    <2>1. <<p, a>>[1] = p /\ <<p, a>>[2] = a
        OBVIOUS
    <2> QED BY <2>1, Zenon DEF Takes
<1>2. fifos'[p][a] = F!Stepped(fifos[p][a], Capacity[p][a], PutAt(incoming, p, a),
                               <<p, a>> \in {c \in consumer : MayRetire(c[1], c[2])})
    BY DEF ReceiveStep, PutAt
<1> QED BY <1>1, <1>2 DEF F!Stepped, F!RoomToRead, F!Accepts

\* A word of the head or a stored word keeps to its account.
LEMMA OwnWordsKept ==
    ASSUME NEW h \in Seq(VCs), NEW h2, NEW put, NEW depth, NEW a,
           FP!QueueMove(h, h2, put, depth), OwnWords(h, a),
           \A w : put = <<w>> /\ a # Pool => w = a
    PROVE  OwnWords(h2, a)
<1> SUFFICES ASSUME a # Pool, NEW i \in 1 .. Len(h2)
             PROVE  h2[i] = a
    BY DEF OwnWords
<1>1. \A j \in 1 .. Len(h) : h[j] = a
    BY DEF OwnWords
<1>2. Len(h) \in Nat
    BY LenProperties
<1>3. ASSUME NEW w \in VCs, put = <<w>>, h2 = Append(h, w)
      PROVE  h2[i] = a
    <2>1. Len(h2) = Len(h) + 1 /\ h2[Len(h) + 1] = w /\ \A j \in 1 .. Len(h) : h2[j] = h[j]
        BY <1>3, AppendProperties
    <2>2. i \in 1 .. Len(h) \/ i = Len(h) + 1
        BY <1>2, <2>1
    <2> QED BY <1>1, <1>3, <2>1, <2>2
<1>4. ASSUME h # <<>>
      PROVE  /\ Tail(h) \in Seq(VCs) /\ Len(Tail(h)) \in Nat
             /\ \A j \in 1 .. Len(Tail(h)) : Tail(h)[j] = a
    <2>1. Tail(h) \in Seq(VCs) /\ Len(Tail(h)) = Len(h) - 1
          /\ \A j \in 1 .. Len(Tail(h)) : Tail(h)[j] = h[j + 1]
        BY <1>4, HeadTailProperties
    <2>2. \A j \in 1 .. Len(Tail(h)) : j + 1 \in 1 .. Len(h)
        BY <1>2, <2>1
    <2> QED BY <1>1, <2>1, <2>2, LenProperties
<1>5. ASSUME h # <<>>, NEW w \in VCs, put = <<w>>, h2 = Append(Tail(h), w)
      PROVE  h2[i] = a
    <2> DEFINE t == Tail(h)
    <2>1. t \in Seq(VCs) /\ Len(t) \in Nat /\ \A j \in 1 .. Len(t) : t[j] = a
        BY <1>4, <1>5
    <2> HIDE DEF t
    <2>2. Len(h2) = Len(t) + 1 /\ h2[Len(t) + 1] = w /\ \A j \in 1 .. Len(t) : h2[j] = t[j]
        BY <1>5, <2>1, AppendProperties DEF t
    <2>3. i \in 1 .. Len(t) \/ i = Len(t) + 1
        BY <2>1, <2>2
    <2> QED BY <1>5, <2>1, <2>2, <2>3
<1> QED BY <1>1, <1>3, <1>4, <1>5 DEF FP!QueueMove

\* An edge of the storage: the FIFO of every account moves as a queue, gains the
\* beat spent on the account and loses the one taken from it.
LEMMA FifoBalance ==
    ASSUME LoopInv, NEW incoming, OneBeat(incoming), NEW consumer \in Selections,
           ReceiveStep(conn.signals, incoming, consumer), NEW p \in Ports, NEW a \in Accounts
    PROVE  /\ FP!PartsOK(fifos'[p][a]) /\ F!Count(fifos'[p][a]) <= Capacity[p][a]
           /\ F!Count(fifos'[p][a]) = F!Count(fifos[p][a]) + Spent(incoming, p, a)
                                        - (IF Takes(consumer, p, a) THEN 1 ELSE 0)
           /\ Held(p, a)' # <<>> => p \in pub.done
           /\ OwnWords(Held(p, a)', a)
           /\ FP!QueueMove(Held(p, a), Held(p, a)', PutAt(incoming, p, a), Capacity[p][a])
<1> DEFINE f == fifos[p][a]
           g == fifos'[p][a]
           put == PutAt(incoming, p, a)
           takes == Takes(consumer, p, a)
<1>1. /\ FP!PartsOK(f) /\ F!Count(f) <= Capacity[p][a] /\ OwnWords(Held(p, a), a)
      /\ Held(p, a) # <<>> => p \in pub.done
    BY DEF LoopInv, FifoInv
<1>2. Capacity[p][a] \in Nat
    BY AccountFacts
<1>3. put \in FP!Puts /\ takes \in BOOLEAN /\ (takes => FP!Valid(f))
    <2>1. put \in FP!Puts
        BY PutFacts DEF FP!Puts
    <2>2. takes => FP!Valid(f)
        BY FifoNames DEF Takes, MayRetire
    <2> QED BY <2>1, <2>2 DEF Takes
<1>4. FP!Accepts(f, Capacity[p][a], put, takes) <=> Spent(incoming, p, a) = 1
    BY PutFacts, FifoNames DEF FP!Accepts, FP!Ready
<1>5. Spent(incoming, p, a) = IF FP!Accepts(f, Capacity[p][a], put, takes) THEN 1 ELSE 0
    BY <1>4 DEF Spent
<1>6. g = FP!Stepped(f, Capacity[p][a], put, takes)
    BY StoredIs, FifoNames
<1>7. FP!Count(f) <= Capacity[p][a]
    BY <1>1, FifoNames
<1> HIDE DEF f, g, put, takes
<1>8. /\ FP!QueueMove(FP!Held(f), FP!Held(g), put, Capacity[p][a])
      /\ FP!PartsOK(g) /\ FP!Count(g) <= Capacity[p][a]
      /\ FP!Count(g) = FP!Count(f)
            + (IF FP!Accepts(f, Capacity[p][a], put, takes) THEN 1 ELSE 0)
            - (IF takes /\ FP!Valid(f) THEN 1 ELSE 0)
    BY <1>1, <1>2, <1>3, <1>6, <1>7, FP!SteppedMove
<1>9. FP!Held(f) = Held(p, a) /\ FP!Held(g) = Held(p, a)'
    BY DEF FP!Held, Held, f, g
<1>10. Held(p, a) \in Seq(VCs)
    BY <1>1, <1>9, FP!HeldLength
<1>11. FP!QueueMove(Held(p, a), Held(p, a)', put, Capacity[p][a])
    BY <1>8, <1>9
<1>12. \A w : put = <<w>> /\ a # Pool => w = a
    BY PutFacts DEF put
<1>13. OwnWords(Held(p, a)', a)
    BY <1>1, <1>10, <1>11, <1>12, OwnWordsKept
<1>14. Held(p, a)' # <<>> => p \in pub.done
    <2>1. Held(p, a) = <<>> /\ Held(p, a)' # <<>> => \E w : put = <<w>>
        BY <1>11 DEF FP!QueueMove
    <2>2. (\E w : put = <<w>>) => p \in pub.done
        BY PutFacts DEF put
    <2> QED BY <1>1, <2>1, <2>2
<1>15. F!Count(g) = F!Count(f) + Spent(incoming, p, a) - (IF takes THEN 1 ELSE 0)
    BY <1>3, <1>5, <1>8, FifoNames
<1>16. FP!PartsOK(g) /\ F!Count(g) <= Capacity[p][a]
    BY <1>8, FifoNames
<1> QED BY <1>11, <1>13, <1>14, <1>15, <1>16 DEF f, g, put, takes
-----------------------------------------------------------------------------
(* Steps. *)

\* The returns on the wires add up, at most one per port.
LEMMA ReturnsFacts ==
    ASSUME LoopInv
    PROVE  /\ OnePerPort(Returns)
           /\ ReservationsDisjoint
           /\ Returns # {} => ReturnConnected(conn.signals)
           /\ Done # {} => ReturnConnected(conn.signals)
           /\ \A p, a : Credited(Returns, p, a)
                            = Credited(pub.returns, p, a) + Credited(retq.outputs, p, a)
<1>1. ReservationsDisjoint
    BY DEF LoopInv, PubInv, QueueInv, ReservationsDisjoint
<1>2. /\ pub.returns \in SUBSET CreditReturn /\ OnePerPort(pub.returns)
      /\ retq.outputs \in SUBSET CreditReturn /\ OnePerPort(retq.outputs)
    BY DEF LoopInv, PubInv, QueueInv
<1>3. ~pub.connected_once => pub.returns = {} /\ pub.done = {}
    BY DEF LoopInv, PubInv, PubReset
<1>4. retq.outputs # {} => pub.done # {}
    BY DEF LoopInv, QueueInv
<1>5. pub.connected_once => ReturnConnected(conn.signals)
    BY DEF LoopInv, PubInv
<1>6. /\ OnePerPort(Returns)
      /\ \A p, a : Credited(Returns, p, a)
                      = Credited(pub.returns, p, a) + Credited(retq.outputs, p, a)
    <2> DEFINE left == pub.returns
               right == retq.outputs
    <2>1. Returns = left \cup right
        BY DEF Returns
    <2>2. \A r1 \in left, r2 \in right : r1.port # r2.port
        BY <1>1 DEF ReservationsDisjoint
    <2> HIDE DEF left, right
    <2>3. /\ left \in SUBSET CreditReturn /\ OnePerPort(left)
          /\ right \in SUBSET CreditReturn /\ OnePerPort(right)
        BY <1>2 DEF left, right
    <2>4. /\ OnePerPort(left \cup right)
          /\ \A p, a : Credited(left \cup right, p, a) = Credited(left, p, a) + Credited(right, p, a)
        BY <2>2, <2>3, CreditedUnion
    <2> QED BY <2>1, <2>4 DEF left, right
<1>7. Returns # {} => pub.connected_once
    BY <1>3, <1>4 DEF Returns
<1> QED BY <1>1, <1>3, <1>5, <1>6, <1>7 DEF Done

LEMMA LedgerKept ==
    ASSUME LoopInv, NEW incoming, OneBeat(incoming),
           LedgerStep(conn.signals, Returns, incoming, Done), WatchStep(Done)
    PROVE  /\ LedgerInv'
           /\ \A p \in Ports, a \in Accounts :
                ledger'.balances[p][a] = ledger.balances[p][a] + Credited(Returns, p, a)
                                            - Spent(incoming, p, a)
<1>1. ledger' =
         [balances    |-> [p \in Ports |-> [a \in Accounts |->
                              BalanceAfter(Returns, incoming, p, a)]],
          streaks     |-> [p \in Ports |-> IF p \in ledger.initialized
                              THEN ledger.streaks[p] ELSE StreakAfter(Done, p)],
          initialized |-> ledger.initialized \cup
                          {p \in Ports : StreakAfter(Done, p) >= InitStable}]
    BY DEF LedgerStep
<1>2. \A p \in Ports, a \in Accounts : BalanceAfter(Returns, incoming, p, a) \in Nat
    BY AccountFacts DEF LedgerStep, LedgerAccepts
<1>3. LedgerInv
    BY DEF LoopInv
<1>4. watch' = pub.done /\ watch \subseteq pub.done
    BY DEF LoopInv, WatchStep, Done
<1>5. ASSUME NEW p \in Ports
      PROVE  /\ ledger.streaks[p] \in 0 .. InitStable
             /\ StreakAfter(Done, p) \in Nat
             /\ ~(p \in ledger.initialized) => StreakAfter(Done, p) \in 0 .. InitStable
             /\ StreakAfter(Done, p) > 0 => p \in pub.done
             /\ p \in ledger.initialized <=> ledger.streaks[p] = InitStable
             /\ p \in ledger.initialized => p \in pub.done
    <2>1. ledger.streaks[p] \in 0 .. InitStable /\ (p \in ledger.initialized <=> ledger.streaks[p] = InitStable)
        BY <1>3 DEF LedgerInv
    <2>2. StreakAfter(Done, p) = IF p \in pub.done THEN ledger.streaks[p] + 1 ELSE 0
        BY DEF StreakAfter, Done
    <2>3. p \in ledger.initialized => p \in pub.done
        BY ConfirmedIsDone
    <2> QED BY <2>1, <2>2, <2>3, AccountFacts
<1>6. ledger' \in [balances : [Ports -> [Accounts -> Nat]],
                   streaks : [Ports -> 0 .. InitStable], initialized : SUBSET Ports]
    <2>1. ledger.initialized \subseteq Ports
        BY <1>3 DEF LedgerInv
    <2> QED BY <1>1, <1>2, <1>5, <2>1
<1>7. \A p \in Ports : p \in ledger'.initialized <=> ledger'.streaks[p] = InitStable
    <2> TAKE p \in Ports
    <2>1. ledger'.streaks[p] = IF p \in ledger.initialized THEN ledger.streaks[p]
                               ELSE StreakAfter(Done, p)
        BY <1>1
    <2>2. p \in ledger'.initialized <=> p \in ledger.initialized \/ StreakAfter(Done, p) >= InitStable
        BY <1>1
    <2> QED BY <1>5, <2>1, <2>2, AccountFacts
<1>8. \A p \in Ports : ledger'.streaks[p] > 0 => p \in watch'
    <2> TAKE p \in Ports
    <2>1. ledger'.streaks[p] = IF p \in ledger.initialized THEN ledger.streaks[p]
                               ELSE StreakAfter(Done, p)
        BY <1>1
    <2> QED BY <1>4, <1>5, <2>1
<1>9. LedgerInv'
    BY <1>6, <1>7, <1>8 DEF LedgerInv
<1>10. \A p \in Ports, a \in Accounts :
            ledger'.balances[p][a] = BalanceAfter(Returns, incoming, p, a)
    BY <1>1
<1> QED BY <1>9, <1>10 DEF BalanceAfter

\* An edge out of reset.
LEMMA DataEdgeKeeps ==
    ASSUME LoopInv, NEW incoming, OneBeat(incoming), NEW consumer \in Selections,
           DataEdge(incoming, consumer), ConnInv',
           ReturnConnected(conn.signals) => ReturnConnected(conn'.signals)
    PROVE  LoopInv'
<1>1. /\ LedgerStep(conn.signals, Returns, incoming, Done)
      /\ ReceiveStep(conn.signals, incoming, consumer)
      /\ WatchStep(Done)
    BY DEF DataEdge
<1>2. /\ PubStep(conn.signals)
      /\ RetStep(Retired(consumer), IF ReturnConnected(conn.signals) THEN Done ELSE {})
    BY <1>1 DEF ReceiveStep
<1>3. PubInv /\ QueueInv /\ FifoInv
    BY DEF LoopInv
<1>4. PubInv' /\ pub.done \subseteq pub'.done
    BY <1>2, <1>3, PublisherKept
<1>5. watch' = pub.done /\ watch' \subseteq pub'.done
    BY <1>1, <1>4 DEF WatchStep, Done
<1>6. LedgerInv' /\ \A p \in Ports, a \in Accounts :
                ledger'.balances[p][a] = ledger.balances[p][a] + Credited(Returns, p, a)
                                            - Spent(incoming, p, a)
    BY <1>1, LedgerKept
<1>7. QueueInv'
    <2>1. \A p \in Ports : /\ retq'.queues[p] \in Seq(BeatsOf(p)) /\ Len(retq'.queues[p]) <= ReturnDepth
                           /\ retq'.queues[p] # <<>> => p \in pub'.done
        BY <1>2, <1>3, <1>4, QueueBalance
    <2>2. OnePerPort(retq'.outputs) /\ \A r \in retq'.outputs : r.port \in watch' /\ r \in CreditReturn
        <3>1. CASE Ports = {}
            <4>1. retq'.outputs = {}
                BY <1>2, <3>1 DEF RetStep, Emitting, Done, PubInv, LoopInv
            <4> QED BY <4>1 DEF OnePerPort
        <3>2. CASE \E p \in Ports : TRUE
            BY <1>2, <1>3, <1>5, <3>2, QueueBalance
        <3> QED BY <3>1, <3>2
    <2>3. \A p \in Ports : retq'.queues[p] \in Seq(Beat)
        <3>1. \A p : BeatsOf(p) \subseteq Beat
            BY DEF BeatsOf
        <3> QED BY <2>1, <3>1, SeqMonotonic
    <2>4. retq' \in [queues : [Ports -> Seq(Beat)], outputs : SUBSET CreditReturn]
        BY <1>2, <2>2, <2>3 DEF RetStep
    <2> QED BY <2>1, <2>2, <2>4 DEF QueueInv
<1>8. FifoInv'
    BY <1>1, <1>4, FifoBalance DEF FifoInv
<1>9. CreditConservation'
    <2> SUFFICES ASSUME NEW p \in Ports, NEW a \in Accounts
                 PROVE  ledger'.balances[p][a] + Credited(pub'.returns, p, a)
                            + Credited(retq'.outputs, p, a) + F!Count(fifos'[p][a])
                            + Owed(p, a)' + Unpublished(p, a)' = Capacity[p][a]
        BY DEF CreditConservation
    <2> DEFINE spent == Spent(incoming, p, a)
               taken == IF Takes(consumer, p, a) THEN 1 ELSE 0
    <2>1. ledger'.balances[p][a] = ledger.balances[p][a] + Credited(pub.returns, p, a)
                                    + Credited(retq.outputs, p, a) - spent
        <3>1. ledger'.balances[p][a] = ledger.balances[p][a] + Credited(Returns, p, a) - spent
            BY <1>6
        <3>2. Credited(Returns, p, a) = Credited(pub.returns, p, a) + Credited(retq.outputs, p, a)
            BY ReturnsFacts
        <3>3. spent \in Nat
            BY DEF Spent
        <3> HIDE DEF spent
        <3> QED BY <3>1, <3>2, <3>3, AccountNumbers
    <2>2. Credited(pub'.returns, p, a) + Unpublished(p, a)' = Unpublished(p, a)
        BY <1>2, <1>3, PublisherBalance
    <2>3. Credited(retq'.outputs, p, a) + Owed(p, a)' = Owed(p, a) + taken
        BY <1>2, <1>3, QueueBalance
    <2>4. F!Count(fifos'[p][a]) = F!Count(fifos[p][a]) + spent - taken
        BY <1>1, FifoBalance
    <2>5. spent \in Nat /\ taken \in Nat
        BY DEF Spent
    <2>6. /\ Credited(pub'.returns, p, a) \in Nat /\ Credited(retq'.outputs, p, a) \in Nat
        BY <1>4, <1>7, CreditedType DEF PubInv, QueueInv
    <2>7. Owed(p, a)' \in Nat
        <3>1. CountIn(retq'.queues[p], a) \in Nat
            BY <1>7, CountInType DEF QueueInv
        <3> QED BY <3>1 DEF Owed, CountIn
    <2>8. Unpublished(p, a)' \in Int
        <3>1. pub'.position[p].sent \in Nat
            BY <1>4 DEF PubInv
        <3> QED BY <3>1, AccountFacts DEF Unpublished
    <2> HIDE DEF spent, taken
    <2>9. /\ ledger.balances[p][a] \in Nat
          /\ Credited(pub.returns, p, a) \in Nat /\ Credited(retq.outputs, p, a) \in Nat
          /\ F!Count(fifos[p][a]) \in Nat /\ Owed(p, a) \in Nat /\ Unpublished(p, a) \in Nat
          /\ Capacity[p][a] \in Nat
          /\ ledger.balances[p][a] + Credited(pub.returns, p, a) + Credited(retq.outputs, p, a)
                + F!Count(fifos[p][a]) + Owed(p, a) + Unpublished(p, a) = Capacity[p][a]
        BY AccountNumbers
    <2> QED BY <2>1, <2>2, <2>3, <2>4, <2>5, <2>6, <2>7, <2>8, <2>9
<1> QED BY <1>4, <1>5, <1>6, <1>7, <1>8, <1>9 DEF LoopInv

\* What a reset leaves behind, at the start and later.
ResetState == ConnInv /\ LedgerInit /\ ReceiveInit /\ WatchInit

LEMMA ResetHolds == ResetState => LoopInv
<1> SUFFICES ASSUME ResetState PROVE LoopInv
    OBVIOUS
<1>1. /\ ledger = LedgerReset /\ pub = PubReset /\ retq = RetReset /\ watch = {}
      /\ fifos = [p \in Ports |-> [a \in Accounts |-> F!EmptyFifo]]
    BY DEF ResetState, LedgerInit, ReceiveInit, RetInit, WatchInit
<1>2. /\ Pool + 1 \in Nat /\ 0 \in 0 .. (Pool + 1) /\ ~(0 > Pool) /\ 0 \in Accounts
      /\ InitStable \in Nat /\ InitStable > 1 /\ ReturnDepth \in Nat
    BY AccountFacts, ReturnAssumption DEF Accounts
<1>3. \A S : OnePerPort({}) /\ <<>> \in Seq(S) /\ Len(<<>>) = 0
    BY EmptySeq DEF OnePerPort
<1>4. PubInv
    <2>1. PubReset \in [position : [Ports -> [account : 0 .. (Pool + 1), sent : Nat]],
                        connected_once : BOOLEAN, returns : SUBSET CreditReturn, done : SUBSET Ports]
        BY <1>2 DEF PubReset
    <2>2. \A p \in Ports : pub.position[p].sent = 0 /\ pub.position[p].account = 0
        BY <1>1 DEF PubReset
    <2>3. \A p \in Ports : pub.position[p].sent <= Capacity[p][pub.position[p].account]
        BY <1>2, <2>2, AccountFacts
    <2>4. pub.returns = {} /\ pub.done = {} /\ ~pub.connected_once
        BY <1>1 DEF PubReset
    <2> QED BY <1>1, <1>3, <2>1, <2>3, <2>4 DEF PubInv
<1>5. QueueInv
    BY <1>1, <1>2, <1>3 DEF QueueInv, RetReset
<1>6. /\ FP!PartsOK(F!EmptyFifo) /\ F!Count(F!EmptyFifo) = 0
      /\ \A p \in Ports, a \in Accounts : fifos[p][a] = F!EmptyFifo /\ Held(p, a) = <<>>
    <2>1. F!EmptyFifo = FP!EmptyFifo
        BY DEF F!EmptyFifo, FP!EmptyFifo
    <2>2. /\ FP!PartsOK(F!EmptyFifo) /\ F!Count(F!EmptyFifo) = 0 /\ FP!Held(F!EmptyFifo) = <<>>
        BY <2>1, FP!EmptyFifoHolds, FifoNames
    <2>3. \A p \in Ports, a \in Accounts : fifos[p][a] = F!EmptyFifo
        BY <1>1
    <2> QED BY <2>2, <2>3, FifoNames
<1>7. FifoInv
    BY <1>3, <1>6, AccountFacts DEF FifoInv, OwnWords
<1>8. LedgerInv
    BY <1>1, <1>2 DEF LedgerInv, LedgerReset
<1>9. CreditConservation
    <2> SUFFICES ASSUME NEW p \in Ports, NEW a \in Accounts
                 PROVE  ledger.balances[p][a] + Credited(pub.returns, p, a)
                            + Credited(retq.outputs, p, a) + F!Count(fifos[p][a])
                            + Owed(p, a) + Unpublished(p, a) = Capacity[p][a]
        BY DEF CreditConservation
    <2>1. ledger.balances[p][a] = 0
        BY <1>1 DEF LedgerReset
    <2>2. Credited(pub.returns, p, a) = 0 /\ Credited(retq.outputs, p, a) = 0
        BY <1>1, <1>3, CreditedIs DEF PubReset, RetReset
    <2>3. F!Count(fifos[p][a]) = 0
        BY <1>6
    <2>4. Owed(p, a) = 0
        BY <1>1, CountInEmpty DEF Owed, CountIn, RetReset
    <2>5. Unpublished(p, a) = Capacity[p][a]
        BY <1>1, AccountFacts DEF Unpublished, PubReset, Accounts
    <2> QED BY <2>1, <2>2, <2>3, <2>4, <2>5, AccountFacts
<1> QED BY <1>1, <1>4, <1>5, <1>7, <1>8, <1>9 DEF LoopInv, ResetState

LEMMA InitHolds == Init => LoopInv
<1>1. Init => ConnInv
    BY DEF Init, ConnInit, ConnInv, Signals, Down
<1> QED BY <1>1, ResetHolds DEF Init, ResetState

\* A connection, once made, lasts to the next reset.
LEMMA HandshakeKeeps ==
    ASSUME ConnInv, NEW orig_ready \in BOOLEAN, NEW comp_ready \in BOOLEAN,
           Handshake(orig_ready, comp_ready)
    PROVE  ConnInv' /\ (ReturnConnected(conn.signals) => ReturnConnected(conn'.signals))
<1>1. /\ conn.signals \in Signals
      /\ conn'.signals = Advanced(conn.signals, orig_ready, comp_ready)
      /\ conn' \in [signals : {Advanced(conn.signals, orig_ready, comp_ready)},
                    reset_n : BOOLEAN, reset_low_cycles : Nat]
      /\ conn'.reset_n
    BY DEF ConnInv, Handshake
<1>2. Advanced(conn.signals, orig_ready, comp_ready) \in Signals
    BY <1>1, ConnectionAssumption DEF Advanced, Signals, OrigConnected
<1>3. ReturnConnected(conn.signals) => ReturnConnected(conn'.signals)
    BY <1>1 DEF Advanced, ReturnConnected
<1> QED BY <1>1, <1>2, <1>3 DEF ConnInv

LEMMA NextKeeps == LoopInv /\ [Next]_vars => LoopInv'
<1> SUFFICES ASSUME LoopInv, [Next]_vars PROVE LoopInv'
    OBVIOUS
<1>0. ConnInv /\ {} \in Selections /\ OneBeat({})
    BY DEF LoopInv, Selections, OneBeat
<1>1. CASE ResetEdge
    <2>1. ConnInv'
        BY <1>0, <1>1, ConnectionAssumption DEF ResetEdge, HoldReset, ConnInv, Signals, Down
    <2>2. ResetState'
        BY <1>1, <2>1 DEF ResetEdge, ResetLedger, ResetReceive, ResetWatch, ResetQueue, ResetState,
                          LedgerInit, ReceiveInit, RetInit, WatchInit
    <2>3. (ResetState => LoopInv)'
        BY ResetHolds, PTL
    <2> QED BY <2>2, <2>3
<1>2. CASE ReleaseEdge
    <2>1. ConnInv' /\ ~ReturnConnected(conn.signals)
        BY <1>0, <1>2 DEF ReleaseEdge, ReleaseReset, ConnInv, Signals, Down, ReturnConnected
    <2> QED BY <1>0, <1>2, <2>1, DataEdgeKeeps DEF ReleaseEdge
<1>3. ASSUME NEW orig_ready \in BOOLEAN, NEW comp_ready \in BOOLEAN, NEW consumer \in Selections,
             ConnectEdge(orig_ready, comp_ready, consumer)
      PROVE  LoopInv'
    <2>1. ConnInv' /\ (ReturnConnected(conn.signals) => ReturnConnected(conn'.signals))
        BY <1>0, <1>3, HandshakeKeeps DEF ConnectEdge
    <2> QED BY <1>0, <1>3, <2>1, DataEdgeKeeps DEF ConnectEdge
<1>4. ASSUME NEW b \in Beat, NEW consumer \in Selections, BeatEdge(b, consumer)
      PROVE  LoopInv'
    <2>1. ConnInv' /\ (ReturnConnected(conn.signals) => ReturnConnected(conn'.signals))
        BY <1>0, <1>4, HandshakeKeeps DEF BeatEdge
    <2>2. OneBeat({b})
        BY <1>4 DEF BeatEdge, OneBeat
    <2> QED BY <1>4, <2>1, <2>2, DataEdgeKeeps DEF BeatEdge
<1>5. CASE UNCHANGED vars
    <2>1. /\ conn' = conn /\ ledger' = ledger /\ pub' = pub /\ retq' = retq
          /\ fifos' = fifos /\ watch' = watch
        BY <1>5 DEF vars, receiver
    <2>2. ConnInv' <=> ConnInv
        BY <2>1 DEF ConnInv
    <2>3. PubInv' <=> PubInv
        BY <2>1 DEF PubInv, Published
    <2>4. QueueInv' <=> QueueInv
        BY <2>1 DEF QueueInv
    <2>5. FifoInv' <=> FifoInv
        BY <2>1 DEF FifoInv, Held
    <2>6. LedgerInv' <=> LedgerInv
        BY <2>1 DEF LedgerInv
    <2>7. CreditConservation' <=> CreditConservation
        BY <2>1 DEF CreditConservation, Owed, Unpublished
    <2> QED BY <2>1, <2>2, <2>3, <2>4, <2>5, <2>6, <2>7 DEF LoopInv
<1> QED BY <1>1, <1>2, <1>3, <1>4, <1>5 DEF Next
-----------------------------------------------------------------------------
(* Theorems. *)

\* The invariant the rest follows from: who may carry credits of a port when,
\* and that they balance (upli_credit.py:128-172, upli_receive.py:110-154).
THEOREM LoopInvariant == Spec => []LoopInv
<1>1. Init => LoopInv
    BY InitHolds
<1>2. LoopInv /\ [Next]_vars => LoopInv'
    BY NextKeeps
<1> QED BY <1>1, <1>2, PTL DEF Spec

\* No storage place is ever lost or counted twice, for any storage, batch size and
\* number of ports, over connection, publication, traffic and reset.
THEOREM CreditsConserved == Spec => []CreditConservation
<1>1. LoopInv => CreditConservation
    BY DEF LoopInv
<1> QED BY <1>1, LoopInvariant, PTL

\* A beat the sender may drive always finds its connections, its port done and
\* free storage at the receiver (upli_receive.py:138-145).
THEOREM NoBeatDropped == Spec => []PermittedIsStored
<1>1. LoopInv => PermittedIsStored
    BY StorageForCredit DEF PermittedIsStored
<1> QED BY <1>1, LoopInvariant, PTL

\* When a port is confirmed, the last of its initial credits has been counted
\* (upli_credit_initialization.py:84-88 against upli_credit.py:170-172).
THEOREM ConfirmationIsLate == Spec => []ConfirmedAfterLastCredit
<1>1. LoopInv => ConfirmedAfterLastCredit
    <2> SUFFICES ASSUME LoopInv, NEW p \in ledger.initialized, NEW a \in Accounts
                 PROVE  Unpublished(p, a) = 0 /\ Credited(pub.returns, p, a) = 0
        BY DEF ConfirmedAfterLastCredit
    <2>1. p \in Ports /\ p \in pub.done /\ Published(p)
        BY ConfirmedIsDone DEF LoopInv, PubInv
    <2>2. Unpublished(p, a) = 0
        BY <2>1, AccountFacts DEF Unpublished, Published, Accounts, LoopInv, PubInv
    <2>3. Credited(pub.returns, p, a) = 0
        BY <2>1, CreditedIs DEF LoopInv, PubInv
    <2> QED BY <2>2, <2>3
<1> QED BY <1>1, LoopInvariant, PTL

\* None of the models' checks ever fires: the ledger accepts every return and
\* every done level with every beat it permits, the monitor finds the signals
\* legal, and no two parts drive returns of one port
\* (upli_credit.py:128-172 and 191-194, upli_receive.py:70 and 117,
\* upli_credit_initialization.py:78).
THEOREM NoPartRaises == Spec => []NobodyRaises
<1>1. LoopInv => NobodyRaises
    <2> SUFFICES ASSUME LoopInv PROVE NobodyRaises
        OBVIOUS
    <2>1. \A incoming : OneBeat(incoming) =>
            \A p \in Ports, a \in Accounts :
                BalanceAfter(Returns, incoming, p, a) \in 0 .. Capacity[p][a]
        <3> SUFFICES ASSUME NEW incoming, OneBeat(incoming), NEW p \in Ports, NEW a \in Accounts
                     PROVE  BalanceAfter(Returns, incoming, p, a) \in 0 .. Capacity[p][a]
            OBVIOUS
        <3>1. BalanceAfter(Returns, incoming, p, a) = ledger.balances[p][a]
                + (Credited(pub.returns, p, a) + Credited(retq.outputs, p, a)) - Spent(incoming, p, a)
            BY ReturnsFacts DEF BalanceAfter
        <3>2. \/ Spent(incoming, p, a) = 0
              \/ Spent(incoming, p, a) = 1 /\ ledger.balances[p][a] >= 1
            BY PutFacts
        <3>3. /\ ledger.balances[p][a] \in Nat
              /\ Credited(pub.returns, p, a) \in Nat /\ Credited(retq.outputs, p, a) \in Nat
              /\ ledger.balances[p][a] + Credited(pub.returns, p, a) + Credited(retq.outputs, p, a)
                    <= Capacity[p][a]
              /\ Capacity[p][a] \in Nat
            BY AccountNumbers
        <3> QED BY <3>1, <3>2, <3>3
    <2>2. ReturnsLegal(conn.signals, Returns)
        BY ReturnsFacts DEF ReturnsLegal, OnePerPort
    <2>3. InitLegal(conn.signals, Done)
        BY ReturnsFacts DEF InitLegal
    <2>4. LedgerAccepts(conn.signals, Returns, {}, Done)
        BY <2>1, <2>2, <2>3 DEF LedgerAccepts, OneBeat
    <2>5. ASSUME NEW b \in Sendable
          PROVE  LedgerAccepts(conn.signals, Returns, {b}, Done)
        <3>1. OneBeat({b}) /\ BeatPermitted(conn.signals, b)
            BY DEF OneBeat, Sendable
        <3> QED BY <2>1, <2>2, <2>3, <3>1 DEF LedgerAccepts
    <2>6. WatchAccepts(Returns, Done)
        BY DEF WatchAccepts, Returns, Done, LoopInv, PubInv, QueueInv
    <2>7. pub.connected_once => ReturnConnected(conn.signals)
        BY DEF LoopInv, PubInv
    <2> QED BY <2>4, <2>5, <2>6, <2>7, ReturnsFacts DEF NobodyRaises
<1> QED BY <1>1, LoopInvariant, PTL

\* Balances stay within the storage, a confirmation rests on InitStable edges, and
\* every queue and FIFO keeps its depth.
THEOREM LoopTypeCorrect == Spec => []LoopTypeOK
<1>1. LoopInv => LoopTypeOK
    <2> SUFFICES ASSUME LoopInv PROVE LoopTypeOK
        OBVIOUS
    <2>1. LedgerTypeOK
        <3>1. \A p \in Ports, a \in Accounts : ledger.balances[p][a] \in 0 .. Capacity[p][a]
            BY AccountNumbers
        <3> QED BY <3>1 DEF LedgerTypeOK, LoopInv, LedgerInv
    <2>2. RetTypeOK
        BY DEF RetTypeOK, LoopInv, QueueInv, OnePerPort
    <2>3. \A p \in Ports :
            pub.position[p].account \in 0 .. (Pool + 1) /\ (p \in pub.done => Published(p))
        BY DEF LoopInv, PubInv
    <2>4. \A p \in Ports, a \in Accounts :
            /\ F!Count(fifos[p][a]) <= Capacity[p][a]
            /\ Len(fifos[p][a].visible) + Len(fifos[p][a].pending) <= F!Cache
        BY DEF LoopInv, FifoInv, FP!PartsOK, F!Cache, FP!Cache
    <2>5. pub.returns \subseteq CreditReturn /\ watch \subseteq Ports
        BY DEF LoopInv, PubInv
    <2> QED BY <2>1, <2>2, <2>3, <2>4, <2>5 DEF LoopTypeOK, ReceiverTypeOK
<1> QED BY <1>1, LoopInvariant, PTL

\* In the composition, with every traffic the ledger permits and every choice of
\* the consumer, the storage of each account is one bounded queue
\* (receive_fifo.py:46-60).
THEOREM StorageIsQueues == Spec => FifosAreQueues
<1>1. LoopInv /\ [Next]_vars =>
        [\A p \in Ports, a \in Accounts : [AccountQueue(p, a)!QNext]_(Held(p, a))]_receiver
    <2> SUFFICES ASSUME LoopInv, [Next]_vars, receiver' # receiver,
                        NEW p \in Ports, NEW a \in Accounts
                 PROVE  [AccountQueue(p, a)!QNext]_(Held(p, a))
        BY DEF receiver
    <2>1. \A incoming, consumer : OneBeat(incoming) /\ consumer \in Selections
                /\ DataEdge(incoming, consumer) => [AccountQueue(p, a)!QNext]_(Held(p, a))
        <3> SUFFICES ASSUME NEW incoming, OneBeat(incoming), NEW consumer \in Selections,
                            DataEdge(incoming, consumer)
                     PROVE  [AccountQueue(p, a)!QNext]_(Held(p, a))
            OBVIOUS
        <3>1. FP!QueueMove(Held(p, a), Held(p, a)', PutAt(incoming, p, a), Capacity[p][a])
            BY FifoBalance DEF DataEdge
        <3> QED BY <3>1 DEF FP!QueueMove, AccountQueue!QNext, AccountQueue!Put, AccountQueue!Take,
                            AccountQueue!PutAndTake
    <2>2. ResetEdge => Held(p, a)' = <<>>
        <3> SUFFICES ASSUME ResetEdge PROVE Held(p, a)' = <<>>
            OBVIOUS
        <3>1. fifos'[p][a] = F!EmptyFifo
            BY DEF ResetEdge, ResetReceive
        <3>2. FP!Held(F!EmptyFifo) = <<>>
            BY FP!EmptyFifoHolds DEF F!EmptyFifo, FP!EmptyFifo
        <3> QED BY <3>1, <3>2 DEF FP!Held, Held
    <2>3. ResetEdge => [AccountQueue(p, a)!QNext]_(Held(p, a))
        BY <2>2 DEF AccountQueue!QNext, AccountQueue!Clear
    <2>4. {} \in Selections /\ OneBeat({}) /\ \A b \in Sendable : OneBeat({b})
        BY DEF Selections, OneBeat
    <2>5. CASE UNCHANGED vars
        BY <2>5 DEF vars, receiver
    <2> QED BY <2>1, <2>3, <2>4, <2>5 DEF Next, ReleaseEdge, ConnectEdge, BeatEdge
<1> QED BY <1>1, LoopInvariant, PTL DEF Spec, FifosAreQueues
=============================================================================
