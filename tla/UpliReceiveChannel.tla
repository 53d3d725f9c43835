------------------------- MODULE UpliReceiveChannel -------------------------
(***************************************************************************)
(* UpliReceiveChannel (upli_receive.py): the receiving end of one UPLI     *)
(* channel, made of                                                        *)
(*   pub    InitialCreditPublisher: advertises the storage once per reset  *)
(*   retq   CreditReturnQueue: metadata of retired beats, per port         *)
(*   fifos  one ReceiveFifo per account with storage; a stored word is the *)
(*          VC of its beat (the pool bit is the account's)                 *)
(*   watch  CreditInitMonitor: the legality of the advertised signals      *)
(* A step is one clock edge; every part sees the outputs from before it.   *)
(***************************************************************************)
EXTENDS CreditReturnQueue

VARIABLES pub, fifos, watch

receiver == <<pub, retq, fifos, watch>>

F == INSTANCE ReceiveFifo WITH Depth <- 1, Words <- VCs, fifo <- fifos
-----------------------------------------------------------------------------
(* InitialCreditPublisher: the schedule of a port is walked account by     *)
(* account; a nonzero account takes one batch per edge, a zero one an idle *)
(* edge.                                                                   *)

PubReset ==
    [position |-> [p \in Ports |-> [account |-> 0, sent |-> 0]],
     connected_once |-> FALSE, returns |-> {}, done |-> {}]

Published(p) == pub.position[p].account > Pool

\* The batch due at port p: what is left of the account, at most MaxBatch.
BatchSize(p) ==
    Least(MaxBatch, Capacity[p][pub.position[p].account] - pub.position[p].sent)

InitialReturn(p) ==
    [port |-> p, pool |-> pub.position[p].account = Pool,
     vc |-> IF pub.position[p].account = Pool THEN 0 ELSE pub.position[p].account,
     count |-> BatchSize(p)]

NextPosition(p) ==
    LET pos == pub.position[p] IN
    IF Published(p) THEN pos
    ELSE IF pos.sent + BatchSize(p) < Capacity[p][pos.account]
    THEN [pos EXCEPT !.sent = @ + BatchSize(p)]
    ELSE [account |-> pos.account + 1, sent |-> 0]

\* Variants: an edge that sends nothing is taken for the end; done rises
\* together with the last batch.
DoneWhenIdle == pub.done \cup {p \in Ports : Published(p) \/ BatchSize(p) = 0}
DoneWithLastBatch == {p \in Ports : NextPosition(p).account > Pool}

\* Done rises the edge after the last batch.
DoneAfterEdge == {p \in Ports : Published(p)}

PubStep(s) ==
    IF ~ReturnConnected(s) THEN UNCHANGED pub
    ELSE pub' = [position |-> [p \in Ports |-> NextPosition(p)],
                 connected_once |-> TRUE,
                 returns |-> {InitialReturn(p) : p \in
                                {q \in Ports : ~Published(q) /\ BatchSize(q) > 0}},
                 done |-> DoneAfterEdge]
-----------------------------------------------------------------------------
(* The channel: storage, credit return and the outputs a peer samples.     *)

Returns == pub.returns \cup retq.outputs
Done == pub.done

\* A beat is stored only with both connections, after its port has finished
\* publication, and in free storage; otherwise it is dropped with a code.
Diagnostic(s, b) ==
    IF ~(s.orig_req /\ s.comp_ack /\ s.comp_req /\ s.orig_ack) THEN 2
    ELSE IF b.port \notin Done THEN 3
    ELSE IF ~F!Ready(fifos[b.port][AccountOf(b)], Capacity[b.port][AccountOf(b)]) THEN 4
    ELSE 0

\* peek: the beat a consumer finds at (port, account), with its saved VC.
HeadBeat(p, a) == [port |-> p, pool |-> a = Pool, vc |-> fifos[p][a].visible[1]]

MayRetire(p, a) == F!Valid(fifos[p][a]) /\ QueueReady(p)

\* The beat retired for the consumer's selection: {} or {<<port, account>>}.
Retired(consumer) ==
    {HeadBeat(c[1], c[2]) : c \in {d \in consumer : MayRetire(d[1], d[2])}}

\* step: incoming is {} or the beat on the wires, consumer {} or a selection.
ReceiveStep(s, incoming, consumer) ==
    LET stored  == {b \in incoming : Diagnostic(s, b) = 0}
        popped  == {c \in consumer : MayRetire(c[1], c[2])}
        put(p, a) == {b \in stored : b.port = p /\ AccountOf(b) = a}
    IN  /\ PubStep(s)
        /\ RetStep(Retired(consumer), IF ReturnConnected(s) THEN Done ELSE {})
        /\ fifos' = [p \in Ports |-> [a \in Accounts |->
                        F!Stepped(fifos[p][a], Capacity[p][a],
                                  IF put(p, a) = {} THEN <<>>
                                  ELSE <<(CHOOSE b \in put(p, a) : TRUE).vc>>,
                                  <<p, a>> \in popped)]]

\* Variant: the done levels survive a reset.
ResetReceiveKeepsDone ==
    /\ pub' = [PubReset EXCEPT !.done = pub.done]
    /\ ResetQueue
    /\ fifos' = [p \in Ports |-> [a \in Accounts |-> F!EmptyFifo]]

ResetReceive ==
    /\ pub' = PubReset
    /\ ResetQueue
    /\ fifos' = [p \in Ports |-> [a \in Accounts |-> F!EmptyFifo]]

ReceiveInit ==
    /\ pub = PubReset
    /\ RetInit
    /\ fifos = [p \in Ports |-> [a \in Accounts |-> F!EmptyFifo]]

\* CreditInitMonitor: done never falls before a reset, and never rises in a
\* cycle that still carries a credit of its port.
WatchAccepts(returns, done) ==
    /\ watch \subseteq done
    /\ \A r \in returns : r.port \notin (done \ watch)

WatchStep(done) == watch' = done
ResetWatch == watch' = {}
WatchInit == watch = {}
-----------------------------------------------------------------------------
\* The publisher walks its accounts and shows done only for ports that have
\* finished (upli_credit_initialization.py:83-91), and the return queue and the
\* FIFOs keep their bounds (upli_credit_return.py:43, receive_fifo.py:50).
ReceiverTypeOK ==
    /\ \A p \in Ports :
          /\ pub.position[p].account \in 0 .. (Pool + 1)
          /\ p \in pub.done => Published(p)
          /\ \A a \in Accounts :
                /\ F!Count(fifos[p][a]) <= Capacity[p][a]
                /\ Len(fifos[p][a].visible) + Len(fifos[p][a].pending) <= F!Cache
    /\ pub.returns \subseteq CreditReturn /\ watch \subseteq Ports
    /\ RetTypeOK

\* Refinement: the storage, read pipeline and cache of every account, oldest word
\* first, are one bounded queue (receive_fifo.py:46-60), whichever beats the peer
\* drives and whichever account the consumer serves.
Held(p, a) == fifos[p][a].visible \o fifos[p][a].pending \o fifos[p][a].unread
AccountQueue(p, a) ==
    INSTANCE BoundedQueue WITH Words <- VCs, Limit <- Capacity[p][a], queue <- Held(p, a)
FifosAreQueues ==
    [][\A p \in Ports, a \in Accounts : [AccountQueue(p, a)!QNext]_(Held(p, a))]_receiver

\* The publisher and the return queue drive the return wires of different
\* ports: the AssertionError of outputs does not fire.
ReservationsDisjoint ==
    \A r1 \in pub.returns, r2 \in retq.outputs : r1.port # r2.port
=============================================================================
