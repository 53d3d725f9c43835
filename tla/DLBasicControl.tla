--------------------------- MODULE DLBasicControl ---------------------------
(***************************************************************************)
(* dl_basic_message_control.v: one request of this end and, independently, *)
(* one reply owed to the peer, each in a slot of its own.  A message of    *)
(* either is a single word, handed to the arbiter by its type; two         *)
(* messages of one type leave in the order the slots were filled, which    *)
(* local_first remembers.  A controller is the record b:                   *)
(*   local            the request, at most one [kind, value, sent]         *)
(*   remote           the reply owed, at most one [kind, value, rate]      *)
(*   local_first      the request is older than the reply                  *)
(*   age, missed      edges the reply has waited, its deadline reported    *)
(*   peer             what the peer announced, by type; 0 is nothing       *)
(*   deadline_fault, protocol_fault   the sticky diagnoses                 *)
(* The inputs of an edge are the record i:                                 *)
(*   start    the request offered, at most one [kind, value]               *)
(*   take     the type the arbiter serves, at most one                     *)
(*   rx       the word received, at most one [ack, kind, value]            *)
(*   limit    the pacing in force, at most one number                      *)
(*   identity what this end answers to a request for its identity          *)
(* Words no rule answers (NoOp, other classes, types of a capability this  *)
(* end lacks) change nothing and are left out.                             *)
(***************************************************************************)
EXTENDS Naturals, Sequences

CONSTANTS
    Kinds,      \* message types in use
    AckCycles   \* edges within which a reply is due (1562 at 640 ps)

ASSUME BasicAssumption ==
    /\ Kinds \subseteq {"TxReady", "Rate", "DeviceId", "Port"}
    /\ AckCycles \in Nat

Identities == {"DeviceId", "Port"}

BasicReset ==
    [local |-> <<>>, remote |-> <<>>, local_first |-> FALSE, age |-> 0, missed |-> FALSE,
     peer |-> [k \in Kinds |-> 0], deadline_fault |-> FALSE, protocol_fault |-> FALSE]

\* What this end offers to the arbiter.
LocalUnsent(b) == b.local # <<>> /\ ~b.local[1].sent
SameKind(b) == b.local[1].kind = b.remote[1].kind
LocalHead(b) == LocalUnsent(b) /\ ~(b.remote # <<>> /\ SameKind(b) /\ ~b.local_first)
RemoteHead(b) == b.remote # <<>> /\ ~(LocalUnsent(b) /\ SameKind(b) /\ b.local_first)

\* Variant: the acceptance of a rate does not wait for the pacing.
RemoteReadyUnpaced(b, limit) == TRUE

\* A rate is accepted only once the pacing in force honours it.
RemoteReady(b, limit) ==
    b.remote[1].kind = "Rate" => limit # <<>> /\ limit[1] <= b.remote[1].rate

LocalOffers(b) == IF LocalHead(b) THEN {b.local[1].kind} ELSE {}
RemoteOffers(b, limit) ==
    IF RemoteHead(b) /\ RemoteReady(b, limit) THEN {b.remote[1].kind} ELSE {}
Offers(b, limit) == LocalOffers(b) \cup RemoteOffers(b, limit)

OfferedWord(b, k) ==
    IF k \in LocalOffers(b)
    THEN [ack |-> FALSE, kind |-> k, value |-> b.local[1].value]
    ELSE [ack |-> TRUE, kind |-> k, value |-> b.remote[1].value]

\* The events of an edge, all judged by the state before it.
LocalCommit(b, i) == i.take # <<>> /\ i.take[1] \in LocalOffers(b)
ReplyDone(b, i) == i.take # <<>> /\ i.take[1] \in RemoteOffers(b, i.limit)

Matching(b, word) == b.local # <<>> /\ b.local[1].sent /\ b.local[1].kind = word.kind
RxAck(i) == i.rx # <<>> /\ i.rx[1].ack
RxAsks(i) == i.rx # <<>> /\ ~i.rx[1].ack
LocalDone(b, i) == RxAck(i) /\ Matching(b, i.rx[1])
RxRequest(b, i) == RxAsks(i) /\ (b.remote = <<>> \/ ReplyDone(b, i))

\* Variant: a slot whose request has been sent takes the next one.
LocalReadyOnceSent(b) == ~LocalUnsent(b)

LocalReady(b) == b.local = <<>>
LocalStart(b, i) == i.start # <<>> /\ LocalReady(b)

\* An acknowledgement of nothing, a second request, or a service not offered.
Faults(b, i) ==
    \/ RxAck(i) /\ ~LocalDone(b, i)
    \/ RxAsks(i) /\ ~RxRequest(b, i)
    \/ i.take # <<>> /\ i.take[1] \notin Offers(b, i.limit)

DeadlineMiss(b) == b.remote # <<>> /\ ~b.missed /\ b.age = AckCycles

\* Variant: a request starts out as one that has been sent.
LocalAfterStartsSent(b, i) ==
    IF LocalStart(b, i)
    THEN <<[kind |-> i.start[1].kind, value |-> i.start[1].value, sent |-> TRUE]>>
    ELSE IF LocalDone(b, i) THEN <<>>
    ELSE IF LocalCommit(b, i) THEN [b.local EXCEPT ![1].sent = TRUE]
    ELSE b.local

LocalAfter(b, i) ==
    IF LocalStart(b, i)
    THEN <<[kind |-> i.start[1].kind, value |-> i.start[1].value, sent |-> FALSE]>>
    ELSE IF LocalDone(b, i) THEN <<>>
    ELSE IF LocalCommit(b, i) THEN [b.local EXCEPT ![1].sent = TRUE]
    ELSE b.local

ReplyTo(word, identity) ==
    [kind  |-> word.kind,
     value |-> IF word.kind \in Identities THEN identity ELSE 0,
     rate  |-> IF word.kind = "Rate" THEN word.value ELSE 0]

RemoteAfter(b, i) ==
    IF RxRequest(b, i) THEN <<ReplyTo(i.rx[1], i.identity)>>
    ELSE IF ReplyDone(b, i) THEN <<>>
    ELSE b.remote

\* Variants: a reply filled now comes first; a request filled now does.
FirstAfterReplyFirst(b, i) ==
    IF RxRequest(b, i) \/ LocalStart(b, i) THEN FALSE ELSE b.local_first
FirstAfterLocalFirst(b, i) ==
    IF RxRequest(b, i) THEN LocalUnsent(b) /\ ~LocalCommit(b, i)
    ELSE b.local_first \/ LocalStart(b, i)

\* A reply filled now comes after a request that stays; a request filled now comes
\* after any reply.
FirstAfter(b, i) ==
    IF RxRequest(b, i) THEN LocalUnsent(b) /\ ~LocalCommit(b, i)
    ELSE IF LocalStart(b, i) THEN FALSE
    ELSE b.local_first

AgeAfter(b, i) ==
    IF RxRequest(b, i) \/ ReplyDone(b, i) \/ b.remote = <<>> THEN 0
    ELSE IF b.age # AckCycles THEN b.age + 1
    ELSE b.age

MissedAfter(b, i) ==
    IF RxRequest(b, i) \/ ReplyDone(b, i) THEN FALSE ELSE b.missed \/ DeadlineMiss(b)

\* A request announces a rate or an identity, an acknowledgement an identity.
Learns(b, i) ==
    \/ RxRequest(b, i) /\ i.rx[1].kind # "TxReady"
    \/ LocalDone(b, i) /\ i.rx[1].kind \in Identities

PeerAfter(b, i) ==
    IF Learns(b, i) THEN [b.peer EXCEPT ![i.rx[1].kind] = i.rx[1].value] ELSE b.peer

BasicEdge(b, i) ==
    [local |-> LocalAfter(b, i), remote |-> RemoteAfter(b, i),
     local_first |-> FirstAfter(b, i), age |-> AgeAfter(b, i), missed |-> MissedAfter(b, i),
     peer |-> PeerAfter(b, i),
     deadline_fault |-> b.deadline_fault \/ DeadlineMiss(b),
     protocol_fault |-> b.protocol_fault \/ Faults(b, i)]
=============================================================================
