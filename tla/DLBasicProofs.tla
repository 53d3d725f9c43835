--------------------------- MODULE DLBasicProofs ---------------------------
(***************************************************************************)
(* dl_basic_message_control.v makes the step of its event model,           *)
(* dl_basic_message.py under dl_basic_control.py, for all message types,   *)
(* deadlines, identities and inputs.                                       *)
(*   The RTL computes every register from the state before the edge; the   *)
(* event model handles the events of an edge one after the other.  The     *)
(* argument has two halves.  EdgeIsEvents: the edge of the RTL equals the  *)
(* events applied to its own registers one after the other (Slot...), as   *)
(* an event never disturbs what a later one looks at, except where the RTL *)
(* says so by its conditions.  ...Commutes: each of these events is the    *)
(* event of the model on the state it stands for (ReferenceOf).            *)
(*   The inputs are typed next: in every state of the two ends the arbiter *)
(* serves a Basic source only when the controller offers its type, so that *)
(* only words of a message are ever under way.                             *)
(*   The last parts are about two ends together.  ExchangeOf follows one   *)
(* request: while it is out it is in exactly one of three places, the wire *)
(* there, the reply slot and the wire back, with the type and the rate     *)
(* that were asked for.  An edge acts on two exchanges, as the end that    *)
(* asks in one (AskerKeeps) and as the end that answers in the other       *)
(* (AnswererKeeps).  StagedInv adds the queues of the other sources and    *)
(* the place of the arbiter in them.                                       *)
(***************************************************************************)
EXTENDS DLMessagePeers, SequenceTheorems, FiniteSetTheorems, FunctionTheorems,
        WellFoundedInduction, TLAPS

LocalSlot == [kind : Kinds, value : Nat, sent : BOOLEAN]
RemoteSlot == [kind : Kinds, value : Nat, rate : Nat]
Ask == [kind : Kinds, value : Nat]
Word == [ack : BOOLEAN, kind : Kinds, value : Nat]

Controller ==
    [local : Optional(LocalSlot), remote : Optional(RemoteSlot), local_first : BOOLEAN,
     age : 0 .. AckCycles, missed : BOOLEAN, peer : [Kinds -> Nat],
     deadline_fault : BOOLEAN, protocol_fault : BOOLEAN]

Input ==
    [start : Optional(Ask), take : Optional(Kinds),
     rx : Optional(Word), limit : Optional(Nat), identity : Nat]

\* Nothing is counted while no reply is owed.
Settled(b) == b.remote = <<>> => b.age = 0 /\ ~b.missed

-----------------------------------------------------------------------------
\* The events of an edge, one after the other, on the slots themselves.
SlotAdvance(b) ==
    IF b.remote = <<>> THEN b
    ELSE [b EXCEPT !.age = IF b.age # AckCycles THEN b.age + 1 ELSE b.age,
                   !.missed = b.missed \/ DeadlineMiss(b),
                   !.deadline_fault = b.deadline_fault \/ DeadlineMiss(b)]

SlotFaulted(b) == [b EXCEPT !.protocol_fault = TRUE]

SlotAck(b, i) ==
    IF ~RxAck(i) THEN b
    ELSE IF ~Matching(b, i.rx[1]) THEN SlotFaulted(b)
    ELSE [b EXCEPT !.local = <<>>,
                   !.peer = IF i.rx[1].kind \in Identities
                            THEN [b.peer EXCEPT ![i.rx[1].kind] = i.rx[1].value]
                            ELSE b.peer]

SlotCommit(b, i) ==
    IF i.take = <<>> THEN b
    ELSE IF i.take[1] \in LocalOffers(b)
    THEN [b EXCEPT !.local = [b.local EXCEPT ![1].sent = TRUE]]
    ELSE IF i.take[1] \in RemoteOffers(b, i.limit)
    THEN [b EXCEPT !.remote = <<>>, !.age = 0, !.missed = FALSE]
    ELSE SlotFaulted(b)

SlotRequest(b, i) ==
    IF ~RxAsks(i) THEN b
    ELSE IF b.remote # <<>> THEN SlotFaulted(b)
    ELSE [b EXCEPT !.remote = <<ReplyTo(i.rx[1], i.identity)>>, !.age = 0, !.missed = FALSE,
                   !.local_first = LocalUnsent(b),
                   !.peer = IF i.rx[1].kind # "TxReady"
                            THEN [b.peer EXCEPT ![i.rx[1].kind] = i.rx[1].value]
                            ELSE b.peer]

SlotStart(b, i, ready) ==
    IF i.start # <<>> /\ ready
    THEN [b EXCEPT !.local = <<[kind |-> i.start[1].kind, value |-> i.start[1].value,
                                sent |-> FALSE]>>,
                   !.local_first = FALSE]
    ELSE b

-----------------------------------------------------------------------------

\* A slot or an input of at most one entry is empty or has that entry.
LEMMA OptionalCases ==
    ASSUME NEW S, NEW x \in Optional(S)
    PROVE  x = <<>> \/ (x # <<>> /\ x[1] \in S /\ x = <<x[1]>>)
BY DEF Optional

\* The registers of dl_basic_message_control.v are all there is to a controller.
LEMMA ControllerForm ==
    ASSUME NEW b \in Controller
    PROVE  b = [local |-> b.local, remote |-> b.remote, local_first |-> b.local_first,
                age |-> b.age, missed |-> b.missed, peer |-> b.peer,
                deadline_fault |-> b.deadline_fault, protocol_fault |-> b.protocol_fault]
BY DEF Controller

\* The deadline counter of dl_basic_message_control.v stops at its limit, the event
\* model counts one further: both report the same miss at the same edge.
LEMMA AdvanceCommutes ==
    ASSUME NEW b \in Controller
    PROVE  ReferenceOf(SlotAdvance(b)) = AdvanceTo(ReferenceOf(b))
<1> USE BasicAssumption
<1>1. CASE b.remote = <<>>
  BY <1>1 DEF SlotAdvance, AdvanceTo, ReferenceOf
<1>2. CASE b.remote # <<>>
  <2> DEFINE c == SlotAdvance(b)
             r == ReferenceOf(b)
  <2>1. /\ c.local = b.local /\ c.remote = b.remote /\ c.local_first = b.local_first
        /\ c.peer = b.peer /\ c.protocol_fault = b.protocol_fault
        /\ c.age = IF b.age # AckCycles THEN b.age + 1 ELSE b.age
        /\ c.missed = (b.missed \/ DeadlineMiss(b))
        /\ c.deadline_fault = (b.deadline_fault \/ DeadlineMiss(b))
    BY <1>2 DEF SlotAdvance, Controller
  <2>2. \A k \in Kinds : QueueOf(c, k) = QueueOf(b, k)
    BY <2>1 DEF QueueOf, LocalUnsent
  <2> HIDE DEF c
  <2>3. ReferenceOf(c) = [local |-> b.local, remote |-> b.remote,
            queues |-> [k \in Kinds |-> QueueOf(b, k)],
            elapsed |-> IF b.missed \/ DeadlineMiss(b) THEN AckCycles + 1
                        ELSE IF b.age # AckCycles THEN b.age + 1 ELSE b.age,
            missed |-> b.missed \/ DeadlineMiss(b), peer |-> b.peer,
            deadline_fault |-> b.deadline_fault \/ DeadlineMiss(b),
            protocol_fault |-> b.protocol_fault]
    BY <2>1, <2>2 DEF ReferenceOf
  <2> DEFINE elapsed == IF r.elapsed <= AckCycles THEN r.elapsed + 1 ELSE r.elapsed
             miss == elapsed > AckCycles /\ ~r.missed
  <2>4. /\ r.remote # <<>> /\ r.missed = b.missed /\ b.missed \in BOOLEAN
        /\ r.elapsed = IF b.missed THEN AckCycles + 1 ELSE b.age
        /\ b.age \in 0 .. AckCycles /\ AckCycles \in Nat
    BY <1>2 DEF ReferenceOf, Controller
  <2>5. miss = DeadlineMiss(b)
    BY <1>2, <2>4 DEF DeadlineMiss
  <2>6. elapsed = IF b.missed \/ DeadlineMiss(b) THEN AckCycles + 1
                  ELSE IF b.age # AckCycles THEN b.age + 1 ELSE b.age
    BY <1>2, <2>4 DEF DeadlineMiss
  <2>7. AdvanceTo(r) = [r EXCEPT !.elapsed = elapsed, !.missed = r.missed \/ miss,
                                 !.deadline_fault = r.deadline_fault \/ miss]
    BY <2>4 DEF AdvanceTo
  <2> HIDE DEF elapsed, miss
  <2>8. AdvanceTo(r) = [local |-> r.local, remote |-> r.remote, queues |-> r.queues,
            elapsed |-> elapsed, missed |-> r.missed \/ miss, peer |-> r.peer,
            deadline_fault |-> r.deadline_fault \/ miss, protocol_fault |-> r.protocol_fault]
    BY <2>7 DEF ReferenceOf
  <2>9. /\ r.local = b.local /\ r.remote = b.remote
        /\ r.queues = [k \in Kinds |-> QueueOf(b, k)] /\ r.missed = b.missed
        /\ r.peer = b.peer /\ r.deadline_fault = b.deadline_fault
        /\ r.protocol_fault = b.protocol_fault
    BY DEF ReferenceOf
  <2> HIDE DEF r
  <2>10. ReferenceOf(c) = AdvanceTo(r)
    BY <2>3, <2>5, <2>6, <2>8, <2>9, Zenon
  <2>11. QED
    BY <2>10 DEF c, r
<1>3. QED BY <1>1, <1>2

\* The sticky diagnosis is set alike in dl_basic_message_control.v and the model.
LEMMA FaultCommutes ==
    ASSUME NEW b \in Controller
    PROVE  ReferenceOf(SlotFaulted(b)) = Faulted(ReferenceOf(b))
<1> DEFINE c == SlotFaulted(b)
           r == ReferenceOf(b)
<1>1. /\ c.local = b.local /\ c.remote = b.remote /\ c.local_first = b.local_first
      /\ c.age = b.age /\ c.missed = b.missed /\ c.peer = b.peer
      /\ c.deadline_fault = b.deadline_fault /\ c.protocol_fault = TRUE
  BY DEF SlotFaulted, Controller
<1>2. \A k \in Kinds : QueueOf(c, k) = QueueOf(b, k)
  BY <1>1 DEF QueueOf, LocalUnsent
<1> HIDE DEF c
<1>3. ReferenceOf(c) = [local |-> b.local, remote |-> b.remote,
          queues |-> [k \in Kinds |-> QueueOf(b, k)],
          elapsed |-> IF b.missed THEN AckCycles + 1 ELSE b.age,
          missed |-> b.missed, peer |-> b.peer,
          deadline_fault |-> b.deadline_fault, protocol_fault |-> TRUE]
  BY <1>1, <1>2 DEF ReferenceOf
<1>4. Faulted(r) = [local |-> b.local, remote |-> b.remote,
          queues |-> [k \in Kinds |-> QueueOf(b, k)],
          elapsed |-> IF b.missed THEN AckCycles + 1 ELSE b.age,
          missed |-> b.missed, peer |-> b.peer,
          deadline_fault |-> b.deadline_fault, protocol_fault |-> TRUE]
  <2>1. Faulted(r) = [r EXCEPT !.protocol_fault = TRUE]
    BY DEF Faulted
  <2>2. QED
    BY <2>1 DEF ReferenceOf
<1>5. QED
  BY <1>3, <1>4 DEF c

\* An acknowledgement frees the request slot of dl_basic_message_control.v, and
\* leaves the queues of the model alone, as what was sent is in none of them.
LEMMA AckCommutes ==
    ASSUME NEW b \in Controller, NEW i \in Input
    PROVE  ReferenceOf(SlotAck(b, i)) = AfterAck(ReferenceOf(b), i)
<1> DEFINE r == ReferenceOf(b)
           w == i.rx[1]
<1>1. CASE ~RxAck(i)
  BY <1>1 DEF SlotAck, AfterAck
<1>2. CASE RxAck(i) /\ ~Matching(b, w)
  <2>1. ~Matching(r, w)
    BY <1>2 DEF Matching, ReferenceOf
  <2>2. AfterAck(r, i) = Faulted(r) /\ SlotAck(b, i) = SlotFaulted(b)
    BY <1>2, <2>1 DEF AfterAck, ReceiveAck, SlotAck
  <2>3. QED
    BY <2>2, FaultCommutes
<1>3. CASE RxAck(i) /\ Matching(b, w)
  <2> DEFINE c == SlotAck(b, i)
             peer == IF w.kind \in Identities THEN [b.peer EXCEPT ![w.kind] = w.value]
                     ELSE b.peer
  <2>1. /\ c.local = <<>> /\ c.remote = b.remote /\ c.local_first = b.local_first
        /\ c.age = b.age /\ c.missed = b.missed /\ c.peer = peer
        /\ c.deadline_fault = b.deadline_fault /\ c.protocol_fault = b.protocol_fault
    BY <1>3 DEF SlotAck, Controller
  <2>2. \A k \in Kinds : QueueOf(c, k) = QueueOf(b, k)
    BY <1>3, <2>1 DEF QueueOf, LocalUnsent, Matching
  <2>3. Matching(r, w)
    BY <1>3 DEF Matching, ReferenceOf
  <2>4. AfterAck(r, i) = [r EXCEPT !.local = <<>>,
            !.peer = IF w.kind \in Identities
                     THEN [r.peer EXCEPT ![w.kind] = w.value] ELSE r.peer]
    BY <1>3, <2>3 DEF AfterAck, ReceiveAck
  <2>5. r.peer = b.peer
    BY DEF ReferenceOf
  <2> HIDE DEF c, peer
  <2>6. ReferenceOf(c) = [local |-> <<>>, remote |-> b.remote,
            queues |-> [k \in Kinds |-> QueueOf(b, k)],
            elapsed |-> IF b.missed THEN AckCycles + 1 ELSE b.age,
            missed |-> b.missed, peer |-> peer,
            deadline_fault |-> b.deadline_fault, protocol_fault |-> b.protocol_fault]
    BY <2>1, <2>2 DEF ReferenceOf
  <2>7. AfterAck(r, i) = [r EXCEPT !.local = <<>>, !.peer = peer]
    BY <2>4, <2>5 DEF peer
  <2>8. AfterAck(r, i) = [local |-> <<>>, remote |-> b.remote,
            queues |-> [k \in Kinds |-> QueueOf(b, k)],
            elapsed |-> IF b.missed THEN AckCycles + 1 ELSE b.age,
            missed |-> b.missed, peer |-> peer,
            deadline_fault |-> b.deadline_fault, protocol_fault |-> b.protocol_fault]
    BY <2>7 DEF ReferenceOf
  <2>9. QED
    BY <2>6, <2>8 DEF c
<1>4. QED
  BY <1>1, <1>2, <1>3
\* The queues of one type that occur.
LEMMA ShortQueues ==
    /\ Append(<<>>, "local") = <<"local">> /\ Append(<<>>, "remote") = <<"remote">>
    /\ Append(<<"remote">>, "local") = <<"remote", "local">>
    /\ Append(<<"local">>, "remote") = <<"local", "remote">>
    /\ Tail(<<"local">>) = <<>> /\ Tail(<<"remote">>) = <<>>
    /\ Tail(<<"local", "remote">>) = <<"remote">>
    /\ Tail(<<"remote", "local">>) = <<"local">>
<1> DEFINE W == {"local", "remote"}
<1>1. ASSUME NEW w \in W
      PROVE  Append(<<>>, w) = <<w>> /\ Tail(<<w>>) = <<>>
  <2>1. <<>> \in Seq(W) /\ <<w>> \in Seq(W)
    OBVIOUS
  <2>2. Append(<<>>, w) = <<>> \o <<w>>
    BY <2>1, AppendIsConcat
  <2>3. <<>> \o <<w>> = <<w>>
    BY <2>1, ConcatEmptySeq
  <2>4. Tail(<<w>>) = <<>>
    OBVIOUS
  <2>5. QED
    BY <2>2, <2>3, <2>4
<1>2. ASSUME NEW v \in W, NEW w \in W
      PROVE  Append(<<v>>, w) = <<v, w>>
  <2>1. /\ <<v>> \in Seq(W) /\ Len(<<v>>) = 1 /\ <<v>>[1] = v
        /\ <<v, w>> \in Seq(W) /\ Len(<<v, w>>) = 2 /\ <<v, w>>[1] = v /\ <<v, w>>[2] = w
    OBVIOUS
  <2>2. /\ Append(<<v>>, w) \in Seq(W) /\ Len(Append(<<v>>, w)) = 2
        /\ Append(<<v>>, w)[1] = v /\ Append(<<v>>, w)[2] = w
    BY <2>1, AppendProperties
  <2>3. \A n \in 1 .. 2 : Append(<<v>>, w)[n] = <<v, w>>[n]
    BY <2>1, <2>2
  <2> HIDE DEF W
  <2>4. QED
    BY <2>1, <2>2, <2>3, SeqEqual
<1>3. ASSUME NEW v \in W, NEW w \in W
      PROVE  Tail(<<v, w>>) = <<w>>
  <2>1. <<v, w>> \in Seq(W) /\ <<w>> \in Seq(W) /\ <<v, w>> # <<>>
        /\ Len(<<v, w>>) = 2 /\ Len(<<w>>) = 1 /\ <<v, w>>[2] = w /\ <<w>>[1] = w
    OBVIOUS
  <2>2. /\ Tail(<<v, w>>) \in Seq(W) /\ Len(Tail(<<v, w>>)) = 1
        /\ Tail(<<v, w>>)[1] = w
    BY <2>1, HeadTailProperties
  <2>3. QED
    BY <2>1, <2>2, SeqEqual
<1>4. QED
  BY <1>1, <1>2, <1>3

\* A reference state by its fields.
Ref(l, rm, q, el, m, p, d, f) ==
    [local |-> l, remote |-> rm, queues |-> q, elapsed |-> el, missed |-> m, peer |-> p,
     deadline_fault |-> d, protocol_fault |-> f]

QueuesOf(b) == [k \in Kinds |-> QueueOf(b, k)]
ElapsedOf(b) == IF b.missed THEN AckCycles + 1 ELSE b.age

\* The model's state that a controller stands for, by its fields.
LEMMA ReferenceForm ==
    ASSUME NEW b
    PROVE  ReferenceOf(b) = Ref(b.local, b.remote, QueuesOf(b), ElapsedOf(b), b.missed, b.peer,
                                b.deadline_fault, b.protocol_fault)
BY DEF ReferenceOf, Ref, QueuesOf, ElapsedOf

\* Joining the queue of a type is a change of that queue alone.
LEMMA QueuedForm ==
    ASSUME NEW l, NEW rm, NEW q, NEW el, NEW m, NEW p, NEW d, NEW f, NEW k, NEW who
    PROVE  Queued(Ref(l, rm, q, el, m, p, d, f), k, who) =
               Ref(l, rm, [q EXCEPT ![k] = Append(q[k], who)], el, m, p, d, f)
<1> DEFINE x == Ref(l, rm, q, el, m, p, d, f)
           z == [q EXCEPT ![k] = Append(q[k], who)]
<1>1. x.queues = q
  BY DEF Ref
<1>2. Queued(x, k, who) = [x EXCEPT !.queues = [x.queues EXCEPT ![k] = Append(x.queues[k], who)]]
  BY DEF Queued
<1>3. Queued(x, k, who) = [x EXCEPT !.queues = z]
  BY <1>1, <1>2
<1> HIDE DEF z
<1>4. Queued(x, k, who) = Ref(l, rm, z, el, m, p, d, f)
  BY <1>3 DEF Ref
<1>5. QED
  BY <1>4 DEF z

\* A request of this end fills the slot and joins its queue last: behind a reply of
\* its type, which is what dl_basic_message_control.v clears local_first for.
LEMMA StartCommutes ==
    ASSUME NEW b \in Controller, NEW i \in Input, NEW ready \in BOOLEAN,
           ready => b.local = <<>>
    PROVE  ReferenceOf(SlotStart(b, i, ready)) = AfterStart(ReferenceOf(b), i, ready)
<1> DEFINE r == ReferenceOf(b)
           s == i.start[1]
           c == SlotStart(b, i, ready)
           l == <<[kind |-> s.kind, value |-> s.value, sent |-> FALSE]>>
           q == QueuesOf(b)
<1>1. CASE ~(i.start # <<>> /\ ready)
  BY <1>1 DEF SlotStart, AfterStart
<1>2. CASE i.start # <<>> /\ ready
  <2>0. s \in Ask /\ s.kind \in Kinds
    <3>1. i.start \in Optional(Ask)
      BY DEF Input
    <3>2. s \in Ask
      BY <1>2, <3>1, OptionalCases
    <3>3. QED
      BY <3>2 DEF Ask
  <2>1. /\ c.local = l /\ c.remote = b.remote /\ c.local_first = FALSE
        /\ c.age = b.age /\ c.missed = b.missed /\ c.peer = b.peer
        /\ c.deadline_fault = b.deadline_fault /\ c.protocol_fault = b.protocol_fault
    BY <1>2 DEF SlotStart, Controller
  <2>2. LocalUnsent(c) /\ c.local[1].kind = s.kind /\ ~LocalUnsent(b)
    <3>1. l # <<>> /\ l[1] = [kind |-> s.kind, value |-> s.value, sent |-> FALSE]
      OBVIOUS
    <3>2. b.local = <<>> /\ c.local = l
      BY <1>2, <2>1
    <3> HIDE DEF l, c
    <3>3. c.local # <<>> /\ c.local[1].sent = FALSE /\ c.local[1].kind = s.kind
      BY <3>1, <3>2
    <3>4. QED
      BY <3>2, <3>3 DEF LocalUnsent
  <2>3. ASSUME NEW k \in Kinds
        PROVE  QueueOf(c, k) = IF k = s.kind THEN Append(q[k], "local") ELSE q[k]
    <3>1. q[k] = IF b.remote # <<>> /\ b.remote[1].kind = k THEN <<"remote">> ELSE <<>>
      BY <2>2 DEF QueuesOf, QueueOf
    <3>2. QueueOf(c, k) = IF k = s.kind
                          THEN IF b.remote # <<>> /\ b.remote[1].kind = k
                               THEN <<"remote", "local">> ELSE <<"local">>
                          ELSE IF b.remote # <<>> /\ b.remote[1].kind = k
                               THEN <<"remote">> ELSE <<>>
      BY <2>1, <2>2 DEF QueueOf
    <3>3. QED
      BY <3>1, <3>2, ShortQueues
  <2>4. AfterStart(r, i, ready) = Queued([r EXCEPT !.local = l], s.kind, "local")
    BY <1>2 DEF AfterStart, Request
  <2>5. r = Ref(b.local, b.remote, q, ElapsedOf(b), b.missed, b.peer,
                b.deadline_fault, b.protocol_fault)
    BY ReferenceForm
  <2> HIDE DEF c, q, l, r
  <2>6. [r EXCEPT !.local = l] = Ref(l, b.remote, q, ElapsedOf(b), b.missed, b.peer,
                                     b.deadline_fault, b.protocol_fault)
    BY <2>5 DEF Ref
  <2>7. QueuesOf(c) = [q EXCEPT ![s.kind] = Append(q[s.kind], "local")]
    BY <2>0, <2>3 DEF q, QueuesOf
  <2>8. ElapsedOf(c) = ElapsedOf(b)
    BY <2>1 DEF ElapsedOf
  <2>9. ReferenceOf(c) = Ref(l, b.remote, [q EXCEPT ![s.kind] = Append(q[s.kind], "local")],
            ElapsedOf(b), b.missed, b.peer, b.deadline_fault, b.protocol_fault)
    BY <2>1, <2>7, <2>8, ReferenceForm
  <2>10. ReferenceOf(c) = AfterStart(r, i, ready)
    BY <2>4, <2>6, <2>9, QueuedForm
  <2>11. QED
    BY <2>10 DEF c, r
<1>3. QED
  BY <1>1, <1>2

\* A request of the peer fills the reply slot and joins its queue last: behind an
\* unsent request of its type, which dl_basic_message_control.v sets local_first for.
LEMMA RequestCommutes ==
    ASSUME NEW b \in Controller, NEW i \in Input
    PROVE  ReferenceOf(SlotRequest(b, i)) = AfterRequest(ReferenceOf(b), i)
<1> DEFINE r == ReferenceOf(b)
           w == i.rx[1]
           c == SlotRequest(b, i)
           q == QueuesOf(b)
           reply == <<ReplyTo(w, i.identity)>>
           peer == IF w.kind # "TxReady" THEN [b.peer EXCEPT ![w.kind] = w.value] ELSE b.peer
<1>1. CASE ~RxAsks(i)
  BY <1>1 DEF SlotRequest, AfterRequest
<1>2. CASE RxAsks(i) /\ b.remote # <<>>
  <2>1. r.remote # <<>>
    BY <1>2 DEF ReferenceOf
  <2>2. AfterRequest(r, i) = Faulted(r) /\ SlotRequest(b, i) = SlotFaulted(b)
    BY <1>2, <2>1 DEF AfterRequest, ReceiveRequest, SlotRequest
  <2>3. QED
    BY <2>2, FaultCommutes
<1>3. CASE RxAsks(i) /\ b.remote = <<>>
  <2>1. w.kind \in Kinds
    <3>1. i.rx \in Optional(Word)
      BY DEF Input
    <3>2. w \in Word
      BY <1>3, <3>1, OptionalCases DEF RxAsks
    <3>3. QED
      BY <3>2 DEF Word
  <2>2. /\ c.local = b.local /\ c.remote = reply /\ c.local_first = LocalUnsent(b)
        /\ c.age = 0 /\ c.missed = FALSE /\ c.peer = peer
        /\ c.deadline_fault = b.deadline_fault /\ c.protocol_fault = b.protocol_fault
    BY <1>3 DEF SlotRequest, Controller
  <2>3. c.remote # <<>> /\ c.remote[1].kind = w.kind
    <3>1. reply # <<>> /\ reply[1].kind = w.kind
      BY DEF ReplyTo
    <3> HIDE DEF c, reply
    <3>2. QED
      BY <2>2, <3>1
  <2>4. LocalUnsent(c) = LocalUnsent(b)
    BY <2>2 DEF LocalUnsent
  <2>5. ASSUME NEW k \in Kinds
        PROVE  QueueOf(c, k) = IF k = w.kind THEN Append(q[k], "remote") ELSE q[k]
    <3>1. q[k] = IF LocalUnsent(b) /\ b.local[1].kind = k THEN <<"local">> ELSE <<>>
      BY <1>3 DEF QueuesOf, QueueOf
    <3> HIDE DEF c, q
    <3>2. QueueOf(c, k) = IF k = w.kind
                          THEN IF LocalUnsent(b) /\ b.local[1].kind = k
                               THEN <<"local", "remote">> ELSE <<"remote">>
                          ELSE IF LocalUnsent(b) /\ b.local[1].kind = k
                               THEN <<"local">> ELSE <<>>
      BY <2>2, <2>3, <2>4 DEF QueueOf
    <3>3. QED
      BY <3>1, <3>2, ShortQueues
  <2>6. r = Ref(b.local, b.remote, q, ElapsedOf(b), b.missed, b.peer,
                b.deadline_fault, b.protocol_fault)
    BY ReferenceForm
  <2>7. r.remote = <<>> /\ r.peer = b.peer
    BY <1>3 DEF ReferenceOf
  <2> HIDE DEF r
  <2> DEFINE y == [r EXCEPT !.remote = reply, !.elapsed = 0, !.missed = FALSE, !.peer = peer]
  <2>8. AfterRequest(r, i) = Queued(y, w.kind, "remote")
    BY <1>3, <2>7 DEF AfterRequest, ReceiveRequest
  <2> HIDE DEF c, q, reply, peer
  <2>9. ElapsedOf(c) = 0 /\ c.missed = FALSE
    BY <2>2 DEF ElapsedOf
  <2>10. y = Ref(b.local, reply, q, ElapsedOf(c), c.missed, peer, b.deadline_fault,
                 b.protocol_fault)
    <3>1. y = [Ref(b.local, b.remote, q, ElapsedOf(b), b.missed, b.peer, b.deadline_fault,
                   b.protocol_fault)
               EXCEPT !.remote = reply, !.elapsed = 0, !.missed = FALSE, !.peer = peer]
      BY <2>6
    <3> HIDE DEF y
    <3>2. QED
      BY <2>9, <3>1 DEF Ref
  <2> HIDE DEF y
  <2>11. QueuesOf(c) = [q EXCEPT ![w.kind] = Append(q[w.kind], "remote")]
    BY <2>1, <2>5 DEF q, QueuesOf
  <2>12. ReferenceOf(c) = Ref(b.local, reply, [q EXCEPT ![w.kind] = Append(q[w.kind], "remote")],
             ElapsedOf(c), c.missed, peer, b.deadline_fault, b.protocol_fault)
    BY <2>2, <2>11, ReferenceForm
  <2>13. ReferenceOf(c) = AfterRequest(r, i)
    BY <2>8, <2>10, <2>12, QueuedForm
  <2>14. QED
    BY <2>13 DEF c, r
<1>4. QED
  BY <1>1, <1>2, <1>3
\* What a controller offers of a type is the eligible head of the type's queue.
LEMMA OffersAreHeads ==
    ASSUME NEW b \in Controller, NEW i \in Input, NEW k \in Kinds
    PROVE  LET r == ReferenceOf(b) IN
           /\ k \in LocalOffers(b) =>
                 r.queues[k] # <<>> /\ Head(r.queues[k]) = "local"
           /\ k \in RemoteOffers(b, i.limit) =>
                 /\ r.queues[k] # <<>> /\ Head(r.queues[k]) = "remote"
                 /\ k = "Rate" => i.limit # <<>> /\ i.limit[1] <= r.remote[1].rate
           /\ Eligible(r, k, i.limit) => k \in Offers(b, i.limit)
<1> DEFINE r == ReferenceOf(b)
           mine == LocalUnsent(b) /\ b.local[1].kind = k
           theirs == b.remote # <<>> /\ b.remote[1].kind = k
<1>1. /\ r.queues[k] = IF mine /\ theirs
                       THEN IF b.local_first THEN <<"local", "remote">> ELSE <<"remote", "local">>
                       ELSE IF mine THEN <<"local">>
                       ELSE IF theirs THEN <<"remote">>
                       ELSE <<>>
      /\ r.remote = b.remote
  BY DEF ReferenceOf, QueueOf
<1>2. k \in LocalOffers(b) <=> mine /\ (theirs => b.local_first)
  BY DEF LocalOffers, LocalHead, SameKind, LocalUnsent
<1>3. k \in RemoteOffers(b, i.limit) <=>
          theirs /\ (mine => ~b.local_first) /\ RemoteReady(b, i.limit)
  BY DEF RemoteOffers, RemoteHead, SameKind, LocalUnsent
<1>4. Head(<<"local">>) = "local" /\ Head(<<"remote">>) = "remote"
      /\ Head(<<"local", "remote">>) = "local" /\ Head(<<"remote", "local">>) = "remote"
  OBVIOUS
<1>5. <<"local">> # <<>> /\ <<"remote">> # <<>> /\ <<"local", "remote">> # <<>>
      /\ <<"remote", "local">> # <<>>
  OBVIOUS
<1>6. theirs => (RemoteReady(b, i.limit) <=>
                    (k = "Rate" => i.limit # <<>> /\ i.limit[1] <= b.remote[1].rate))
  BY DEF RemoteReady
<1> HIDE DEF r, mine, theirs
<1>7. k \in LocalOffers(b) => r.queues[k] # <<>> /\ Head(r.queues[k]) = "local"
  BY <1>1, <1>2, <1>4, <1>5
<1>8. k \in RemoteOffers(b, i.limit) => r.queues[k] # <<>> /\ Head(r.queues[k]) = "remote"
  BY <1>1, <1>3, <1>4, <1>5
<1>9. k \in RemoteOffers(b, i.limit) /\ k = "Rate" =>
          i.limit # <<>> /\ i.limit[1] <= r.remote[1].rate
  BY <1>1, <1>3, <1>6
<1>10. ASSUME Eligible(r, k, i.limit)
       PROVE  k \in Offers(b, i.limit)
  <2>1. r.queues[k] # <<>>
    BY <1>10 DEF Eligible
  <2>2. CASE mine /\ (theirs => b.local_first)
    BY <2>2, <1>2 DEF Offers
  <2>3. CASE ~mine \/ (theirs /\ ~b.local_first)
    <3>1. theirs /\ (mine => ~b.local_first) /\ Head(r.queues[k]) = "remote"
      BY <2>1, <2>3, <1>1, <1>4
    <3>2. k = "Rate" => i.limit # <<>> /\ i.limit[1] <= b.remote[1].rate
      BY <1>10, <3>1, <1>1 DEF Eligible
    <3>3. k \in RemoteOffers(b, i.limit)
      BY <3>1, <3>2, <1>3, <1>6
    <3>4. QED
      BY <3>3 DEF Offers
  <2>4. QED
    BY <2>2, <2>3
<1>11. QED
  BY <1>7, <1>8, <1>9, <1>10 DEF r

\* A service takes the same message off dl_basic_message_control.v's slots and off
\* the model's queue, or is diagnosed by both.
LEMMA CommitCommutes ==
    ASSUME NEW b \in Controller, NEW i \in Input
    PROVE  ReferenceOf(SlotCommit(b, i)) = AfterCommit(ReferenceOf(b), i)
<1> DEFINE r == ReferenceOf(b)
           k == i.take[1]
           c == SlotCommit(b, i)
           q == QueuesOf(b)
           sent == [r EXCEPT !.queues = [r.queues EXCEPT ![k] = Tail(r.queues[k])]]
<1>1. CASE i.take = <<>>
  BY <1>1 DEF SlotCommit, AfterCommit
<1>2. ASSUME i.take # <<>>
      PROVE  ReferenceOf(c) = AfterCommit(r, i)
  <2>1. k \in Kinds
    <3>1. i.take \in Optional(Kinds)
      BY DEF Input
    <3>2. QED
      BY <1>2, <3>1, OptionalCases
  <2>2. r = Ref(b.local, b.remote, q, ElapsedOf(b), b.missed, b.peer,
                b.deadline_fault, b.protocol_fault)
    BY ReferenceForm
  <2>3. r.queues = q /\ r.local = b.local /\ r.remote = b.remote
    BY DEF ReferenceOf, QueuesOf
  <2>4. sent = Ref(b.local, b.remote, [q EXCEPT ![k] = Tail(q[k])], ElapsedOf(b), b.missed,
                   b.peer, b.deadline_fault, b.protocol_fault)
    <3> DEFINE z == [q EXCEPT ![k] = Tail(q[k])]
    <3>1. sent = [r EXCEPT !.queues = z]
      BY <2>3
    <3> HIDE DEF z, sent, r
    <3>2. sent = Ref(b.local, b.remote, z, ElapsedOf(b), b.missed, b.peer,
                     b.deadline_fault, b.protocol_fault)
      BY <2>2, <3>1 DEF Ref
    <3>3. QED
      BY <3>2 DEF z
  <2>5. CASE k \in LocalOffers(b)
    <3>1. q[k] # <<>> /\ Head(q[k]) = "local" /\ Eligible(r, k, i.limit)
      BY <2>1, <2>3, <2>5, OffersAreHeads DEF Eligible
    <3>2. AfterCommit(r, i) = [sent EXCEPT !.local = [sent.local EXCEPT ![1].sent = TRUE]]
      BY <1>2, <2>3, <3>1 DEF AfterCommit, Commit
    <3> DEFINE l == [b.local EXCEPT ![1].sent = TRUE]
    <3>3. /\ c.local = l /\ c.remote = b.remote /\ c.local_first = b.local_first
          /\ c.age = b.age /\ c.missed = b.missed /\ c.peer = b.peer
          /\ c.deadline_fault = b.deadline_fault /\ c.protocol_fault = b.protocol_fault
      BY <1>2, <2>5 DEF SlotCommit, Controller
    <3>4. LocalUnsent(b) /\ b.local[1].kind = k /\ (SameKind(b) /\ b.remote # <<>> => b.local_first)
      BY <2>5 DEF LocalOffers, LocalHead
    <3>5. ~LocalUnsent(c)
      <4>1. b.local \in Optional(LocalSlot)
        BY DEF Controller
      <4>2. b.local[1] \in LocalSlot /\ b.local = <<b.local[1]>>
        BY <3>4, <4>1, OptionalCases DEF LocalUnsent
      <4>3. l[1].sent = TRUE
        BY <4>2 DEF LocalSlot
      <4>4. QED
        BY <3>3, <4>3 DEF LocalUnsent
    <3>6. ASSUME NEW n \in Kinds
          PROVE  QueueOf(c, n) = IF n = k THEN Tail(q[n]) ELSE q[n]
      <4>1. QueueOf(c, n) = IF b.remote # <<>> /\ b.remote[1].kind = n THEN <<"remote">> ELSE <<>>
        BY <3>3, <3>5 DEF QueueOf
      <4>2. q[n] = IF n = k
                   THEN IF b.remote # <<>> /\ b.remote[1].kind = n
                        THEN <<"local", "remote">> ELSE <<"local">>
                   ELSE IF b.remote # <<>> /\ b.remote[1].kind = n THEN <<"remote">> ELSE <<>>
        BY <3>4 DEF QueuesOf, QueueOf, SameKind
      <4>3. QED
        BY <4>1, <4>2, ShortQueues
    <3> HIDE DEF c, q, sent, r
    <3>7. sent.local = b.local
      BY <2>4 DEF Ref
    <3>8. AfterCommit(r, i) = [sent EXCEPT !.local = l]
      BY <3>2, <3>7
    <3> HIDE DEF l
    <3>9. AfterCommit(r, i) =
              Ref(l, b.remote, [q EXCEPT ![k] = Tail(q[k])], ElapsedOf(b), b.missed,
                  b.peer, b.deadline_fault, b.protocol_fault)
      BY <2>4, <3>8 DEF Ref
    <3>10. QueuesOf(c) = [q EXCEPT ![k] = Tail(q[k])]
      BY <2>1, <3>6 DEF q, QueuesOf
    <3>11. ElapsedOf(c) = ElapsedOf(b)
      BY <3>3 DEF ElapsedOf
    <3>12. QED
      BY <3>3, <3>9, <3>10, <3>11, ReferenceForm
  <2>6. CASE k \notin LocalOffers(b) /\ k \in RemoteOffers(b, i.limit)
    <3>1. q[k] # <<>> /\ Head(q[k]) = "remote" /\ Eligible(r, k, i.limit)
      BY <2>1, <2>3, <2>6, OffersAreHeads DEF Eligible
    <3>2. AfterCommit(r, i) = [sent EXCEPT !.remote = <<>>, !.elapsed = 0, !.missed = FALSE]
      BY <1>2, <2>3, <3>1 DEF AfterCommit, Commit
    <3>3. /\ c.local = b.local /\ c.remote = <<>> /\ c.local_first = b.local_first
          /\ c.age = 0 /\ c.missed = FALSE /\ c.peer = b.peer
          /\ c.deadline_fault = b.deadline_fault /\ c.protocol_fault = b.protocol_fault
      BY <1>2, <2>6 DEF SlotCommit, Controller
    <3>4. /\ b.remote # <<>> /\ b.remote[1].kind = k
          /\ LocalUnsent(b) /\ SameKind(b) => ~b.local_first
      BY <2>6 DEF RemoteOffers, RemoteHead
    <3>5. ASSUME NEW n \in Kinds
          PROVE  QueueOf(c, n) = IF n = k THEN Tail(q[n]) ELSE q[n]
      <4>1. QueueOf(c, n) = IF LocalUnsent(b) /\ b.local[1].kind = n THEN <<"local">> ELSE <<>>
        BY <3>3 DEF QueueOf, LocalUnsent
      <4>2. q[n] = IF n = k
                   THEN IF LocalUnsent(b) /\ b.local[1].kind = n
                        THEN <<"remote", "local">> ELSE <<"remote">>
                   ELSE IF LocalUnsent(b) /\ b.local[1].kind = n THEN <<"local">> ELSE <<>>
        BY <3>4 DEF QueuesOf, QueueOf, SameKind
      <4>3. QED
        BY <4>1, <4>2, ShortQueues
    <3> HIDE DEF c, q, sent, r
    <3>6. ElapsedOf(c) = 0
      BY <3>3 DEF ElapsedOf
    <3>7. AfterCommit(r, i) =
              Ref(b.local, <<>>, [q EXCEPT ![k] = Tail(q[k])], ElapsedOf(c), c.missed,
                  b.peer, b.deadline_fault, b.protocol_fault)
      BY <2>4, <3>2, <3>3, <3>6 DEF Ref
    <3>8. QueuesOf(c) = [q EXCEPT ![k] = Tail(q[k])]
      BY <2>1, <3>5 DEF q, QueuesOf
    <3>9. QED
      BY <3>3, <3>7, <3>8, ReferenceForm
  <2>7. CASE k \notin Offers(b, i.limit)
    <3>1. ~Eligible(r, k, i.limit)
      BY <2>1, <2>7, OffersAreHeads
    <3>2. AfterCommit(r, i) = Faulted(r) /\ SlotCommit(b, i) = SlotFaulted(b)
      BY <1>2, <2>7, <3>1 DEF AfterCommit, SlotCommit, Offers
    <3>3. QED
      BY <3>2, FaultCommutes
  <2>8. QED
    BY <2>5, <2>6, <2>7 DEF Offers
<1>3. QED
  BY <1>1, <1>2
-----------------------------------------------------------------------------
\* Each event leaves a controller.
LEMMA AdvanceFields ==
    ASSUME NEW b \in Controller
    PROVE  LET c == SlotAdvance(b) IN
           /\ c \in Controller
           /\ c.local = b.local /\ c.remote = b.remote /\ c.local_first = b.local_first
           /\ c.peer = b.peer /\ c.protocol_fault = b.protocol_fault
           /\ c.age = IF b.remote # <<>> /\ b.age # AckCycles THEN b.age + 1 ELSE b.age
           /\ c.missed = (b.missed \/ DeadlineMiss(b))
           /\ c.deadline_fault = (b.deadline_fault \/ DeadlineMiss(b))
<1>1. CASE b.remote = <<>>
  <2>1. ~DeadlineMiss(b) /\ SlotAdvance(b) = b
    BY <1>1 DEF DeadlineMiss, SlotAdvance
  <2>2. b.missed \in BOOLEAN /\ b.deadline_fault \in BOOLEAN
    BY DEF Controller
  <2>3. QED
    BY <1>1, <2>1, <2>2
<1>2. CASE b.remote # <<>>
  <2>1. DeadlineMiss(b) \in BOOLEAN
    BY DEF DeadlineMiss
  <2>2. b.age # AckCycles => b.age + 1 \in 0 .. AckCycles
    BY BasicAssumption DEF Controller
  <2>3. QED
    BY <1>2, <2>1, <2>2 DEF SlotAdvance, Controller
<1>3. QED
  BY <1>1, <1>2

\* What an acknowledgement does to each register of dl_basic_message_control.v.
LEMMA AckFields ==
    ASSUME NEW b \in Controller, NEW i \in Input
    PROVE  LET c == SlotAck(b, i) IN
           /\ c \in Controller
           /\ c.local = IF LocalDone(b, i) THEN <<>> ELSE b.local
           /\ c.peer = IF LocalDone(b, i) /\ i.rx[1].kind \in Identities
                       THEN [b.peer EXCEPT ![i.rx[1].kind] = i.rx[1].value] ELSE b.peer
           /\ c.protocol_fault = (b.protocol_fault \/ (RxAck(i) /\ ~LocalDone(b, i)))
           /\ c.remote = b.remote /\ c.local_first = b.local_first /\ c.age = b.age
           /\ c.missed = b.missed /\ c.deadline_fault = b.deadline_fault
<1>0. b.protocol_fault \in BOOLEAN
  BY DEF Controller
<1>1. CASE ~RxAck(i)
  BY <1>0, <1>1 DEF SlotAck, LocalDone
<1>2. CASE RxAck(i) /\ ~Matching(b, i.rx[1])
  BY <1>2 DEF SlotAck, SlotFaulted, LocalDone, Controller
<1>3. CASE RxAck(i) /\ Matching(b, i.rx[1])
  <2> DEFINE peer == IF i.rx[1].kind \in Identities
                     THEN [b.peer EXCEPT ![i.rx[1].kind] = i.rx[1].value] ELSE b.peer
  <2>1. peer \in [Kinds -> Nat]
    <3>1. i.rx \in Optional(Word)
      BY DEF Input
    <3>2. i.rx[1] \in Word
      BY <1>3, <3>1, OptionalCases DEF RxAck
    <3>3. i.rx[1].kind \in Kinds /\ i.rx[1].value \in Nat
      BY <3>2 DEF Word
    <3>4. QED
      BY <3>3 DEF Controller
  <2>2. <<>> \in Optional(LocalSlot)
    BY DEF Optional
  <2>3. SlotAck(b, i) = [b EXCEPT !.local = <<>>, !.peer = peer]
    BY <1>3 DEF SlotAck
  <2>4. LocalDone(b, i)
    BY <1>3 DEF LocalDone
  <2> HIDE DEF peer
  <2>5. /\ SlotAck(b, i) \in Controller
        /\ SlotAck(b, i).local = <<>> /\ SlotAck(b, i).peer = peer
        /\ SlotAck(b, i).protocol_fault = b.protocol_fault
        /\ SlotAck(b, i).remote = b.remote /\ SlotAck(b, i).local_first = b.local_first
        /\ SlotAck(b, i).age = b.age /\ SlotAck(b, i).missed = b.missed
        /\ SlotAck(b, i).deadline_fault = b.deadline_fault
    BY <2>1, <2>2, <2>3 DEF Controller
  <2>6. QED
    BY <1>0, <2>4, <2>5 DEF peer
<1>4. QED
  BY <1>1, <1>2, <1>3

\* Marking the request as sent keeps the rest of its slot.
LEMMA SentForm ==
    ASSUME NEW x, NEW t, t = <<x>>
    PROVE  [t EXCEPT ![1].sent = TRUE] = <<[x EXCEPT !.sent = TRUE]>>
<1> DEFINE y == [x EXCEPT !.sent = TRUE]
<1>1. t[1] = x /\ DOMAIN t = {1} /\ t = [n \in {1} |-> x]
  OBVIOUS
<1>2. [t EXCEPT ![1].sent = TRUE] = [t EXCEPT ![1] = y]
  BY <1>1
<1> HIDE DEF y
<1>3. [t EXCEPT ![1] = y] = <<y>>
  BY <1>1
<1>4. QED
  BY <1>2, <1>3 DEF y

\* What a service does to each register of dl_basic_message_control.v.
LEMMA CommitFields ==
    ASSUME NEW b \in Controller, NEW i \in Input
    PROVE  LET c == SlotCommit(b, i) IN
           /\ c \in Controller
           /\ c.local = IF LocalCommit(b, i) THEN [b.local EXCEPT ![1].sent = TRUE] ELSE b.local
           /\ c.remote = IF ReplyDone(b, i) THEN <<>> ELSE b.remote
           /\ c.age = IF ReplyDone(b, i) THEN 0 ELSE b.age
           /\ c.missed = IF ReplyDone(b, i) THEN FALSE ELSE b.missed
           /\ c.protocol_fault = (b.protocol_fault \/
                                     (i.take # <<>> /\ i.take[1] \notin Offers(b, i.limit)))
           /\ c.peer = b.peer /\ c.local_first = b.local_first
           /\ c.deadline_fault = b.deadline_fault
<1> DEFINE k == i.take[1]
           c == SlotCommit(b, i)
<1>0. b.protocol_fault \in BOOLEAN
  BY DEF Controller
<1>1. CASE i.take = <<>>
  BY <1>0, <1>1 DEF SlotCommit, LocalCommit, ReplyDone
<1>2. CASE i.take # <<>>
  <2>1. k \in Kinds
    <3>1. i.take \in Optional(Kinds)
      BY DEF Input
    <3>2. QED
      BY <1>2, <3>1, OptionalCases
  <2>2. ~(k \in LocalOffers(b) /\ k \in RemoteOffers(b, i.limit))
    <3>1. "local" # "remote"
      OBVIOUS
    <3>2. QED
      BY <2>1, <3>1, OffersAreHeads
  <2>3. CASE k \in LocalOffers(b)
    <3>1. LocalCommit(b, i) /\ ~ReplyDone(b, i) /\ k \in Offers(b, i.limit)
      BY <1>2, <2>2, <2>3 DEF LocalCommit, ReplyDone, Offers
    <3> DEFINE l == [b.local EXCEPT ![1].sent = TRUE]
    <3>2. l \in Optional(LocalSlot)
      <4>1. b.local # <<>> /\ b.local \in Optional(LocalSlot)
        BY <2>3 DEF LocalOffers, LocalHead, LocalUnsent, Controller
      <4>2. b.local[1] \in LocalSlot /\ b.local = <<b.local[1]>>
        BY <4>1, OptionalCases
      <4>3. l = <<[b.local[1] EXCEPT !.sent = TRUE]>>
        BY <4>2, SentForm
      <4>4. [b.local[1] EXCEPT !.sent = TRUE] \in LocalSlot
        BY <4>2 DEF LocalSlot
      <4>5. QED
        BY <4>3, <4>4 DEF Optional
    <3>3. c = [b EXCEPT !.local = l]
      BY <1>2, <2>3 DEF SlotCommit
    <3> HIDE DEF l, c
    <3>4. /\ c \in Controller /\ c.local = l /\ c.remote = b.remote /\ c.age = b.age
          /\ c.missed = b.missed /\ c.protocol_fault = b.protocol_fault /\ c.peer = b.peer
          /\ c.local_first = b.local_first /\ c.deadline_fault = b.deadline_fault
      BY <3>2, <3>3 DEF Controller
    <3>5. QED
      BY <1>0, <3>1, <3>4 DEF l, c
  <2>4. CASE k \notin LocalOffers(b) /\ k \in RemoteOffers(b, i.limit)
    <3>1. ~LocalCommit(b, i) /\ ReplyDone(b, i) /\ k \in Offers(b, i.limit)
      BY <1>2, <2>4 DEF LocalCommit, ReplyDone, Offers
    <3>2. c = [b EXCEPT !.remote = <<>>, !.age = 0, !.missed = FALSE]
      BY <1>2, <2>4 DEF SlotCommit
    <3>3. <<>> \in Optional(RemoteSlot) /\ 0 \in 0 .. AckCycles
      BY BasicAssumption DEF Optional
    <3> HIDE DEF c
    <3>4. /\ c \in Controller /\ c.local = b.local /\ c.remote = <<>> /\ c.age = 0
          /\ c.missed = FALSE /\ c.protocol_fault = b.protocol_fault /\ c.peer = b.peer
          /\ c.local_first = b.local_first /\ c.deadline_fault = b.deadline_fault
      BY <3>2, <3>3 DEF Controller
    <3>5. QED
      BY <1>0, <3>1, <3>4 DEF c
  <2>5. CASE k \notin Offers(b, i.limit)
    <3>1. ~LocalCommit(b, i) /\ ~ReplyDone(b, i) /\ c = SlotFaulted(b)
      BY <1>2, <2>5 DEF LocalCommit, ReplyDone, Offers, SlotCommit
    <3> HIDE DEF c
    <3>2. /\ c \in Controller /\ c.local = b.local /\ c.remote = b.remote /\ c.age = b.age
          /\ c.missed = b.missed /\ c.protocol_fault = TRUE /\ c.peer = b.peer
          /\ c.local_first = b.local_first /\ c.deadline_fault = b.deadline_fault
      BY <3>1 DEF Controller, SlotFaulted
    <3>3. QED
      BY <1>2, <2>5, <3>1, <3>2 DEF c
  <2>6. QED
    BY <2>3, <2>4, <2>5 DEF Offers
<1>3. QED
  BY <1>1, <1>2

\* What a request of the peer does to each register of dl_basic_message_control.v.
LEMMA RequestFields ==
    ASSUME NEW b \in Controller, NEW i \in Input
    PROVE  LET c == SlotRequest(b, i)
               takes == RxAsks(i) /\ b.remote = <<>> IN
           /\ c \in Controller
           /\ c.remote = IF takes THEN <<ReplyTo(i.rx[1], i.identity)>> ELSE b.remote
           /\ c.age = IF takes THEN 0 ELSE b.age
           /\ c.missed = IF takes THEN FALSE ELSE b.missed
           /\ c.local_first = IF takes THEN LocalUnsent(b) ELSE b.local_first
           /\ c.peer = IF takes /\ i.rx[1].kind # "TxReady"
                       THEN [b.peer EXCEPT ![i.rx[1].kind] = i.rx[1].value] ELSE b.peer
           /\ c.protocol_fault = (b.protocol_fault \/ (RxAsks(i) /\ b.remote # <<>>))
           /\ c.local = b.local /\ c.deadline_fault = b.deadline_fault
<1> DEFINE c == SlotRequest(b, i)
           w == i.rx[1]
           reply == <<ReplyTo(w, i.identity)>>
           peer == IF w.kind # "TxReady" THEN [b.peer EXCEPT ![w.kind] = w.value] ELSE b.peer
<1>0. b.protocol_fault \in BOOLEAN
  BY DEF Controller
<1>1. CASE ~RxAsks(i)
  BY <1>0, <1>1 DEF SlotRequest
<1>2. CASE RxAsks(i) /\ b.remote # <<>>
  BY <1>2 DEF SlotRequest, SlotFaulted, Controller
<1>3. CASE RxAsks(i) /\ b.remote = <<>>
  <2>1. w.kind \in Kinds /\ w.value \in Nat
    <3>1. i.rx \in Optional(Word)
      BY DEF Input
    <3>2. w \in Word
      BY <1>3, <3>1, OptionalCases DEF RxAsks
    <3>3. QED
      BY <3>2 DEF Word
  <2>2. peer \in [Kinds -> Nat]
    BY <2>1 DEF Controller
  <2>3. reply \in Optional(RemoteSlot)
    <3>1. i.identity \in Nat
      BY DEF Input
    <3>2. ReplyTo(w, i.identity) \in RemoteSlot
      BY <2>1, <3>1 DEF ReplyTo, RemoteSlot
    <3>3. QED
      BY <3>2 DEF Optional
  <2>4. LocalUnsent(b) \in BOOLEAN /\ 0 \in 0 .. AckCycles
    BY BasicAssumption DEF LocalUnsent
  <2>5. c = [b EXCEPT !.remote = reply, !.age = 0, !.missed = FALSE,
                      !.local_first = LocalUnsent(b), !.peer = peer]
    BY <1>3 DEF SlotRequest
  <2> HIDE DEF c, reply, peer
  <2>6. /\ c \in Controller /\ c.remote = reply /\ c.age = 0 /\ c.missed = FALSE
        /\ c.local_first = LocalUnsent(b) /\ c.peer = peer
        /\ c.protocol_fault = b.protocol_fault /\ c.local = b.local
        /\ c.deadline_fault = b.deadline_fault
    BY <2>2, <2>3, <2>4, <2>5 DEF Controller
  <2>7. QED
    BY <1>0, <1>3, <2>6 DEF c, reply, peer
<1>4. QED
  BY <1>1, <1>2, <1>3

\* What a request of this end does to each register of dl_basic_message_control.v.
LEMMA StartFields ==
    ASSUME NEW b \in Controller, NEW i \in Input, NEW ready \in BOOLEAN
    PROVE  LET c == SlotStart(b, i, ready)
               starts == i.start # <<>> /\ ready IN
           /\ c \in Controller
           /\ c.local = IF starts
                        THEN <<[kind |-> i.start[1].kind, value |-> i.start[1].value,
                                sent |-> FALSE]>>
                        ELSE b.local
           /\ c.local_first = IF starts THEN FALSE ELSE b.local_first
           /\ c.remote = b.remote /\ c.age = b.age /\ c.missed = b.missed /\ c.peer = b.peer
           /\ c.protocol_fault = b.protocol_fault /\ c.deadline_fault = b.deadline_fault
<1> DEFINE c == SlotStart(b, i, ready)
           l == <<[kind |-> i.start[1].kind, value |-> i.start[1].value, sent |-> FALSE]>>
<1>1. CASE ~(i.start # <<>> /\ ready)
  BY <1>1 DEF SlotStart
<1>2. CASE i.start # <<>> /\ ready
  <2>1. l \in Optional(LocalSlot)
    <3>1. i.start \in Optional(Ask)
      BY DEF Input
    <3>2. i.start[1] \in Ask
      BY <1>2, <3>1, OptionalCases
    <3>3. [kind |-> i.start[1].kind, value |-> i.start[1].value, sent |-> FALSE] \in LocalSlot
      BY <3>2 DEF Ask, LocalSlot
    <3>4. QED
      BY <3>3 DEF Optional
  <2>2. c = [b EXCEPT !.local = l, !.local_first = FALSE]
    BY <1>2 DEF SlotStart
  <2> HIDE DEF c, l
  <2>3. /\ c \in Controller /\ c.local = l /\ c.local_first = FALSE /\ c.remote = b.remote
        /\ c.age = b.age /\ c.missed = b.missed /\ c.peer = b.peer
        /\ c.protocol_fault = b.protocol_fault /\ c.deadline_fault = b.deadline_fault
    BY <2>1, <2>2 DEF Controller
  <2>4. QED
    BY <1>2, <2>3 DEF c, l
<1>3. QED
  BY <1>1, <1>2
-----------------------------------------------------------------------------
\* The RTL, which judges all events of an edge by the state before it, makes the
\* same step as the events one after the other.
THEOREM EdgeIsEvents ==
    ASSUME NEW b \in Controller, Settled(b), NEW i \in Input
    PROVE  LET c1 == SlotAdvance(b)
               c2 == SlotAck(c1, i)
               c3 == SlotCommit(c2, i)
               c4 == SlotRequest(c3, i)
               c5 == SlotStart(c4, i, LocalReady(b)) IN
           /\ c1 \in Controller /\ c2 \in Controller /\ c3 \in Controller /\ c4 \in Controller
           /\ LocalReady(b) => c4.local = <<>>
           /\ BasicEdge(b, i) = c5
           /\ BasicEdge(b, i) \in Controller /\ Settled(BasicEdge(b, i))
<1> DEFINE c1 == SlotAdvance(b)
           c2 == SlotAck(c1, i)
           c3 == SlotCommit(c2, i)
           c4 == SlotRequest(c3, i)
           c5 == SlotStart(c4, i, LocalReady(b))
           e == BasicEdge(b, i)
           late == DeadlineMiss(b)
           older == IF b.remote # <<>> /\ b.age # AckCycles THEN b.age + 1 ELSE b.age
<1>1. /\ c1 \in Controller /\ c1.local = b.local /\ c1.remote = b.remote
      /\ c1.local_first = b.local_first /\ c1.peer = b.peer
      /\ c1.protocol_fault = b.protocol_fault /\ c1.age = older
      /\ c1.missed = (b.missed \/ late) /\ c1.deadline_fault = (b.deadline_fault \/ late)
  BY AdvanceFields
<1> HIDE DEF c1, older, late
<1>2. LocalDone(c1, i) = LocalDone(b, i)
  BY <1>1 DEF LocalDone, Matching
<1>3. /\ c2 \in Controller
      /\ c2.local = IF LocalDone(b, i) THEN <<>> ELSE b.local
      /\ c2.peer = IF LocalDone(b, i) /\ i.rx[1].kind \in Identities
                   THEN [b.peer EXCEPT ![i.rx[1].kind] = i.rx[1].value] ELSE b.peer
      /\ c2.protocol_fault = (b.protocol_fault \/ (RxAck(i) /\ ~LocalDone(b, i)))
      /\ c2.remote = b.remote /\ c2.local_first = b.local_first /\ c2.age = older
      /\ c2.missed = (b.missed \/ late) /\ c2.deadline_fault = (b.deadline_fault \/ late)
  BY <1>1, <1>2, AckFields
<1> HIDE DEF c2
<1>4. LocalDone(b, i) => ~LocalUnsent(b)
  BY DEF LocalDone, Matching, LocalUnsent
<1>5. LocalUnsent(c2) = LocalUnsent(b)
  BY <1>3, <1>4 DEF LocalUnsent
<1>6. LocalUnsent(b) => c2.local = b.local
  BY <1>3, <1>4
<1>7. LocalOffers(c2) = LocalOffers(b)
  BY <1>3, <1>5, <1>6 DEF LocalOffers, LocalHead, SameKind
<1>8. RemoteOffers(c2, i.limit) = RemoteOffers(b, i.limit)
  BY <1>3, <1>5, <1>6 DEF RemoteOffers, RemoteHead, RemoteReady, SameKind
<1>9. /\ LocalCommit(c2, i) = LocalCommit(b, i) /\ ReplyDone(c2, i) = ReplyDone(b, i)
      /\ Offers(c2, i.limit) = Offers(b, i.limit)
  BY <1>7, <1>8 DEF LocalCommit, ReplyDone, Offers
<1>10. LocalCommit(b, i) => LocalUnsent(b) /\ ~LocalDone(b, i)
  BY <1>4 DEF LocalCommit, LocalOffers, LocalHead
<1>11. /\ c3 \in Controller
       /\ c3.local = IF LocalCommit(b, i) THEN [b.local EXCEPT ![1].sent = TRUE]
                     ELSE IF LocalDone(b, i) THEN <<>> ELSE b.local
       /\ c3.remote = IF ReplyDone(b, i) THEN <<>> ELSE b.remote
       /\ c3.age = IF ReplyDone(b, i) THEN 0 ELSE older
       /\ c3.missed = IF ReplyDone(b, i) THEN FALSE ELSE b.missed \/ late
       /\ c3.protocol_fault = (b.protocol_fault \/ (RxAck(i) /\ ~LocalDone(b, i)) \/
                                  (i.take # <<>> /\ i.take[1] \notin Offers(b, i.limit)))
       /\ c3.peer = c2.peer /\ c3.local_first = b.local_first
       /\ c3.deadline_fault = (b.deadline_fault \/ late)
  <2>1. /\ c3 \in Controller
        /\ c3.local = IF LocalCommit(b, i) THEN [c2.local EXCEPT ![1].sent = TRUE] ELSE c2.local
        /\ c3.remote = IF ReplyDone(b, i) THEN <<>> ELSE c2.remote
        /\ c3.age = IF ReplyDone(b, i) THEN 0 ELSE c2.age
        /\ c3.missed = IF ReplyDone(b, i) THEN FALSE ELSE c2.missed
        /\ c3.protocol_fault = (c2.protocol_fault \/
                                   (i.take # <<>> /\ i.take[1] \notin Offers(b, i.limit)))
        /\ c3.peer = c2.peer /\ c3.local_first = c2.local_first
        /\ c3.deadline_fault = c2.deadline_fault
    <3>1. /\ c3 \in Controller
          /\ c3.local = IF LocalCommit(c2, i) THEN [c2.local EXCEPT ![1].sent = TRUE]
                        ELSE c2.local
          /\ c3.remote = IF ReplyDone(c2, i) THEN <<>> ELSE c2.remote
          /\ c3.age = IF ReplyDone(c2, i) THEN 0 ELSE c2.age
          /\ c3.missed = IF ReplyDone(c2, i) THEN FALSE ELSE c2.missed
          /\ c3.protocol_fault = (c2.protocol_fault \/
                                     (i.take # <<>> /\ i.take[1] \notin Offers(c2, i.limit)))
          /\ c3.peer = c2.peer /\ c3.local_first = c2.local_first
          /\ c3.deadline_fault = c2.deadline_fault
      BY <1>3, CommitFields
    <3> HIDE DEF c3
    <3>2. QED
      BY <3>1, <1>9
  <2> HIDE DEF c3
  <2>2. c3.local = IF LocalCommit(b, i) THEN [b.local EXCEPT ![1].sent = TRUE]
                   ELSE IF LocalDone(b, i) THEN <<>> ELSE b.local
    BY <2>1, <1>3, <1>6, <1>10
  <2>3. c3.missed = IF ReplyDone(b, i) THEN FALSE ELSE b.missed \/ late
    BY <2>1, <1>3
  <2>4. QED
    BY <2>1, <2>2, <2>3, <1>3
<1> HIDE DEF c3
<1>12. LocalUnsent(c3) = (LocalUnsent(b) /\ ~LocalCommit(b, i))
  <2>1. CASE LocalCommit(b, i)
    <3>1. b.local # <<>> /\ b.local \in Optional(LocalSlot)
      BY <1>10, <2>1 DEF LocalUnsent, Controller
    <3>2. b.local[1] \in LocalSlot /\ b.local = <<b.local[1]>>
      BY <3>1, OptionalCases
    <3>3. [b.local EXCEPT ![1].sent = TRUE][1].sent = TRUE
      BY <3>2 DEF LocalSlot
    <3>4. QED
      BY <2>1, <3>3, <1>11 DEF LocalUnsent
  <2>2. CASE ~LocalCommit(b, i)
    BY <2>2, <1>4, <1>11 DEF LocalUnsent
  <2>3. QED
    BY <2>1, <2>2
<1>13. /\ RxRequest(b, i) <=> RxAsks(i) /\ c3.remote = <<>>
       /\ RxRequest(b, i) => ~LocalDone(b, i)
  BY <1>11 DEF RxRequest, LocalDone, RxAsks, RxAck
<1>14. /\ c4 \in Controller
       /\ c4.remote = IF RxRequest(b, i) THEN <<ReplyTo(i.rx[1], i.identity)>> ELSE c3.remote
       /\ c4.age = IF RxRequest(b, i) THEN 0 ELSE c3.age
       /\ c4.missed = IF RxRequest(b, i) THEN FALSE ELSE c3.missed
       /\ c4.local_first = IF RxRequest(b, i) THEN LocalUnsent(c3) ELSE c3.local_first
       /\ c4.peer = IF RxRequest(b, i) /\ i.rx[1].kind # "TxReady"
                    THEN [c3.peer EXCEPT ![i.rx[1].kind] = i.rx[1].value] ELSE c3.peer
       /\ c4.protocol_fault = (c3.protocol_fault \/ (RxAsks(i) /\ ~RxRequest(b, i)))
       /\ c4.local = c3.local /\ c4.deadline_fault = c3.deadline_fault
  BY <1>11, <1>13, RequestFields
<1> HIDE DEF c4
<1>15. LocalReady(b) => c4.local = <<>>
  <2>1. LocalReady(b) => b.local = <<>> /\ ~LocalUnsent(b)
    BY DEF LocalReady, LocalUnsent
  <2>2. QED
    BY <2>1, <1>10, <1>11, <1>14
<1>16. /\ c5 \in Controller
       /\ c5.local = IF LocalStart(b, i)
                     THEN <<[kind |-> i.start[1].kind, value |-> i.start[1].value,
                             sent |-> FALSE]>>
                     ELSE c4.local
       /\ c5.local_first = IF LocalStart(b, i) THEN FALSE ELSE c4.local_first
       /\ c5.remote = c4.remote /\ c5.age = c4.age /\ c5.missed = c4.missed
       /\ c5.peer = c4.peer /\ c5.protocol_fault = c4.protocol_fault
       /\ c5.deadline_fault = c4.deadline_fault
  <2>1. LocalReady(b) \in BOOLEAN
    BY DEF LocalReady
  <2>2. QED
    BY <2>1, <1>14, StartFields DEF LocalStart
<1> HIDE DEF c5
<1>17. c5.local = LocalAfter(b, i)
  BY <1>10, <1>11, <1>14, <1>16 DEF LocalAfter
<1>18. c5.remote = RemoteAfter(b, i)
  BY <1>11, <1>14, <1>16 DEF RemoteAfter
<1>19. c5.local_first = FirstAfter(b, i)
  <2>1. LocalStart(b, i) => ~LocalUnsent(b)
    BY DEF LocalStart, LocalReady, LocalUnsent
  <2>2. QED
    BY <2>1, <1>11, <1>12, <1>14, <1>16 DEF FirstAfter
<1>20. c5.age = AgeAfter(b, i)
  <2>1. c5.age = IF RxRequest(b, i) \/ ReplyDone(b, i) THEN 0 ELSE older
    BY <1>11, <1>14, <1>16
  <2>2. b.remote = <<>> => b.age = 0
    BY DEF Settled
  <2>3. QED
    BY <2>1, <2>2 DEF AgeAfter, older
<1>21. c5.missed = MissedAfter(b, i)
  BY <1>11, <1>14, <1>16 DEF MissedAfter, late
<1>22. c5.peer = PeerAfter(b, i)
  <2>1. CASE RxRequest(b, i)
    <3>1. c5.peer = IF i.rx[1].kind # "TxReady"
                    THEN [b.peer EXCEPT ![i.rx[1].kind] = i.rx[1].value] ELSE b.peer
      BY <2>1, <1>3, <1>11, <1>13, <1>14, <1>16
    <3>2. Learns(b, i) <=> i.rx[1].kind # "TxReady"
      BY <2>1, <1>13 DEF Learns
    <3>3. QED
      BY <3>1, <3>2 DEF PeerAfter
  <2>2. CASE ~RxRequest(b, i)
    <3>1. c5.peer = c2.peer
      BY <2>2, <1>11, <1>14, <1>16
    <3>2. Learns(b, i) <=> LocalDone(b, i) /\ i.rx[1].kind \in Identities
      BY <2>2 DEF Learns
    <3>3. QED
      BY <3>1, <3>2, <1>3 DEF PeerAfter
  <2>3. QED
    BY <2>1, <2>2
<1>23. c5.protocol_fault = (b.protocol_fault \/ Faults(b, i))
  BY <1>11, <1>14, <1>16 DEF Faults
<1>24. c5.deadline_fault = (b.deadline_fault \/ DeadlineMiss(b))
  BY <1>11, <1>14, <1>16 DEF late
<1>25. c5 = [local |-> c5.local, remote |-> c5.remote, local_first |-> c5.local_first,
             age |-> c5.age, missed |-> c5.missed, peer |-> c5.peer,
             deadline_fault |-> c5.deadline_fault, protocol_fault |-> c5.protocol_fault]
  BY <1>16, ControllerForm
<1>26. e = c5
  BY <1>17, <1>18, <1>19, <1>20, <1>21, <1>22, <1>23, <1>24, <1>25, Zenon DEF BasicEdge
<1>27. Settled(c5)
  <2>1. c5.remote = <<>> => ~RxRequest(b, i)
    <3>1. <<ReplyTo(i.rx[1], i.identity)>> # <<>>
      OBVIOUS
    <3>2. QED
      BY <3>1, <1>14, <1>16
  <2>2. CASE ReplyDone(b, i) /\ ~RxRequest(b, i)
    BY <2>2, <1>11, <1>14, <1>16 DEF Settled
  <2>3. CASE ~ReplyDone(b, i) /\ ~RxRequest(b, i)
    <3>1. c5.remote = b.remote /\ c5.age = older /\ c5.missed = (b.missed \/ late)
      BY <2>3, <1>11, <1>14, <1>16
    <3>2. QED
      BY <3>1 DEF Settled, older, late, DeadlineMiss
  <2>4. QED
    BY <2>1, <2>2, <2>3 DEF Settled
<1>28. QED
  BY <1>1, <1>3, <1>11, <1>14, <1>15, <1>16, <1>26, <1>27 DEF c1, c2, c3, c4, c5

\* dl_basic_message_control.v and dl_basic_message.py under dl_basic_control.py make
\* the same step from every state of the registers and with every input: slots,
\* diagnoses, deadline, what the peer announced, and the order of what is to be sent.
THEOREM EdgeAgrees ==
    ASSUME NEW b \in Controller, Settled(b), NEW i \in Input
    PROVE  ReferenceOf(BasicEdge(b, i)) = ReferenceEdge(ReferenceOf(b), i)
<1> DEFINE r == ReferenceOf(b)
           c1 == SlotAdvance(b)
           c2 == SlotAck(c1, i)
           c3 == SlotCommit(c2, i)
           c4 == SlotRequest(c3, i)
           ready == LocalReady(b)
<1>1. /\ c1 \in Controller /\ c2 \in Controller /\ c3 \in Controller /\ c4 \in Controller
      /\ ready => c4.local = <<>>
      /\ BasicEdge(b, i) = SlotStart(c4, i, ready)
  BY EdgeIsEvents
<1>2. LocalReady(r) = ready /\ ready \in BOOLEAN
  BY DEF LocalReady, ReferenceOf
<1> HIDE DEF c1, c2, c3, c4, ready
<1>3. ReferenceOf(c1) = AdvanceTo(r)
  BY AdvanceCommutes DEF c1
<1>4. ReferenceOf(c2) = AfterAck(ReferenceOf(c1), i)
  BY <1>1, AckCommutes DEF c2
<1>5. ReferenceOf(c3) = AfterCommit(ReferenceOf(c2), i)
  BY <1>1, CommitCommutes DEF c3
<1>6. ReferenceOf(c4) = AfterRequest(ReferenceOf(c3), i)
  BY <1>1, RequestCommutes DEF c4
<1>7. ReferenceOf(SlotStart(c4, i, ready)) = AfterStart(ReferenceOf(c4), i, ready)
  BY <1>1, <1>2, StartCommutes
<1> HIDE DEF r
<1>8. ReferenceOf(BasicEdge(b, i)) = ReferenceEdge(r, i)
  BY <1>1, <1>2, <1>3, <1>4, <1>5, <1>6, <1>7 DEF ReferenceEdge
<1>9. QED
  BY <1>8 DEF r

\* The states of an arbiter: only a source other than the Basic ones is between words.
Cursor == [group : Int, local : [Group -> Int]]
Arbiter ==
    [cursor : Cursor, active : {<<>>} \cup (Source \ BasicSources), word_index : Nat]

\* A source of dl_message_arbiter.v is a group and a place in it.
LEMMA SourceForm ==
    ASSUME NEW s \in Source
    PROVE  s[1] \in Group /\ s[2] \in Int /\ s # <<>> /\ Group \subseteq Int
           /\ Cardinality(Group) \in Nat \ {0} /\ Size[s[1]] \in Nat \ {0}
<1>1. PICK g \in Group : s \in {<<g, l>> : l \in 0 .. (Size[g] - 1)}
  BY DEF Source
<1>2. PICK l \in 0 .. (Size[g] - 1) : s = <<g, l>>
  BY <1>1
<1>3. Cardinality(Group) \in Nat /\ Cardinality(Group) # 0
  BY ArbiterAssumption, FS_CardinalityType, FS_EmptySet
<1>4. Group \subseteq Int
  BY <1>3, ArbiterAssumption
<1>5. Size[g] \in Nat \ {0}
  BY ArbiterAssumption
<1>6. QED
  BY <1>2, <1>3, <1>4, <1>5

\* The distances dl_message_arbiter.v compares are natural numbers.
LEMMA RankInNat ==
    ASSUME NEW c \in Cursor, NEW s \in Source
    PROVE  Rank(c, s)[1] \in Nat /\ Rank(c, s)[2] \in Nat
<1>1. \A x \in Int, n \in Nat \ {0} : x % n \in Nat
  OBVIOUS
<1>2. s[1] - c.group \in Int /\ s[2] - c.local[s[1]] \in Int
  BY SourceForm DEF Cursor
<1>3. QED
  BY <1>1, <1>2, SourceForm DEF Rank

\* Some distance is the least.
LEMMA LeastOfSome ==
    ASSUME NEW T, T \subseteq Nat, T # {}
    PROVE  \E x \in T : \A y \in T : ~(y < x)
<1>1. PICK x \in T : \A y \in T : <<y, x>> \notin OpToRel(<, Nat)
  BY NatLessThanWellFounded, WFMin
<1>2. QED
  BY <1>1 DEF OpToRel

\* Between messages dl_message_arbiter.v serves a source that has something ready.
LEMMA ServedIsPending ==
    ASSUME NEW a \in Arbiter, NEW q, a.active = <<>>, Pending(q) # {}
    PROVE  Served(a, q) \in Pending(q)
<1> DEFINE P == Pending(q)
           c == a.cursor
           firsts == {Rank(c, s)[1] : s \in P}
<1>1. c \in Cursor /\ \A s \in P : s \in Source
  BY DEF Arbiter, Pending
<1>2. \A s \in P : Rank(c, s)[1] \in Nat /\ Rank(c, s)[2] \in Nat
  BY <1>1, RankInNat
<1> HIDE DEF P, c
<1>3. PICK g \in firsts : \A y \in firsts : ~(y < g)
  <2>1. firsts \subseteq Nat /\ firsts # {}
    BY <1>2 DEF P
  <2>2. QED
    BY <2>1, LeastOfSome
<1> DEFINE best == {s \in P : Rank(c, s)[1] = g}
           seconds == {Rank(c, s)[2] : s \in best}
<1>4. PICK l \in seconds : \A y \in seconds : ~(y < l)
  <2>1. seconds \subseteq Nat /\ seconds # {}
    BY <1>2, <1>3
  <2>2. QED
    BY <2>1, LeastOfSome
<1>5. PICK s \in best : Rank(c, s)[2] = l
  BY <1>4
<1>6. \A t \in P : ~Before(c, t, s)
  BY <1>2, <1>3, <1>4, <1>5 DEF Before
<1>7. QED
  BY <1>5, <1>6 DEF Served, P, c

\* A Basic message is one word, so dl_message_arbiter.v is never between the words of
\* one, and serves a Basic source only while it has something ready.
LEMMA TickedArbiter ==
    ASSUME NEW a \in Arbiter, NEW q, Pending(q) # {},
           a.active = <<>> => a.word_index = 0,
           \A s \in BasicSources : q[s] # <<>> => Head(q[s]) = 1
    PROVE  /\ Ticked(a, q) \in Arbiter
           /\ Ticked(a, q).active = <<>> => Ticked(a, q).word_index = 0
           /\ Served(a, q) \in Source
           /\ Served(a, q) \in BasicSources => Served(a, q) \in Pending(q)
<1> DEFINE s == Served(a, q)
<1>1. s \in Source /\ (s \in BasicSources => a.active = <<>> /\ s \in Pending(q))
  <2>1. CASE a.active = <<>>
    BY <2>1, ServedIsPending DEF Pending
  <2>2. CASE a.active # <<>>
    BY <2>2 DEF Served, Arbiter
  <2>3. QED
    BY <2>1, <2>2
<1>2. ~Completes(a, q) => s \notin BasicSources
  <2>1. SUFFICES ASSUME s \in BasicSources PROVE Completes(a, q)
    OBVIOUS
  <2>2. Head(q[s]) = 1 /\ a.word_index = 0
    BY <1>1, <2>1 DEF Pending
  <2>3. QED
    BY <2>2 DEF Completes
<1> HIDE DEF s
<1>3. CASE Completes(a, q)
  <2>1. Advanced(a.cursor, s) \in Cursor
    <3>1. \A x \in Int, n \in Nat \ {0} : x % n \in Int
      OBVIOUS
    <3>2. (s[1] + 1) % Cardinality(Group) \in Int /\ (s[2] + 1) % Size[s[1]] \in Int
      BY <1>1, <3>1, SourceForm
    <3>3. a.cursor.local \in [Group -> Int]
      BY DEF Arbiter, Cursor
    <3>4. QED
      BY <3>2, <3>3 DEF Advanced, Cursor
  <2>2. Ticked(a, q) = [cursor |-> Advanced(a.cursor, s), active |-> <<>>, word_index |-> 0]
    BY <1>3 DEF Ticked, s
  <2>3. QED
    BY <1>1, <2>1, <2>2 DEF Arbiter, s
<1>4. CASE ~Completes(a, q)
  <2>1. Ticked(a, q) = [a EXCEPT !.active = s, !.word_index = a.word_index + 1]
    BY <1>4 DEF Ticked, s
  <2>2. s # <<>> /\ s \in Source \ BasicSources
    BY <1>1, <1>2, <1>4, SourceForm
  <2> DEFINE A == {<<>>} \cup (Source \ BasicSources)
             w == a.word_index + 1
  <2>3. a = [cursor |-> a.cursor, active |-> a.active, word_index |-> a.word_index]
        /\ a.cursor \in Cursor /\ w \in Nat /\ s \in A
    <3>1. a \in [cursor : Cursor, active : A, word_index : Nat]
      BY DEF Arbiter
    <3> HIDE DEF A
    <3>2. /\ a = [cursor |-> a.cursor, active |-> a.active, word_index |-> a.word_index]
          /\ a.cursor \in Cursor /\ a.word_index \in Nat
      BY <3>1
    <3>3. QED
      BY <3>2, <2>2 DEF A
  <2> HIDE DEF A, w
  <2>4. Ticked(a, q) = [a EXCEPT !.active = s, !.word_index = w]
    BY <2>1 DEF w
  <2>5. Ticked(a, q) = [cursor |-> a.cursor, active |-> s, word_index |-> w]
    BY <2>3, <2>4
  <2>6. [cursor |-> a.cursor, active |-> s, word_index |-> w] \in
            [cursor : Cursor, active : A, word_index : Nat]
    BY <2>3
  <2>7. Ticked(a, q) \in Arbiter /\ Ticked(a, q).active = s
    BY <2>5, <2>6 DEF Arbiter, A
  <2>8. QED
    BY <1>1, <2>2, <2>7 DEF s
<1>5. QED
  BY <1>3, <1>4

\* The legal states of two ends.
PeersInv ==
    /\ basic \in [End -> Controller]
    /\ \A e \in End : Settled(basic[e])
    /\ wire \in [End -> Seq(Word)]
    /\ limit \in [End -> Optional(Nat)]
    /\ arb \in [End -> Arbiter]
    /\ \A e \in End : arb[e].active = <<>> => arb[e].word_index = 0

\* Reset brings both state machines of dl_message_port.v to a legal state.
LEMMA ResetControls ==
    /\ BasicReset \in Controller /\ Settled(BasicReset)
    /\ ArbReset \in Arbiter /\ ArbReset.active = <<>> /\ ArbReset.word_index = 0
<1>1. BasicReset \in Controller /\ Settled(BasicReset)
  <2>1. [k \in Kinds |-> 0] \in [Kinds -> Nat] /\ 0 \in 0 .. AckCycles
    BY BasicAssumption
  <2>2. QED
    BY <2>1 DEF BasicReset, Controller, Settled, Optional
<1>2. ArbReset \in Arbiter /\ ArbReset.active = <<>> /\ ArbReset.word_index = 0
  BY DEF ArbReset, Arbiter, Cursor
<1>3. QED
  BY <1>1, <1>2

\* Whatever is served, requested and received at an edge of dl_message_port.v is an
\* input the controller is defined for.
LEMMA InputsTyped ==
    ASSUME PeersInv, NEW e \in End, NEW start \in Optional(Requests[e]),
           NEW deliver \in Deliveries(e), NEW winner
    PROVE  InputsOf(e, start, deliver, winner) \in Input
<1> DEFINE i == InputsOf(e, start, deliver, winner)
<1>1. start \in Optional(Ask)
  BY PeersAssumption DEF Optional, Ask
<1>2. i.take \in Optional(Kinds)
  <2>1. CASE winner # <<>> /\ winner[1] \in BasicSources
    <3>1. KindOf(winner[1]) \in Kinds
      BY <2>1 DEF KindOf, BasicSources
    <3>2. QED
      BY <2>1, <3>1 DEF InputsOf, Optional
  <2>2. CASE ~(winner # <<>> /\ winner[1] \in BasicSources)
    BY <2>2 DEF InputsOf, Optional
  <2>3. QED
    BY <2>1, <2>2
<1>3. i.rx \in Optional(Word)
  <2>1. CASE deliver
    <3>1. wire[e] # <<>> /\ wire[e] \in Seq(Word)
      BY <2>1 DEF Deliveries, PeersInv
    <3>2. Head(wire[e]) \in Word
      BY <3>1
    <3>3. QED
      BY <2>1, <3>2 DEF InputsOf, Optional
  <2>2. CASE ~deliver
    BY <2>2 DEF InputsOf, Optional
  <2>3. QED
    BY <2>1, <2>2
<1>4. i.limit \in Optional(Nat) /\ i.identity \in Nat
  BY PeersAssumption DEF InputsOf, PeersInv
<1>5. i = [start |-> start, take |-> i.take, rx |-> i.rx, limit |-> i.limit,
           identity |-> i.identity]
  BY DEF InputsOf
<1> HIDE DEF i
<1>6. i \in Input
  BY <1>1, <1>2, <1>3, <1>4, <1>5 DEF Input
<1>7. QED
  BY <1>6 DEF i

\* What dl_basic_message_control.v offers is a word it can receive.
LEMMA OfferTyped ==
    ASSUME NEW b \in Controller, NEW l, NEW k \in Offers(b, l)
    PROVE  OfferedWord(b, k) \in Word
<1>1. CASE k \in LocalOffers(b)
  <2>1. b.local # <<>> /\ b.local \in Optional(LocalSlot) /\ k = b.local[1].kind
    BY <1>1 DEF LocalOffers, LocalHead, LocalUnsent, Controller
  <2>2. b.local[1] \in LocalSlot
    BY <2>1, OptionalCases
  <2>3. QED
    BY <1>1, <2>1, <2>2 DEF OfferedWord, Word, LocalSlot
<1>2. CASE k \notin LocalOffers(b)
  <2>1. b.remote # <<>> /\ b.remote \in Optional(RemoteSlot) /\ k = b.remote[1].kind
    BY <1>2 DEF Offers, RemoteOffers, RemoteHead, Controller
  <2>2. b.remote[1] \in RemoteSlot
    BY <2>1, OptionalCases
  <2>3. QED
    BY <1>2, <2>1, <2>2 DEF OfferedWord, Word, RemoteSlot
<1>3. QED
  BY <1>1, <1>2

\* Of the Basic sources dl_message_port.v serves only one the controller has a message
\* for.
LEMMA WinnerServes ==
    ASSUME PeersInv, NEW e \in End, NEW start, NEW segment, NEW deliver
    PROVE  LET ready == Ready(e)
               winner == Winner(e, segment, ready)
               i == InputsOf(e, start, deliver, winner) IN
           /\ winner # <<>> =>
                 /\ Ticked(arb[e], ready) \in Arbiter
                 /\ Ticked(arb[e], ready).active = <<>> => Ticked(arb[e], ready).word_index = 0
           /\ i.take # <<>> => i.take[1] \in Offers(basic[e], limit[e])
<1> DEFINE ready == Ready(e)
           winner == Winner(e, segment, ready)
           i == InputsOf(e, start, deliver, winner)
<1>1. \A s \in BasicSources : ready[s] # <<>> => Head(ready[s]) = 1
  <2>1. \A s \in BasicSources : ready[s] \in {<<>>, <<1>>}
    BY PeersAssumption DEF Ready, BasicSources
  <2>2. QED
    BY <2>1
<1>2. winner # <<>> => Pending(ready) # {} /\ winner = <<Served(arb[e], ready)>>
  BY DEF Winner
<1>3. arb[e] \in Arbiter /\ (arb[e].active = <<>> => arb[e].word_index = 0)
  BY DEF PeersInv
<1>4. winner # <<>> =>
          /\ Ticked(arb[e], ready) \in Arbiter
          /\ Ticked(arb[e], ready).active = <<>> => Ticked(arb[e], ready).word_index = 0
          /\ winner[1] \in BasicSources => winner[1] \in Pending(ready)
  <2> HIDE DEF ready, winner
  <2>1. QED
    BY <1>1, <1>2, <1>3, TickedArbiter
<1>5. i.take # <<>> => i.take[1] \in Offers(basic[e], limit[e])
  <2>1. SUFFICES ASSUME i.take # <<>> PROVE i.take[1] \in Offers(basic[e], limit[e])
    OBVIOUS
  <2>2. winner # <<>> /\ winner[1] \in BasicSources /\ i.take[1] = KindOf(winner[1])
    BY <2>1 DEF InputsOf
  <2>3. winner[1] \in Source /\ ready[winner[1]] # <<>>
    BY <1>4, <2>2 DEF Pending
  <2>4. QED
    BY <2>2, <2>3 DEF Ready
<1>6. QED
  BY <1>4, <1>5

\* A clock edge of dl_message_port.v keeps the registers and the wires legal.
LEMMA EdgeKeepsInv ==
    ASSUME PeersInv, NEW e \in End, NEW start \in Optional(Requests[e]),
           NEW segment \in BOOLEAN, NEW deliver \in Deliveries(e),
           Edge(e, start, segment, deliver)
    PROVE  PeersInv'
<1> DEFINE ready == Ready(e)
           winner == Winner(e, segment, ready)
           i == InputsOf(e, start, deliver, winner)
           b == basic[e]
<1>1. /\ basic' = [basic EXCEPT ![e] = BasicEdge(b, i)]
      /\ arb' = IF winner = <<>> THEN arb ELSE [arb EXCEPT ![e] = Ticked(arb[e], ready)]
      /\ wire' = WireAfter(e, i) /\ limit' = limit
  BY DEF Edge
<1>2. b \in Controller /\ Settled(b) /\ i \in Input
  BY InputsTyped DEF PeersInv
<1>3. /\ winner # <<>> =>
             /\ Ticked(arb[e], ready) \in Arbiter
             /\ Ticked(arb[e], ready).active = <<>> => Ticked(arb[e], ready).word_index = 0
      /\ i.take # <<>> => i.take[1] \in Offers(b, limit[e])
  BY WinnerServes
<1> HIDE DEF ready, winner, i
<1>4. /\ basic' \in [End -> Controller] /\ \A x \in End : Settled(basic'[x])
  <2>1. BasicEdge(b, i) \in Controller /\ Settled(BasicEdge(b, i))
    BY <1>2, EdgeIsEvents
  <2>2. QED
    BY <1>1, <2>1 DEF PeersInv
<1>5. wire' \in [End -> Seq(Word)]
  <2>1. i.take # <<>> => OfferedWord(b, i.take[1]) \in Word
    BY <1>2, <1>3, OfferTyped
  <2>2. \A x \in End : wire[x] \in Seq(Word)
    BY DEF PeersInv
  <2>3. i.rx # <<>> => wire[e] # <<>>
    BY DEF i, InputsOf, Deliveries
  <2>4. \A x \in End : wire'[x] \in Seq(Word)
    BY <1>1, <2>1, <2>2, <2>3 DEF WireAfter
  <2>5. QED
    BY <1>1, <2>4 DEF WireAfter
<1>6. limit' \in [End -> Optional(Nat)]
  BY <1>1 DEF PeersInv
<1>7. /\ arb' \in [End -> Arbiter]
       /\ \A x \in End : arb'[x].active = <<>> => arb'[x].word_index = 0
  <2>1. arb \in [End -> Arbiter] /\ \A x \in End : arb[x].active = <<>> => arb[x].word_index = 0
    BY DEF PeersInv
  <2>2. QED
    BY <1>1, <1>3, <2>1
<1>8. QED
  BY <1>4, <1>5, <1>6, <1>7 DEF PeersInv

\* So does the reset of the link.
LEMMA StartIsInv ==
    /\ Init => PeersInv
    /\ Reset => PeersInv'
<1>1. /\ Start.basic \in [End -> Controller] /\ \A e \in End : Settled(Start.basic[e])
      /\ Start.arb \in [End -> Arbiter]
      /\ \A e \in End : Start.arb[e].active = <<>> => Start.arb[e].word_index = 0
  BY ResetControls DEF Start
<1>2. /\ Start.wire \in [End -> Seq(Word)] /\ Start.limit \in [End -> Optional(Nat)]
  BY DEF Start, Optional
<1>3. QED
  BY <1>1, <1>2 DEF Init, Reset, PeersInv

\* No step of the two ends leaves the legal states.
LEMMA PeersInvInductive ==
    ASSUME PeersInv, [Next]_vars
    PROVE  PeersInv'
<1>1. CASE \E e \in End : \E start \in Optional(Requests[e]), segment \in BOOLEAN,
                             deliver \in Deliveries(e) : Edge(e, start, segment, deliver)
  BY <1>1, EdgeKeepsInv
<1>2. CASE \E m \in Messages : Stage(m[1], m[2], m[3])
  BY <1>2 DEF Stage, PeersInv
<1>3. CASE \E e \in End : Pace(e)
  <2>1. PICK e \in End : Pace(e)
    BY <1>3
  <2>2. PICK l \in Rates : limit' = [limit EXCEPT ![e] = <<l>>]
    BY <2>1 DEF Pace
  <2>3. <<l>> \in Optional(Nat)
    BY PeersAssumption DEF Optional
  <2>4. limit' \in [End -> Optional(Nat)]
    BY <2>2, <2>3 DEF PeersInv
  <2>5. QED
    BY <2>1, <2>4 DEF Pace, PeersInv
<1>4. CASE Reset
  BY <1>4, StartIsInv
<1>5. CASE UNCHANGED vars
  BY <1>5 DEF vars, PeersInv
<1>6. QED
  BY <1>1, <1>2, <1>3, <1>4, <1>5 DEF Next

\* In every state two ends reach, and for every request, service and word of the next
\* edge, the two slots of dl_basic_message_control.v and its order bit step like the
\* queues of dl_basic_message.py.
THEOREM QueuesAlways == Spec => []SlotsAreQueues
<1>1. PeersInv => SlotsAreQueues
  <2>1. SUFFICES ASSUME PeersInv, NEW e \in End, NEW start \in Optional(Requests[e]),
                        NEW segment \in BOOLEAN, NEW deliver \in Deliveries(e), NEW winner
                 PROVE  LET i == InputsOf(e, start, deliver, winner) IN
                        ReferenceOf(BasicEdge(basic[e], i)) =
                            ReferenceEdge(ReferenceOf(basic[e]), i)
    BY DEF SlotsAreQueues
  <2>2. InputsOf(e, start, deliver, winner) \in Input
    BY <2>1, InputsTyped
  <2>3. basic[e] \in Controller /\ Settled(basic[e])
    BY <2>1 DEF PeersInv
  <2>4. QED
    BY <2>2, <2>3, EdgeAgrees
<1>2. QED
  BY <1>1, StartIsInv, PeersInvInductive, PTL DEF Spec
-----------------------------------------------------------------------------
\* Whether a word asks or answers, the words of one sense on a wire, and how many
\* there are.
Sense(w) == IF w.ack THEN "answer" ELSE "ask"
WordsOf(q, sense) == {n \in 1 .. Len(q) : Sense(q[n]) = sense}
NumberOf(q, sense) == Cardinality(WordsOf(q, sense))

\* A wire of dl_message_port.v holds a number of words of either sense, none of a
\* sense if it has no such word.
LEMMA NumberType ==
    ASSUME NEW q \in Seq(Word), NEW sense
    PROVE  /\ IsFiniteSet(WordsOf(q, sense)) /\ NumberOf(q, sense) \in Nat
           /\ NumberOf(q, sense) = 0 <=> WordsOf(q, sense) = {}
<1>1. Len(q) \in Nat
  BY LenProperties
<1>2. IsFiniteSet(1 .. Len(q)) /\ WordsOf(q, sense) \in SUBSET (1 .. Len(q))
  BY <1>1, FS_Interval DEF WordsOf
<1>3. IsFiniteSet(WordsOf(q, sense))
  BY <1>2, FS_Subset
<1>4. QED
  BY <1>3, FS_CardinalityType, FS_EmptySet DEF NumberOf

\* A word sent joins the end of the wire.
LEMMA NumberAppend ==
    ASSUME NEW q \in Seq(Word), NEW w \in Word, NEW sense
    PROVE  NumberOf(Append(q, w), sense) = NumberOf(q, sense) + (IF Sense(w) = sense THEN 1 ELSE 0)
<1> DEFINE n == Len(q)
           r == Append(q, w)
           S == WordsOf(q, sense)
           T == WordsOf(r, sense)
<1>1. /\ n \in Nat /\ Len(r) = n + 1 /\ r[n + 1] = w
      /\ \A m \in 1 .. n : r[m] = q[m]
  BY LenProperties, AppendProperties
<1>2. /\ \A m \in 1 .. n + 1 : m \in 1 .. n \/ m = n + 1
      /\ \A m \in 1 .. n : m \in 1 .. n + 1
      /\ n + 1 \in 1 .. n + 1 /\ n + 1 \notin 1 .. n
  BY <1>1
<1> HIDE DEF n, r
<1>3. \A m : m \in T <=> m \in 1 .. n + 1 /\ Sense(r[m]) = sense
  BY <1>1 DEF WordsOf
<1>4. \A m : m \in S <=> m \in 1 .. n /\ Sense(q[m]) = sense
  BY DEF WordsOf, n
<1>5. IsFiniteSet(S) /\ Cardinality(S) \in Nat /\ n + 1 \notin S
  BY <1>2, <1>4, NumberType DEF NumberOf
<1> HIDE DEF S, T
<1>6. CASE Sense(w) = sense
  <2>1. T = S \cup {n + 1}
    BY <1>1, <1>2, <1>3, <1>4, <1>6
  <2>2. Cardinality(T) = Cardinality(S) + 1
    BY <1>5, <2>1, FS_AddElement
  <2>3. QED
    BY <1>6, <2>2 DEF NumberOf, S, T, r
<1>7. CASE Sense(w) # sense
  <2>1. T = S
    BY <1>1, <1>2, <1>3, <1>4, <1>7
  <2>2. NumberOf(Append(q, w), sense) = Cardinality(T) /\ NumberOf(q, sense) = Cardinality(S)
    BY DEF NumberOf, S, T, r
  <2>3. QED
    BY <1>5, <1>7, <2>1, <2>2
<1>8. QED
  BY <1>6, <1>7

\* A word received leaves the front of the wire.
LEMMA NumberTail ==
    ASSUME NEW q \in Seq(Word), q # <<>>, NEW sense
    PROVE  NumberOf(Tail(q), sense) = NumberOf(q, sense) - (IF Sense(q[1]) = sense THEN 1 ELSE 0)
<1> DEFINE n == Len(q)
           r == Tail(q)
           S == WordsOf(q, sense) \ {1}
           T == WordsOf(r, sense)
           f == [m \in S |-> m - 1]
<1>1. /\ n \in Nat \ {0} /\ Len(r) = n - 1
      /\ \A m \in 1 .. n - 1 : r[m] = q[m + 1]
  BY LenProperties, HeadTailProperties, EmptySeq
<1>2. 1 \in WordsOf(q, sense) <=> Sense(q[1]) = sense
  BY <1>1 DEF WordsOf
<1>3. IsFiniteSet(WordsOf(q, sense)) /\ Cardinality(WordsOf(q, sense)) \in Nat
  BY NumberType DEF NumberOf
<1>4. /\ IsFiniteSet(S)
      /\ Cardinality(S) = NumberOf(q, sense) - (IF Sense(q[1]) = sense THEN 1 ELSE 0)
  BY <1>2, <1>3, FS_RemoveElement DEF NumberOf
<1>5. \A m \in S : m - 1 \in T
  <2> TAKE m \in S
  <2>1. m \in 1 .. n /\ m # 1 /\ Sense(q[m]) = sense
    BY DEF WordsOf
  <2>2. m - 1 \in 1 .. n - 1 /\ (m - 1) + 1 = m
    BY <1>1, <2>1
  <2>3. QED
    BY <1>1, <2>1, <2>2 DEF WordsOf
<1>6. \A m \in T : m + 1 \in S /\ (m + 1) - 1 = m
  <2> TAKE m \in T
  <2>1. m \in 1 .. n - 1 /\ Sense(r[m]) = sense
    BY <1>1 DEF WordsOf
  <2>2. m + 1 \in 1 .. n /\ m + 1 # 1 /\ (m + 1) - 1 = m
    BY <1>1, <2>1
  <2>3. QED
    BY <1>1, <2>1, <2>2 DEF WordsOf
<1>7. \A l, m \in S : l - 1 = m - 1 => l = m
  BY DEF WordsOf
<1> HIDE DEF S, T
<1>8. f \in Bijection(S, T)
  <2>1. f \in [S -> T]
    BY <1>5
  <2>2. \A l, m \in S : f[l] = f[m] => l = m
    BY <1>7
  <2>3. \A m \in T : \E l \in S : f[l] = m
    BY <1>6
  <2>4. QED
    BY <2>1, <2>2, <2>3, Fun_IsBij
<1>9. Cardinality(T) = Cardinality(S)
  BY <1>4, <1>8, FS_Bijection DEF ExistsBijection
<1>10. QED
  BY <1>4, <1>9 DEF NumberOf, T
-----------------------------------------------------------------------------
\* The life of a request.  It is asked by b, whose requests leave on out and whose
\* answers come on back, and answered by x, which paces by l.
IsSent(b) == b.local # <<>> /\ b.local[1].sent
Owed(x) == IF x.remote = <<>> THEN 0 ELSE 1

ExchangeOf(b, x, out, back, l) ==
    /\ NumberOf(out, "ask") + Owed(x) + NumberOf(back, "answer") = (IF IsSent(b) THEN 1 ELSE 0)
    /\ \A n \in WordsOf(out, "ask") :
          out[n].kind = b.local[1].kind /\ out[n].value = b.local[1].value
    /\ x.remote # <<>> =>
          /\ x.remote[1].kind = b.local[1].kind
          /\ b.local[1].kind = "Rate" =>
                x.remote[1].rate = b.local[1].value /\ x.peer["Rate"] = b.local[1].value
    /\ \A n \in WordsOf(back, "answer") :
          /\ back[n].kind = b.local[1].kind
          /\ b.local[1].kind = "Rate" =>
                x.peer["Rate"] = b.local[1].value /\ l # <<>> /\ l[1] <= b.local[1].value

\* What is received comes from the front of the wire, and what is sent joins the end.
Receives(i, q) == i.rx = <<>> \/ (q # <<>> /\ i.rx = <<Head(q)>>)
TakenFrom(q, i) == IF i.rx = <<>> THEN q ELSE Tail(q)
SentOn(q, b, i) == IF i.take = <<>> THEN q ELSE Append(q, OfferedWord(b, i.take[1]))

\* The words left after one has been received.
LEMMA WordsTaken ==
    ASSUME NEW q \in Seq(Word), NEW i \in Input, Receives(i, q), NEW sense
    PROVE  /\ TakenFrom(q, i) \in Seq(Word)
           /\ NumberOf(TakenFrom(q, i), sense) =
                  NumberOf(q, sense) - (IF i.rx # <<>> /\ Sense(i.rx[1]) = sense THEN 1 ELSE 0)
           /\ i.rx # <<>> => 1 \in WordsOf(q, Sense(i.rx[1])) /\ q[1] = i.rx[1]
           /\ \A m \in WordsOf(TakenFrom(q, i), sense) :
                 \E n \in WordsOf(q, sense) : q[n] = TakenFrom(q, i)[m]
<1>1. CASE i.rx = <<>>
  <2>1. TakenFrom(q, i) = q /\ NumberOf(q, sense) \in Nat
    BY <1>1, NumberType DEF TakenFrom
  <2>2. QED
    BY <1>1, <2>1
<1>2. CASE i.rx # <<>>
  <2> DEFINE r == Tail(q)
  <2>1. /\ q # <<>> /\ TakenFrom(q, i) = r /\ i.rx[1] = q[1] /\ Len(q) \in Nat \ {0}
    BY <1>2, LenProperties, EmptySeq DEF Receives, TakenFrom
  <2>2. /\ r \in Seq(Word) /\ Len(r) = Len(q) - 1
        /\ \A m \in 1 .. Len(q) - 1 : r[m] = q[m + 1]
    BY <2>1, HeadTailProperties
  <2>3. NumberOf(r, sense) = NumberOf(q, sense) - (IF Sense(q[1]) = sense THEN 1 ELSE 0)
    BY <2>1, NumberTail
  <2> HIDE DEF r
  <2>4. 1 \in WordsOf(q, Sense(q[1]))
    BY <2>1 DEF WordsOf
  <2>5. ASSUME NEW m \in WordsOf(r, sense)
        PROVE  m + 1 \in WordsOf(q, sense) /\ q[m + 1] = r[m]
    <3>1. m \in 1 .. Len(q) - 1 /\ Sense(r[m]) = sense
      BY <2>2 DEF WordsOf
    <3>2. m + 1 \in 1 .. Len(q)
      BY <2>1, <3>1
    <3>3. QED
      BY <2>2, <3>1, <3>2 DEF WordsOf
  <2>6. QED
    BY <1>2, <2>1, <2>2, <2>3, <2>4, <2>5
<1>3. QED
  BY <1>1, <1>2

\* The words there are after one has been sent.
LEMMA WordsSent ==
    ASSUME NEW q \in Seq(Word), NEW b \in Controller, NEW i \in Input,
           i.take # <<>> => i.take[1] \in Offers(b, i.limit), NEW sense
    PROVE  /\ SentOn(q, b, i) \in Seq(Word)
           /\ NumberOf(SentOn(q, b, i), sense) =
                  NumberOf(q, sense) +
                  (IF i.take # <<>> /\ Sense(OfferedWord(b, i.take[1])) = sense THEN 1 ELSE 0)
           /\ \A m \in WordsOf(SentOn(q, b, i), sense) :
                 \/ m \in WordsOf(q, sense) /\ SentOn(q, b, i)[m] = q[m]
                 \/ /\ i.take # <<>> /\ Sense(OfferedWord(b, i.take[1])) = sense
                    /\ SentOn(q, b, i)[m] = OfferedWord(b, i.take[1])
<1>1. CASE i.take = <<>>
  <2>1. SentOn(q, b, i) = q /\ NumberOf(q, sense) \in Nat
    BY <1>1, NumberType DEF SentOn
  <2>2. QED
    BY <1>1, <2>1
<1>2. CASE i.take # <<>>
  <2> DEFINE w == OfferedWord(b, i.take[1])
             r == Append(q, w)
  <2>1. w \in Word /\ SentOn(q, b, i) = r
    BY <1>2, OfferTyped DEF SentOn
  <2>2. /\ r \in Seq(Word) /\ Len(r) = Len(q) + 1 /\ r[Len(q) + 1] = w
        /\ \A m \in 1 .. Len(q) : r[m] = q[m]
    BY <2>1, AppendProperties
  <2>3. NumberOf(r, sense) = NumberOf(q, sense) + (IF Sense(w) = sense THEN 1 ELSE 0)
    BY <2>1, NumberAppend
  <2>4. Len(q) \in Nat
    BY LenProperties
  <2> HIDE DEF r, w
  <2>5. ASSUME NEW m \in WordsOf(r, sense)
        PROVE  (m \in WordsOf(q, sense) /\ r[m] = q[m]) \/ (Sense(w) = sense /\ r[m] = w)
    <3>1. m \in 1 .. Len(q) + 1 /\ Sense(r[m]) = sense
      BY <2>2 DEF WordsOf
    <3>2. m \in 1 .. Len(q) \/ m = Len(q) + 1
      BY <2>4, <3>1
    <3>3. QED
      BY <2>2, <3>1, <3>2 DEF WordsOf
  <2>6. QED
    BY <1>2, <2>1, <2>2, <2>3, <2>5 DEF w
<1>3. QED
  BY <1>1, <1>2

\* The slots of dl_basic_message_control.v hold at most one message each.
LEMMA SlotsTyped ==
    ASSUME NEW b \in Controller
    PROVE  /\ b.local # <<>> => b.local[1] \in LocalSlot /\ b.local = <<b.local[1]>>
           /\ b.remote # <<>> => b.remote[1] \in RemoteSlot /\ b.remote = <<b.remote[1]>>
           /\ Owed(b) \in {0, 1} /\ IsSent(b) \in BOOLEAN
<1>1. b.local \in Optional(LocalSlot) /\ b.remote \in Optional(RemoteSlot)
  BY DEF Controller
<1>2. b.local # <<>> => b.local[1] \in LocalSlot /\ b.local = <<b.local[1]>>
  BY <1>1, OptionalCases
<1>3. b.remote # <<>> => b.remote[1] \in RemoteSlot /\ b.remote = <<b.remote[1]>>
  BY <1>1, OptionalCases
<1>4. IsSent(b) \in BOOLEAN
  BY <1>2 DEF IsSent, LocalSlot
<1>5. QED
  BY <1>2, <1>3, <1>4 DEF Owed

\* The request slot after an edge of dl_basic_message_control.v that sends the
\* request.
LEMMA CommittedSlot ==
    ASSUME NEW b \in Controller, LocalUnsent(b)
    PROVE  LET t == [b.local EXCEPT ![1].sent = TRUE] IN
           /\ t # <<>> /\ t[1].sent = TRUE
           /\ t[1].kind = b.local[1].kind /\ t[1].value = b.local[1].value
<1> DEFINE s == b.local[1]
           u == [s EXCEPT !.sent = TRUE]
           t == [b.local EXCEPT ![1].sent = TRUE]
<1>1. s \in LocalSlot /\ b.local = <<s>>
  BY SlotsTyped DEF LocalUnsent
<1>2. t = <<u>>
  BY <1>1, SentForm
<1>3. u.sent = TRUE /\ u.kind = s.kind /\ u.value = s.value
  BY <1>1 DEF LocalSlot
<1> HIDE DEF u
<1>4. <<u>> # <<>> /\ <<u>>[1] = u
  OBVIOUS
<1> HIDE DEF t
<1>5. t # <<>> /\ t[1] = u
  BY <1>2, <1>4
<1>6. t # <<>> /\ t[1].sent = TRUE /\ t[1].kind = s.kind /\ t[1].value = s.value
  BY <1>3, <1>5
<1>7. QED
  BY <1>6 DEF t

\* What leaves the request slot of dl_basic_message_control.v is a request, what
\* leaves the reply slot an acknowledgement.
LEMMA OfferedSense ==
    ASSUME NEW b \in Controller, NEW i \in Input, i.take # <<>>,
           i.take[1] \in Offers(b, i.limit)
    PROVE  LET w == OfferedWord(b, i.take[1]) IN
           /\ LocalCommit(b, i) => Sense(w) = "ask" /\ w.kind = b.local[1].kind
                                     /\ w.value = b.local[1].value /\ LocalUnsent(b)
           /\ ~LocalCommit(b, i) => Sense(w) = "answer" /\ ReplyDone(b, i)
                                      /\ w.kind = b.remote[1].kind /\ b.remote # <<>>
<1> DEFINE k == i.take[1]
           w == OfferedWord(b, k)
<1>1. CASE k \in LocalOffers(b)
  <2>1. k = b.local[1].kind /\ LocalUnsent(b)
    BY <1>1 DEF LocalOffers, LocalHead
  <2>2. QED
    BY <1>1, <2>1 DEF OfferedWord, LocalCommit, Sense
<1>2. CASE k \notin LocalOffers(b)
  <2>1. k \in RemoteOffers(b, i.limit)
    BY <1>2 DEF Offers
  <2>2. k = b.remote[1].kind /\ b.remote # <<>>
    BY <2>1 DEF RemoteOffers, RemoteHead
  <2>3. QED
    BY <1>2, <2>1, <2>2 DEF OfferedWord, LocalCommit, ReplyDone, Sense
<1>3. QED
  BY <1>1, <1>2

\* The registers of dl_basic_message_control.v after an edge.
LEMMA EdgeFields ==
    ASSUME NEW b, NEW i
    PROVE  /\ BasicEdge(b, i).local = LocalAfter(b, i)
           /\ BasicEdge(b, i).remote = RemoteAfter(b, i)
           /\ BasicEdge(b, i).peer = PeerAfter(b, i)
           /\ BasicEdge(b, i).protocol_fault = (b.protocol_fault \/ Faults(b, i))
BY DEF BasicEdge

\* An edge of the end that asks: its request may leave or be answered, and every
\* acknowledgement it receives is one of a request it sent.
LEMMA AskerKeeps ==
    ASSUME NEW b \in Controller, NEW x \in Controller, NEW i \in Input,
           NEW out \in Seq(Word), NEW back \in Seq(Word), NEW l,
           ExchangeOf(b, x, out, back, l), Receives(i, back),
           i.take # <<>> => i.take[1] \in Offers(b, i.limit)
    PROVE  /\ ExchangeOf(BasicEdge(b, i), x, SentOn(out, b, i), TakenFrom(back, i), l)
           /\ RxAck(i) => LocalDone(b, i)
<1> DEFINE c == BasicEdge(b, i)
           out2 == SentOn(out, b, i)
           back2 == TakenFrom(back, i)
           w == OfferedWord(b, i.take[1])
<1>1. /\ NumberOf(out, "ask") \in Nat /\ NumberOf(back, "answer") \in Nat /\ Owed(x) \in {0, 1}
      /\ IsSent(b) \in BOOLEAN
      /\ NumberOf(out, "ask") = 0 <=> WordsOf(out, "ask") = {}
      /\ NumberOf(back, "answer") = 0 <=> WordsOf(back, "answer") = {}
      /\ Owed(x) = 0 <=> x.remote = <<>>
  BY NumberType, SlotsTyped DEF Owed
<1>2. /\ NumberOf(out2, "ask") = NumberOf(out, "ask") + (IF LocalCommit(b, i) THEN 1 ELSE 0)
      /\ \A m \in WordsOf(out2, "ask") :
            \/ m \in WordsOf(out, "ask") /\ out2[m] = out[m]
            \/ LocalCommit(b, i) /\ out2[m].kind = b.local[1].kind
                 /\ out2[m].value = b.local[1].value
      /\ LocalCommit(b, i) => LocalUnsent(b)
  <2>1. i.take = <<>> => ~LocalCommit(b, i)
    BY DEF LocalCommit
  <2>2. i.take # <<>> => (Sense(w) = "ask" <=> LocalCommit(b, i))
    BY OfferedSense
  <2>3. i.take # <<>> /\ LocalCommit(b, i) =>
            w.kind = b.local[1].kind /\ w.value = b.local[1].value /\ LocalUnsent(b)
    BY OfferedSense
  <2>4. /\ NumberOf(out2, "ask") =
               NumberOf(out, "ask") + (IF i.take # <<>> /\ Sense(w) = "ask" THEN 1 ELSE 0)
        /\ \A m \in WordsOf(out2, "ask") :
              \/ m \in WordsOf(out, "ask") /\ out2[m] = out[m]
              \/ i.take # <<>> /\ Sense(w) = "ask" /\ out2[m] = w
    BY WordsSent
  <2> HIDE DEF w, out2
  <2>5. QED
    BY <2>1, <2>2, <2>3, <2>4
<1>3. /\ NumberOf(back2, "answer") = NumberOf(back, "answer") - (IF RxAck(i) THEN 1 ELSE 0)
      /\ RxAck(i) => \E n \in WordsOf(back, "answer") : back[n] = i.rx[1]
      /\ \A m \in WordsOf(back2, "answer") : \E n \in WordsOf(back, "answer") : back[n] = back2[m]
  <2>1. RxAck(i) <=> i.rx # <<>> /\ Sense(i.rx[1]) = "answer"
    BY DEF RxAck, Sense
  <2>2. /\ NumberOf(back2, "answer") =
               NumberOf(back, "answer") - (IF i.rx # <<>> /\ Sense(i.rx[1]) = "answer" THEN 1 ELSE 0)
        /\ i.rx # <<>> => 1 \in WordsOf(back, Sense(i.rx[1])) /\ back[1] = i.rx[1]
        /\ \A m \in WordsOf(back2, "answer") : \E n \in WordsOf(back, "answer") : back[n] = back2[m]
    BY WordsTaken
  <2> HIDE DEF back2
  <2>3. QED
    BY <2>1, <2>2
<1>4. c.local = LocalAfter(b, i)
  BY EdgeFields
<1>5. LocalUnsent(b) => ~IsSent(b)
  BY DEF LocalUnsent, IsSent
<1> HIDE DEF c, out2, back2, w
<1>6. RxAck(i) => LocalDone(b, i) /\ IsSent(b)
  <2>1. SUFFICES ASSUME RxAck(i) PROVE LocalDone(b, i) /\ IsSent(b)
    OBVIOUS
  <2>2. PICK n \in WordsOf(back, "answer") : back[n] = i.rx[1]
    BY <1>3, <2>1
  <2>3. NumberOf(back, "answer") # 0
    BY <1>1, <2>2
  <2>4. IsSent(b)
    BY <1>1, <2>3 DEF ExchangeOf
  <2>5. i.rx[1].kind = b.local[1].kind
    BY <2>2 DEF ExchangeOf
  <2>6. QED
    BY <2>1, <2>4, <2>5 DEF LocalDone, Matching, IsSent
<1>7. ~IsSent(b) => /\ WordsOf(out, "ask") = {} /\ WordsOf(back, "answer") = {} /\ x.remote = <<>>
                    /\ NumberOf(out, "ask") = 0 /\ NumberOf(back, "answer") = 0 /\ Owed(x) = 0
  <2>1. NumberOf(out, "ask") + Owed(x) + NumberOf(back, "answer") = (IF IsSent(b) THEN 1 ELSE 0)
    BY DEF ExchangeOf
  <2>2. ~IsSent(b) => NumberOf(out, "ask") = 0 /\ NumberOf(back, "answer") = 0 /\ Owed(x) = 0
    BY <1>1, <2>1
  <2>3. QED
    BY <1>1, <2>2
<1>8. CASE LocalDone(b, i)
  <2>1. IsSent(b) /\ RxAck(i) /\ ~LocalCommit(b, i) /\ b.local # <<>>
    BY <1>2, <1>5, <1>6, <1>8 DEF LocalDone, IsSent
  <2>2. c.local = <<>>
    BY <1>4, <1>8, <2>1 DEF LocalAfter, LocalStart, LocalReady
  <2>3. NumberOf(back, "answer") # 0
    BY <1>1, <1>3, <2>1
  <2>4. NumberOf(out, "ask") = 0 /\ Owed(x) = 0 /\ NumberOf(back, "answer") = 1
    BY <1>1, <2>1, <2>3 DEF ExchangeOf
  <2>5. NumberOf(out2, "ask") = 0 /\ NumberOf(back2, "answer") = 0
    BY <1>2, <1>3, <2>1, <2>4
  <2>6. WordsOf(out2, "ask") = {} /\ WordsOf(back2, "answer") = {}
    <3>1. out2 \in Seq(Word) /\ back2 \in Seq(Word)
      BY WordsSent, WordsTaken DEF out2, back2
    <3>2. QED
      BY <2>5, <3>1, NumberType
  <2>7. ~IsSent(c)
    BY <2>2 DEF IsSent
  <2>8. x.remote = <<>>
    BY <1>1, <2>4
  <2>9. QED
    BY <1>6, <2>4, <2>5, <2>6, <2>7, <2>8 DEF ExchangeOf, c, out2, back2
<1>9. CASE ~LocalDone(b, i) /\ LocalCommit(b, i)
  <2>1. ~IsSent(b) /\ LocalUnsent(b) /\ b.local # <<>> /\ ~RxAck(i)
    BY <1>2, <1>5, <1>6, <1>9 DEF LocalUnsent
  <2>2. c.local = [b.local EXCEPT ![1].sent = TRUE]
    BY <1>4, <1>9, <2>1 DEF LocalAfter, LocalStart, LocalReady
  <2>3. /\ IsSent(c) /\ c.local[1].kind = b.local[1].kind
        /\ c.local[1].value = b.local[1].value
    BY <2>1, <2>2, CommittedSlot DEF IsSent
  <2>4. NumberOf(out2, "ask") = 1 /\ NumberOf(back2, "answer") = 0 /\ Owed(x) = 0 /\ x.remote = <<>>
    BY <1>2, <1>3, <1>7, <1>9, <2>1
  <2>5. WordsOf(back2, "answer") = {}
    BY <1>3, <1>7, <2>1
  <2>6. \A m \in WordsOf(out2, "ask") :
            out2[m].kind = c.local[1].kind /\ out2[m].value = c.local[1].value
    BY <1>2, <1>7, <2>1, <2>3
  <2>7. QED
    BY <1>6, <2>3, <2>4, <2>5, <2>6 DEF ExchangeOf, c, out2, back2
<1>10. CASE ~LocalDone(b, i) /\ ~LocalCommit(b, i)
  <2>1. ~RxAck(i)
    BY <1>6, <1>10
  <2>2. /\ NumberOf(out2, "ask") = NumberOf(out, "ask")
        /\ NumberOf(back2, "answer") = NumberOf(back, "answer")
        /\ \A m \in WordsOf(out2, "ask") : m \in WordsOf(out, "ask") /\ out2[m] = out[m]
    BY <1>1, <1>2, <1>3, <1>10, <2>1
  <2>3. CASE LocalStart(b, i)
    <3>1. c.local = <<[kind |-> i.start[1].kind, value |-> i.start[1].value, sent |-> FALSE]>>
      BY <1>4, <2>3 DEF LocalAfter
    <3>2. ~IsSent(b) /\ ~IsSent(c)
      BY <2>3, <3>1 DEF IsSent, LocalStart, LocalReady
    <3>3. WordsOf(out2, "ask") = {} /\ WordsOf(back2, "answer") = {}
      BY <1>3, <1>7, <2>2, <3>2
    <3>4. QED
      BY <1>6, <1>7, <2>2, <3>2, <3>3 DEF ExchangeOf, c, out2, back2
  <2>4. CASE ~LocalStart(b, i)
    <3>1. c.local = b.local
      BY <1>4, <1>10, <2>4 DEF LocalAfter
    <3>2. IsSent(c) = IsSent(b)
      BY <3>1 DEF IsSent
    <3>3. ExchangeOf(c, x, out2, back2, l)
      BY <1>3, <2>2, <3>1, <3>2 DEF ExchangeOf
    <3>4. QED
      BY <1>6, <3>3 DEF c, out2, back2
  <2>5. QED
    BY <2>3, <2>4
<1>11. QED
  BY <1>8, <1>9, <1>10

\* An edge of the end that answers: its reply may leave once the pacing allows, and
\* every request it receives finds its reply slot free.
LEMMA AnswererKeeps ==
    ASSUME NEW b \in Controller, NEW x \in Controller, NEW i \in Input,
           NEW out \in Seq(Word), NEW back \in Seq(Word),
           ExchangeOf(x, b, out, back, i.limit), Receives(i, out),
           i.take # <<>> => i.take[1] \in Offers(b, i.limit)
    PROVE  /\ ExchangeOf(x, BasicEdge(b, i), TakenFrom(out, i), SentOn(back, b, i), i.limit)
           /\ RxAsks(i) => RxRequest(b, i)
<1> DEFINE c == BasicEdge(b, i)
           out2 == TakenFrom(out, i)
           back2 == SentOn(back, b, i)
           w == OfferedWord(b, i.take[1])
           s == x.local[1]
<1>1. /\ NumberOf(out, "ask") \in Nat /\ NumberOf(back, "answer") \in Nat /\ Owed(b) \in {0, 1}
      /\ IsSent(x) \in BOOLEAN
      /\ NumberOf(out, "ask") = 0 <=> WordsOf(out, "ask") = {}
      /\ NumberOf(back, "answer") = 0 <=> WordsOf(back, "answer") = {}
      /\ Owed(b) = 0 <=> b.remote = <<>>
  BY NumberType, SlotsTyped DEF Owed
<1>2. /\ NumberOf(back2, "answer") =
             NumberOf(back, "answer") + (IF ReplyDone(b, i) THEN 1 ELSE 0)
      /\ \A m \in WordsOf(back2, "answer") :
            \/ m \in WordsOf(back, "answer") /\ back2[m] = back[m]
            \/ ReplyDone(b, i) /\ back2[m].kind = b.remote[1].kind
      /\ ReplyDone(b, i) => b.remote # <<>> /\ RemoteReady(b, i.limit)
  <2>1. i.take # <<>> => (Sense(w) = "answer" <=> ~LocalCommit(b, i))
    BY OfferedSense DEF Sense
  <2>2. i.take # <<>> /\ ~LocalCommit(b, i) =>
            w.kind = b.remote[1].kind /\ ReplyDone(b, i)
    BY OfferedSense
  <2>3. ReplyDone(b, i) =>
            i.take # <<>> /\ b.remote # <<>> /\ RemoteReady(b, i.limit) /\ ~LocalCommit(b, i)
    <3>1. i.take \in Optional(Kinds)
      BY DEF Input
    <3>2. i.take # <<>> => i.take[1] \in Kinds
      BY <3>1, OptionalCases
    <3>3. "local" # "remote"
      OBVIOUS
    <3>4. i.take # <<>> => ~(i.take[1] \in LocalOffers(b) /\ i.take[1] \in RemoteOffers(b, i.limit))
      BY <3>2, <3>3, OffersAreHeads
    <3>5. QED
      BY <3>4 DEF ReplyDone, LocalCommit, RemoteOffers, RemoteHead
  <2>4. /\ NumberOf(back2, "answer") =
               NumberOf(back, "answer") + (IF i.take # <<>> /\ Sense(w) = "answer" THEN 1 ELSE 0)
        /\ \A m \in WordsOf(back2, "answer") :
              \/ m \in WordsOf(back, "answer") /\ back2[m] = back[m]
              \/ i.take # <<>> /\ Sense(w) = "answer" /\ back2[m] = w
    BY WordsSent
  <2> HIDE DEF w, back2
  <2>5. QED
    BY <2>1, <2>2, <2>3, <2>4
<1>3. /\ NumberOf(out2, "ask") = NumberOf(out, "ask") - (IF RxAsks(i) THEN 1 ELSE 0)
      /\ RxAsks(i) => \E n \in WordsOf(out, "ask") : out[n] = i.rx[1]
      /\ \A m \in WordsOf(out2, "ask") : \E n \in WordsOf(out, "ask") : out[n] = out2[m]
  <2>1. RxAsks(i) <=> i.rx # <<>> /\ Sense(i.rx[1]) = "ask"
    BY DEF RxAsks, Sense
  <2>2. /\ NumberOf(out2, "ask") =
               NumberOf(out, "ask") - (IF i.rx # <<>> /\ Sense(i.rx[1]) = "ask" THEN 1 ELSE 0)
        /\ i.rx # <<>> => 1 \in WordsOf(out, Sense(i.rx[1])) /\ out[1] = i.rx[1]
        /\ \A m \in WordsOf(out2, "ask") : \E n \in WordsOf(out, "ask") : out[n] = out2[m]
    BY WordsTaken
  <2> HIDE DEF out2
  <2>3. QED
    BY <2>1, <2>2
<1>4. c.remote = RemoteAfter(b, i) /\ c.peer = PeerAfter(b, i)
  BY EdgeFields
<1>5. NumberOf(out, "ask") + Owed(b) + NumberOf(back, "answer") = (IF IsSent(x) THEN 1 ELSE 0)
  BY DEF ExchangeOf
<1>6. out2 \in Seq(Word) /\ back2 \in Seq(Word)
  BY WordsSent, WordsTaken
<1> HIDE DEF c, out2, back2, w
<1>7. RxAsks(i) => /\ NumberOf(out, "ask") = 1 /\ IsSent(x) /\ b.remote = <<>>
                   /\ Owed(b) = 0 /\ NumberOf(back, "answer") = 0
                   /\ i.rx[1].kind = s.kind /\ i.rx[1].value = s.value
  <2>1. SUFFICES ASSUME RxAsks(i)
                 PROVE  /\ NumberOf(out, "ask") = 1 /\ IsSent(x) /\ b.remote = <<>>
                        /\ Owed(b) = 0 /\ NumberOf(back, "answer") = 0
                        /\ i.rx[1].kind = s.kind /\ i.rx[1].value = s.value
    OBVIOUS
  <2>2. PICK n \in WordsOf(out, "ask") : out[n] = i.rx[1]
    BY <1>3, <2>1
  <2>3. NumberOf(out, "ask") # 0
    BY <1>1, <2>2
  <2>4. i.rx[1].kind = s.kind /\ i.rx[1].value = s.value
    BY <2>2 DEF ExchangeOf
  <2>5. QED
    BY <1>1, <1>5, <2>3, <2>4
<1>8. RxAsks(i) => RxRequest(b, i)
  BY <1>7 DEF RxRequest
<1>9. CASE RxAsks(i)
  <2>1. ~ReplyDone(b, i) /\ RxRequest(b, i)
    BY <1>2, <1>7, <1>8, <1>9
  <2>2. c.remote = <<ReplyTo(i.rx[1], i.identity)>>
    BY <1>4, <2>1 DEF RemoteAfter
  <2>3. c.remote # <<>> /\ c.remote[1] = ReplyTo(i.rx[1], i.identity)
    BY <2>2
  <2>4. c.remote[1].kind = s.kind /\ (s.kind = "Rate" => c.remote[1].rate = s.value)
    BY <1>7, <1>9, <2>3 DEF ReplyTo
  <2>5. s.kind = "Rate" => c.peer["Rate"] = s.value
    <3>1. SUFFICES ASSUME s.kind = "Rate" PROVE c.peer["Rate"] = s.value
      OBVIOUS
    <3>2. i.rx[1].kind = "Rate" /\ i.rx[1].value = s.value /\ Learns(b, i)
      BY <1>7, <1>9, <2>1, <3>1 DEF Learns
    <3>3. c.peer = [b.peer EXCEPT !["Rate"] = s.value]
      BY <1>4, <3>2 DEF PeerAfter
    <3>4. "Rate" \in Kinds
      <4>1. i.rx \in Optional(Word) /\ i.rx # <<>>
        BY <1>9 DEF Input, RxAsks
      <4>2. i.rx[1] \in Word
        BY <4>1, OptionalCases
      <4>3. QED
        BY <3>2, <4>2 DEF Word
    <3>5. QED
      BY <3>3, <3>4 DEF Controller
  <2>6. NumberOf(out2, "ask") = 0 /\ NumberOf(back2, "answer") = 0
    BY <1>2, <1>3, <1>7, <1>9, <2>1
  <2>7. WordsOf(out2, "ask") = {} /\ WordsOf(back2, "answer") = {}
    BY <1>6, <2>6, NumberType
  <2>8. Owed(c) = 1
    BY <2>3 DEF Owed
  <2>9. QED
    BY <1>7, <1>8, <1>9, <2>3, <2>4, <2>5, <2>6, <2>7, <2>8 DEF ExchangeOf, c, out2, back2
<1>10. ~RxAsks(i) => ~RxRequest(b, i) /\ (s.kind = "Rate" => c.peer["Rate"] = b.peer["Rate"])
  <2>1. SUFFICES ASSUME ~RxAsks(i)
                 PROVE  ~RxRequest(b, i) /\ c.peer["Rate"] = b.peer["Rate"]
    OBVIOUS
  <2>2. Learns(b, i) => i.rx[1].kind # "Rate"
    BY <2>1 DEF Learns, RxRequest, Identities
  <2>3. c.peer["Rate"] = b.peer["Rate"]
    BY <1>4, <2>2 DEF PeerAfter, Controller
  <2>4. QED
    BY <2>1, <2>3 DEF RxRequest
<1>11. CASE ~RxAsks(i) /\ ReplyDone(b, i)
  <2>1. /\ b.remote # <<>> /\ RemoteReady(b, i.limit) /\ Owed(b) = 1
        /\ b.remote[1].kind = s.kind
        /\ s.kind = "Rate" => b.remote[1].rate = s.value /\ b.peer["Rate"] = s.value
    BY <1>2, <1>11 DEF ExchangeOf, Owed
  <2>2. c.remote = <<>> /\ Owed(c) = 0
    BY <1>4, <1>10, <1>11 DEF RemoteAfter, Owed
  <2>3. NumberOf(out, "ask") = 0 /\ NumberOf(back, "answer") = 0 /\ IsSent(x)
    BY <1>1, <1>5, <2>1
  <2>4. NumberOf(out2, "ask") = 0 /\ NumberOf(back2, "answer") = 1
    BY <1>2, <1>3, <1>11, <2>3
  <2>5. WordsOf(out2, "ask") = {} /\ WordsOf(back, "answer") = {}
    BY <1>1, <1>6, <2>3, <2>4, NumberType
  <2>6. s.kind = "Rate" => i.limit # <<>> /\ i.limit[1] <= s.value
    BY <2>1 DEF RemoteReady
  <2>7. \A m \in WordsOf(back2, "answer") : back2[m].kind = s.kind
    BY <1>2, <2>1, <2>5
  <2>8. s.kind = "Rate" => c.peer["Rate"] = s.value
    BY <1>10, <1>11, <2>1
  <2>9. QED
    BY <1>8, <2>2, <2>3, <2>4, <2>5, <2>6, <2>7, <2>8 DEF ExchangeOf, c, out2, back2
<1>12. CASE ~RxAsks(i) /\ ~ReplyDone(b, i)
  <2>1. c.remote = b.remote /\ Owed(c) = Owed(b)
    BY <1>4, <1>10, <1>12 DEF RemoteAfter, Owed
  <2>2. NumberOf(out2, "ask") = NumberOf(out, "ask") /\ NumberOf(back2, "answer") = NumberOf(back, "answer")
    BY <1>1, <1>2, <1>3, <1>12
  <2>3. \A m \in WordsOf(back2, "answer") : m \in WordsOf(back, "answer") /\ back2[m] = back[m]
    BY <1>2, <1>12
  <2>4. s.kind = "Rate" => c.peer["Rate"] = b.peer["Rate"]
    BY <1>10, <1>12
  <2>5. ExchangeOf(x, c, out2, back2, i.limit)
    BY <1>3, <2>1, <2>2, <2>3, <2>4 DEF ExchangeOf
  <2>6. QED
    BY <1>8, <2>5 DEF c, out2, back2
<1>13. QED
  BY <1>9, <1>11, <1>12

\* There are two ends, each the peer of the other.
LEMMA TwoEnds ==
    ASSUME NEW e \in End
    PROVE  /\ Peer(e) \in End /\ Peer(e) # e /\ Peer(Peer(e)) = e
           /\ \A x \in End : x = e \/ x = Peer(e)
<1>1. IsFiniteSet(End) /\ Cardinality(End) = 2
  BY PeersAssumption
<1>2. IsFiniteSet(End \ {e}) /\ Cardinality(End \ {e}) = 1
  BY <1>1, FS_RemoveElement
<1>3. PICK p : End \ {e} = {p}
  BY <1>2, FS_Singleton
<1>4. End = {e, p} /\ p # e /\ p \in End
  BY <1>3
<1>5. Peer(e) = p
  BY <1>4 DEF Peer
<1>6. Peer(p) = e
  BY <1>4 DEF Peer
<1>7. QED
  BY <1>4, <1>5, <1>6

\* Both exchanges of two ends, and no diagnosis.
Exchange(e) == ExchangeOf(basic[e], basic[Peer(e)], wire[Peer(e)], wire[e], limit[Peer(e)])
Undiagnosed == \A e \in End : ~basic[e].protocol_fault

ExchangeInv == PeersInv /\ Undiagnosed /\ \A e \in End : Exchange(e)

\* The words of a wire by the flag that tells requests from acknowledgements.
LEMMA WordsBySense ==
    ASSUME PeersInv, NEW e \in End
    PROVE  Words(e, FALSE) = WordsOf(wire[e], "ask") /\ Words(e, TRUE) = WordsOf(wire[e], "answer")
<1>1. wire[e] \in Seq(Word)
  BY DEF PeersInv
<1>2. DOMAIN wire[e] = 1 .. Len(wire[e])
  BY <1>1, LenProperties
<1>3. \A n \in 1 .. Len(wire[e]) : wire[e][n].ack \in BOOLEAN
  <2>1. \A n \in 1 .. Len(wire[e]) : wire[e][n] \in Word
    BY <1>1, ElementOfSeq
  <2>2. QED
    BY <2>1 DEF Word
<1>4. QED
  BY <1>2, <1>3 DEF Words, WordsOf, Sense

\* Nothing is asked, owed or under way after a reset.
LEMMA NothingAsked ==
    ASSUME NEW b, NEW x, b.local = <<>>, x.remote = <<>>, NEW l
    PROVE  ExchangeOf(b, x, <<>>, <<>>, l)
<1>1. <<>> \in Seq(Word) /\ Len(<<>>) = 0
  BY EmptySeq
<1>2. WordsOf(<<>>, "ask") = {} /\ WordsOf(<<>>, "answer") = {}
  BY <1>1 DEF WordsOf
<1>3. NumberOf(<<>>, "ask") = 0 /\ NumberOf(<<>>, "answer") = 0
  BY <1>1, <1>2, NumberType
<1>4. Owed(x) = 0 /\ ~IsSent(b)
  BY DEF Owed, IsSent
<1>5. QED
  BY <1>2, <1>3, <1>4 DEF ExchangeOf

LEMMA StartIsExchange ==
    /\ Init => ExchangeInv
    /\ Reset => ExchangeInv'
<1>1. /\ BasicReset.local = <<>> /\ BasicReset.remote = <<>>
      /\ BasicReset.protocol_fault = FALSE
  BY DEF BasicReset
<1>2. \A e \in End : /\ Start.basic[e] = BasicReset /\ Start.wire[e] = <<>>
                     /\ Start.limit[e] = <<>>
  BY DEF Start
<1>3. \A e \in End : ExchangeOf(Start.basic[e], Start.basic[Peer(e)], Start.wire[Peer(e)],
                                Start.wire[e], Start.limit[Peer(e)])
  BY <1>1, <1>2, NothingAsked, TwoEnds
<1>4. \A e \in End : ~Start.basic[e].protocol_fault
  BY <1>1, <1>2
<1>5. Init => ExchangeInv
  BY <1>3, <1>4, StartIsInv DEF Init, ExchangeInv, Exchange, Undiagnosed
<1>6. ASSUME Reset PROVE ExchangeInv'
  <2>1. basic' = Start.basic /\ wire' = Start.wire /\ limit' = Start.limit
    BY <1>6 DEF Reset
  <2>2. PeersInv'
    BY <1>6, StartIsInv
  <2>3. (\A e \in End : Exchange(e))'
    BY <1>3, <2>1 DEF Exchange
  <2>4. Undiagnosed'
    BY <1>4, <2>1 DEF Undiagnosed
  <2>5. QED
    BY <2>2, <2>3, <2>4 DEF ExchangeInv
<1>7. QED
  BY <1>5, <1>6

\* A clock edge of dl_message_port.v in terms of what the controller receives and
\* sends.
LEMMA EdgeShape ==
    ASSUME PeersInv, NEW e \in End, NEW start \in Optional(Requests[e]),
           NEW segment \in BOOLEAN, NEW deliver \in Deliveries(e),
           Edge(e, start, segment, deliver)
    PROVE  \E i \in Input :
              /\ i.take # <<>> => i.take[1] \in Offers(basic[e], i.limit)
              /\ Receives(i, wire[e]) /\ i.limit = limit[e]
              /\ basic'[e] = BasicEdge(basic[e], i) /\ basic'[Peer(e)] = basic[Peer(e)]
              /\ wire'[e] = TakenFrom(wire[e], i)
              /\ wire'[Peer(e)] = SentOn(wire[Peer(e)], basic[e], i)
              /\ limit' = limit
<1> DEFINE ready == Ready(e)
           winner == Winner(e, segment, ready)
           i == InputsOf(e, start, deliver, winner)
           b == basic[e]
<1>1. /\ basic' = [basic EXCEPT ![e] = BasicEdge(b, i)]
      /\ wire' = WireAfter(e, i) /\ limit' = limit
  BY DEF Edge
<1>2. i \in Input
  BY InputsTyped
<1>3. i.take # <<>> => i.take[1] \in Offers(b, i.limit)
  <2>1. i.limit = limit[e]
    BY DEF InputsOf
  <2>2. QED
    BY <2>1, WinnerServes
<1>4. Receives(i, wire[e]) /\ i.limit = limit[e]
  BY DEF InputsOf, Receives, Deliveries
<1> HIDE DEF i
<1>5. basic'[e] = BasicEdge(b, i) /\ basic'[Peer(e)] = basic[Peer(e)]
  BY <1>1, TwoEnds DEF PeersInv
<1>6. /\ wire'[e] = TakenFrom(wire[e], i)
       /\ wire'[Peer(e)] = SentOn(wire[Peer(e)], b, i)
  BY <1>1, TwoEnds DEF WireAfter, TakenFrom, SentOn
<1>7. QED
  BY <1>1, <1>2, <1>3, <1>4, <1>5, <1>6

\* At an edge of one end both exchanges go on: as the one that asks and as the one
\* that answers.
LEMMA EdgeKeepsExchange ==
    ASSUME ExchangeInv, NEW e \in End, NEW start \in Optional(Requests[e]),
           NEW segment \in BOOLEAN, NEW deliver \in Deliveries(e),
           Edge(e, start, segment, deliver)
    PROVE  ExchangeInv'
<1> DEFINE p == Peer(e)
           b == basic[e]
           x == basic[p]
<1>1. PeersInv /\ p \in End /\ Peer(p) = e /\ p # e
  BY TwoEnds DEF ExchangeInv
<1>2. PICK i \in Input :
         /\ i.take # <<>> => i.take[1] \in Offers(b, i.limit)
         /\ Receives(i, wire[e]) /\ i.limit = limit[e]
         /\ basic'[e] = BasicEdge(b, i) /\ basic'[p] = x
         /\ wire'[e] = TakenFrom(wire[e], i) /\ wire'[p] = SentOn(wire[p], b, i)
         /\ limit' = limit
  BY <1>1, EdgeShape
<1>3. b \in Controller /\ x \in Controller /\ wire[e] \in Seq(Word) /\ wire[p] \in Seq(Word)
  BY <1>1 DEF PeersInv
<1>4. ExchangeOf(b, x, wire[p], wire[e], limit[p]) /\ ExchangeOf(x, b, wire[e], wire[p], limit[e])
  BY <1>1 DEF ExchangeInv, Exchange
<1> HIDE DEF b, x, p
<1>5. /\ ExchangeOf(BasicEdge(b, i), x, SentOn(wire[p], b, i), TakenFrom(wire[e], i), limit[p])
      /\ RxAck(i) => LocalDone(b, i)
  BY <1>2, <1>3, <1>4, AskerKeeps
<1>6. /\ ExchangeOf(x, BasicEdge(b, i), TakenFrom(wire[e], i), SentOn(wire[p], b, i), limit[e])
      /\ RxAsks(i) => RxRequest(b, i)
  <2>1. ExchangeOf(x, b, wire[e], wire[p], i.limit)
    BY <1>2, <1>4
  <2>2. ExchangeOf(x, BasicEdge(b, i), TakenFrom(wire[e], i), SentOn(wire[p], b, i), i.limit)
        /\ (RxAsks(i) => RxRequest(b, i))
    BY <1>2, <1>3, <2>1, AnswererKeeps
  <2>3. QED
    BY <1>2, <2>2
<1>7. Exchange(e)' /\ Exchange(p)'
  BY <1>1, <1>2, <1>5, <1>6 DEF Exchange, p
<1>8. ~basic'[e].protocol_fault /\ ~basic'[p].protocol_fault
  <2>1. ~Faults(b, i)
    BY <1>2, <1>5, <1>6 DEF Faults
  <2>2. ~b.protocol_fault /\ ~x.protocol_fault
    BY <1>1 DEF ExchangeInv, Undiagnosed, b, x
  <2>3. ~BasicEdge(b, i).protocol_fault
    BY <2>1, <2>2 DEF BasicEdge
  <2>4. QED
    BY <1>2, <2>2, <2>3
<1>9. \A y \in End : y = e \/ y = p
  BY TwoEnds DEF p
<1>10. PeersInv'
  BY <1>1, EdgeKeepsInv
<1>11. (\A y \in End : Exchange(y))'
  BY <1>7, <1>9 DEF Exchange
<1>12. Undiagnosed'
  BY <1>8, <1>9 DEF Undiagnosed
<1>13. QED
  BY <1>10, <1>11, <1>12 DEF ExchangeInv

\* The pacing only comes to what the peer asked for, which leaves an acceptance under
\* way true.
LEMMA PaceKeepsExchange ==
    ASSUME ExchangeInv, NEW a \in End, Pace(a)
    PROVE  ExchangeInv'
<1>1. PICK v \in Rates : /\ v <= basic[a].peer["Rate"]
                         /\ limit' = [limit EXCEPT ![a] = <<v>>]
  BY DEF Pace
<1>2. /\ basic' = basic /\ wire' = wire /\ PeersInv
  BY DEF Pace, ExchangeInv
<1>3. PeersInv'
  <2>1. Next
    BY DEF Next
  <2>2. QED
    BY <1>2, <2>1, PeersInvInductive
<1>4. ASSUME NEW e \in End
      PROVE  Exchange(e)'
  <2> DEFINE p == Peer(e)
  <2>1. ExchangeOf(basic[e], basic[p], wire[p], wire[e], limit[p]) /\ p \in End
    BY TwoEnds DEF ExchangeInv, Exchange
  <2>2. CASE p # a
    <3>1. limit'[p] = limit[p]
      BY <1>1, <1>2, <2>1, <2>2 DEF PeersInv
    <3>2. QED
      BY <1>2, <2>1, <3>1 DEF Exchange
  <2>3. CASE p = a
    <3>1. limit'[p] = <<v>>
      BY <1>1, <1>2, <2>1, <2>3 DEF PeersInv
    <3>2. <<v>> # <<>> /\ <<v>>[1] = v
      OBVIOUS
    <3>3. ExchangeOf(basic[e], basic[p], wire[p], wire[e], limit'[p])
      <4> HIDE DEF p
      <4>1. \A n \in WordsOf(wire[e], "answer") :
               basic[e].local[1].kind = "Rate" => v <= basic[e].local[1].value
        BY <1>1, <2>1, <2>3 DEF ExchangeOf
      <4>2. QED
        BY <2>1, <3>1, <3>2, <4>1 DEF ExchangeOf
    <3>4. QED
      BY <1>2, <3>3 DEF Exchange
  <2>4. QED
    BY <2>2, <2>3
<1>5. Undiagnosed'
  BY <1>2 DEF Undiagnosed, ExchangeInv
<1>6. (\A e \in End : Exchange(e))'
  BY <1>4
<1>7. QED
  BY <1>3, <1>5, <1>6 DEF ExchangeInv

\* No step leaves the exchanges.
LEMMA ExchangeInductive ==
    ASSUME ExchangeInv, [Next]_vars
    PROVE  ExchangeInv'
<1>1. CASE \E e \in End : \E start \in Optional(Requests[e]), segment \in BOOLEAN,
                             deliver \in Deliveries(e) : Edge(e, start, segment, deliver)
  BY <1>1, EdgeKeepsExchange
<1>2. CASE UNCHANGED <<basic, limit, wire>> /\ PeersInv'
  BY <1>2 DEF ExchangeInv, Exchange, Undiagnosed
<1>3. CASE \E m \in Messages : Stage(m[1], m[2], m[3])
  BY <1>2, <1>3, PeersInvInductive DEF Stage, ExchangeInv
<1>4. CASE \E e \in End : Pace(e)
  BY <1>4, PaceKeepsExchange
<1>5. CASE Reset
  BY <1>5, StartIsExchange
<1>6. CASE UNCHANGED vars
  BY <1>2, <1>6, PeersInvInductive DEF vars, ExchangeInv
<1>7. QED
  BY <1>1, <1>3, <1>4, <1>5, <1>6 DEF Next

\* For every choice of message types, traffic and pacing: a request that was sent is in
\* exactly one place until it is answered, and neither end ever diagnoses the other
\* (dl_basic_message_control.v:145-148).
THEOREM RequestsAnsweredOnce == Spec => []OneAnswerEach
<1>1. ExchangeInv => OneAnswerEach
  <2>1. SUFFICES ASSUME ExchangeInv, NEW e \in End
                 PROVE  /\ ~basic[e].protocol_fault
                        /\ Cardinality(Words(Peer(e), FALSE)) + Len(basic[Peer(e)].remote)
                             + Cardinality(Words(e, TRUE)) = (IF Sent(e) THEN 1 ELSE 0)
                        /\ \A n \in Words(Peer(e), FALSE) :
                              wire[Peer(e)][n].kind = basic[e].local[1].kind
                        /\ \A n \in Words(e, TRUE) : wire[e][n].kind = basic[e].local[1].kind
                        /\ basic[Peer(e)].remote # <<>> =>
                              basic[Peer(e)].remote[1].kind = basic[e].local[1].kind
    BY DEF OneAnswerEach
  <2> DEFINE p == Peer(e)
  <2>2. ExchangeOf(basic[e], basic[p], wire[p], wire[e], limit[p]) /\ p \in End
    BY <2>1, TwoEnds DEF ExchangeInv, Exchange
  <2>3. Words(p, FALSE) = WordsOf(wire[p], "ask") /\ Words(e, TRUE) = WordsOf(wire[e], "answer")
    BY <2>1, <2>2, WordsBySense DEF ExchangeInv
  <2>4. Len(basic[p].remote) = Owed(basic[p])
    <3>1. basic[p].remote # <<>> => basic[p].remote = <<basic[p].remote[1]>>
      BY <2>1, <2>2, SlotsTyped DEF ExchangeInv, PeersInv
    <3>2. Len(<<>>) = 0 /\ \A y : Len(<<y>>) = 1
      OBVIOUS
    <3>3. QED
      BY <3>1, <3>2 DEF Owed
  <2>5. Sent(e) <=> IsSent(basic[e])
    BY DEF Sent, IsSent
  <2>6. ~basic[e].protocol_fault
    BY <2>1 DEF ExchangeInv, Undiagnosed
  <2>7. QED
    BY <2>2, <2>3, <2>4, <2>5, <2>6 DEF ExchangeOf, NumberOf
<1>2. QED
  BY <1>1, StartIsExchange, ExchangeInductive, PTL DEF Spec

\* For every choice of rates: while the acceptance of a rate is under way, the end that
\* accepted it paces by no more than was asked for (dl_basic_message_control.v:124).
THEOREM AcceptedRatesArePaced == Spec => []RateAckMeansPaced
<1>1. ExchangeInv => RateAckMeansPaced
  <2>1. SUFFICES ASSUME ExchangeInv, NEW e \in End, NEW n \in Words(e, TRUE),
                        wire[e][n].kind = "Rate"
                 PROVE  limit[Peer(e)] # <<>> /\ limit[Peer(e)][1] <= basic[e].local[1].value
    BY DEF RateAckMeansPaced
  <2>2. Exchange(e)
    BY <2>1 DEF ExchangeInv
  <2>3. n \in WordsOf(wire[e], "answer")
    BY <2>1, WordsBySense DEF ExchangeInv
  <2>4. QED
    BY <2>1, <2>2, <2>3 DEF Exchange, ExchangeOf
<1>2. QED
  BY <1>1, StartIsExchange, ExchangeInductive, PTL DEF Spec
-----------------------------------------------------------------------------
\* The largest group bounds the place of every source.
LEMMA LargestGroup ==
    /\ Max({Size[g] : g \in Group}) \in Nat
    /\ \A g \in Group : Size[g] <= Max({Size[h] : h \in Group})
<1> DEFINE N == Cardinality(Group)
           Sizes(n) == {Size[g] : g \in 0 .. (n - 1)}
           HasLargest(n) == \E x \in Sizes(n) : \A y \in Sizes(n) : x >= y
           bad == {n \in Nat : n >= 1 /\ n <= N /\ ~HasLargest(n)}
<1>1. N \in Nat /\ N >= 1 /\ Group = 0 .. (N - 1) /\ \A g \in Group : Size[g] \in Nat
  BY ArbiterAssumption, FS_CardinalityType, FS_EmptySet
<1> HIDE DEF N
<1>2. bad = {}
  <2>1. SUFFICES ASSUME bad # {} PROVE FALSE
    OBVIOUS
  <2>2. PICK n \in bad : \A m \in bad : ~(m < n)
    BY <2>1, LeastOfSome
  <2>3. n \in Nat /\ n >= 1 /\ n <= N /\ ~HasLargest(n)
    OBVIOUS
  <2>4. Size[n - 1] \in Sizes(n) /\ Size[n - 1] \in Nat
    BY <1>1, <2>3
  <2>5. \A y \in Sizes(n) : y \in Nat /\ (y = Size[n - 1] \/ (n > 1 /\ y \in Sizes(n - 1)))
    <3>1. SUFFICES ASSUME NEW g \in 0 .. (n - 1)
                   PROVE  Size[g] \in Nat /\ (Size[g] = Size[n - 1] \/ (n > 1 /\ Size[g] \in Sizes(n - 1)))
      OBVIOUS
    <3>2. g \in Group /\ (g = n - 1 \/ (n > 1 /\ g \in 0 .. (n - 1 - 1)))
      BY <1>1, <2>3
    <3>3. QED
      BY <1>1, <3>2
  <2>6. CASE n = 1
    <3>1. \A y \in Sizes(n) : y = Size[n - 1]
      BY <2>5, <2>6
    <3> HIDE DEF Sizes
    <3>2. \A y \in Sizes(n) : Size[n - 1] >= y
      BY <2>4, <3>1
    <3>3. QED
      BY <2>3, <2>4, <3>2
  <2>7. CASE n # 1
    <3>1. n - 1 \in Nat /\ n - 1 >= 1 /\ n - 1 <= N /\ n - 1 < n
      BY <1>1, <2>3, <2>7
    <3>2. HasLargest(n - 1)
      BY <2>2, <3>1
    <3>3. PICK x \in Sizes(n - 1) : \A y \in Sizes(n - 1) : x >= y
      BY <3>2
    <3>4. x \in Sizes(n) /\ x \in Nat
      <4>1. \A g \in 0 .. (n - 1 - 1) : g \in 0 .. (n - 1)
        BY <2>3
      <4>2. x \in Sizes(n)
        BY <4>1
      <4>3. QED
        BY <2>5, <4>2
    <3> HIDE DEF Sizes
    <3>5. CASE x >= Size[n - 1]
      BY <2>3, <2>5, <3>3, <3>4, <3>5
    <3>6. CASE ~(x >= Size[n - 1])
      <4>1. \A y \in Sizes(n) : Size[n - 1] >= y
        BY <2>4, <2>5, <3>3, <3>4, <3>6
      <4>2. QED
        BY <2>3, <2>4, <4>1
    <3>7. QED
      BY <3>5, <3>6
  <2>8. QED
    BY <2>6, <2>7
<1>3. HasLargest(N)
  <2> HIDE DEF HasLargest
  <2>1. N \notin bad
    BY <1>2
  <2>2. QED
    BY <1>1, <2>1
<1>4. Sizes(N) = {Size[g] : g \in Group}
  BY <1>1
<1> DEFINE S == {Size[g] : g \in Group}
<1>5. \E x \in S : \A y \in S : x >= y
  BY <1>3, <1>4
<1> HIDE DEF Sizes
<1>6. Max(S) \in S /\ \A y \in S : Max(S) >= y
  BY <1>5 DEF Max
<1>7. QED
  BY <1>1, <1>6

\* Both turns of dl_message_arbiter.v stay within the groups.
LEMMA CursorsKept ==
    /\ ArbReset.cursor \in Cursors
    /\ \A c \in Cursors, s \in Source : Advanced(c, s) \in Cursors
<1> DEFINE M == Max({Size[g] : g \in Group})
           Fits(f) == f \in [Group -> 0 .. M] /\ \A g \in Group : f[g] < Size[g]
<1>1. M \in Nat /\ \A g \in Group : Size[g] \in Nat \ {0} /\ Size[g] <= M
  BY LargestGroup, ArbiterAssumption
<1>2. \A c : c \in Cursors <=> /\ c = [group |-> c.group, local |-> c.local]
                               /\ c.group \in Group /\ Fits(c.local)
  <2>1. Cursors = [group : Group, local : {f \in [Group -> 0 .. M] : \A g \in Group : f[g] < Size[g]}]
    BY DEF Cursors
  <2> HIDE DEF M
  <2>2. QED
    BY <2>1
<1> HIDE DEF M
<1>3. Cardinality(Group) \in Nat \ {0} /\ Group = 0 .. (Cardinality(Group) - 1)
  BY ArbiterAssumption, FS_CardinalityType, FS_EmptySet
<1>4. \A x \in Int, n \in Nat \ {0} : x % n \in 0 .. (n - 1)
  OBVIOUS
<1>5. ArbReset.cursor \in Cursors
  <2>1. Fits([g \in Group |-> 0])
    BY <1>1
  <2>2. 0 \in Group
    BY <1>3
  <2> HIDE DEF Fits
  <2>3. QED
    BY <1>2, <2>1, <2>2 DEF ArbReset
<1>6. ASSUME NEW c \in Cursors, NEW s \in Source
      PROVE  Advanced(c, s) \in Cursors
  <2> DEFINE v == (s[2] + 1) % Size[s[1]]
  <2>1. s[1] \in Group /\ s[1] \in Int /\ s[2] \in Int
    BY SourceForm
  <2>2. (s[1] + 1) % Cardinality(Group) \in Group
    <3>1. s[1] + 1 \in Int
      BY <2>1
    <3>2. (s[1] + 1) % Cardinality(Group) \in 0 .. (Cardinality(Group) - 1)
      BY <1>3, <1>4, <3>1
    <3>3. QED
      BY <1>3, <3>2
  <2>3. v \in 0 .. (Size[s[1]] - 1)
    <3>1. s[2] + 1 \in Int /\ Size[s[1]] \in Nat \ {0}
      BY <1>1, <2>1
    <3>2. QED
      BY <1>4, <3>1
  <2>4. v \in 0 .. M /\ v < Size[s[1]]
    BY <1>1, <2>1, <2>3
  <2> HIDE DEF v
  <2>5. Fits([c.local EXCEPT ![s[1]] = v])
    BY <1>2, <2>1, <2>4
  <2> HIDE DEF Fits
  <2>6. QED
    BY <1>2, <2>2, <2>5 DEF Advanced, v
<1>7. QED
  BY <1>5, <1>6

\* An opportunity of dl_message_arbiter.v leaves it between messages, or within the
\* transport at the head of its source.
Within(a, q) ==
    /\ a.cursor \in Cursors
    /\ a.active # <<>> =>
          /\ a.active = Transport /\ q[Transport] # <<>>
          /\ a.word_index > 0 /\ a.word_index < Head(q[Transport])

LEMMA TickedWithin ==
    ASSUME NEW a \in Arbiter, NEW q, Pending(q) # {}, Within(a, q),
           \A s \in Source : q[s] # <<>> => Head(q[s]) \in Lengths(s),
           a.active = <<>> => a.word_index = 0
    PROVE  /\ Within(Ticked(a, q), q)
           /\ Completes(a, q) => Ticked(a, q).active = <<>>
           /\ Served(a, q) \in Source /\ q[Served(a, q)] # <<>>
<1> DEFINE s == Served(a, q)
           w == a.word_index
<1>1. s \in Source /\ q[s] # <<>> /\ Head(q[s]) \in Lengths(s)
  <2>1. CASE a.active = <<>>
    BY <2>1, ServedIsPending DEF Pending
  <2>2. CASE a.active # <<>>
    BY <2>2, ArbiterAssumption DEF Served, Within
  <2>3. QED
    BY <2>1, <2>2
<1>2. w \in Nat /\ a.cursor \in Cursors
  BY DEF Arbiter, Within
<1>3. CASE Completes(a, q)
  <2>1. Ticked(a, q) = [cursor |-> Advanced(a.cursor, s), active |-> <<>>, word_index |-> 0]
    BY <1>3 DEF Ticked
  <2>2. Advanced(a.cursor, s) \in Cursors
    BY <1>1, <1>2, CursorsKept
  <2> HIDE DEF s
  <2>3. QED
    BY <1>1, <2>1, <2>2 DEF Within, s
<1>4. CASE ~Completes(a, q)
  <2>1. w + 1 # Head(q[s])
    BY <1>4 DEF Completes
  <2>2. s = Transport
    <3>1. CASE a.active # <<>>
      BY <3>1 DEF Served, Within
    <3>2. CASE a.active = <<>>
      <4>1. Head(q[s]) # 1
        BY <2>1, <3>2
      <4>2. QED
        BY <1>1, <4>1 DEF Lengths
    <3>3. QED
      BY <3>1, <3>2
  <2>3. Head(q[Transport]) \in 2 .. MaxWords
    BY <1>1, <2>2 DEF Lengths
  <2>4. w < Head(q[Transport])
    <3>1. CASE a.active # <<>>
      BY <3>1 DEF Within
    <3>2. CASE a.active = <<>>
      BY <2>3, <3>2
    <3>3. QED
      BY <3>1, <3>2
  <2>5. w + 1 > 0 /\ w + 1 < Head(q[Transport])
    BY <1>2, <2>1, <2>2, <2>3, <2>4, ArbiterAssumption
  <2>6. Ticked(a, q) = [a EXCEPT !.active = s, !.word_index = w + 1]
    BY <1>4 DEF Ticked
  <2> HIDE DEF s, w
  <2>7. Ticked(a, q).cursor = a.cursor /\ Ticked(a, q).active = s /\ Ticked(a, q).word_index = w + 1
    BY <2>6 DEF Arbiter
  <2>8. Within(Ticked(a, q), q)
    BY <1>1, <1>2, <2>2, <2>5, <2>7 DEF Within
  <2>9. QED
    BY <1>1, <1>4, <2>8 DEF s
<1>5. QED
  BY <1>3, <1>4

\* What an end has staged, and where its arbiter is in it.
StagedLegal(q) ==
    \A s \in Source : /\ q[s] \in Seq(Nat) /\ Len(q[s]) <= Depth
                      /\ \A n \in 1 .. Len(q[s]) : q[s][n] \in Lengths(s)

StagedInv ==
    /\ staged \in [End -> [Source -> Seq(Nat)]]
    /\ \A e \in End : StagedLegal(staged[e]) /\ Within(arb[e], staged[e])

\* The legal lengths are numbers.
LEMMA LengthsTyped ==
    ASSUME NEW s \in Source
    PROVE  Lengths(s) \subseteq Nat
BY ArbiterAssumption DEF Lengths

\* Another message staged keeps the bound of its queue and the message being sent.
LEMMA StageKeeps ==
    ASSUME StagedInv, NEW m \in Messages, Stage(m[1], m[2], m[3])
    PROVE  StagedInv'
<1> DEFINE e == m[1]
           s == m[2]
           n == m[3]
           q == staged[e][s]
           r == Append(q, n)
<1>1. e \in End /\ s \in Source /\ n \in Lengths(s) /\ n \in Nat
  BY PeersAssumption, LengthsTyped
<1>2. staged' = [staged EXCEPT ![e][s] = r] /\ arb' = arb /\ Len(q) < Depth
  BY DEF Stage
<1>3. q \in Seq(Nat) /\ \A k \in 1 .. Len(q) : q[k] \in Lengths(s)
  BY <1>1 DEF StagedInv, StagedLegal
<1> HIDE DEF q, n, s, e
<1>4. /\ r \in Seq(Nat) /\ r # <<>> /\ Len(r) = Len(q) + 1 /\ Len(q) \in Nat
      /\ \A k \in 1 .. Len(q) : r[k] = q[k]
      /\ r[Len(q) + 1] = n
  BY <1>1, <1>3, AppendProperties, LenProperties
<1>5. q # <<>> => Head(r) = Head(q)
  BY <1>3, HeadTailAppend
<1> HIDE DEF r
<1>6. Len(r) <= Depth
  BY <1>2, <1>4, ArbiterAssumption
<1>7. \A k \in 1 .. Len(r) : r[k] \in Lengths(s)
  <2> TAKE k \in 1 .. Len(r)
  <2>1. k \in 1 .. Len(q) \/ k = Len(q) + 1
    BY <1>4
  <2>2. QED
    BY <1>1, <1>3, <1>4, <2>1
<1>8. staged' \in [End -> [Source -> Seq(Nat)]]
  BY <1>1, <1>2, <1>4 DEF StagedInv
<1>9. \A x \in End, y \in Source :
          staged'[x][y] = IF x = e /\ y = s THEN r ELSE staged[x][y]
  BY <1>1, <1>2 DEF StagedInv
<1>10. staged[e][s] = q
  BY DEF q
<1>11. ASSUME NEW x \in End
       PROVE  StagedLegal(staged'[x]) /\ Within(arb'[x], staged'[x])
  <2>1. StagedLegal(staged[x]) /\ Within(arb[x], staged[x])
    BY DEF StagedInv
  <2>2. StagedLegal(staged'[x])
    BY <1>4, <1>6, <1>7, <1>9, <2>1 DEF StagedLegal
  <2>3. Transport \in Source
    BY ArbiterAssumption
  <2>4. /\ staged[x][Transport] # <<>> =>
              /\ staged'[x][Transport] # <<>>
              /\ Head(staged'[x][Transport]) = Head(staged[x][Transport])
    BY <1>4, <1>5, <1>9, <1>10, <2>3
  <2>5. Within(arb'[x], staged'[x])
    BY <1>2, <2>1, <2>4 DEF Within
  <2>6. QED
    BY <2>2, <2>5
<1>12. QED
  BY <1>8, <1>11 DEF StagedInv

\* What the arbiter chooses from, and what is staged, agree on the other sources.
LEMMA ReadyLegal ==
    ASSUME StagedInv, NEW e \in End
    PROVE  /\ \A s \in Source : Ready(e)[s] # <<>> => Head(Ready(e)[s]) \in Lengths(s)
           /\ \A s \in Source \ BasicSources : Ready(e)[s] = staged[e][s]
           /\ Transport \in Source \ BasicSources
           /\ Within(arb[e], Ready(e))
<1>1. Transport \in Source \ BasicSources
  BY ArbiterAssumption, PeersAssumption DEF BasicSources
<1>2. \A s \in Source \ BasicSources : Ready(e)[s] = staged[e][s]
  BY DEF Ready
<1>3. ASSUME NEW s \in Source, Ready(e)[s] # <<>>
      PROVE  Head(Ready(e)[s]) \in Lengths(s)
  <2>1. CASE s \in BasicSources
    <3>1. Ready(e)[s] = <<1>>
      BY <1>3, <2>1 DEF Ready
    <3>2. Lengths(s) = {1}
      BY <1>1, <2>1 DEF Lengths
    <3>3. QED
      BY <3>1, <3>2
  <2>2. CASE s \notin BasicSources
    <3>1. Ready(e)[s] = staged[e][s] /\ staged[e][s] \in Seq(Nat)
          /\ \A n \in 1 .. Len(staged[e][s]) : staged[e][s][n] \in Lengths(s)
      BY <1>2, <2>2 DEF StagedInv, StagedLegal
    <3>2. Head(staged[e][s]) = staged[e][s][1] /\ 1 \in 1 .. Len(staged[e][s])
      BY <1>3, <3>1, LenProperties, EmptySeq
    <3>3. QED
      BY <3>1, <3>2
  <2>3. QED
    BY <2>1, <2>2
<1>4. Within(arb[e], Ready(e))
  BY <1>1, <1>2 DEF Within, StagedInv
<1>5. QED
  BY <1>1, <1>2, <1>3, <1>4

\* The message that is complete leaves its queue, every other one stays.
LEMMA EdgeKeepsStaged ==
    ASSUME StagedInv, PeersInv, NEW e \in End, NEW start, NEW segment, NEW deliver,
           Edge(e, start, segment, deliver)
    PROVE  StagedInv'
<1> DEFINE ready == Ready(e)
           winner == Winner(e, segment, ready)
           a == arb[e]
           s == Served(a, ready)
           done == winner # <<>> /\ s \notin BasicSources /\ Completes(a, ready)
           q == staged[e][s]
<1>1. /\ arb' = IF winner = <<>> THEN arb ELSE [arb EXCEPT ![e] = Ticked(a, ready)]
      /\ staged' = StagedAfter(e, ready, winner)
  BY DEF Edge
<1>2. winner # <<>> => Pending(ready) # {} /\ winner[1] = s
  BY DEF Winner
<1>3. a \in Arbiter /\ (a.active = <<>> => a.word_index = 0) /\ arb \in [End -> Arbiter]
  BY DEF PeersInv
<1>4. /\ \A y \in Source : ready[y] # <<>> => Head(ready[y]) \in Lengths(y)
      /\ \A y \in Source \ BasicSources : ready[y] = staged[e][y]
      /\ Transport \in Source \ BasicSources
      /\ Within(a, ready)
  BY ReadyLegal
<1>5. staged' = IF done THEN [staged EXCEPT ![e][s] = Tail(q)] ELSE staged
  <2>1. CASE winner = <<>>
    BY <1>1, <2>1 DEF StagedAfter
  <2>2. CASE winner # <<>>
    <3>1. winner[1] = s
      BY <1>2, <2>2
    <3> HIDE DEF winner, s, ready
    <3>2. StagedAfter(e, ready, winner) =
             IF winner[1] \notin BasicSources /\ Completes(a, ready)
             THEN [staged EXCEPT ![e][winner[1]] = Tail(staged[e][winner[1]])] ELSE staged
      BY <2>2 DEF StagedAfter
    <3>3. QED
      BY <1>1, <2>2, <3>1, <3>2
  <2>3. QED
    BY <2>1, <2>2
<1> HIDE DEF ready, winner
<1>6. winner # <<>> =>
          /\ Within(Ticked(a, ready), ready)
          /\ Completes(a, ready) => Ticked(a, ready).active = <<>>
          /\ s \in Source /\ ready[s] # <<>>
  BY <1>2, <1>3, <1>4, TickedWithin
<1> HIDE DEF s
<1>7. done => /\ s \in Source /\ q \in Seq(Nat) /\ q # <<>>
              /\ Tail(q) \in Seq(Nat) /\ Len(Tail(q)) = Len(q) - 1 /\ Len(q) \in Nat
              /\ \A n \in 1 .. Len(q) - 1 : Tail(q)[n] = q[n + 1]
  <2>1. SUFFICES ASSUME done
                 PROVE  /\ s \in Source /\ q \in Seq(Nat) /\ q # <<>>
                        /\ Tail(q) \in Seq(Nat) /\ Len(Tail(q)) = Len(q) - 1 /\ Len(q) \in Nat
                        /\ \A n \in 1 .. Len(q) - 1 : Tail(q)[n] = q[n + 1]
    OBVIOUS
  <2>2. s \in Source /\ q # <<>>
    BY <1>4, <1>6, <2>1
  <2>3. q \in Seq(Nat)
    BY <2>2 DEF StagedInv
  <2>4. QED
    BY <2>2, <2>3, HeadTailProperties, LenProperties
<1>8. \A x \in End, y \in Source :
          staged'[x][y] = IF done /\ x = e /\ y = s THEN Tail(q) ELSE staged[x][y]
  <2> HIDE DEF done
  <2>1. QED
    BY <1>5, <1>7 DEF StagedInv
<1>9. staged' \in [End -> [Source -> Seq(Nat)]]
  <2>1. staged \in [End -> [Source -> Seq(Nat)]]
    BY DEF StagedInv
  <2> HIDE DEF done
  <2>2. QED
    BY <1>5, <1>7, <2>1
<1>10. ASSUME NEW x \in End
       PROVE  StagedLegal(staged'[x])
  <2>1. StagedLegal(staged[x])
    BY DEF StagedInv
  <2>2. ASSUME done, x = e
        PROVE  Len(Tail(q)) <= Depth /\ \A n \in 1 .. Len(Tail(q)) : Tail(q)[n] \in Lengths(s)
    <3>1. Len(q) <= Depth /\ \A n \in 1 .. Len(q) : q[n] \in Lengths(s)
      BY <1>7, <2>1, <2>2 DEF StagedLegal
    <3>2. \A n \in 1 .. Len(q) - 1 : n + 1 \in 1 .. Len(q)
      BY <1>7, <2>2
    <3>3. Len(q) - 1 <= Depth
      BY <1>7, <2>2, <3>1, ArbiterAssumption
    <3> HIDE DEF done, q
    <3>4. QED
      BY <1>7, <2>2, <3>1, <3>2, <3>3
  <2> HIDE DEF done, q
  <2>3. QED
    BY <1>7, <1>8, <2>1, <2>2 DEF StagedLegal
<1>11. ASSUME NEW x \in End
       PROVE  Within(arb'[x], staged'[x])
  <2>1. Within(arb[x], staged[x])
    BY DEF StagedInv
  <2>2. CASE winner = <<>> \/ x # e
    <3>1. arb'[x] = arb[x]
      BY <1>1, <1>3, <2>2
    <3>2. staged'[x][Transport] = staged[x][Transport]
      BY <1>4, <1>8, <2>2
    <3>3. QED
      BY <2>1, <3>1, <3>2 DEF Within
  <2>3. CASE winner # <<>> /\ x = e
    <3>1. arb'[x] = Ticked(a, ready)
      BY <1>1, <1>3, <2>3
    <3>2. CASE Completes(a, ready)
      BY <1>6, <2>3, <3>1, <3>2 DEF Within
    <3>3. CASE ~Completes(a, ready)
      <4>1. staged'[x][Transport] = ready[Transport]
        BY <1>4, <1>8, <2>3, <3>3
      <4>2. QED
        BY <1>6, <2>3, <3>1, <4>1 DEF Within
    <3>4. QED
      BY <3>2, <3>3
  <2>4. QED
    BY <2>2, <2>3
<1>12. QED
  BY <1>9, <1>10, <1>11 DEF StagedInv

\* The words on a wire are requests and acknowledgements, nothing else.
LEMMA BothSenses ==
    ASSUME NEW q \in Seq(Word)
    PROVE  Len(q) = NumberOf(q, "ask") + NumberOf(q, "answer")
<1> DEFINE A == WordsOf(q, "ask")
           B == WordsOf(q, "answer")
<1>1. Len(q) \in Nat
  BY LenProperties
<1>2. A \cup B = 1 .. Len(q) /\ A \cap B = {}
  BY DEF WordsOf, Sense
<1>3. IsFiniteSet(A) /\ IsFiniteSet(B) /\ Cardinality(A) \in Nat /\ Cardinality(B) \in Nat
  BY NumberType DEF NumberOf
<1> HIDE DEF A, B
<1>4. Cardinality(A \cup B) = Cardinality(A) + Cardinality(B) - Cardinality(A \cap B)
  BY <1>3, FS_Union
<1>5. Cardinality(A \cup B) = Len(q)
  <2>1. Cardinality(1 .. Len(q)) = IF 1 > Len(q) THEN 0 ELSE Len(q) - 1 + 1
    BY <1>1, FS_Interval
  <2>2. Cardinality(1 .. Len(q)) = Len(q)
    BY <1>1, <2>1
  <2>3. Cardinality(A \cup B) = Cardinality(1 .. Len(q))
    BY <1>2, Zenon
  <2>4. QED
    BY <2>2, <2>3
<1>6. Cardinality(A \cap B) = 0
  BY <1>2, FS_EmptySet
<1>7. Len(q) = Cardinality(A) + Cardinality(B)
  BY <1>3, <1>4, <1>5, <1>6
<1>8. QED
  BY <1>7 DEF NumberOf, A, B

\* For every grouping of sources, depth and traffic: queues keep their bound and legal
\* messages, the arbiter stays within its turns and within a transport that is still
\* there, the deadline counter within its limit, and no more than a request and an
\* acknowledgement are under way to an end (dl_message_scheduler.py:105-123,
\* dl_message_arbiter.v, dl_basic_message_control.v).
THEOREM PortsTypeCorrect == Spec => []PortTypeOK
<1> DEFINE Inv == ExchangeInv /\ StagedInv
<1>1. (Init => Inv) /\ (Reset => Inv')
  <2>1. /\ Start.staged \in [End -> [Source -> Seq(Nat)]]
        /\ \A e \in End : StagedLegal(Start.staged[e]) /\ Within(Start.arb[e], Start.staged[e])
    <3>1. \A e \in End : /\ Start.arb[e] = ArbReset
                         /\ Start.staged[e] = [s \in Source |-> <<>>]
      BY DEF Start
    <3>2. StagedLegal([s \in Source |-> <<>>])
      BY ArbiterAssumption, EmptySeq DEF StagedLegal
    <3>3. \A q : Within(ArbReset, q)
      BY CursorsKept DEF Within, ArbReset
    <3>4. Start.staged \in [End -> [Source -> Seq(Nat)]]
      BY DEF Start
    <3>5. QED
      BY <3>1, <3>2, <3>3, <3>4
  <2>2. Init => StagedInv
    BY <2>1 DEF Init, StagedInv
  <2>3. Reset => StagedInv'
    BY <2>1 DEF Reset, StagedInv
  <2>4. QED
    BY <2>2, <2>3, StartIsExchange
<1>2. Inv /\ [Next]_vars => Inv'
  <2>1. SUFFICES ASSUME Inv, [Next]_vars PROVE StagedInv'
    BY ExchangeInductive
  <2>2. CASE \E e \in End : \E start \in Optional(Requests[e]), segment \in BOOLEAN,
                               deliver \in Deliveries(e) : Edge(e, start, segment, deliver)
    BY <2>1, <2>2, EdgeKeepsStaged DEF ExchangeInv
  <2>3. CASE \E m \in Messages : Stage(m[1], m[2], m[3])
    BY <2>1, <2>3, StageKeeps
  <2>4. CASE UNCHANGED <<staged, arb>>
    BY <2>1, <2>4 DEF StagedInv
  <2>5. CASE \E e \in End : Pace(e)
    BY <2>4, <2>5 DEF Pace
  <2>6. CASE Reset
    BY <1>1, <2>6 DEF Reset
  <2>7. CASE UNCHANGED vars
    BY <2>4, <2>7 DEF vars
  <2>8. QED
    BY <2>1, <2>2, <2>3, <2>5, <2>6, <2>7 DEF Next
<1>3. Inv => PortTypeOK
  <2>1. SUFFICES ASSUME Inv, NEW e \in End
                 PROVE  /\ \A s \in Source :
                              /\ Len(staged[e][s]) <= Depth
                              /\ \A n \in DOMAIN staged[e][s] : staged[e][s][n] \in Lengths(s)
                        /\ arb[e].cursor \in Cursors
                        /\ arb[e].active # <<>> =>
                              /\ arb[e].active = Transport
                              /\ arb[e].word_index < Head(staged[e][Transport])
                        /\ arb[e].word_index > 0 <=> arb[e].active # <<>>
                        /\ basic[e].age <= AckCycles /\ Len(wire[e]) <= 2
    BY DEF PortTypeOK
  <2>2. PeersInv /\ StagedLegal(staged[e]) /\ Within(arb[e], staged[e])
    BY <2>1 DEF ExchangeInv, StagedInv
  <2>3. \A s \in Source : DOMAIN staged[e][s] = 1 .. Len(staged[e][s])
    BY <2>2, LenProperties DEF StagedLegal
  <2>4. arb[e].word_index > 0 <=> arb[e].active # <<>>
    <3>1. arb[e].active = <<>> => arb[e].word_index = 0
      BY <2>2 DEF PeersInv
    <3>2. arb[e].active # <<>> => arb[e].word_index > 0
      BY <2>2 DEF Within
    <3>3. QED
      BY <3>1, <3>2
  <2>5. basic[e].age <= AckCycles
    BY <2>2, BasicAssumption DEF PeersInv, Controller
  <2>6. Len(wire[e]) <= 2
    <3> DEFINE p == Peer(e)
    <3>1. /\ p \in End /\ Peer(p) = e
          /\ Exchange(e) /\ Exchange(p)
          /\ wire[e] \in Seq(Word) /\ wire[p] \in Seq(Word)
          /\ basic[e] \in Controller /\ basic[p] \in Controller
      BY <2>1, <2>2, TwoEnds DEF ExchangeInv, PeersInv
    <3>2. /\ NumberOf(wire[p], "ask") + Owed(basic[p]) + NumberOf(wire[e], "answer") <= 1
          /\ NumberOf(wire[e], "ask") + Owed(basic[e]) + NumberOf(wire[p], "answer") <= 1
      BY <3>1 DEF Exchange, ExchangeOf
    <3>3. /\ NumberOf(wire[p], "ask") \in Nat /\ NumberOf(wire[e], "ask") \in Nat
          /\ NumberOf(wire[p], "answer") \in Nat /\ NumberOf(wire[e], "answer") \in Nat
      BY <3>1, NumberType
    <3>4. Owed(basic[e]) \in {0, 1} /\ Owed(basic[p]) \in {0, 1}
      BY DEF Owed
    <3>5. Len(wire[e]) = NumberOf(wire[e], "ask") + NumberOf(wire[e], "answer")
      BY <3>1, BothSenses
    <3> HIDE DEF p
    <3>6. QED
      BY <3>2, <3>3, <3>4, <3>5
  <2>7. QED
    BY <2>2, <2>3, <2>4, <2>5, <2>6 DEF StagedLegal, Within
<1>4. Init => Inv
  BY <1>1
<1>5. QED
  BY <1>2, <1>3, <1>4, PTL DEF Spec
=============================================================================
