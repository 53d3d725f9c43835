--------------------------- MODULE DLMessagePeers ---------------------------
(***************************************************************************)
(* Two ends of a DL message channel: at each a Basic controller and the    *)
(* message arbiter, which serves the controller's messages among the       *)
(* staged messages of the other sources, as dl_message_port.v joins them.  *)
(* Words arrive in order and none is lost (the link level sees to it).  A  *)
(* step is a clock edge of one end, the staging of a message, a change of  *)
(* the pacing in force, or a reset of the whole link.                      *)
(***************************************************************************)
EXTENDS DLMessageArbiter, DLBasicReference

CONSTANTS
    End,           \* the two ends
    BasicSource,   \* the source of each Basic type: [Kinds -> Source]
    Requests,      \* what each end may request: [End -> set of [kind, value]]
    Identity,      \* what each end answers: [End -> Nat]
    Messages,      \* messages of other sources: set of <<end, source, words>>
    Rates          \* values of the pacing

ASSUME PeersAssumption ==
    /\ IsFiniteSet(End) /\ Cardinality(End) = 2
    /\ BasicSource \in [Kinds -> Source \ {Transport}]
    /\ \A k, l \in Kinds : BasicSource[k] = BasicSource[l] => k = l
    /\ \A e \in End : Requests[e] \subseteq [kind : Kinds, value : Nat]
    /\ Identity \in [End -> Nat] /\ Rates \subseteq Nat
    /\ \A m \in Messages : m[1] \in End /\ m[2] \in Source /\ m[3] \in Lengths(m[2])

VARIABLES
    basic,    \* the Basic controller of each end
    arb,      \* its arbiter
    staged,   \* messages of its other sources, the one being sent included
    limit,    \* the pacing in force there, at most one number
    wire      \* Basic words under way to it, oldest first

vars == <<basic, arb, staged, limit, wire>>

BasicSources == {BasicSource[k] : k \in Kinds}
KindOf(s) == CHOOSE k \in Kinds : BasicSource[k] = s
Peer(e) == CHOOSE x \in End : x # e

Start ==
    [basic |-> [e \in End |-> BasicReset], arb |-> [e \in End |-> ArbReset],
     staged |-> [e \in End |-> [s \in Source |-> <<>>]],
     limit |-> [e \in End |-> <<>>], wire |-> [e \in End |-> <<>>]]

Init ==
    /\ basic = Start.basic /\ arb = Start.arb /\ staged = Start.staged
    /\ limit = Start.limit /\ wire = Start.wire

\* The messages end e has ready, by source.
Ready(e) ==
    [s \in Source |->
        IF s \notin BasicSources THEN staged[e][s]
        ELSE IF KindOf(s) \in Offers(basic[e], limit[e]) THEN <<1>> ELSE <<>>]

\* The source served at an edge, at most one.
Winner(e, segment, ready) ==
    IF segment /\ Pending(ready) # {} THEN <<Served(arb[e], ready)>> ELSE <<>>

\* The inputs of the Basic controller at an edge.
InputsOf(e, start, deliver, winner) ==
    [start |-> start,
     take |-> IF winner # <<>> /\ winner[1] \in BasicSources
              THEN <<KindOf(winner[1])>> ELSE <<>>,
     rx |-> IF deliver THEN <<Head(wire[e])>> ELSE <<>>,
     limit |-> limit[e], identity |-> Identity[e]]

Optional(S) == {<<>>} \cup {<<x>> : x \in S}
Deliveries(e) == IF wire[e] = <<>> THEN {FALSE} ELSE BOOLEAN

\* The messages under way after an edge of e.
WireAfter(e, i) ==
    [x \in End |->
        IF x = e THEN (IF i.rx = <<>> THEN wire[x] ELSE Tail(wire[x]))
        ELSE IF i.take = <<>> THEN wire[x]
        ELSE Append(wire[x], OfferedWord(basic[e], i.take[1]))]

StagedAfter(e, ready, winner) ==
    IF winner # <<>> /\ winner[1] \notin BasicSources /\ Completes(arb[e], ready)
    THEN [staged EXCEPT ![e][winner[1]] = Tail(@)] ELSE staged

\* A clock edge of e.  Each value is bound once.
Edge(e, start, segment, deliver) ==
    \E ready \in {Ready(e)} : \E winner \in {Winner(e, segment, ready)} :
    \E i \in {InputsOf(e, start, deliver, winner)} :
        /\ basic' = [basic EXCEPT ![e] = BasicEdge(basic[e], i)]
        /\ arb' = IF winner = <<>> THEN arb
                  ELSE [arb EXCEPT ![e] = Ticked(arb[e], ready)]
        /\ staged' = StagedAfter(e, ready, winner)
        /\ wire' = WireAfter(e, i)
        /\ UNCHANGED limit

\* A message of another source is staged completely (DLMessageArbiter.offer).
Stage(e, s, n) ==
    /\ Len(staged[e][s]) < Depth
    /\ staged' = [staged EXCEPT ![e][s] = Append(@, n)]
    /\ UNCHANGED <<basic, arb, limit, wire>>

\* The physical layer comes to honour the rate the peer asked for.
Pace(e) ==
    /\ "Rate" \in Kinds
    /\ \E l \in Rates :
          /\ l <= basic[e].peer["Rate"] /\ limit[e] # <<l>>
          /\ limit' = [limit EXCEPT ![e] = <<l>>]
    /\ UNCHANGED <<basic, arb, staged, wire>>

Reset ==
    /\ basic' = Start.basic /\ arb' = Start.arb /\ staged' = Start.staged
    /\ limit' = Start.limit /\ wire' = Start.wire

Next ==
    \/ \E e \in End : \E start \in Optional(Requests[e]), segment \in BOOLEAN,
                         deliver \in Deliveries(e) :
          Edge(e, start, segment, deliver)
    \/ \E m \in Messages : Stage(m[1], m[2], m[3])
    \/ \E e \in End : Pace(e)
    \/ Reset

Spec == Init /\ [][Next]_vars

\* An edge that serves and receives whatever it can.
BusyEdge(e) == Edge(e, <<>>, TRUE, wire[e] # <<>>)

\* Both clocks run, service opportunities keep coming, words arrive, and the
\* pacing obeys.
FairSpec ==
    /\ Spec
    /\ \A e \in End : WF_vars(BusyEdge(e))
    /\ \A e \in End : WF_vars(Pace(e))
-----------------------------------------------------------------------------
\* Staged messages are legal and within their depth, only a transport is between
\* its words (dl_message_scheduler.py:105-123), and no more than a request and a
\* reply are under way to an end.
PortTypeOK ==
    \A e \in End :
        /\ \A s \in Source : /\ Len(staged[e][s]) <= Depth
                             /\ \A n \in DOMAIN staged[e][s] : staged[e][s][n] \in Lengths(s)
        /\ arb[e].cursor \in Cursors
        /\ arb[e].active # <<>> =>
              arb[e].active = Transport /\ arb[e].word_index < Head(staged[e][Transport])
        /\ arb[e].word_index > 0 <=> arb[e].active # <<>>
        /\ basic[e].age <= AckCycles /\ Len(wire[e]) <= 2

\* dl_basic_message_control.v:145-148 diagnoses acknowledgements of nothing and
\* second requests.  Between two such ends a request that was sent is in exactly
\* one place until it is answered: on the wire, in the peer's reply slot, or on the
\* wire back.  So neither diagnosis is ever made, whatever their requests, other
\* traffic and the pacing do.
Words(e, ack) == {n \in DOMAIN wire[e] : wire[e][n].ack = ack}
Sent(e) == basic[e].local # <<>> /\ basic[e].local[1].sent

OneAnswerEach ==
    \A e \in End :
        /\ ~basic[e].protocol_fault
        /\ Cardinality(Words(Peer(e), FALSE)) + Len(basic[Peer(e)].remote)
             + Cardinality(Words(e, TRUE)) = (IF Sent(e) THEN 1 ELSE 0)
        /\ \A n \in Words(Peer(e), FALSE) : wire[Peer(e)][n].kind = basic[e].local[1].kind
        /\ \A n \in Words(e, TRUE) : wire[e][n].kind = basic[e].local[1].kind
        /\ basic[Peer(e)].remote # <<>> =>
              basic[Peer(e)].remote[1].kind = basic[e].local[1].kind

\* dl_basic_message_control.v:124 - a RateACK only after the real pacing limit is
\* met: while the acceptance of a rate is under way, the pacing of the end that
\* accepted it honours what was asked for.
RateAckMeansPaced ==
    \A e \in End : \A n \in Words(e, TRUE) :
        wire[e][n].kind = "Rate" =>
            limit[Peer(e)] # <<>> /\ limit[Peer(e)][1] <= basic[e].local[1].value

\* The two slots and the order bit of dl_basic_message_control.v are the queues of
\* dl_basic_message.py under the event order of dl_basic_control.py:104-132: from every
\* state and with every input, both make the same step.
SlotsAreQueues ==
    \A e \in End : \A start \in Optional(Requests[e]), segment \in BOOLEAN,
                      deliver \in Deliveries(e) :
        LET i == InputsOf(e, start, deliver, Winner(e, segment, Ready(e))) IN
        ReferenceOf(BasicEdge(basic[e], i)) = ReferenceEdge(ReferenceOf(basic[e]), i)

\* dl_message_service.py:91 - "exact maximum opportunities to complete an eligible
\* head".  Every opportunity brings the head of every other source at least one
\* nearer to the end of its bound, whatever else becomes eligible meanwhile.
Waiting(e, t) == ServiceBound(arb[e], Ready(e), t)

EveryTickCounts ==
    [][\A e \in End : arb'[e] # arb[e] /\ arb'[e] # ArbReset =>
          \A t \in Pending(Ready(e)) \ {Served(arb[e], Ready(e))} :
              t \in Pending(Ready(e)') /\ Waiting(e, t)' <= Waiting(e, t) - 1]_vars

\* A reply other than a rate's may have a request of its type ahead of it, which
\* the bound of a head leaves out; then it waits for a second round.
SecondRound(t) == Max({bound[t, HistoryAfter(h, t)] : h \in Cursors})

ReplyWaits(e) == basic[e].remote # <<>> /\ basic[e].remote[1].kind # "Rate"
ReplyBound(e) ==
    LET t == BasicSource[basic[e].remote[1].kind] IN
    Waiting(e, t) + (IF RemoteHead(basic[e]) THEN 0 ELSE SecondRound(t))

\* dl_basic_message_control.v:111-113 and 220-221 - at most one request leaves before
\* a reply, however many follow: every opportunity brings the reply one nearer to the end of its bound.
RepliesAdvance ==
    [][\A e \in End : ReplyWaits(e) /\ arb'[e] # arb[e] /\ arb'[e] # ArbReset =>
          \/ BasicSource[basic[e].remote[1].kind] = Served(arb[e], Ready(e))
             /\ RemoteHead(basic[e])
          \/ ReplyBound(e)' <= ReplyBound(e) - 1]_vars

\* Every request is answered in the end (dl_basic_message_control.v:145), also when
\* both ends ask for the same and a reply that waits for the pacing holds up a
\* request.
RequestsComplete ==
    \A e \in End : basic[e].local # <<>> ~> basic[e].local = <<>>
=============================================================================
