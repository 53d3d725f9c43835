------------------------ MODULE KDGlobalTransactions ------------------------
(***************************************************************************)
(* A transaction source and a commit tracker joined by a routed network,   *)
(* as tb_kdlink_global_recovery.sv joins them, on one clock.  A command    *)
(* the source hands over becomes a copy under way, an acknowledgement the  *)
(* tracker drives travels back; either arrives within its life, in any     *)
(* order, at adjacent edges too, or is lost with it.  Transactions of      *)
(* other sources share the tracker, and the route may change at any edge:  *)
(* RerouteLimit alone says how long after a delivery it may.               *)
(***************************************************************************)
EXTENDS KDGlobalSource, KDCommitTracker, FiniteSets, Functions

CONSTANTS
    Txn,            \* identifiers the source uses, each once in a session
    Others,         \* identities of other sources' transactions
    Timeouts,       \* timeouts the issuer asks for
    CopyLife,       \* cycles a copy is under way at most
    AckLife,        \* cycles an acknowledgement is under way at most
    MaxStall,       \* cycles the network keeps a send command waiting at most
    MaxResets,      \* changes of route (bound)
    RerouteLimit    \* how old the delivery of a retained transaction may be
                    \* when the route changes

ASSUME TransactionsAssumption ==
    /\ Txn \subseteq Nat
    /\ Timeouts \subseteq Nat
    /\ Others \subseteq [source : {"other"}, id : Nat]
    /\ CopyLife \in Nat \ {0} /\ AckLife \in Nat \ {0}
    /\ MaxStall \in Nat /\ MaxResets \in Nat /\ RerouteLimit \in Nat

VARIABLES
    copies,      \* [who, epoch, life] under way to the tracker
    acks,        \* [id, epoch, life] under way to the source
    stalled,     \* cycles the send command has waited
    others,      \* transactions of other sources that have not arrived yet
    resets,      \* changes of route so far, the epoch of the topology
    issued, deliveries, completions,   \* history: see KDDeliveryService
    surplus      \* history: completion pulses that freed no slot

network == <<copies, acks, stalled, others, resets>>
history == <<issued, deliveries, completions, surplus>>
vars == <<src, trk, network, history>>

Own(id) == [source |-> "own", id |-> id]

Init ==
    /\ src = SourceReset /\ trk = TrackerReset
    /\ copies = {} /\ acks = {} /\ stalled = 0 /\ others = Others /\ resets = 0
    /\ issued = {}
    /\ deliveries = [t \in Txn |-> 0]
    /\ completions = [t \in Txn |-> 0]
    /\ surplus = 0

Optional(S) == {<<>>} \cup {<<x>> : x \in S}

Retained(t) == LET slot == src.slots[SlotOf(t)] IN slot.valid /\ slot.id = t

\* What the rest of the system may drive at an edge.  An identifier is asked for
\* once in a session, and by mistake again while it is retained.
Requests ==
    Optional([id : {t \in Txn : t \notin issued \/ Retained(t)},
              epoch : {resets}, quanta : Timeouts])

Ready == IF src.send # <<>> /\ stalled < MaxStall THEN BOOLEAN ELSE {TRUE}

Commits == Optional(acks)

Reroutes ==
    IF /\ resets < MaxResets
       /\ \A t \in Txn :
            Retained(t) /\ deliveries[t] > 0 =>
                Recorded(trk, Own(t)) /\ Entry(trk, Own(t)).age <= RerouteLimit
    THEN {<<>>, <<resets + 1>>} ELSE {<<>>}

\* A completion pulse without a slot to free: a change of route keeps the
\* transaction, and the second of two acknowledgements finds it gone.
FreesNothing(reset) ==
    /\ Succeeds(src)
    /\ reset # <<>> \/ ~src.slots[SlotOf(src.decision[1].id)].valid

\* Arrivals the tracker takes at this edge.
Arrivals ==
    Optional({c \in copies : CommitReady(trk, c.who)}
             \cup {[who |-> o, epoch |-> resets, life |-> 1] :
                      o \in {p \in others : CommitReady(trk, p)}})

Older(wires) == {[w EXCEPT !.life = @ - 1] : w \in {v \in wires : v.life > 1}}

\* What an end sees of what arrives; the tracker only reports commits.
Decoded(commit) ==
    IF commit = <<>> THEN <<>>
    ELSE <<[id |-> commit[1].id, epoch |-> commit[1].epoch, committed |-> TRUE]>>

Received(arriving) ==
    IF arriving = <<>> THEN <<>>
    ELSE <<[who |-> arriving[1].who, epoch |-> arriving[1].epoch]>>

Edge(issue, ready, commit, reset, arriving) ==
    LET i == [issue |-> issue, ready |-> ready, commit |-> Decoded(commit), reset |-> reset]
    IN
    /\ src' = SourceEdge(src, i)
    /\ trk' = TrackerEdge(trk, Received(arriving))
    /\ copies' = Older(copies \ Range(arriving))
                 \cup (IF Handed(src, i)
                       THEN {[who |-> Own(src.send[1].id), epoch |-> src.send[1].epoch,
                              life |-> CopyLife]}
                       ELSE {})
    /\ acks' = Older(acks \ Range(commit))
               \cup (IF trk.ack # <<>> /\ trk.ack[1].who.source = "own"
                     THEN {[id |-> trk.ack[1].who.id, epoch |-> trk.ack[1].epoch,
                            life |-> AckLife]}
                     ELSE {})
    /\ stalled' = IF src.send # <<>> /\ ~ready /\ stalled < MaxStall THEN stalled + 1 ELSE 0
    /\ others' = others \ {a.who : a \in Range(arriving)}
    /\ resets' = resets + Len(reset)
    /\ issued' = IF Issues(src, i) THEN issued \cup {issue[1].id} ELSE issued
    /\ deliveries' = [t \in Txn |->
                        deliveries[t] + (IF Own(t) \in Delivers(trk) THEN 1 ELSE 0)]
    /\ completions' = [t \in Txn |->
                        completions[t] + (IF Succeeds(src) /\ src.decision[1].id = t
                                          THEN 1 ELSE 0)]
    /\ surplus' = surplus + (IF FreesNothing(reset) THEN 1 ELSE 0)

Next ==
    \E issue \in Requests, ready \in Ready, commit \in Commits,
       reset \in Reroutes, arriving \in Arrivals :
        Edge(issue, ready, commit, reset, arriving)

Spec == Init /\ [][Next]_vars

\* The clock runs.
FairSpec == Spec /\ WF_vars(Next)
-----------------------------------------------------------------------------
\* kdlink_requirements.md:286-291 (KDL-MD-005): each transaction is delivered
\* once, and completed only after its delivery, however its copies and
\* acknowledgements are delayed, lost, repeated and reordered, the route changes
\* and others contend for its history entry.
Service == INSTANCE KDDeliveryService
DeliveredOnce == Service!RSpec

\* kdlink_global_transaction_source.v:27 - outstanding_count_o is "the current
\* number of retained transactions"; it is counted up and down by pulses.
ValidSlots == {k \in Slots : src.slots[k].valid}
CountAgrees == src.count = Cardinality(ValidSlots)

\* What the code ensures of the count (kdlink_global_transaction_source.v:119-120):
\* acknowledgements that are late, foreign or of another epoch leave it alone,
\* and it falls short of the table by the pulses that freed no slot, no more.
CountFallsShort ==
    src.count = (Cardinality(ValidSlots) - surplus) % CountModulus

\* No transaction is stuck in silence: all that were issued complete, or the
\* retry budget of one is reported exhausted (kdlink_global_transaction_source.v:73).
CompletesOrReports ==
    []<>(src.exhausted \/ \A t \in issued : completions[t] > 0)
=============================================================================
