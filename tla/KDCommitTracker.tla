--------------------------- MODULE KDCommitTracker --------------------------
(***************************************************************************)
(* kdlink_global_commit_tracker.v: the destination's history of committed  *)
(* transactions, one entry per value of the low identifier bits and shared *)
(* by all sources.  An arrival passes one pipeline register; the first one *)
(* of an identity is delivered, and every one is acknowledged.  An entry   *)
(* may be replaced once it is HistoryGrace cycles old.  A change of route  *)
(* leaves the history alone.  The state is the record trk:                 *)
(*   history   [valid, who, age] by index; ages beyond HistoryGrace are    *)
(*             equal                                                       *)
(*   arrival   the pipeline register, at most one [who, epoch]             *)
(*   ack       the acknowledgement register, at most one [who, epoch]      *)
(* An identity who is [source, id]: source stands for the four fields that *)
(* name the endpoints.                                                     *)
(***************************************************************************)
EXTENDS Integers, Sequences

CONSTANTS
    HistoryDepth,   \* history entries (16)
    HistoryGrace    \* REPLAY_GRACE_CYCLES (4095)

ASSUME TrackerAssumption ==
    /\ HistoryDepth \in Nat \ {0}
    /\ HistoryGrace \in Nat

VARIABLE trk

Indices == 0 .. (HistoryDepth - 1)
IndexOf(who) == who.id % HistoryDepth

NoEntry == [valid |-> FALSE, who |-> [source |-> "none", id |-> 0], age |-> 0]

TrackerReset ==
    [history |-> [k \in Indices |-> NoEntry], arrival |-> <<>>, ack |-> <<>>]

Entry(t, who) == t.history[IndexOf(who)]
Recorded(t, who) == Entry(t, who).valid /\ Entry(t, who).who = who
Expired(t, who) == Entry(t, who).age >= HistoryGrace

\* Variant: the arrival in the pipeline register is not consulted.
CommitReadyHistoryOnly(t, who) ==
    ~Entry(t, who).valid \/ Recorded(t, who) \/ Expired(t, who)

\* commit_ready_o: an arrival waits while another identity of its index is in
\* the pipeline register or in an entry that is still protected.
CommitReady(t, who) ==
    IF t.arrival # <<>> /\ IndexOf(t.arrival[1].who) = IndexOf(who)
    THEN t.arrival[1].who = who
    ELSE ~Entry(t, who).valid \/ Recorded(t, who) \/ Expired(t, who)

\* The identities delivered at this edge: at most one, the first arrival.
Delivers(t) ==
    {a.who : a \in {b \in {t.arrival[n] : n \in DOMAIN t.arrival} :
                        ~(Recorded(t, b.who) /\ ~Expired(t, b.who))}}

\* A valid entry grows older at every edge that does not replace it.
Aged(t, k) ==
    IF t.history[k].valid /\ t.history[k].age < HistoryGrace
    THEN [t.history[k] EXCEPT !.age = @ + 1]
    ELSE t.history[k]

\* arriving is <<>> or the [who, epoch] at the input.
TrackerEdge(t, arriving) ==
    [history |-> [k \in Indices |->
        IF \E who \in Delivers(t) : IndexOf(who) = k
        THEN [valid |-> TRUE, who |-> t.arrival[1].who, age |-> 0]
        ELSE Aged(t, k)],
     arrival |-> IF arriving # <<>> /\ CommitReady(t, arriving[1].who) THEN arriving ELSE <<>>,
     ack     |-> t.arrival]
=============================================================================
