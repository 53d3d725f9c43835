-------------------------- MODULE DLMessageArbiter --------------------------
(***************************************************************************)
(* DLMessageArbiter (dl_message_scheduler.py) and dl_message_arbiter.v: a  *)
(* round robin within each group of sources and one among the groups, and  *)
(* a transport that keeps the wire until its last word.  An arbiter is the *)
(* record a:                                                               *)
(*   cursor      whose turn it is, among the groups and within each        *)
(*   active      the source of the message being sent, <<>> between them   *)
(*   word_index  of its next word                                          *)
(* and q gives the messages each source has ready, as their numbers of     *)
(* words.  The second half is the service bound of dl_message_service.py,  *)
(* an independent account of how many opportunities the head of a source   *)
(* waits at most.                                                          *)
(***************************************************************************)
EXTENDS Integers, Sequences, FiniteSetsExt

CONSTANTS
    Size,        \* sources of each group, a function on 0 .. n-1 (5, 2 and 4)
    Transport,   \* the one source of messages with several words, <<2, 0>>
    MaxWords,    \* words of a transport at most, its header included (33)
    Depth        \* messages a source queues at most (2)

Group  == DOMAIN Size
Source == UNION {{<<g, l>> : l \in 0 .. (Size[g] - 1)} : g \in Group}

ASSUME ArbiterAssumption ==
    /\ IsFiniteSet(Group) /\ Group # {} /\ Group = 0 .. (Cardinality(Group) - 1)
    /\ \A g \in Group : Size[g] \in Nat \ {0}
    /\ Transport \in Source
    /\ MaxWords \in Nat /\ MaxWords >= 2
    /\ Depth \in Nat \ {0}

Lengths(s) == IF s = Transport THEN 2 .. MaxWords ELSE {1}
Cursors ==
    [group : Group,
     local : {f \in [Group -> 0 .. Max({Size[g] : g \in Group})] :
                \A g \in Group : f[g] < Size[g]}]

ArbReset ==
    [cursor |-> [group |-> 0, local |-> [g \in Group |-> 0]],
     active |-> <<>>, word_index |-> 0]

\* How far s is from its turn: its group's distance, then its own.
Rank(c, s) == <<(s[1] - c.group) % Cardinality(Group), (s[2] - c.local[s[1]]) % Size[s[1]]>>
Before(c, s, t) ==
    \/ Rank(c, s)[1] < Rank(c, t)[1]
    \/ Rank(c, s)[1] = Rank(c, t)[1] /\ Rank(c, s)[2] < Rank(c, t)[2]

\* Variant: the groups keep their order, only the sources within one take turns.
AdvancedGroupFixed(c, s) ==
    [c EXCEPT !.local[s[1]] = (s[2] + 1) % Size[s[1]]]

\* Both turns move past the source of a completed message.
Advanced(c, s) ==
    [group |-> (s[1] + 1) % Cardinality(Group),
     local |-> [c.local EXCEPT ![s[1]] = (s[2] + 1) % Size[s[1]]]]

Pending(q) == {s \in Source : q[s] # <<>>}

\* Variant: a message being sent gives way to a source whose turn comes first.
ServedPreempts(a, q) ==
    CHOOSE s \in Pending(q) : \A t \in Pending(q) : ~Before(a.cursor, t, s)

Served(a, q) ==
    IF a.active # <<>> THEN a.active
    ELSE CHOOSE s \in Pending(q) : \A t \in Pending(q) : ~Before(a.cursor, t, s)

\* One service opportunity with something to send.
Completes(a, q) == a.word_index + 1 = Head(q[Served(a, q)])

Ticked(a, q) ==
    IF Completes(a, q)
    THEN [cursor |-> Advanced(a.cursor, Served(a, q)), active |-> <<>>, word_index |-> 0]
    ELSE [a EXCEPT !.active = Served(a, q), !.word_index = @ + 1]
-----------------------------------------------------------------------------
\* The service bound is stated over histories: the group and, in each group, the
\* source that completed last.
History(c) == [group |-> (c.group - 1) % Cardinality(Group),
               local |-> [g \in Group |-> (c.local[g] - 1) % Size[g]]]
HistoryRank(h, s) ==
    <<(s[1] - h.group - 1) % Cardinality(Group), (s[2] - h.local[s[1]] - 1) % Size[s[1]]>>
HistoryAfter(h, s) == [group |-> s[1], local |-> [h.local EXCEPT ![s[1]] = s[2]]]

\* The sources that win, from history h, when only they and t are eligible.
Competitors(h, t) ==
    {s \in Source : LET r == HistoryRank(h, s)
                        q == HistoryRank(h, t)
                    IN  r[1] < q[1] \/ (r[1] = q[1] /\ r[2] <= q[2])}

Cost(s) == IF s = Transport THEN MaxWords ELSE 1

\* From a message boundary: the worst of the winners, each followed by the bound
\* of the history it leaves.
bound[t \in Source, h \in Cursors] ==
    Max({Cost(s) + (IF s = t THEN 0 ELSE bound[t, HistoryAfter(h, s)]) :
            s \in Competitors(h, t)})

\* Opportunities until the head of t is sent completely, at most: what is left
\* of a message being sent is paid before the bound of what follows.
ServiceBound(a, q, t) ==
    IF a.active = <<>> THEN bound[t, History(a.cursor)]
    ELSE Head(q[a.active]) - a.word_index
           + (IF a.active = t THEN 0
              ELSE bound[t, HistoryAfter(History(a.cursor), a.active)])
=============================================================================
