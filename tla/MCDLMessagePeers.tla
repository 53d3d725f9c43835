-------------------------- MODULE MCDLMessagePeers --------------------------
(* Two ends that may both announce their port, one of which asks for rates; the *)
(* other sends messages of other sources as well.                               *)
EXTENDS DLMessagePeers
CONSTANTS A, B

\* Three groups like the code's (5, 2 and 4 sources), scaled down; the transport
\* is the only source of the last group.
SmallGroups == [g \in 0 .. 2 |-> <<2, 1, 1>>[g + 1]]
SmallTransport == <<2, 0>>
BasicGroup == [k \in Kinds |-> IF k = "Rate" THEN <<0, 0>> ELSE <<0, 1>>]

PortAndRates == [e \in End |->
    {[kind |-> "Port", value |-> 1]}
    \cup (IF e = A THEN {} ELSE {[kind |-> "Rate", value |-> v] : v \in Rates})]
SamePorts == [e \in End |-> 1]
OtherTraffic == {<<A, <<2, 0>>, 3>>}
=============================================================================
