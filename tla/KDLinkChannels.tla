--------------------------- MODULE KDLinkChannels ---------------------------
(***************************************************************************)
(* What both ends of a KDLink know: the virtual channels of normal traffic *)
(* and of replays (VC6), and how the flits taken from each are counted.    *)
(***************************************************************************)
EXTENDS Integers, Sequences

CONSTANTS
    Channels,       \* virtual channels, "replay" one of them
    TotalModulus    \* totals are counted modulo this (2^16)

ASSUME ChannelAssumption == "replay" \in Channels /\ TotalModulus \in Nat \ {0}

NextTotal(total) == (total + 1) % TotalModulus
=============================================================================
