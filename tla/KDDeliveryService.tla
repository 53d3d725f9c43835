------------------------- MODULE KDDeliveryService --------------------------
(***************************************************************************)
(* What the reliable link (kdlink_requirements.md, KDL-LINK-006 and -007)  *)
(* and the global transaction layer (KDL-MD-005) promise: a packet or      *)
(* transaction is issued, delivered once at its destination and then       *)
(* completed at its source, once (SSpec) or by repeated pulses (RSpec).    *)
(* Several may move on in one step.                                        *)
(***************************************************************************)
EXTENDS Naturals

CONSTANT Txn   \* the transactions of a protocol session

VARIABLES
    issued,      \* those the source has accepted
    deliveries,  \* how often each was delivered
    completions  \* how often each was completed

SInit ==
    /\ issued = {}
    /\ deliveries = [t \in Txn |-> 0]
    /\ completions = [t \in Txn |-> 0]

DeliversOnce ==
    /\ issued \subseteq issued'
    /\ \A t \in Txn : deliveries'[t] # deliveries[t] =>
            t \in issued /\ deliveries[t] = 0 /\ deliveries'[t] = 1

CompletesDelivered ==
    \A t \in Txn : completions'[t] # completions[t] =>
        deliveries[t] = 1 /\ completions'[t] = completions[t] + 1

CompletesOnce ==
    \A t \in Txn : completions'[t] # completions[t] => completions[t] = 0

svars == <<issued, deliveries, completions>>

\* The completion may be repeated.
RSpec == SInit /\ [][DeliversOnce /\ CompletesDelivered]_svars

SSpec == SInit /\ [][DeliversOnce /\ CompletesDelivered /\ CompletesOnce]_svars
=============================================================================
