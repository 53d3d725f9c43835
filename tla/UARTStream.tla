----------------------------- MODULE UARTStream -----------------------------
(***************************************************************************)
(* UARTStream: what both ends of the UART stream agree on - the length of  *)
(* a transport, the modulus of the absolute credit counts, the length of   *)
(* the run-out - and the DWORDs the ordered message wire carries.  A DWORD *)
(* is [kind, value]: the value of a header is its number of payload words, *)
(* of a payload word its number in the firmware's stream, of a credit the  *)
(* absolute count, and 0 of every other message.                           *)
(***************************************************************************)
EXTENDS Integers, Sequences

CONSTANTS
    MaxPayload,   \* payload words of one transport at most (32)
    Modulus,      \* of the absolute credit counts (4096)
    RunOut        \* No-Ops sent before a reset Request (40)

\* The run-out outlasts the rest of any transport it may interrupt.
ASSUME StreamAssumption ==
    /\ MaxPayload \in Nat \ {0}
    /\ Modulus \in Nat \ {0}
    /\ RunOut \in Nat
    /\ RunOut >= MaxPayload

Header(n)   == [kind |-> "header", value |-> n]
Payload(w)  == [kind |-> "payload", value |-> w]
Credit(c)   == [kind |-> "credit", value |-> c]
Message(k)  == [kind |-> k, value |-> 0]
=============================================================================
