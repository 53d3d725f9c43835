--------------------------- MODULE DLReplayHeader ---------------------------
(***************************************************************************)
(* The link-level-retry (LLR) header of a UALink DL flit and the sequence  *)
(* arithmetic every LLR component shares (dl_replay_header.py).            *)
(*                                                                         *)
(* A 24-bit header is modelled by the fields its operation carries:        *)
(*   op 0, 1  explicit flit:  the full sequence number (op 1 = replay);    *)
(*   op 2, 3  command flit:   the low bits of the sequence number and a    *)
(*            full Ack / Replay Request target (op 3 = Replay Request);    *)
(*   op >= 4  reserved.                                                    *)
(*                                                                         *)
(* Sequence numbers run cyclically over 1..MaxSeq; 0 is never a legal full *)
(* sequence number.  The code fixes MaxSeq = 511, LowMod = 8, Window = 255.*)
(***************************************************************************)
EXTENDS Integers

CONSTANTS
    MaxSeq,   \* largest sequence number (511: a 9-bit field without 0)
    LowMod,   \* modulus of the low sequence bits in a command flit (8)
    Window    \* largest number of unacknowledged payloads (255)

ASSUME HeaderAssumption ==
    /\ MaxSeq \in Nat \ {0}
    /\ LowMod \in Nat \ {0}
    /\ Window \in Nat \ {0}
    /\ 2 * Window < MaxSeq              \* 2 * 255 + 1 = 511

SeqNum == 1 .. MaxSeq

\* The sequence number that follows s: 511 is followed by 1.
NextSeq(s) == IF s = MaxSeq THEN 1 ELSE s + 1

\* How many payloads after b the sequence number a lies: (a - b) % 511.
Dist(a, b) == (a - b) % MaxSeq

\* Every header word a receiver can be handed, legal or not.
Words ==
         [op : {0, 1}, payload : BOOLEAN, sequence : 0 .. MaxSeq]
    \cup [op : {2, 3}, payload : BOOLEAN, sequence_low : 0 .. (LowMod - 1),
                       ack_request : 0 .. MaxSeq]
    \cup [op : {4}, payload : BOOLEAN]

\* encode_explicit and encode_command: the two encoders of a sender.
EncodeExplicit(seq, hasPayload, replayed) ==
    [op |-> IF replayed THEN 1 ELSE 0, payload |-> hasPayload, sequence |-> seq]

EncodeCommand(seq, target, hasPayload, request) ==
    [op |-> IF request THEN 3 ELSE 2, payload |-> hasPayload,
     sequence_low |-> seq % LowMod, ack_request |-> target]

\* decode_header: an explicit flit, a command flit, or a reported error.
ReservedOp(word)     == word.op >= 4 \/ (word.op = 1 /\ ~word.payload)
IsExplicit(word)     == word.op \in {0, 1}
IsCommand(word)      == word.op \in {2, 3}
ZeroField(word)      == \/ IsExplicit(word) /\ word.sequence = 0
                        \/ IsCommand(word) /\ word.ack_request = 0
ValidHeader(word)    == ~ReservedOp(word) /\ ~ZeroField(word)
=============================================================================
