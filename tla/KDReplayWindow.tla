--------------------------- MODULE KDReplayWindow ---------------------------
(***************************************************************************)
(* kdlink_replay_window.v: every packet a link has sent and not yet seen   *)
(* acknowledged, one per slot, chosen by the low bits of its sequence      *)
(* number.  A step is one edge of the PHY clock; the state is a record:    *)
(*   slots      Slots entries                                              *)
(*   storing    the packet whose flits are being stored, at most one       *)
(*   replaying  the slot being sent again and its next flit, at most one   *)
(*   out        the replay output register, at most one flit               *)
(*   exhausted  retry_exhausted_o, a pulse of one cycle                    *)
(* A flit is a record [vc, seq, sop, eop, index, load, good]; good says    *)
(* that its CRC matches.  The inputs of an edge are the record i: store (a flit *)
(* of normal traffic), ack and nack (sequence numbers) and due (a slot     *)
(* whose timer has run out) hold at most one element; ready says that the  *)
(* output register is read.                                                *)
(***************************************************************************)
EXTENDS KDLinkChannels

CONSTANTS
    WindowSlots,   \* slots, a power of two (512)
    RetryLimit     \* replays of one packet at most (7)

ASSUME WindowAssumption == WindowSlots \in Nat \ {0} /\ RetryLimit \in Nat \ {0}

Slots == 0 .. (WindowSlots - 1)
SlotOf(seq) == seq % WindowSlots

\* The flits stored in a slot are read under valid alone.
EmptySlot == [valid |-> FALSE, complete |-> FALSE, seq |-> 0, flits |-> <<>>, retries |-> 0]

WindowReset ==
    [slots |-> [k \in Slots |-> EmptySlot], storing |-> <<>>, replaying |-> <<>>,
     out |-> <<>>, exhausted |-> FALSE]

StoreReady(w, flit) == w.storing # <<>> \/ ~w.slots[SlotOf(flit.seq)].valid

Holds(slot, seq) == slot.valid /\ slot.seq = seq

Released(w, i) == {k \in Slots : i.ack # <<>> /\ k = SlotOf(i.ack[1])
                                 /\ Holds(w.slots[k], i.ack[1])}

\* One replay at a time: a NACK that comes while another packet is being sent
\* again, or that names a packet not stored to its end, has no effect, and a
\* timer is looked at again on the next scan.
Idle(w) == w.replaying = <<>> /\ w.out = <<>>

\* The slot whose packet is to be sent again after this edge; a NACK comes first.
Requested(w, i) ==
    LET nacked == {k \in Slots : i.nack # <<>> /\ k = SlotOf(i.nack[1])
                                 /\ Holds(w.slots[k], i.nack[1]) /\ w.slots[k].complete}
        due    == {k \in Slots : i.due = <<k>> /\ w.slots[k].valid /\ w.slots[k].complete
                                 /\ k \notin Released(w, i)}
    IN  IF ~Idle(w) THEN {} ELSE IF nacked # {} THEN nacked ELSE due

Replays(w, i)  == {k \in Requested(w, i) : w.slots[k].retries < RetryLimit}

\* Variant: only a NACK reports that the retries are used up.
ExhaustsOnNack(w, i) ==
    i.nack # <<>> /\ \E k \in Requested(w, i) : w.slots[k].retries = RetryLimit

Exhausts(w, i) == \E k \in Requested(w, i) : w.slots[k].retries = RetryLimit

\* The slot a stored flit goes to.
StoreSlot(w, flit) == IF w.storing # <<>> THEN w.storing[1] ELSE SlotOf(flit.seq)

Stored(w, i, k) ==
    LET slot == w.slots[k]  flit == i.store[1] IN
    IF i.store = <<>> \/ StoreSlot(w, flit) # k THEN slot
    ELSE IF w.storing # <<>>
         THEN [slot EXCEPT !.flits = Append(@, flit), !.complete = flit.eop]
    ELSE [valid |-> TRUE, complete |-> flit.eop, seq |-> flit.seq, flits |-> <<flit>>,
          retries |-> 0]

SlotAfter(w, i, k) ==
    IF k \in Released(w, i) THEN EmptySlot
    ELSE IF k \in Replays(w, i) THEN [Stored(w, i, k) EXCEPT !.retries = @ + 1]
    ELSE Stored(w, i, k)

StoringAfter(w, i) ==
    IF i.store = <<>> THEN w.storing
    ELSE IF i.store[1].eop THEN <<>> ELSE <<StoreSlot(w, i.store[1])>>

\* The output register is loaded while a replay runs and it is free or being read.
\* A release does not clear the stored body, and nothing is stored while the output
\* register is full: the replay walks the flits the slot had when it began.
Loads(w, i) == w.replaying # <<>> /\ (w.out = <<>> \/ i.ready)

Walked(w) ==
    LET r == w.replaying[1] IN
    IF r.flits = <<r.flits[1]>> THEN <<>> ELSE <<[slot |-> r.slot, flits |-> Tail(r.flits)]>>

ReplayingAfter(w, i) ==
    IF Loads(w, i) THEN Walked(w)
    ELSE IF Replays(w, i) # {}
         THEN LET k == CHOOSE s \in Replays(w, i) : TRUE IN
              <<[slot |-> k, flits |-> w.slots[k].flits]>>
    ELSE w.replaying

OutAfter(w, i) ==
    IF Loads(w, i) THEN <<[w.replaying[1].flits[1] EXCEPT !.vc = "replay"]>>
    ELSE IF i.ready THEN <<>> ELSE w.out

WindowEdge(w, i) ==
    [slots     |-> [k \in Slots |-> SlotAfter(w, i, k)],
     storing   |-> StoringAfter(w, i),
     replaying |-> ReplayingAfter(w, i),
     out       |-> OutAfter(w, i),
     exhausted |-> Exhausts(w, i)]
=============================================================================
