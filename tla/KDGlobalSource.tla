--------------------------- MODULE KDGlobalSource ---------------------------
(***************************************************************************)
(* kdlink_global_transaction_source.v: the table of transactions a source  *)
(* retains until the destination's global commit comes back, one slot per  *)
(* value of the low identifier bits.  A step is one clock edge; the state  *)
(* is the record src:                                                      *)
(*   slots      SlotCount table entries                                    *)
(*   send       the send command register, a sequence of at most one       *)
(*   ack        first stage of the commit pipeline, at most one            *)
(*   decision   second stage: which transaction, and whether it matched    *)
(*   count      outstanding_count_o                                        *)
(*   error, exhausted   the sticky outputs                                 *)
(* The inputs of an edge are the record i; issue, commit and reset are     *)
(* sequences of at most one element, ready is send_ready_i.                *)
(***************************************************************************)
EXTENDS Integers, Sequences

CONSTANTS
    SlotCount,   \* transaction slots (16)
    RetryMax,    \* end-to-end retries of a transaction at most (15)
    ReuseGrace   \* REPLAY_GRACE_CYCLES (4095)

ASSUME SourceAssumption ==
    /\ SlotCount \in Nat \ {0}
    /\ RetryMax \in Nat \ {0}
    /\ ReuseGrace \in Nat

VARIABLE src

Slots == 0 .. (SlotCount - 1)
SlotOf(id) == id % SlotCount

\* The counter has one bit more than a slot number.
CountModulus == 2 * SlotCount

\* A slot that is not valid keeps only its reuse cooldown; the other registers
\* are read under valid alone.
FreeSlot(cooldown) ==
    [valid |-> FALSE, pending |-> FALSE, id |-> 0, epoch |-> 0, quanta |-> 0,
     age |-> 0, retry |-> 0, cooldown |-> cooldown]

NewSlot(request) ==
    [valid |-> TRUE, pending |-> TRUE, id |-> request.id, epoch |-> request.epoch,
     quanta |-> request.quanta, age |-> 0, retry |-> 0, cooldown |-> 0]

SourceReset ==
    [slots |-> [k \in Slots |-> FreeSlot(0)], send |-> <<>>, ack |-> <<>>,
     decision |-> <<>>, count |-> 0, error |-> FALSE, exhausted |-> FALSE]

\* issue_ready_o and the duplicate diagnosis.
Duplicate(s, request) ==
    LET slot == s.slots[SlotOf(request.id)] IN slot.valid /\ slot.id = request.id

IssueReady(s, request) ==
    LET slot == s.slots[SlotOf(request.id)] IN
    ~slot.valid /\ slot.cooldown = 0 /\ request.quanta # 0

Issues(s, i) == i.issue # <<>> /\ IssueReady(s, i.issue[1])

\* The commit pipeline: a commit is matched against its slot one edge after it
\* arrives, and takes effect on the next.
Matches(s, commit) ==
    LET slot == s.slots[SlotOf(commit.id)] IN
    /\ slot.valid /\ slot.id = commit.id /\ slot.epoch = commit.epoch
    /\ commit.committed

Succeeds(s) == s.decision # <<>> /\ s.decision[1].success

CompletedSlot(s, k) == Succeeds(s) /\ SlotOf(s.decision[1].id) = k

\* A slot waits for its commit once its send command has been accepted.
Expires(slot) == ~slot.pending /\ slot.age + 1 >= slot.quanta

Retried(slot) == IF slot.retry < RetryMax THEN slot.retry + 1 ELSE slot.retry

\* A change of route renumbers every retained transaction and sends it again;
\* it is counted as a retry, but never refused.
Rerouted(slot, epoch) ==
    [slot EXCEPT !.epoch = epoch, !.age = 0, !.pending = TRUE, !.retry = Retried(slot)]

\* One cycle of waiting: at its timeout the transaction is sent again while the
\* retry budget lasts.
Waited(slot) ==
    IF ~Expires(slot) THEN [slot EXCEPT !.age = @ + 1]
    ELSE [slot EXCEPT !.age = 0, !.retry = Retried(slot), !.pending = slot.retry < RetryMax]

Handed(s, i) == s.send # <<>> /\ i.ready

\* g_transaction_slot: a change of route comes before a completion, that before
\* the acceptance of the send command and that before the timeout.
SlotAfter(s, i, k) ==
    LET slot == s.slots[k] IN
    IF slot.valid THEN
        IF i.reset # <<>> THEN Rerouted(slot, i.reset[1])
        ELSE IF CompletedSlot(s, k) THEN FreeSlot(ReuseGrace)
        ELSE IF Handed(s, i) /\ s.send[1].index = k
             THEN [slot EXCEPT !.pending = FALSE, !.age = 0]
        ELSE IF slot.pending THEN slot ELSE Waited(slot)
    ELSE IF slot.cooldown > 0 THEN FreeSlot(slot.cooldown - 1)
    ELSE IF Issues(s, i) /\ SlotOf(i.issue[1].id) = k THEN NewSlot(i.issue[1])
    ELSE slot

\* The send command register takes the lowest slot that waits to be sent; it is
\* withdrawn by a change of route and by the completion of its transaction.
Sendable(s) == {k \in Slots : s.slots[k].valid /\ s.slots[k].pending}

Lowest(S) == CHOOSE k \in S : \A other \in S : k <= other

Command(s, k) ==
    [index |-> k, id |-> s.slots[k].id, epoch |-> s.slots[k].epoch, retry |-> s.slots[k].retry]

SendAfter(s, i) ==
    IF i.reset # <<>> \/ Handed(s, i) THEN <<>>
    ELSE IF s.send # <<>> THEN
        IF Succeeds(s) /\ s.send[1].id = s.decision[1].id THEN <<>> ELSE s.send
    ELSE IF Sendable(s) # {} THEN <<Command(s, Lowest(Sendable(s)))>>
    ELSE <<>>

\* Variant: a commit that matches nothing is counted, too.
CountAfterAnyCommit(s, i) ==
    IF Issues(s, i) = (s.decision # <<>>) THEN s.count
    ELSE IF Issues(s, i) THEN (s.count + 1) % CountModulus
    ELSE (s.count - 1) % CountModulus

\* An issue and a completion at one edge cancel out.
CountAfter(s, i) ==
    IF Issues(s, i) = Succeeds(s) THEN s.count
    ELSE IF Issues(s, i) THEN (s.count + 1) % CountModulus
    ELSE (s.count - 1) % CountModulus

\* Variant: exhaustion of the budget is not reported at a timeout.
ExhaustsOnReset(s, i) ==
    \E k \in Slots : s.slots[k].valid /\ s.slots[k].retry = RetryMax /\ i.reset # <<>>

Exhausts(s, i) ==
    \E k \in Slots :
        /\ s.slots[k].valid /\ s.slots[k].retry = RetryMax
        /\ i.reset # <<>> \/ Expires(s.slots[k])

Errs(s, i) ==
    \/ i.issue # <<>> /\ Duplicate(s, i.issue[1])
    \/ s.decision # <<>> /\ ~s.decision[1].success

SourceEdge(s, i) ==
    [slots     |-> [k \in Slots |-> SlotAfter(s, i, k)],
     send      |-> SendAfter(s, i),
     ack       |-> i.commit,
     decision  |-> IF s.ack = <<>> THEN <<>>
                   ELSE <<[id |-> s.ack[1].id, success |-> Matches(s, s.ack[1])]>>,
     count     |-> CountAfter(s, i),
     error     |-> s.error \/ Errs(s, i),
     exhausted |-> s.exhausted \/ Exhausts(s, i)]
=============================================================================
