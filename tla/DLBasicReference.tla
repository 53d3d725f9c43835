-------------------------- MODULE DLBasicReference --------------------------
(***************************************************************************)
(* DLBasicController (dl_basic_message.py) under the cycle adapter         *)
(* DLBasicControl (dl_basic_control.py): the event model the controller is *)
(* compared with.  Every message type has a first-in first-out queue, and  *)
(* the events of an edge are handled one after the other.  Its state is    *)
(* the record r:                                                           *)
(*   local, remote   the one request and the one reply, as in the RTL      *)
(*   queues          by type, the order of "local" and "remote" to be sent *)
(*   elapsed         edges since the reply's request arrived; all beyond   *)
(*                   the deadline are equal                                *)
(*   missed, peer, deadline_fault, protocol_fault   as in the RTL          *)
(***************************************************************************)
EXTENDS DLBasicControl

Queued(r, k, who) == [r EXCEPT !.queues[k] = Append(@, who)]

\* Time passes: an overdue reply is reported once and kept.
AdvanceTo(r) ==
    IF r.remote = <<>> THEN r
    ELSE LET elapsed == IF r.elapsed <= AckCycles THEN r.elapsed + 1 ELSE r.elapsed
             miss == elapsed > AckCycles /\ ~r.missed
         IN  [r EXCEPT !.elapsed = elapsed, !.missed = @ \/ miss,
                       !.deadline_fault = @ \/ miss]

\* The head of a queue, unless it is a rate reply the pacing does not allow yet.
Eligible(r, k, limit) ==
    /\ r.queues[k] # <<>>
    /\ Head(r.queues[k]) = "remote" /\ k = "Rate" =>
          limit # <<>> /\ limit[1] <= r.remote[1].rate

Faulted(r) == [r EXCEPT !.protocol_fault = TRUE]

ReceiveAck(r, word) ==
    IF Matching(r, word)
    THEN [r EXCEPT !.local = <<>>,
                   !.peer = IF word.kind \in Identities
                            THEN [@ EXCEPT ![word.kind] = word.value] ELSE @]
    ELSE Faulted(r)

ReceiveRequest(r, word, identity) ==
    IF r.remote # <<>> THEN Faulted(r)
    ELSE Queued([r EXCEPT !.remote = <<ReplyTo(word, identity)>>,
                          !.elapsed = 0, !.missed = FALSE,
                          !.peer = IF word.kind # "TxReady"
                                   THEN [@ EXCEPT ![word.kind] = word.value] ELSE @],
                word.kind, "remote")

Commit(r, k) ==
    LET sent == [r EXCEPT !.queues[k] = Tail(@)] IN
    IF Head(r.queues[k]) = "local" THEN [sent EXCEPT !.local[1].sent = TRUE]
    ELSE [sent EXCEPT !.remote = <<>>, !.elapsed = 0, !.missed = FALSE]

Request(r, start) ==
    Queued([r EXCEPT !.local = <<[kind |-> start.kind, value |-> start.value,
                                  sent |-> FALSE]>>],
           start.kind, "local")

\* One edge: an acknowledgement is received before the commit, a request after it,
\* and a new local request last; offers and readiness are those of the old state.
AfterAck(r, i) == IF RxAck(i) THEN ReceiveAck(r, i.rx[1]) ELSE r

AfterCommit(r, i) ==
    IF i.take = <<>> THEN r
    ELSE IF Eligible(r, i.take[1], i.limit) THEN Commit(r, i.take[1])
    ELSE Faulted(r)

AfterRequest(r, i) == IF RxAsks(i) THEN ReceiveRequest(r, i.rx[1], i.identity) ELSE r

AfterStart(r, i, ready) == IF i.start # <<>> /\ ready THEN Request(r, i.start[1]) ELSE r

ReferenceEdge(r, i) ==
    AfterStart(AfterRequest(AfterCommit(AfterAck(AdvanceTo(r), i), i), i), i, LocalReady(r))

\* The reference state a controller stands for.
QueueOf(b, k) ==
    LET mine   == LocalUnsent(b) /\ b.local[1].kind = k
        theirs == b.remote # <<>> /\ b.remote[1].kind = k
    IN  IF mine /\ theirs
        THEN IF b.local_first THEN <<"local", "remote">> ELSE <<"remote", "local">>
        ELSE IF mine THEN <<"local">>
        ELSE IF theirs THEN <<"remote">>
        ELSE <<>>

ReferenceOf(b) ==
    [local |-> b.local, remote |-> b.remote, queues |-> [k \in Kinds |-> QueueOf(b, k)],
     elapsed |-> IF b.missed THEN AckCycles + 1 ELSE b.age,
     missed |-> b.missed, peer |-> b.peer,
     deadline_fault |-> b.deadline_fault, protocol_fault |-> b.protocol_fault]
=============================================================================
