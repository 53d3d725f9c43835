# A verification project for Overflow

TLA+ models of the link protocols of Overflow, model-checked with TLC. Proved with TLAPS are
link-level retry up to the reliable delivery of the two-ended link, the receive FIFO, the UPLI credit
loop, two UART ports, the DL Basic controller and its exchange, what a KDLink link delivers and in
which order, and that KDLink's global transactions are never lost and, within the grace periods,
delivered once. Paths below are relative to the repository; `ualink/` stands for
`simulator/UAlink2.0/model/ualink/`.

Overflow is an AI-accelerator design: synthesizable RTL (`rtl/`) and cycle-level Python reference
models (`simulator/`) against which the RTL is checked. Where a part has a reference that the RTL
must match edge for edge, the reference is modelled; KDLink and the DL Basic controller, whose
references are coarser than the hardware, are modelled from the Verilog. Both are where concurrency
lives: two ends of a link, each with its own state, joined by wires that delay and lose, and clocked
parts that all sample the levels from *before* an edge. That is what is modelled.

1. [Inventory](#1-inventory)
2. [Modules and how they correspond to the code](#2-modules)
3. [What the runs check](#3-runs)
4. [Bounds](#4-bounds) and [fairness](#5-fairness)
5. [What is proved](#6-proofs)
6. [Disagreements found](#7-disagreements-between-the-code-and-its-documentation)
7. [What is not modelled](#8-not-modelled) and the [plan](#9-plan)

## 1. Inventory

| Component | State | Operations | Interacts with | What is hard | What makes it correct |
| --- | --- | --- | --- | --- | --- |
| DL link-level retry (`ualink/dl_replay_*.py`) | replay buffer and schedule, last sequence, last Ack, ignore counter; received sequence, ambiguity, error counts; explicit and request counters | enqueue, receive, discard, next_replay, send, reset, configure limit | the peer's retry end over a flit stream; FEC groups | loss of payload, Ack and request in one flit; three-bit sequence numbers; wrap 511 to 1; three copies of a request | payloads delivered once, in order; released only when delivered; link drains |
| UPLI connection (`ualink/upli_connection.py`) | four registered levels, reset count | reset, release, handshake | every UPLI channel | two ends becoming ready in any order | no withdrawal before reset |
| UPLI credits (`ualink/upli_credit*.py`, `upli_receive.py`, `receive_fifo.py`) | balances, confirmation streaks; publisher position; FIFOs; return queues | step and reset of each part | sender, receiver and consumer of one channel, on one clock | events of one edge see the levels before it; publication against traffic; batching; reset in mid-flight | credits conserved; no beat without storage; no raise; credits come back |
| DL UART (`ualink/uart_*.py`, `rtl/UAlink2.0/dl/dl_uart_*.v`) | transmit FIFO, staged message, absolute credit counters; words left of a transport, receive FIFO; reset phase, Responses owed | write, load, send, receive, read, reset, time out | peer port over the ordered message stream; message arbiter; firmware | a reset that meets a transport half sent; untagged Responses; counters across resets | framing agrees; credits are storage; resets complete |
| DL message arbiter (`ualink/dl_message_scheduler.py`, `dl_message_service.py`) | queues, two levels of cursors, transport in service | offer, tick, reset | all DL message sources | nested rotation with a lock | nobody waits longer than the published bound |
| DL Basic messages (`rtl/UAlink2.0/dl/dl_basic_message_control.v`, `ualink/dl_basic_*.py`) | own request, owed reply, which of them is older, deadline, faults | request, serve, receive, time out | peer; arbiter; pacing | Ack, commit and request at one edge; two messages of one type; deadlines | one answer to each request, a rate accepted only when it is in force, deadline detected |
| DL Control messages (`rtl/UAlink2.0/dl/dl_control_controller.v`) | channel and lane negotiation | request, receive, time out | peer; arbiter | two negotiations that cross | both ends agree on the mode |
| KDLink global transactions (`rtl/kdlink/kdlink_global_*.v`) | retained table, send register, two-stage commit pipeline, outstanding count; commit history | issue, send, commit, time out, change route; receive, age | source and destination domains over a routed network | retry against ageing history; a completion decided one edge before it is applied; identifiers in use again | each transaction delivered once and completed only after that; the count is the table |
| KDLink link (`kdlink_replay_window.v`, `kdlink_rx_commit.v`, `kdlink_credit_bank8.v`, `kdlink_reliable_endpoint.v`) | retained packets, replay walk; contexts, history, answers; credits and totals in three registers | store, acknowledge, replay; take, commit, hand over, answer; grant, spend | peer endpoint, virtual-channel ingress, consumer | a replay that breaks into a packet; answers lost; totals that arrive late | each packet handed over once and none stranded |
| KDLink link manager, bonded ports, collectives (`rtl/kdlink/`, `simulator/kdlink/`) | link state and epoch; reorder window; group tables | initialise, keep alive, recover; distribute, reorder | both of the above | the two ends reinitialise at different edges; eviction | no packet of an old epoch |
| UPLI bursts, receipt, TDM (`ualink/upli_burst.py`) | reserved data beats per port, slot phase | step, reset | UPLI credits | reservation spent over later slots | a burst never runs out of credit |
| Endpoint reads and writes (`ualink/endpoint_*.py`) | slots by (port, tag), backend slots | reserve, send, receive, retire | application, memory, UPLI | reuse of tags, completion in any order, interleaved beats | one completion per request |
| TL (`simulator/UAlink2.0/model/tl/`) | 20 credit classes, pending returns, tenure | step of ledger, publisher, packer | UPLI on one side, DL on the other | shared pools, refusal at limits | credits conserved, order kept |
| NPU (`rtl/npu/`, `simulator/npu/`) | command, DMA tags, NoC buffers, arrays | RTL handshakes | HBM, Pods, NoC | tags, credits, clock crossings | ownership of tags, no loss in the mesh |
| HBM, KD28, SerDes libraries; specs, docs, scripts | behavioural timing; text | | | | |

The hazards these parts are exposed to, each at its line and with the properties that would catch
it, are listed in `PROJECT.json` under `hazards`.

How they sit on each other: endpoint transactions travel over UPLI channels (credits, bursts) into
the TL, which packs them into flits; the DL carries flits with link-level retry and, beside them, a
stream of 32-bit messages (Basic, Control, UART) shared out by the message arbiter; the PHY codes
both. KDLink is a second, independent fabric between accelerators: links with retry and credits of
their own carry packets between endpoints, and global transactions travel over routes of such links
and are retried end to end.

## 2. Modules

Every module is a translation of the named source; `PROJECT.json` maps each definition to the lines
it stands for. A definition named `Xxx` followed by a description (`RequestExpectedAsAck`,
`TxRoomFifoOnly`) is a *variant*: a plausible slip in that definition, used only to show that a
property notices it, and marked as such. `MCXxx` gives an instance its constants.

### Link-level retry

| Module | Source | Contents |
| --- | --- | --- |
| `DLReplayHeader` | `dl_replay_header.py` | header words, their validity, the circular distance `Dist` |
| `DLReplayTransmitter` | `dl_replay_transmitter.py` | `Enqueue`, `TxReceive` split by outcome, `NextReplay`, `DiscardIngress`, `ResetTransmitter` |
| `DLReplayReceiver` | `dl_replay_receiver.py` | reconstruction of sequences, acceptance, ambiguity and replay counting, backpressure discard, threshold |
| `DLReplayScheduler` | `dl_replay_scheduler.py` | both of the above in one end: what the next flit carries |
| `ReliableDelivery` | abstract | payloads are accepted and delivered once, in order |
| `DLReplayLink` | `verification/UAlink2.0/model/test_dl_replay_scheduler.py:131-160` | two ends and two wires; refines `ReliableDelivery` twice |
| `DLReplaySchedulerProofs`, `DLReplayLinkProofs` | | proofs: the buffer, the receiver, the whole end and one direction of a link; the link |

A header is a record of the fields the code packs; reserved bits and packing are left out, the
illegal combinations the decoder rejects are kept. Payload bytes are abstract contents; in the link
they are their position in the stream, so that order and duplication are visible. Sequence numbers
run over 1..`MaxSeq` (511, which is also the reset value); the code reconstructs a command flit's
number modulo 512, one more than the ring, and so does `Reconstructed`. Counters keep their
saturation.

A slot of the link is four steps in a fixed order (both ends receive, both send), as the peer test
drives it. A flit that arrives is consumed whole by one atomic `Receive`, which changes receiver,
transmitter and scheduler, as the code's method does.

### UPLI credits

| Module | Source | Contents |
| --- | --- | --- |
| `UpliConnection` | `upli_connection.py` | reset, release, the four-level handshake |
| `UpliCredit` | `upli_credit.py` | ports, accounts, beats, returns |
| `UpliCreditLedger` | `upli_credit.py` | the sender's balances and the confirmation of initialisation |
| `ReceiveFifo`, `BoundedQueue` | `receive_fifo.py`; abstract | the three-stage FIFO and the queue it implements |
| `CreditReturnQueue` | `upli_credit_return.py` | retired metadata per port, batched into returns |
| `UpliReceiveChannel` | `upli_receive.py`, `upli_credit_initialization.py`, `CreditInitMonitor` | publisher, storage and return queue of a channel, and the monitor of its signals |
| `UpliCreditLoop` | `test_upli_receive.py`, `test_upli_integration.py` | one channel end to end |
| `ReceiveFifoProofs`, `UpliCreditLoopProofs` | | proofs: the FIFO is a queue; the loop's invariant and what follows |

Where the Python raises, the model's step is not enabled: `LedgerAccepts`, `WatchAccepts` and
`NobodyRaises` say when that is, and the run shows that it never happens between conforming parts.
The steps of all parts at one clock edge are one action, each part reading the unprimed state of the
others. In this composition a return queue never holds more than one beat, since one beat at most is
retired per edge and an enabled port returns at every edge: the batching of returns is therefore
exercised by initial publication only. The storage of every account is a `ReceiveFifo`, and
`FifosAreQueues` says of each of them what `ReceiveFifoProofs` proves of one.

### UART

| Module | Source | Contents |
| --- | --- | --- |
| `UARTStream` | word formats in `uart_tx_source.py`, `uart_rx_path.py` | the DWORDs of the message stream |
| `UARTResetControl` | `uart_reset_control.py` over `uart_reset.py` | run-out, Request, wait, Response, retry |
| `UARTTxSource` | `uart_tx_source.py` | reservation, staging and sending of one message |
| `UARTRxPath` | `uart_rx_path.py` | framing, storage, counter of words read |
| `UARTPort` | `dl_uart_port.v`, `dl_uart_tx_path.v` | the parts as the port wires them |
| `UARTPeers` | `test_uart_reset.py`, `dl_control_port_peer_body.svh` | two ports and the wires |
| `UARTPeersProofs` | | proofs: every safety invariant of `uart_peers` |

CRC and link-level retry lie below this stream, so DWORDs arrive in order and none is lost. Which of
the offered messages the round robin picks is left open, except that a transport keeps the wire. The
ten-millisecond deadline is taken to outlast an exchange: it is reached only when neither the
Request nor its Response is under way any more. One stream is modelled, enabled, without global
reset. The credit scheduler is outside the port and offers the current count at any time.

### DL messages

| Module | Source | Contents |
| --- | --- | --- |
| `DLMessageArbiter` | `dl_message_scheduler.py`, `dl_message_service.py` | the arbiter as it runs and, separately, the bound as it is published |
| `DLBasicControl` | `rtl/UAlink2.0/dl/dl_basic_message_control.v` | one edge of the controller: request, reply, deadline, pacing, faults |
| `DLBasicReference` | `dl_basic_message.py`, `dl_basic_control.py` | the event model: a queue for each message type, the events of an edge one after the other |
| `DLMessagePeers` | `dl_message_port.v`, `dl_message_arbiter.v` | two ends, each a controller and an arbiter that serves other sources too |
| `DLBasicProofs` | | proofs: controller and reference agree; the exchange of two ends |

The arbiter's cursors move past the source served; the bound is computed from a service history,
the ranks of all competitors and the words each may take, and the property evaluates the second in
every state of the first. The controller has two slots where its reference has queues:
`ReferenceOf` reads the queues off the slots and the flag `local_first`, and `SlotsAreQueues` says
that an edge of either, with any input the composition can offer, gives the same controller. The
arbiter decides on what is offered at an edge, the controller learns in the same edge that it was
served. Words that no rule answers (NoOp, other classes) change nothing and are left out.

### KDLink global transactions

| Module | Source | Contents |
| --- | --- | --- |
| `KDGlobalSource` | `rtl/kdlink/kdlink_global_transaction_source.v` | the retained table and its pipeline, one edge |
| `KDCommitTracker` | `rtl/kdlink/kdlink_global_commit_tracker.v` | the history of delivered identities, one edge |
| `KDDeliveryService` | abstract | issued, delivered once, then completed: once (`SSpec`), or by repeated pulses (`RSpec`) |
| `KDGlobalTransactions` | `simulator/kdlink/tb/system/tb_kdlink_global_recovery.sv` | both ends on one clock and the network; refines `KDDeliveryService` |
| `KDGlobalProofs` | | proofs: what the count counts; nothing is lost; every transaction delivered once |

The endpoint fields that name a transaction are one value, `source`. An acknowledgement passes two
registers before it completes a slot: the first is compared with the table, and the result is
applied one edge later, when the slot may have changed: the acknowledgement one cycle ahead may have
freed it, or a change of route may come at that very edge, which the code takes first. Both are
steps of the model, and the history variable `surplus` counts the completion pulses that freed no
slot. Ages beyond the grace period are equal. One constant says what the rest of the system must do
for these two modules, because they do not check it: `RerouteLimit`, how late after a delivery the
route may still change ([section 7](#7-disagreements-between-the-code-and-its-documentation)).

### KDLink link

| Module | Source | Contents |
| --- | --- | --- |
| `KDLinkChannels` | totals in `kdlink_rx_commit.v` | virtual channels and the counting of flits |
| `KDReplayWindow` | `kdlink_replay_window.v` | retained packets, their replay and release |
| `KDRxCommit` | `kdlink_rx_commit.v` | gathering, duplicate suppression, hand-over, answers |
| `KDCreditBank` | `kdlink_credit_bank8.v` | credits by channel and the three registers a total passes |
| `KDReliableLink` | `kdlink_reliable_endpoint.v`, `kdlink_vc_ingress8.v` | one direction of a link; refines `KDDeliveryService` |
| `KDReliableLinkProofs` | | proofs, for all sizes and any consumer: delivery before release, order, whole packets, a true history |

The two ends have clocks of their own; an edge of either is a step. A flit may be damaged and an
answer lost, nothing is reordered. A packet is the number of its place in the stream. One channel of
normal traffic stands for the seven, beside the replay channel (VC6). `retry_exhausted_o`
is a pulse of one cycle, as in the code. Whether the consumer hands a packet over before a copy of
it arrives is a constant, `PromptConsumer`: the run `kd_link` needs it for exactly-once delivery
([section 7](#7-disagreements-between-the-code-and-its-documentation) says what happens without it),
the proofs do not use it.

## 3. Runs

| Run | Question | Answer |
| --- | --- | --- |
| `dl_scheduler` | Against a peer that may send any header, with thresholds reprogrammed under way: is the buffer the window of unacknowledged numbers, does a replay reach the tail, do counters and flags agree on both sides of their limits, and does the end ever send a header its encoder would reject or a number it has not committed? | all hold; it does not |
| `dl_link` | Is each direction a reliable FIFO, is a payload released only after delivery, does the link drain after the last loss? | yes, in a configuration whose groups and latency suit the ignore window and the replay limit |
| `dl_link_wide_group` | The same, in the code's constants with eight-flit groups | no: [below](#7-disagreements-between-the-code-and-its-documentation) |
| `upli_credit_loop` | Are credits conserved, and do they stay on their port, through connection, publication, traffic and reset; is every permitted beat stored, and each account's storage one queue; can any part raise; is a port confirmed before its last credit; do credits keep coming back? | yes; no raise |
| `uart_peers` | With resets at both ends at any moment: does firmware read only payload, are credits storage, does framing agree when a Request arrives, can a Response answer the wrong Request; does a reset that meets the peer's transport complete, and do staged words leave? | yes, the reset by retries; no wrong Response |
| `uart_interleave` | Does a transport keep the stream to itself? | no: [below](#7-disagreements-between-the-code-and-its-documentation) |
| `dl_messages` | Is every Basic request answered once, and in the end; is a rate acknowledged only when the pacing honours it; are the controller's two slots the queues of its reference; does every service opportunity bring each waiting message, and each reply, nearer to the end of its bound? | yes |
| `kd_global` | With copies and acknowledgements delayed, lost and reordered, a change of route, and a foreign transaction in the same history entry: is every transaction delivered once and completed only after that, does the outstanding count fall short of the table only by pulses that freed no slot, and does each complete or be reported? | yes, when the route changes in time |
| `kd_global_late_reroute` | Is every transaction delivered once when the route may change at any time? | no: [below](#7-disagreements-between-the-code-and-its-documentation) |
| `kd_global_double_ack` | Is the outstanding count the number of retained transactions? | no: [below](#7-disagreements-between-the-code-and-its-documentation) |
| `kd_link` | With flits damaged and answers lost: is every packet handed over once, released only after that, and never stranded? | yes, with a prompt consumer |
| `kd_link_single_flit` | The same, for packets of one flit | no: [below](#7-disagreements-between-the-code-and-its-documentation) |

`EveryTickCounts` is the form in which the bound is checked: the bound of a head decreases at every
opportunity, whatever becomes eligible in between, which implies that the bound holds and does not
need a counter of waiting time. `RepliesAdvance` says the same of a reply the controller owes, which
is not in a queue of the arbiter until it is offered.

`InOrder` in the wide-group run and `ReliableAtoB`/`ReliableBtoA` in the other are the same promise,
as a state predicate and as a refinement. `ExactlyOnce` and `DeliveredOnce` are the refinements of
`KDDeliveryService` in the two KDLink components, the second without the promise that a completion
is pulsed once, which the code breaks (`kd_global_double_ack`). `CompletesOrReports` is the liveness
of both, where giving up with a report is allowed, because the code promises no more: the global
source raises a sticky bit, the link pulses its report again and again for as long as it is stuck.

## 4. Bounds

* **Scheduler**: 5 numbers, window 2, storage for 2, low bits modulo 2, a damage limit of 2,
  counters up to 3, thresholds 2 and 3, and any header word at any time. The ignore window is 0, so
  that every request the buffer admits is obeyed: against a peer that may send anything a longer
  window only takes behaviours away (`dl_link` has one). The window is the largest that keeps
  distances unambiguous (`2*Window < MaxSeq`, as 2*255 < 511), so each of wrap, window, storage,
  damage limit and threshold is the limit in some state. With limits of two and more both counters
  stand between zero and the limit in some states, and the lower threshold can be set while the
  count is already there.
* **Link**: 11 numbers, window 5, storage 4, low bits modulo 4. Twelve payloads from A wrap the
  number space; three from B give A something to receive, so that its Acks, payloads and requests
  share flits. Four losses towards B exceed what the low bits can tell apart (ambiguous at three,
  alias at four); one loss towards A takes an Ack, a request copy or a payload. Losses are bad CRCs
  or storage discards at any slot. Groups of two flits and an ignore window of 10 let three copies
  of a request arrive within the window. A replay limit of 15 satisfies the condition of the
  theorems ([section 6](#what-the-link-delivers)); a limit of 5 does not, repeats requests whose
  answer is on the way, and does no harm here either.
* **Wide group**: all constants as in the code; ten payloads and two losses each way are enough.
* **UPLI**: two ports, one with accounts of 2, 0 and 3 places and one with a single place; batches
  of 2 take several, one or no publication edges; confirmation after 2 edges; a Completer that
  waits for the Originator; one reset at any point.
* **UART**: counters modulo 3 wrap within the three words A writes; messages of up to two words,
  storage two, a run-out of two No-Ops (as the code's 40 exceed the 32 words of a transport, two
  reach the longest rest of one), one Response place; one DWORD on a wire for `uart_peers`, whose
  transport is then sent word by word while both ends reset, two for `uart_interleave`.
* **DL messages**: groups of 2, 1 and 1 sources for the code's 5, 2 and 4; two of them are the Basic
  types Rate and Port, one carries transports of three words at one end; queues of one. The rates 1
  and 2 are asked for by one end and come into force at any time. `AckCycles` is 0, so every reply
  that is not sent at once is overdue: the deadline is exercised in most states, and larger values
  only add states in which it is not reached (the proof covers all).
* **Global transactions**: one slot and one history entry, so that every identity collides with
  every other; two transactions of the source and one of another; two retries, timeouts of 0 and 2;
  copies under way for up to 4 cycles, longer than a timeout, so that they overtake one another;
  acknowledgements for up to 2; grace periods of 25, the shortest that satisfies `EnoughGrace`
  ([section 6](#every-transaction-once)) with a change of route within 6 cycles of a delivery. Copies
  of one transaction can arrive back to back, and their acknowledgements reach the source in
  consecutive cycles. The late run allows a change 30 cycles after a delivery; `kd_global_double_ack`
  needs one transaction and no change of route.
* **KDLink link**: three packets of two flits over two slots, two history entries and 4 sequence
  numbers; 3 credits, one more than a packet has flits; one retry; one context; two flits and one
  answer under way; one damaged flit and one lost answer anywhere.

## 5. Fairness

* `DLReplayLink`: the flit stream never pauses (a NOP is sent when there is nothing else), so every
  slot takes place: weak fairness of `Next`. Losses are bounded, not fair.
* `UpliCreditLoop`: the clock runs, both ends stay ready, and the consumer comes back to every
  account that it can serve again and again; without that no credit would have to return.
* `UARTPeers`: clocks run, deadlines come, and the rotating arbiter gets to each class of message
  offered again and again. That a credit snapshot is offered again is an assumption on the credit
  scheduler, and it is needed: an update that arrives on the very edge that ends a stream reset is
  ignored (`uart_rx_path.py:63`, `:77`), and an on-change announcement, as in
  `verification/UAlink2.0/rtl/dl_control_port_peer_body.svh:43-49`, would leave that direction
  without credit until the next change.
* `DLMessagePeers`: the clock of an end runs while it has something to do, and a rate that an end
  has been asked for comes into force (`Pace`), which the controller waits for without a limit.
* `KDGlobalTransactions`: one clock, which runs: weak fairness of `Next`. A copy reaches the end of
  its life and is then received or lost; that not all are lost is not assumed, because a transaction
  that loses every copy is reported.
* `KDReliableLink`: the clocks of both ends run; damage and loss are bounded, not fair.

## 6. Proofs

### The retransmission buffer

The first part of `DLReplaySchedulerProofs` proves, for every `MaxSeq`, `Window`, `Capacity`, `IgnoreWindow` and
payload set with `2*Window < MaxSeq` (an assumption of `DLReplayHeader`; 510 < 511 in the code):

| Theorem | States |
| --- | --- |
| `InductiveInvariant` | `TxSpec => []IInv` |
| `TypeCorrect` | `TxSpec => []TxTypeOK` |
| `BufferIsContiguous` | `TxSpec => []BufferContiguous` |
| `FlagsAgree` | `TxSpec => []ReplayFlagsAgree` |
| `ReplayReachesTail` | `TxSpec => []ScheduleEndsAtTail` |
| `RequestsAreResident` | `TxSpec => []ReplayTargetResident` |
| `StorageIsBounded` | `TxSpec => []CapacityRespected` |

The inductive invariant is `IInv == TxTypeOK /\ BufferContiguous /\ ReplayFlagsAgree /\
ScheduleEndsAtTail`. None of the four is inductive alone. Releasing by count keeps the buffer
contiguous only because the count is a distance within the window; a request schedules a suffix of
the buffer, which ends at the tail because the buffer is contiguous up to `last_sequence`; it still
does so later because nothing is enqueued while `replay` holds, which is what the flags say. The
lemmas on `Dist` and `Advance` (that walking `k` places and measuring the distance are inverse within
one lap) carry the arithmetic; there `2*Window < MaxSeq` is used, to tell "in the window" from
"just before it". `RequestsAreResident` follows from `IInv`: within the two window checks the target
is `Advance(last_ack, i)` for some index of the buffer. `StorageIsBounded` needs a second inductive
step: outside a replay the schedule is empty, an Ack and a replay step only remove references, a
request schedules references to stored entries, and `Enqueue` checks the union.

### The receiver

The second part of `DLReplaySchedulerProofs` proves, for every `MaxSeq`, reconstruction modulus,
counter width and set of replay limits that `ReceiverAssumption` admits:

| Theorem | States |
| --- | --- |
| `RxInductiveInvariant` | `RxSpec => []RxInv` |
| `RxTypeCorrect` | `RxSpec => []RxTypeOK` |
| `CountersAgree` | `RxSpec => []RxCountersAgree` |
| `NoSequenceSkipped` | `RxSpec => AdvanceByOne` |

`RxInv == RxTypeOK /\ RxCountersAgree`. A command flit's number is reconstructed modulo 512 and may
come out as 0, which is no sequence number; `last_sequence` keeps its type because it is only ever
set to a number equal to `Expected`, which is one. Counters saturate, so a limit once reached stays
reached, and `ambiguous` is set in the very step that reaches it: hence the equivalence. An action
property needs the invariant only to know the record's shape; `StepAdvances` then splits on the
handlers.

### One end, and the link

`DLReplaySchedulerProofs` goes on to the end that owns both. Its specification faces an arbitrary
peer: any header, any loss, any grouping of flits, at any time.

| Theorem | States |
| --- | --- |
| `SchedulerDrivesTransmitter`, `SchedulerDrivesReceiver` | `SchedSpec => TxSpec`, `SchedSpec => RxSpec`: every step of the end is a step of either part or leaves it alone |
| `SchedulerInvariant` | `SchedSpec => []SchedInv` |
| `SchedulerTypeCorrect` | `SchedSpec => []SchedTypeOK` |
| `EveryFlitIsLegal` | `SchedSpec => []SendsLegalWord` |
| `EveryNumberIsCommitted` | `SchedSpec => []SendsKnownSequence` |
| `SchedulerBufferContiguous`, `SchedulerRequestsResident`, `SchedulerStorageBounded`, `SchedulerSkipsNothing` | what was proved of the parts, of the end |

`SchedInv` adds to `IInv` and `RxInv` the type of the scheduler's record and two facts neither part
knows. `CopiesKeepTarget`: between the first and the last copy of a request its target is a sequence
number, so that the encoder accepts it although the receiver has moved on. `ScheduleInWindow`: what
is still to be replayed lies within the window behind the newest payload, because a request was
accepted inside it and nothing is enqueued meanwhile; that is why a replayed number is one the
transmitter has committed even after the peer has acknowledged it.

`DLReplayLinkProofs` takes this to `DLReplayLink`, for every latency, group span, offer and number
of losses:

| Theorem | States |
| --- | --- |
| `LinkInvariant` | `Spec => []LinkInv` |
| `EndsAreSchedulers` | `Spec => AP!SchedSpec /\ BP!SchedSpec`: each end of the link is an end that faces an arbitrary peer |
| `LinkStorageBounded` | `Spec => []StorageBounded` |

What makes the step from one end to two is that the headers an end receives are legal words, which
is true because the other end encoded them: `LinkInv` is the invariant of both ends and the typing
of the wires. A flit with a bad CRC is the same step as a flit that storage refuses
(`BadFlitIsDiscarded`). `AP` and `BP` instantiate the proofs, `A` and `B` the model; that their
definitions coincide is shown by the lemmas `Same...`. `EndAssumption` restates the assumptions of
one end for the constants of the link, since an instance assumes nothing.

### What the link delivers

What a payload's journey needs beyond that is timing. `TimingSuffices` states it, for every sequence
space, window, storage, latency, grouping, offer and number of losses:

* `ExplicitPeriod >= 2`: headers with the full number alternate with others;
* `IgnoreWindow > Span`, and at least 2: the sender ignores requests for longer than the copies of
  one request take, which leave in `RequestCopies` different codeword groups;
* every replay limit exceeds `Episode + 2 * Delay`: a receiver that asks again does so only after
  the answer to its last request has had time to arrive;
* `LowBitsSuffice`: the low bits wrap where the sequence numbers do, and fewer flits than they count
  may be lost before they are no longer trusted.

`Span` is `(RequestCopies - 1) * (GroupSpan + 2)`, `Episode` is `RequestCopies * (GroupSpan + 2)`: a
copy waits for its group and for up to two headers that go first. With the code's constants, an
ignore window of 12 and a limit of 50, this holds of the peer test's `(group, delay)` pairs `(1, 1)`
and `(3, 4)`. It does not hold of `(5, 2)` or of `(8, 7)`; the latter is `dl_link_wide_group`.

| Theorem | States, when `AP!TimingSuffices` |
| --- | --- |
| `LinkReleasesDelivered` | `Spec => []ReleasedWasDelivered` |
| `LinkInOrder` | `Spec => []InOrder` |
| `LinkReliableAtoB`, `LinkReliableBtoA` | `Spec => ReliableAtoB`, `Spec => ReliableBtoA`: the refinements that `dl_link` checks |

The two directions share every header, each carrying the number of a payload and the Ack or the
request of the other way. The proof separates them: `ViewToB` and `ViewToA` write each direction as
one value (its sender's storage, its receiver, the copies of a request still to send, both wires),
and the last part of `DLReplaySchedulerProofs` says of such values what a step may do to
them. Its invariant, `DirectionOK`, has four parts, and each is there because the next needs it:

* `FlowOK`: the flits under way follow one another in the stream of payloads, except that one of
  them, the first of a replay, goes back to the very payload the receiver waits for. Only one can,
  since a replay starts with an accepted request.
* `HearingOK`: how far the receiver may lag behind the stream. While it is not asking, by no more
  than the flits it has counted as damaged, so that its low bits are trusted only where they can be
  (`NextIsNear`); while it is, not ahead of what it waits for. And while a replay is under way, the
  flits the receiver has refused and those still to come before it stay below the replay limit.
* `RequestsOK`: either no request can reach the sender outside its ignore window (`Quiet`), or the
  receiver asks, no replay is under way, and every request that can still be obeyed names what the
  receiver waits for, with its last copy less than an ignore window behind. This is the step that
  `dl_link_wide_group` breaks: a copy that is obeyed after the replay has come through.
* `AcksOK`: Acks arrive in the order they were sent and name what had been delivered by then. That
  gives `released <= d` and with it the release theorem.

That the flits a copy still has to wait for (`SendsLeft`) go down at each send, and by how much a
request can be held up by the headers that go first, is `SendsAfterArrival` and `SendsAfterSend`.
`DeliveryInv` is `DirectionOK` of both views, with the lengths of the wires and the numbering of the
storage that make the views well typed; `DeliveryStep` is its inductive step, one lemma for each
action, each seen from both directions. That a payload carries its own number (`NumberedTx`) turns
the flow of numbers into a flow of contents (`HeardContent`), hence `InOrder`.

### The receive FIFO

`ReceiveFifoProofs` proves, for every `Depth \in Nat` and every set of words:

| Theorem | States |
| --- | --- |
| `FifoTypeCorrect` | `FifoSpec => []FifoTypeOK` |
| `FifoImplementsQueue` | `FifoSpec => ImplementsQueue` |

The mapping is `visible \o pending \o unread`. `StepHeld` is the heart: after an edge these are the
old contents, less the head if it was taken, followed by the accepted word; moving a word from
storage into the pipeline, and from there into the cache, only moves the brackets of the
concatenation. Which of the four queue steps it is follows from what was taken and accepted.

### The UPLI credit loop

`UpliCreditLoopProofs` proves, for every set of ports, number of virtual channels, storage, batch
size, queue depth and confirmation time that the assumptions admit:

| Theorem | States |
| --- | --- |
| `LoopInvariant` | `Spec => []LoopInv` |
| `LoopTypeCorrect` | `Spec => []LoopTypeOK` |
| `CreditsConserved` | `Spec => []CreditConservation` |
| `NoBeatDropped` | `Spec => []PermittedIsStored` |
| `ConfirmationIsLate` | `Spec => []ConfirmedAfterLastCredit` |
| `NoPartRaises` | `Spec => []NobodyRaises` |
| `StorageIsQueues` | `Spec => FifosAreQueues` |

Conservation is a sum over five places, and is not inductive by itself: two returns of one port on
the wires at one edge would be counted once. `LoopInv` says who may carry credits of a port when.
Until a port is done only its publisher does; its FIFOs and its return queue are empty until then and
carry them afterwards; the monitor has seen the done level one edge later, and the ledger's streaks
count only levels the monitor has seen. Hence at most one return per port (`OnePerPort`), and the
sum over returns is one number (`CreditedIs`). `PublisherBalance`, `QueueBalance` and `FifoBalance`
then say what each part adds or takes at an edge, account by account. `NoPartRaises` reads off the
same invariant that no part is handed an input it refuses. `StorageIsQueues` instantiates the proof
of `ReceiveFifo` for every account; a reset empties it.

### Two UART ports

`UARTPeersProofs` proves, for every FIFO and wire depth, counter modulus, transport length and
number of resets at either end, with a run-out at least as long as the longest transport
(`StreamAssumption`; 40 against 32 in the code):

| Theorem | States |
| --- | --- |
| `PeersInvariant` | `Spec => []PeersInv` |
| `TypeCorrect` | `Spec => []TypeOK` |
| `FramingIsAgreed` | `Spec => []FramingAgrees` |
| `NothingButPayloadIsRead` | `Spec => []OnlyPayloadStored` |
| `OneExchangeAtMost` | `Spec => []ResponseAnswersRequest` |
| `EveryWordFits` | `Spec => []CreditsAreStorage` |
| `CreditsAreConserved` | `Spec => []CreditsConserved` |

`PeersInv` says the same of both directions. Of one direction it says how the receiver *will* parse
the words under way: `WireOK` annotates the wire with the number `p[k]` of words the receiver still
takes for a transport after the first `k`, and with the number `q[k]` of payload words behind them.
The parts that need each other:

* `Exchange`: of each end's resets at most one Request, owed Response or Response is under way, and
  only while that end waits; the peer of an end that is owed a Response has no credits.
* `Excess`: what the receiver expects at the end of the wire is what the sender still owes of its
  transport, unless the sender has abandoned one. Then either the rest is at most the No-Ops still to
  be run out, or the receiver itself waits for a Response and will discard it. Here the length of the
  run-out is used.
* `OnlyRunOutInside`, `RunOutPlace`: inside a transport only payload and No-Ops arrive at an end in
  operation; No-Ops come behind all payload and before the Request that flushes them.
* `Conserved`, `Ordered`, `FreshCredits`: with both ends in operation, the credits the sender has
  left against the receiver's counter are the free storage less the payload under way, and credit
  updates under way are between what the sender knows and the counter, in order. Credits behind the
  Response an end waits for are those of a fresh stream.
* `Reserved`: stored words, words under way and words still owed fit the FIFO.
* `Numbers`: FIFO and wire hold consecutive payload words, up to what the sender has sent.

None of them holds without the others across a reset: framing needs the exchange to know that a
boundary is real, conservation needs framing to know which words are payload, and it needs the
exchange to know that no credit from before a reset survives. `PortEdge` is analysed once, in terms
of what an edge takes from the wire, stores and sends (`Edge`); the invariant of each direction is
then preserved separately by an edge of its receiver and of its sender. The numbers `q` are
cardinalities of sets of positions (`CountsMembers`, by a least counterexample, since an induction
theorem cannot be applied here).

### The count of outstanding transactions

`KDGlobalProofs` proves, for every table and history size, count width, retry limit, timer and
network, without any hypothesis on acknowledgements or changes of route:

| Theorem | States |
| --- | --- |
| `DecisionsHold` | `Spec => []CountInv` |
| `CountShortBySurplus` | `Spec => []CountFallsShort`: the count is the number of retained transactions less the pulses that freed no slot, modulo its width |
| `CountExactBeforeSurplus` | `Spec => [](surplus = 0 => CountAgrees)` |

The count is changed by pulses, the table by what it finds in the slot when the pulse is applied.
The two part company when an acknowledgement is repeated in the next cycle, or when the route changes
at the edge of a completion; neither can be excluded, so the count is *not* the table
(`kd_global_double_ack`), and the theorems say that this is the only way it goes wrong: late, foreign
and stale acknowledgements, and changes of route at any other edge, leave it exact. `CountInv` says
of a decision about to be applied that it is about the transaction its slot holds, if the slot still
holds one: a slot freed one edge earlier is still empty at this one. `SlotStep` says what an edge does to one slot by its cases, `EdgeValid` what it does to the
set of retained slots, and `EdgeCount` compares the cardinality of that set with the pulses.

### Every transaction once

The same module proves, for any number of slots, history entries, retries, identifiers, timeouts,
lifetimes and changes of route, and any traffic of other sources:

| Theorem | States |
| --- | --- |
| `NothingIsLost` | `Spec => []NothingLost`, without any hypothesis: an issued transaction is retained until its completion is reported, and that is never reported before its delivery |
| `EveryTransactionOnce` | `Spec => DeliveredOnce` when `EnoughGrace`: the two ends refine `KDDeliveryService` |

The destination protects the entry of a delivered transaction for a grace period only, and a
duplicate does not extend it, so a second delivery is excluded by time alone: whatever may still
arrive must do so before the entry can be replaced. `EnoughGrace` says what that takes of the
constants: the reuse grace is at least the history grace (the code gives both the same default,
`multidomain_architecture.md:109`), and for every timeout a transaction may have

    max(RerouteLimit, MaxStall) + Horizon(timeout) + CopyLife + 1 < HistoryGrace
    Horizon(timeout) = (MaxStall + 2) * SlotCount * (RetryMax + 1) + RetryMax * timeout

With the 16 slots, 15 retries and the grace of 4095 cycles of the code this leaves, for example, a
stall of 8 cycles (2560 for the sends of all slots), timeouts of 64 (960), and some 550 cycles for a
copy's way and for a change of route after the delivery. `EnoughGrace` is sufficient, not necessary:
it lets every other slot use its whole budget, with a stall each, in front of the transaction in question. Some
bound of the kind is necessary: the source accepts timeouts for which it fails, and then a
transaction is delivered twice ([section 7](#7-disagreements-between-the-code-and-its-documentation)).
The theorem says within which settings KDL-MD-005 is kept, not that the code keeps to them.

`Protected`, which the lemma `HistoryOutlivesCopies` establishes, is the statement about time: for each of the four places from which a delivered
transaction may still arrive (its slot, as long as a retry is left; the send register; the network;
the pipeline register of the tracker) its entry is recorded, and the entry's age plus the time
that place may still take is less than the grace period. For the slot that time is `Remaining`, a
potential of the whole table: `MaxStall + 2` cycles for every send any slot may still ask for before the
entry ages out (`Sends`, a set of pairs, so that it needs no sum over the slots), what is left of the
present stall (`Taken`), and what the slot itself still waits for its timeouts (`Waits`).
`RemainingFalls` proves that every edge without a change of route lowers it by at least one, just as
fast as the entry grows older: a send frees or fills the register, or else the slot is waiting.
Free slots count as well, since they may be taken again, but not those whose cooldown outlasts the entry;
that is where the reuse grace is needed. A change of route sends everything again, so it restarts
the potential, and `RerouteLimit` makes room for that.

The rest of the invariant (`OnceInv`) is what this argument stands on: `SlotsHold`, a transaction
that was issued and is not completed has its slot; `SendHolds`, the send register names a slot that
waits to be sent, or one completed too recently to be taken by another transaction; `HistoryHolds`, an
arrival was let in only where its entry was free, its own or expired, so that no foreign identity
replaces a protected entry (`EntryKeeps`); `DeliveredFirst`, all that is on its way back, and every
entry, is about a delivered transaction.

### What a KDLink link delivers

`KDReliableLinkProofs` proves, for any number of packets of any lengths, any window, history,
contexts, credits, FIFO depths, damaged flits, lost answers and retries, and a consumer of any pace:

| Theorem | States |
| --- | --- |
| `LinkInvariant` | `Spec => []LinkInv` |
| `EveryPacketDelivered` | `Spec => []ReleasedAfterDelivery`: a packet of two flits or more leaves its slot only after it was handed over |
| `HistoryIsTrue` | `Spec => [][CopiesAreKnown]_vars`: at the first flit of a packet, it is taken for a duplicate exactly when it was handed over before |
| `SlotInOrder` | `Spec => [][NeverBackwards]_vars`: once a packet was handed over, no earlier one of its slot is any more |
| `HandedOverWhole` | `Spec => []WaitingIsWhole`: what waits for the consumer is a whole packet, in order |
| `AcksReleaseDelivered` | `Spec => []AcksSpeakTruth`: an ACK under way with the number of a retained packet of two flits or more speaks of that packet, and it was handed over |

The one assumption is `Unambiguous`, when numbers and history can tell packets apart:

* `HistorySlots % WindowSlots = 0` and `SeqSpace % HistorySlots = 0`. The endpoint has 512 slots
  (`kdlink_reliable_endpoint.v:7`), 512 history entries (`kdlink_rx_commit.v:165`) and 12-bit
  numbers. The replay window's own default of 1024 slots (`kdlink_replay_window.v:2`) would violate
  the first: then one window holds two packets of one history entry, and the younger hides the older
  from the duplicate check (with two slots and one entry TLC finds a packet handed over twice).
* between two packets of one number there is a packet of two flits or more with the same history
  entry. With the endpoint's sizes seven packets lie between; an entry whose packets are all of one
  flit for a whole round of the numbers is excluded, because each of them may be acknowledged by the
  stale flag of `kd_link_single_flit` without being handed over, and the entry then still holds the
  number of the round before.

Packets of one flit are part of the model and of the theorems: they interleave with the others,
share slots, numbers and entries with them, and may be dropped by the defect of
`kd_link_single_flit`. What is claimed of release and of ACKs is claimed of the longer ones only,
since it is false for them.

What is not proved is that a packet is handed over *at most* once. `HistoryIsTrue` stops one step
short of it: a copy whose first flit is taken while the packet still waits for the consumer is no
duplicate yet, and the code hands over both
([section 7](#7-disagreements-between-the-code-and-its-documentation)). With a consumer that keeps
ahead of copies TLC checks it (`ExactlyOnce` of `kd_link`).

Nothing is assumed of how many copies, answers and packets are under way, and the sequence space may
wrap any number of times. The difficulty is that a number, a slot and a history entry are all used
again, so that "this flit is a duplicate" or "this ACK is mine" are not facts about one state. The
argument is about age. A packet is *live* from its first flit until a later packet of its slot, of
two flits or more, is released; an answer to a packet of one flit may be a false one and bounds
nothing. `LinkInv` says of the parts of the link:

* `WindowInv`, `ReplayInv`: what a slot holds is the packet of its residue in the current window, with
  its flits; the packet being replayed was retained when the replay began.
* `LiveInv`, `AnswerInv`: flits on the wire, flits gathered and answers under way are of live packets,
  and an ACK of a longer packet names one that was handed over.
* `WireInv`, `OrderInv`, `ContextInv`, `AnswerInv`: of two packets of a slot the older is ahead of
  the younger in the replay register, on the wire, in the receiver and among the answers. This is
  what makes a packet's end of life real: when the answer for the younger one is used, nothing of
  the older is left.
* `GatherInv`, `ContextInv`: a packet is gathered from its first flit without gaps, and
  `rx.duplicate` is set only if it was handed over.
* `DeliveryInv`: a packet of two flits or more that was begun and is no longer retained was handed over.
* `HistoryInv`: an entry names the latest packet of it that was handed over. With `OrderInv` this
  decides the duplicate check: an older packet of the entry does not arrive any more, a younger one
  has another number.

None is inductive without the others: release needs the ACK to be true, that needs the duplicate check
to be right (a duplicate is acknowledged without being handed over), that needs the history, and the
history needs the order of copies, which rests on releases being true. TLC checked `LinkInv` on small
instances before it was proved. The proof treats an edge of either end by what it does to slots,
packets, flits under way and answers in turn (`SenderKeeps`, `ReceiveKeeps`).

### The Basic controller and its reference

`DLBasicProofs` proves, for every set of message types, deadline, arbiter and traffic:

| Theorem | States |
| --- | --- |
| `EdgeIsEvents` | an edge of the controller is deadline, Ack, service, peer request and own request handled one after the other on its registers |
| `EdgeAgrees` | from every settled state and with every input, `ReferenceOf` of the controller's edge is the reference's edge |
| `QueuesAlways` | `Spec => []SlotsAreQueues` |
| `RequestsAnsweredOnce` | `Spec => []OneAnswerEach` |
| `AcceptedRatesArePaced` | `Spec => []RateAckMeansPaced` |
| `PortsTypeCorrect` | `Spec => []PortTypeOK` |

The RTL judges all events of an edge by the registers before it; the reference lets each see what
the one before did. `EdgeIsEvents` shows that this makes no difference, field by field; then each
event separately commutes with `ReferenceOf` (`AckCommutes`, `CommitCommutes` and so on), where
`ShortQueues` lists the queues that two slots can be. `QueuesAlways` needs to know that the
composition only offers such inputs: `PeersInv` types controllers, wires and arbiters, and
`ServedIsPending` (the least rank exists because ranks are natural numbers) that the arbiter serves
a message that was offered.

The last two parts are about both ends. `ExchangeOf` follows one request: a request that was sent is
in exactly one place (on the wire, owed by the peer, or answered on the way back), with the type and
value that were asked for, and an acceptance of a rate under way means that the peer paces by no
more than that. The asking end and the answering end keep it by different arguments (`AskerKeeps`,
`AnswererKeeps`). It uses that distinct message types have distinct sources in the arbiter, which
`PeersAssumption` says as the RTL's wiring does; with two types on one source an end could be told
that a message was served which it had not offered. `StagedInv` types the queues of the other
sources and keeps the arbiter inside a transport that is still there.

### What stays with TLC

TLC checks every property named above on small constants as well. Only model-checked are:

* `EveryTickCounts` and `RepliesAdvance` of `dl_messages`: the published bound is a recursive
  function over service histories, and what it computes can be proved only by an induction over data.
* `ExactlyOnce` of `kd_link`: it rests on a consumer that keeps ahead of copies, which the code does
  not ensure ([above](#what-a-kdlink-link-delivers)).
* Liveness (`EventuallyDrained`, `CreditsReturn`, `ResetCompletes`, `StagedWordsLeave`,
  `RequestsComplete`, `CompletesOrReports`), which is outside what the proof system handles.

## 7. Disagreements between the code and its documentation

**A repeated request outlives the ignore window** (`dl_link_wide_group`, `InOrder`). An accepted
request is followed by 12 flits during which copies are ignored (`dl_replay_transmitter.py:130`), but
the three copies leave in three different codeword groups (`dl_replay_scheduler.py:114`), 16 flits
from first to third when a group has eight. If the Acks that arrive in between are lost, the third copy is
accepted as a new request and starts a replay of flits the receiver already has. When the explicit
first flit of that replay is lost as well, the next command flit, eight numbers back, has the low
bits of the one expected and is taken for new: payloads 3 and 4 are delivered a second time after 10.
The peer test runs this very configuration (`test_dl_replay_scheduler.py:133`) and asserts that the
deliveries are a prefix of the offers (line 155); its losses are another pattern. Two conditions keep
the link a reliable FIFO, and [section 6](#what-the-link-delivers) proves that they do: the copies of
a request fit the ignore window, and the replay limit exceeds the time an answer takes. The second is
no idle one either: with the code's constants, single-flit groups and a delay of seven, where the
copies fit, TLC finds `InOrder` violated for replay limits of 4 and of 1. A receiver that repeats its
request before the answer arrives has the replay started over behind its back.

**A stream reset lets a message into a transport** (`uart_interleave`, `NoMessageInterleaves`).
`dl_message_arbiter_contract.json:167` says that a transport keeps the stream across all its words.
`dl_message_arbiter.v:40` gives the lock up in the cycle of a stream reset, and a peer's Request
causes one in the middle of a transport. The end that asked for the reset runs out its own transport
with No-Ops; the end that answers does not, so its Response is counted as the next word of the
transport it abandoned (`uart_rx_path.py:115-120`). The reset then completes only through the
ten-millisecond retry, on a wire that lost nothing (`uart_peers`, `ResetCompletes`), and a Basic or Control
message that goes out first is lost. `test_uart_reset.py` resets both ends at once, where both run
out, and sees no retry.

**A late change of route delivers twice** (`kd_global_late_reroute`, `DeliveredOnce`).
`specs/kdlink/kdlink_requirements.md:288-289` (KDL-MD-005) promises that a soft reset of gateway or
route allows retransmission "without duplicate destination commit". The destination remembers an
identity for a grace period only, which duplicates do not extend
(`kdlink_global_commit_tracker.v:59`, `:118-123`); the source keeps a transaction for as long as it
is not completed and sends it again whenever the route changes
(`kdlink_global_transaction_source.v:147-151`). If the acknowledgements of a delivered transaction
are lost and the route changes after the grace period, it is delivered again. `kd_global` checks,
and `EveryTransactionOnce` proves, that it is not when the route changes in time.

**An acknowledgement is counted twice** (`kd_global_double_ack`, `CountAgrees`). The source compares
an acknowledgement with its table when it arrives (`kdlink_global_transaction_source.v:68`) and
applies the result one edge later: the completion pulses, the count goes down (lines 112-120) and the
slot is freed (lines 152-156). A second acknowledgement of the same identity in the next cycle still
matches, so there are two pulses and the count falls by two for one transaction; with one transaction
outstanding its five bits wrap to 31. The tracker answers every copy it takes and does so back to
back (`kdlink_global_commit_tracker.v:58`, `:86-87`); `tb_kdlink_global_recovery.sv:169-175` sends it
two copies in consecutive cycles, and keeps both acknowledgements from the source. The ports are
commented as "the current number of retained transactions" (`:27`) and "a one-shot completion pulse"
(`:23`). A change of route at the edge of a completion has the same effect on the count: the code
takes the reset first (lines 146-156), so the transaction is reported completed, stays in the table
and is sent again. Neither delivers anything twice, and the count goes wrong in no other way
([section 6](#the-count-of-outstanding-transactions)).

**A packet of one flit is lost after a duplicate** (`kd_link_single_flit`, `ExactlyOnce`). Whether a
packet is a duplicate is registered when its first flit is taken (`kdlink_rx_commit.v:337`), but when
that flit is also the last, the packet is dropped or kept, and acknowledged, in the same cycle
(lines 180-181, 217-223), by the flag of the packet before. A new packet right behind a repeated one
is dropped, acknowledged and released by the sender: lost without a report, against KDL-LINK-006 and
KDL-LINK-007 (`kdlink_requirements.md:85-91`). The stress bench sends a packet of sixteen flits there.

The following are not runs of their own; they are the reasons for assumptions of the models.

* `EnoughGrace` (`KDGlobalProofs`): the source accepts every timeout of 12 bits
  (`kdlink_global_transaction_source.v:81`) while the grace period is 4095 cycles or less, so the
  timer alone can send a transaction again after its entry has expired, with no change of route and
  nothing lost but acknowledgements. With one timeout as long as the grace period (25 cycles) and no
  change of route TLC finds a transaction delivered twice. Nothing in the documents relates the two; a bench
  joins a source with a grace of 32 cycles to a timeout of `12'hfff`
  (`tb_kdlink_route_context_reliable.sv:229-231`).
* `PromptConsumer` (`KDReliableLink`): the history that recognises duplicates is written when the
  consumer has taken the last flit (`kdlink_rx_commit.v:306-319`), but the packet is complete
  earlier. With two contexts and a consumer slower than a retry, a copy is gathered a second time
  and both are handed over. Only
  the run `kd_link` assumes that this does not happen; the theorems about the link do not.
* A replay may begin between two flits of a normal packet (`kdlink_reliable_endpoint.v:187-195`),
  against KDL-LINK-002 (`kdlink_requirements.md:63-66`). The receiver discards both and a NACK
  follows; it names the channel of the packet it names, with the running total of the intruding
  flit's channel (`kdlink_rx_commit.v:203-216`), against KDL-LINK-003 (lines 68-71). The bank drops
  such a total when the difference is implausible, and otherwise takes credits it should not have.
* For the same reason a channel can lose credits for good when an answer is lost as well. With 64
  credits and packets of at most 16 flits that takes many such losses, and later totals repair most
  of them; with as few credits as a packet has flits the link can stop. `Credits` is therefore one
  more than that in the run.

## 8. Not modelled

`PROJECT.json` lists every component with its sources. In short: bursts, endpoints, TL credits, the
Control exchange, KDLink's link manager and bonding, NoC and DMA are planned; bit-level
data paths (CRC, RS codec, parity, floating-point arrays, packing) have no interleavings for a model
checker to find; topology, performance and workload models are calculations; of a part that has both
a Python model and Verilog one is translated, not both, except where ports are wired (`UARTPort`) and
where the two differ in kind (`DLBasicControl`); switch, in-network compute, RAS, security and
management RTL have no reference model and are left aside. Invalid API arguments that the Python
rejects with `TypeError` before any state changes are left out throughout.

Inside the modelled parts:

* `DLMessagePeers`: a reset takes both ends and the wires; an end that is reset alone can take the
  answer to an earlier request for that to a later one, which the code leaves to the link's own
  reset. The arbiter's cancel of a transport is modelled in the UART modules instead, where its
  effect is; `o_block_messages` and illegal local requests are left out.
* `KDReliableLink`: one direction; reinitialisation by the link manager; the arbitration among the
  channels of normal traffic; the diagnostic outputs.
* `KDGlobalTransactions`: the Python counterpart (`multidomain.py`), which has neither pipeline nor
  table limit, is not modelled beside the RTL.
* `UARTPort`: the global reset, the enable inputs, the all-streams form of a Request.

## 9. Plan

Done: link-level retry, the receive FIFO, UPLI credits, UART, and the message arbiter with the Basic
exchange, each with proofs of the safety properties its runs check, except those named in
[section 6](#what-stays-with-tlc); KDLink global transactions with the proofs that none is lost, that
they are delivered once within the grace periods, and of what their count counts; KDLink link retry,
commit and credits with the proofs of what a link delivers to a consumer of any pace.

1. **TL credits** (`credit_ledger.py`, `credit_publish.py`, `credit_integration.py`,
   `tl_receive_credit.v`): a ledger against the peer's publisher over a reliable flit stream;
   conservation in every class, with the two pools that completion merges; no return is refused, no
   grant overflows, credits keep coming back because the lane pointer rotates; with whole-tenure
   admission (`tl_credit_admission.v`), two ends never wait for each other's credits mid-tenure.
2. **KDLink's link manager** (`kdlink_link_manager.v`): both ends of `KDReliableLink` cleared at
   different edges; no packet of an old epoch is accepted. Then **bonded ports** as a refinement of
   a FIFO.
3. **Endpoint tags** (`endpoint_read.py`, `endpoint_write.py`, `endpoint_transaction.py`): one
   completion per reservation, composed with a backend that answers in any order.
4. **UPLI bursts** on `UpliCreditLedger`, with TDM slots: a reservation is always honoured.
5. **DL Control**: the negotiation of two ends through the arbiter of `DLMessagePeers`.
6. **NPU**: NoC router and its clock-crossing FIFO; DMA tags; command gateway.

Proofs: of the arbiter's bound there is a step-by-step form without recursion to find. Composed
modules keep their parts in records and recursion out, so that each can be extended by a proof module.
