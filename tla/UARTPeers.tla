----------------------------- MODULE UARTPeers ------------------------------
(***************************************************************************)
(* Two UART ports and the ordered message wires between them.  CRC and     *)
(* replay lie below: a DWORD is neither lost, repeated nor reordered, only *)
(* delayed.  Each end has its own clock; an edge takes at most one DWORD   *)
(* off its wire and puts at most one on the peer's.  Firmware numbers the  *)
(* words it writes.  A reset Request is repeated only once its exchange    *)
(* can no longer be under way: the deadline of 10 ms outlasts it.          *)
(***************************************************************************)
EXTENDS UARTPort, FiniteSets

CONSTANTS
    End,         \* the two ends
    Words,       \* words the firmware of an end writes, a function on End
    Resets,      \* resets an end asks for, a function on End
    WireDepth    \* DWORDs under way to an end at most

ASSUME PeersAssumption ==
    /\ Words \in [End -> Nat]
    /\ Resets \in [End -> Nat]
    /\ WireDepth \in Nat \ {0}
    /\ \A e \in End : \E f \in End \ {e} : End = {e, f}

VARIABLES
    port,      \* End -> PortReset and its successors
    wire,      \* DWORDs under way to an end, the oldest first
    written,   \* words the firmware of an end has written so far
    read,      \* the last word of the peer's stream the firmware of an end has read
    resets     \* resets an end has asked for

vars == <<port, wire, written, read, resets>>

Peer(e) == CHOOSE f \in End : f # e

Init ==
    /\ port = [e \in End |-> PortReset]
    /\ wire = [e \in End |-> <<>>]
    /\ written = [e \in End |-> 0]
    /\ read = [e \in End |-> 0]
    /\ resets = [e \in End |-> 0]

OnWire(e, kind) == \E n \in DOMAIN wire[e] : wire[e][n].kind = kind

Copies(w, kind) == Cardinality({n \in DOMAIN w : w[n].kind = kind})

\* The Request of e, its pending Response or that Response is under way.
ExchangeUnderWay(e) ==
    \/ OnWire(Peer(e), "request")
    \/ port[Peer(e)].ctl.responses > 0
    \/ OnWire(e, "response")

\* The DWORD about to arrive at e, as a sequence of at most one.
Arriving(e) == IF wire[e] = <<>> THEN <<>> ELSE <<Head(wire[e])>>

Optional(S) == {<<>>} \cup {<<x>> : x \in S}

Possibly(condition) == IF condition THEN BOOLEAN ELSE {FALSE}

\* The inputs an edge of e may see, but for what it sends.
Inputs(e) ==
    {i \in [word    : {<<>>, Arriving(e)},
            local   : Possibly(resets[e] < Resets[e]),
            timeout : Possibly(port[e].ctl.phase = "wait" /\ ~ExchangeUnderWay(e)),
            fw      : Optional(IF written[e] < Words[e] THEN {written[e] + 1} ELSE {}),
            load    : Possibly(SrcLoads(port[e].src)),
            ready   : Possibly(port[e].rx.fifo # <<>>),
            sends   : {<<>>}] :
        i.fw # <<>> => FwAccepts(port[e], i)}

\* One clock edge of e.
Step(e, i) ==
    LET reads == Reads(port[e].rx, InReset(port[e], i), i.ready)
                 /\ Head(port[e].rx.fifo).kind = "payload" IN
    /\ port' = [port EXCEPT ![e] = PortEdge(@, i)]
    /\ wire' = [wire EXCEPT ![e] = IF i.word = <<>> THEN @ ELSE Tail(@),
                            ![Peer(e)] = @ \o i.sends]
    /\ written' = [written EXCEPT ![e] = @ + Len(i.fw)]
    /\ read' = [read EXCEPT ![e] = IF reads THEN Head(port[e].rx.fifo).value ELSE @]
    /\ resets' = [resets EXCEPT ![e] = @ + (IF i.local THEN 1 ELSE 0)]

\* An edge without a service opportunity, and one on which the arbiter sends.
Waits(e) == \E i \in Inputs(e) : Step(e, i)

ServesKind(e, kinds) ==
    /\ Len(wire[Peer(e)]) < WireDepth
    /\ \E i \in Inputs(e) : \E d \in Offers(port[e], i) :
            d.kind \in kinds /\ Step(e, [i EXCEPT !.sends = <<d>>])

Kinds == {"noop", "request", "response", "header", "payload", "credit", "other"}

Serves(e) == ServesKind(e, Kinds)

Next == \E e \in End : Waits(e) \/ Serves(e)

Spec == Init /\ [][Next]_vars

\* An edge that takes what has arrived, on which the FIFO hands over what the
\* source asks for and firmware reads; and one that reaches the deadline.
Runs(e) ==
    \E i \in Inputs(e) :
        /\ i.word = Arriving(e)
        /\ i.load = SrcLoads(port[e].src)
        /\ i.ready = (port[e].rx.fifo # <<>>)
        /\ Step(e, i)
Expiry(e) == \E i \in Inputs(e) : i.timeout /\ Step(e, i)

\* The clocks run, wires deliver and deadlines come; the round robin of the
\* arbiter gets to every kind of message, and the credit scheduler, which is
\* outside this port, announces the count again and again.
FairSpec ==
    /\ Spec
    /\ \A e \in End :
        /\ WF_vars(Runs(e))
        /\ WF_vars(Expiry(e))
        /\ SF_vars(ServesKind(e, {"noop", "request", "response"}))
        /\ SF_vars(ServesKind(e, {"header", "payload"}))
        /\ SF_vars(ServesKind(e, {"credit"}))
-----------------------------------------------------------------------------
\* The bounds of both ends: the reset control's counters (uart_reset_control.py),
\* the transmit words the FIFO and the source hold together (dl_uart_tx_path.v:53-55),
\* the reservation of a message (uart_tx_source.py:79-85) and the receive FIFO.
TypeOK ==
    /\ \A e \in End :
        /\ port[e].ctl \in CtlState
        /\ Len(port[e].txq) + Len(port[e].src.payload) <= TxDepth
        /\ port[e].src.to_load + Len(port[e].src.payload) <= port[e].src.reserved
        /\ Len(port[e].rx.fifo) <= RxDepth
        /\ Len(wire[e]) <= WireDepth
    /\ written \in [End -> Nat]
    /\ read \in [End -> Nat]

\* Nothing of a reset is in progress at either end.
Quiet ==
    /\ \A e \in End : /\ port[e].ctl.phase = "normal"
                      /\ port[e].ctl.responses = 0
                      /\ port[e].rx.initialized
                      /\ ~OnWire(e, "request")
                      /\ ~OnWire(e, "response")

\* What firmware can read (uart_rx_path.py:82) is its peer's payload in the order written, without
\* a gap inside the FIFO.  The one exception are No-Ops of the run-out, taken
\* for the rest of the transport it cuts short: they are there only as long as
\* the Request that flushes them is still to come.
PeerInRunOut(e) ==
    port[Peer(e)].ctl.phase \in {"noops", "request"} \/ OnWire(e, "request")

OnlyPayloadStored ==
    \A e \in End :
        LET q == port[e].rx.fifo IN
        \A n \in DOMAIN q :
            \/ /\ q[n].kind = "payload"
               /\ q[n].value > read[e]
               /\ n > 1 => q[n - 1] = Payload(q[n].value - 1)
            \/ q[n].kind = "noop" /\ PeerInRunOut(e)

\* The credits promise storage (uart_rx_path.py:68-80): a transport that arrives in operation fits, and
\* every word of it is stored (RxError never holds).
CreditsAreStorage ==
    \A e \in End :
        port[e].ctl.phase = "normal" /\ port[e].ctl.responses = 0 =>
            ~RxError(port[e].rx, Arriving(e), FALSE)

\* Payload words sent by e in the present message.
SentOfMessage(e) == LET s == port[e].src IN
    IF s.header_sent THEN s.reserved - Len(s.payload) ELSE 0

PayloadOnWire(e) == Copies(wire[e], "payload")

\* Credit conservation (uart_tx_source.py:79 against uart_rx_path.py:84): outside a reset, what e has sent is what its peer has
\* read, holds, or is still to receive, all modulo the counters' width.
CreditsConserved ==
    Quiet => \A e \in End :
        (port[e].src.tx_counter + SentOfMessage(e)) % Modulus =
        (port[Peer(e)].rx.counter - RxDepth + Len(port[Peer(e)].rx.fifo)
            + PayloadOnWire(Peer(e))) % Modulus

\* The framing of both ends agrees across resets (uart_rx_path.py:115-122).  A payload word is never
\* decoded as a message, and a header or a reset Request never taken for
\* payload: the run-out flushes whatever transport its sender has abandoned.
FramingAgrees ==
    \A e \in End : wire[e] # <<>> =>
        /\ wire[e][1].kind = "payload" => port[e].rx.remaining > 0
        /\ wire[e][1].kind \in {"header", "request"} => port[e].rx.remaining = 0

\* A Response carries no tag (uart_reset_control.py), so an end that waits takes any for its own: at
\* most one exchange of an end is under way, only while it waits, and the Request always
\* finds room in the peer's response queue.
ResponseAnswersRequest ==
    \A e \in End :
        LET under_way == Copies(wire[Peer(e)], "request") + port[Peer(e)].ctl.responses
                         + Copies(wire[e], "response") IN
        /\ under_way <= (IF port[e].ctl.phase = "wait" THEN 1 ELSE 0)
        /\ ~port[e].ctl.fault

\* dl_message_arbiter_contract.json:167 - "UART transport retains ownership
\* across all remaining words [...].  No other UART, Basic or Control message
\* may interleave."  Whatever message arrives, the receiver is at a boundary;
\* only the No-Ops of a run-out are meant to be taken for payload.
NoMessageInterleaves ==
    \A e \in End :
        wire[e] # <<>> /\ wire[e][1].kind \notin {"payload", "noop"} =>
            port[e].rx.remaining = 0

\* A stream reset ends (uart_reset_control.py, uart_reset.py): again and again no
\* end is in one, by way of retries if need be, and no Response stays unsent.
ResetCompletes ==
    []<>(\A e \in End : port[e].ctl.phase = "normal" /\ port[e].ctl.responses = 0)

\* Words in the transmit FIFO leave it (uart_tx_source.py:82-98): sent, or
\* flushed by a reset.
StagedWordsLeave == []<>(\A e \in End : port[e].txq = <<>>)
=============================================================================
