------------------------------ MODULE UARTPort ------------------------------
(***************************************************************************)
(* UARTPort (dl_uart_port.v, dl_uart_tx_path.v): the reset control, the    *)
(* transmit FIFO with its message source, and the receive path of one end, *)
(* joined as the port joins them.  The state is the record p:              *)
(*   ctl, src, rx   UARTResetControl, UARTTxSource, UARTRxPath             *)
(*   txq            the transmit FIFO, as one bounded queue (ReceiveFifo)  *)
(* The inputs of one edge are the record i; word, fw and sends are         *)
(* sequences of at most one element:                                       *)
(*   word              the DWORD that arrives                              *)
(*   local, timeout    a local reset request; the deadline of the wait     *)
(*   fw, load, ready   a firmware word to write; the FIFO hands a word to  *)
(*                     the source; firmware reads                          *)
(*   sends             the DWORD the arbiter sends of those on offer       *)
(* Which of the offered messages the round robin of dl_message_arbiter.v   *)
(* picks is left open, except that a transport it has begun keeps the wire.*)
(***************************************************************************)
EXTENDS UARTResetControl, UARTTxSource, UARTRxPath

CONSTANT TxDepth   \* words the transmit FIFO and the source hold together (128)

ASSUME TxDepthAssumption == TxDepth \in Nat \ {0}

PortReset == [ctl |-> CtlReset, src |-> SrcReset, txq |-> <<>>, rx |-> RxPathReset]

\* Reset messages are decoded at boundaries only, in and out of stream reset.
CtlInputs(p, i) ==
    [local_request |-> i.local, timeout |-> i.timeout,
     rx_request  |-> AtBoundary(p.rx, i.word, "request"),
     rx_response |-> AtBoundary(p.rx, i.word, "response")]

InReset(p, i) == StreamReset(p.ctl, CtlInputs(p, i))
Blocked(p, i) == BlockMessages(p.ctl, CtlInputs(p, i))

\* The arbiter is locked to the transport it has begun; a stream reset takes
\* the lock away in the same cycle.
Locked(p, i) == p.src.header_sent /\ ~InReset(p, i)

\* What the arbiter may send: the transport, the maintenance message, a credit
\* snapshot of a stream out of reset, or some Basic or Control message.
Offers(p, i) ==
    IF Locked(p, i) THEN {SrcWord(p.src)}
    ELSE {Message(k) : k \in {Maintenance(p.ctl, CtlInputs(p, i))} \ {"none"}}
         \cup (IF Active(p.rx, InReset(p, i)) /\ ~Blocked(p, i)
               THEN {Credit(p.rx.counter)} ELSE {})
         \cup (IF Blocked(p, i) THEN {} ELSE {Message("other")})
         \cup (IF SrcOffers(p.src) /\ ~InReset(p, i) THEN {SrcWord(p.src)} ELSE {})

Sends(i, kinds) == i.sends # <<>> /\ i.sends[1].kind \in kinds

\* Firmware may write while words not sent yet leave room; in stream reset the
\* word is accepted and dropped.
\* Variant: the words the source has staged are not counted.
TxRoomFifoOnly(p) == Len(p.txq) < TxDepth

TxRoom(p) == Len(p.txq) + Len(p.src.payload) < TxDepth
FwAccepts(p, i) == InReset(p, i) \/ TxRoom(p)

\* The word the FIFO hands over, when the source asks for one.
Loaded(p, i) ==
    IF i.load /\ SrcLoads(p.src) /\ p.txq # <<>> THEN <<Head(p.txq)>> ELSE <<>>

TxAfter(p, i) ==
    IF InReset(p, i) THEN <<>>
    ELSE (IF Loaded(p, i) = <<>> THEN p.txq ELSE Tail(p.txq))
         \o (IF TxRoom(p) THEN i.fw ELSE <<>>)

SrcAfter(p, i) ==
    IF InReset(p, i) THEN SrcReset
    ELSE SrcEdge(p.src, Len(p.txq), Loaded(p, i),
                 CreditIn(p.rx, i.word, InReset(p, i)),
                 Sends(i, {"header", "payload"}))

PortEdge(p, i) ==
    [ctl |-> CtlEdge(p.ctl, CtlInputs(p, i), Sends(i, {"noop", "request", "response"})),
     src |-> SrcAfter(p, i),
     txq |-> TxAfter(p, i),
     rx  |-> RxEdge(p.rx, i.word, InReset(p, i), i.ready)]
=============================================================================
