---------------------------- MODULE UARTTxSource ----------------------------
(***************************************************************************)
(* UARTTxSource (uart_tx_source.py): it reserves the credits of one whole  *)
(* message, stages its payload, and only then offers it to the arbiter,    *)
(* word by word.  The state is the record s:                               *)
(*   reserved     payload words of the present message, 0 when idle        *)
(*   to_load      of those, still to be taken from the transmit FIFO       *)
(*   payload      staged words not sent yet                                *)
(*   header_sent  the arbiter has started the message and is locked to it  *)
(*   tx_counter   payload words of completed messages, modulo Modulus      *)
(*   latest_fc    the last credit update, an absolute count                *)
(***************************************************************************)
EXTENDS UARTStream

SrcReset ==
    [reserved |-> 0, to_load |-> 0, payload |-> <<>>, header_sent |-> FALSE,
     tx_counter |-> 0, latest_fc |-> 0]

Lesser(a, b) == IF a < b THEN a ELSE b

\* Credits left; those of the message being sent are not counted yet.
Available(s) == (s.latest_fc - s.tx_counter) % Modulus

\* Variant: the reservation forgets the credits.
ReservationAnyCredit(s, fill) == Lesser(fill, MaxPayload)

Reservation(s, fill) == Lesser(Lesser(fill, Available(s)), MaxPayload)

\* A message is offered once it is staged completely.
SrcOffers(s) == s.reserved > 0 /\ s.to_load = 0
SrcWord(s)   == IF s.header_sent THEN Payload(Head(s.payload)) ELSE Header(s.reserved)
SrcLoads(s)  == s.to_load > 0

\* The last payload word charges the whole message.
Completed(s) == [s EXCEPT !.payload = <<>>, !.reserved = 0, !.header_sent = FALSE,
                          !.tx_counter = (@ + s.reserved) % Modulus]

\* One edge: fill is what the FIFO holds, load what it hands over (a sequence
\* of at most one word), take whether the arbiter sends the offered word.
SrcMoved(s, fill, load, take) ==
    IF s.reserved = 0
    THEN [s EXCEPT !.reserved = Reservation(s, fill), !.to_load = Reservation(s, fill)]
    ELSE IF SrcLoads(s)
    THEN [s EXCEPT !.payload = @ \o load, !.to_load = @ - Len(load)]
    ELSE IF ~take THEN s
    ELSE IF ~s.header_sent THEN [s EXCEPT !.header_sent = TRUE]
    ELSE IF Len(s.payload) = 1 THEN Completed(s)
    ELSE [s EXCEPT !.payload = Tail(@)]

\* credit is a sequence of at most one new absolute credit count.
SrcEdge(s, fill, load, credit, take) ==
    [SrcMoved(s, fill, load, take) EXCEPT
        !.latest_fc = IF credit = <<>> THEN @ ELSE credit[1]]
=============================================================================
