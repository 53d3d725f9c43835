-------------------------- MODULE UARTPeersProofs ---------------------------
(***************************************************************************)
(* What two UART ports keep, whatever the lengths of FIFOs, wires and      *)
(* transports and however often either end resets.  PeersInv is inductive: *)
(* it says the same of both directions of the stream.  Of one direction    *)
(* (Direction) it says how the receiver will parse each DWORD on the wire  *)
(* and how many it will take for payload (WireOK), that what it expects    *)
(* beyond that is owed by the sender or flushed by the run-out (Excess),   *)
(* where No-Ops can be (RunOutPlace), which exchange is under way          *)
(* (Exchange), that credits given, used and under way add up (Conserved),  *)
(* that each has its place in the FIFO (Reserved), and that the payload    *)
(* is numbered as the firmware of the sender wrote it (Numbers).           *)
(***************************************************************************)
EXTENDS UARTPeers, FiniteSetTheorems, SequenceTheorems, WellFoundedInduction, TLAPS
-----------------------------------------------------------------------------
(* Arithmetic modulo the width of a counter. *)

\* An integer is a multiple of the modulus and a residue.
LEMMA ModSplit ==
    ASSUME NEW m \in Nat \ {0}, NEW a \in Int
    PROVE  /\ a % m \in 0 .. (m - 1)
           /\ \E k \in Int : a = m * k + (a % m)
<1>1. a % m \in 0 .. (m - 1)
    OBVIOUS
<1>2. a = m * (a \div m) + (a % m) /\ a \div m \in Int
    OBVIOUS
<1> QED BY <1>1, <1>2

\* A residue is found from any multiple of the modulus.
LEMMA ModUnique ==
    ASSUME NEW m \in Nat \ {0}, NEW k \in Int, NEW r \in 0 .. (m - 1)
    PROVE  (m * k + r) % m = r
OBVIOUS

\* A small step does not leave the residue's range.
LEMMA ModMove ==
    ASSUME NEW m \in Nat \ {0}, NEW a \in Int, NEW d \in Int,
           (a % m) + d \in 0 .. (m - 1)
    PROVE  (a + d) % m = (a % m) + d
<1> DEFINE r == a % m
<1>1. PICK k \in Int : a = m * k + r
    BY ModSplit
<1>2. r \in 0 .. (m - 1) /\ r + d \in 0 .. (m - 1)
    BY ModSplit
<1>3. (m * k + (r + d)) % m = r + d
    BY <1>2, ModUnique
<1> HIDE DEF r
<1>4. a + d = m * k + (r + d)
    <2>1. m * k \in Int
        OBVIOUS
    <2> QED BY <1>1, <1>2, <2>1
<1>5. (a + d) % m = r + d
    BY <1>3, <1>4
<1> QED BY <1>5 DEF r

\* Reducing one operand of a difference does not change its residue.
LEMMA ModShift ==
    ASSUME NEW m \in Nat \ {0}, NEW a \in Int, NEW b \in Int
    PROVE  /\ (a - (b % m)) % m = (a - b) % m
           /\ ((a % m) - b) % m = (a - b) % m
<1> DEFINE s == (a - b) % m
<1>1. a - b \in Int
    OBVIOUS
<1>2. PICK j \in Int : a - b = m * j + s
    BY <1>1, ModSplit
<1>3. s \in 0 .. (m - 1)
    BY <1>1, ModSplit
<1>4. (a - (b % m)) % m = s
    <2> DEFINE r == b % m
    <2>1. PICK k \in Int : b = m * k + r
        BY ModSplit
    <2>2. r \in 0 .. (m - 1)
        BY ModSplit
    <2>3. (m * (j + k) + s) % m = s
        BY <1>3, ModUnique
    <2>4. m * (j + k) = m * j + m * k /\ m * j \in Int /\ m * k \in Int
        OBVIOUS
    <2> HIDE DEF r, s
    <2>5. a - r = m * (j + k) + s
        BY <1>2, <1>3, <2>1, <2>2, <2>4
    <2>6. (a - r) % m = s
        BY <2>3, <2>5
    <2> QED BY <2>6 DEF r
<1>5. ((a % m) - b) % m = s
    <2> DEFINE r == a % m
    <2>1. PICK k \in Int : a = m * k + r
        BY ModSplit
    <2>2. r \in 0 .. (m - 1)
        BY ModSplit
    <2>3. (m * (j - k) + s) % m = s
        BY <1>3, ModUnique
    <2>4. m * (j - k) = m * j - m * k /\ m * j \in Int /\ m * k \in Int
        OBVIOUS
    <2> HIDE DEF r, s
    <2>5. r - b = m * (j - k) + s
        BY <1>2, <1>3, <2>1, <2>2, <2>4
    <2>6. (r - b) % m = s
        BY <2>3, <2>5
    <2> QED BY <2>6 DEF r
<1> HIDE DEF s
<1>6. (a - b) % m = s
    BY DEF s
<1> QED BY <1>4, <1>5, <1>6
-----------------------------------------------------------------------------
(* Sequences. *)

\* Taking the head of the first of two sequences joined.
LEMMA TailConcat ==
    ASSUME NEW S, NEW s \in Seq(S), NEW t \in Seq(S), s # <<>>
    PROVE  /\ s \o t # <<>>
           /\ Tail(s \o t) = Tail(s) \o t
<1>1. /\ Len(s) \in Nat \ {0} /\ Len(t) \in Nat
      /\ Tail(s) \in Seq(S) /\ Len(Tail(s)) = Len(s) - 1
      /\ \A i \in 1 .. Len(Tail(s)) : Tail(s)[i] = s[i + 1]
    BY EmptySeq, LenProperties, HeadTailProperties
<1>2. /\ s \o t \in Seq(S) /\ Len(s \o t) = Len(s) + Len(t)
      /\ \A i \in 1 .. Len(s) + Len(t) :
            (s \o t)[i] = IF i <= Len(s) THEN s[i] ELSE t[i - Len(s)]
    BY ConcatProperties
<1>3. s \o t # <<>>
    BY ConcatEqualIffEmpty
<1>4. /\ Tail(s \o t) \in Seq(S) /\ Len(Tail(s \o t)) = Len(s) + Len(t) - 1
      /\ \A i \in 1 .. Len(Tail(s \o t)) : Tail(s \o t)[i] = (s \o t)[i + 1]
    BY <1>2, <1>3, HeadTailProperties
<1>5. /\ Tail(s) \o t \in Seq(S) /\ Len(Tail(s) \o t) = Len(s) - 1 + Len(t)
      /\ \A i \in 1 .. Len(s) - 1 + Len(t) : (Tail(s) \o t)[i] =
            IF i <= Len(s) - 1 THEN Tail(s)[i] ELSE t[i - (Len(s) - 1)]
    BY <1>1, ConcatProperties
<1>6. ASSUME NEW i \in 1 .. Len(Tail(s \o t))
      PROVE  Tail(s \o t)[i] = (Tail(s) \o t)[i]
    <2> DEFINE n == Len(s)
               m == Len(t)
    <2>1. n \in Nat \ {0} /\ m \in Nat /\ i \in 1 .. n + m - 1
        BY <1>1, <1>4
    <2>2. i + 1 \in 1 .. n + m /\ i \in 1 .. n - 1 + m
        BY <2>1
    <2>3. Tail(s \o t)[i] = IF i + 1 <= n THEN s[i + 1] ELSE t[i + 1 - n]
        BY <1>2, <1>4, <2>2
    <2>4. (Tail(s) \o t)[i] = IF i <= n - 1 THEN Tail(s)[i] ELSE t[i - (n - 1)]
        BY <1>5, <2>2
    <2>5. CASE i <= n - 1
        <3>1. Tail(s)[i] = s[i + 1]
            BY <1>1, <2>1, <2>5
        <3> QED BY <2>1, <2>3, <2>4, <2>5, <3>1
    <2>6. CASE ~(i <= n - 1)
        <3>1. ~(i + 1 <= n) /\ i + 1 - n = i - (n - 1)
            BY <2>1, <2>6
        <3> QED BY <2>3, <2>4, <2>6, <3>1
    <2> QED BY <2>5, <2>6
<1>7. Len(Tail(s \o t)) = Len(Tail(s) \o t)
    BY <1>1, <1>4, <1>5
<1> QED BY <1>3, <1>4, <1>5, <1>7, SeqEqual

\* A sequence is its head and its tail joined.
LEMMA HeadTailConcat ==
    ASSUME NEW S, NEW s \in Seq(S), s # <<>>
    PROVE  <<Head(s)>> \o Tail(s) = s
<1>1. /\ Len(s) \in Nat \ {0} /\ Head(s) = s[1] /\ Head(s) \in S
      /\ Tail(s) \in Seq(S) /\ Len(Tail(s)) = Len(s) - 1
      /\ \A i \in 1 .. Len(Tail(s)) : Tail(s)[i] = s[i + 1]
    BY EmptySeq, HeadTailProperties
<1>2. <<Head(s)>> \in Seq(S) /\ Len(<<Head(s)>>) = 1 /\ <<Head(s)>>[1] = s[1]
    BY <1>1
<1>3. /\ <<Head(s)>> \o Tail(s) \in Seq(S)
      /\ Len(<<Head(s)>> \o Tail(s)) = Len(s)
      /\ \A i \in 1 .. Len(s) : (<<Head(s)>> \o Tail(s))[i] =
            IF i <= 1 THEN <<Head(s)>>[i] ELSE Tail(s)[i - 1]
    <2>1. 1 + (Len(s) - 1) = Len(s)
        BY <1>1
    <2> QED BY <1>1, <1>2, <2>1, ConcatProperties
<1>4. ASSUME NEW i \in 1 .. Len(s)
      PROVE  (<<Head(s)>> \o Tail(s))[i] = s[i]
    <2>1. CASE i = 1
        BY <1>2, <1>3, <2>1
    <2>2. CASE i # 1
        <3>1. ~(i <= 1) /\ i - 1 \in 1 .. Len(s) - 1 /\ i - 1 + 1 = i
            BY <1>1, <2>2
        <3>2. Tail(s)[i - 1] = s[i]
            BY <1>1, <3>1
        <3> QED BY <1>3, <3>1, <3>2
    <2> QED BY <2>1, <2>2
<1> QED BY <1>3, <1>4, SeqEqual

\* Joining sequences is associative.
LEMMA Reassociate ==
    ASSUME NEW s \in Seq(Nat), NEW t \in Seq(Nat), NEW r \in Seq(Nat)
    PROVE  s \o (t \o r) = (s \o t) \o r
BY ConcatAssociative
-----------------------------------------------------------------------------
(* One port. *)

Dwords == [kind : Kinds, value : Nat]

SrcOK(s) ==
    /\ s \in [reserved : 0 .. MaxPayload, to_load : 0 .. MaxPayload, payload : Seq(Nat),
              header_sent : BOOLEAN, tx_counter : Nat, latest_fc : Nat]
    /\ IF s.header_sent THEN s.to_load = 0 /\ Len(s.payload) \in 1 .. s.reserved
       ELSE s.to_load + Len(s.payload) = s.reserved

RxOK(r) ==
    /\ r \in [remaining : 0 .. MaxPayload, discard : BOOLEAN, initialized : BOOLEAN,
              fifo : Seq(Dwords), counter : Nat]
    /\ Len(r.fifo) <= RxDepth
    /\ r.remaining = 0 => ~r.discard
    /\ r.discard => r.fifo = <<>>
    /\ ~r.initialized => r.fifo = <<>> /\ r.counter = 0

CtlOK(c) ==
    /\ c \in CtlState
    /\ ~c.fault
    /\ c.phase = "noops" <=> c.noops > 0

\* What a port holds; as long as a reset is in progress, nothing of a stream.
PortOK(p) ==
    /\ CtlOK(p.ctl)
    /\ SrcOK(p.src)
    /\ p.txq \in Seq(Nat)
    /\ Len(p.txq) + Len(p.src.payload) <= TxDepth
    /\ RxOK(p.rx)
    /\ p.ctl.phase # "normal" \/ p.ctl.responses > 0 =>
          p.src = SrcReset /\ p.txq = <<>> /\ ~p.rx.initialized

\* The inputs of an edge: w is the wire to this end, wr what its firmware has
\* written so far.
EdgeInput(p, w, wr, i) ==
    /\ i.word = <<>> \/ (w # <<>> /\ i.word = <<Head(w)>>)
    /\ {i.local, i.timeout, i.load, i.ready} \subseteq BOOLEAN
    /\ i.fw = <<>> \/ (i.fw = <<wr + 1>> /\ FwAccepts(p, i))
    /\ i.sends = <<>> \/ \E d \in Offers(p, i) : i.sends = <<d>>

\* The events of an edge.
Request(p, i)  == AtBoundary(p.rx, i.word, "request")
Response(p, i) == AtBoundary(p.rx, i.word, "response")
Start(p, i)    == i.local /\ p.ctl.phase = "normal"
Expire(p, i)   == p.ctl.phase = "wait" /\ i.timeout /\ ~Response(p, i)

SentKind(i, kind) == i.sends # <<>> /\ i.sends[1].kind = kind

\* What the arbiter can send, and when.
SendCase(p, i, d) ==
    \/ d = Message("noop") /\ p.ctl.phase = "noops"
    \/ d = Message("request") /\ p.ctl.phase = "request"
    \/ /\ d = Message("response") /\ p.ctl.responses > 0
       /\ p.ctl.phase \in {"normal", "wait"} /\ ~Start(p, i) /\ ~Expire(p, i)
    \/ /\ d = Message("other")
       /\ p.ctl.phase \in {"normal", "wait"} /\ ~Start(p, i) /\ ~Expire(p, i)
       /\ p.src.header_sent => InReset(p, i)
    \/ /\ d = Credit(p.rx.counter) /\ p.rx.initialized
       /\ ~InReset(p, i) /\ ~p.src.header_sent
    \/ /\ d = Header(p.src.reserved) /\ p.src.reserved > 0 /\ p.src.to_load = 0
       /\ ~InReset(p, i) /\ ~p.src.header_sent
    \/ d = Payload(Head(p.src.payload)) /\ p.src.header_sent /\ ~InReset(p, i)

\* What an edge does to the reset control.
CtlMove(p, c, i) ==
    \/ Start(p, i) /\ c.phase = "noops" /\ c.noops = RunOut /\ i.sends = <<>>
    \/ Expire(p, i) /\ c.phase = "noops" /\ c.noops = RunOut /\ i.sends = <<>>
    \/ /\ p.ctl.phase = "noops" /\ i.sends = <<Message("noop")>>
       /\ c.noops = p.ctl.noops - 1
       /\ c.phase = IF p.ctl.noops = 1 THEN "request" ELSE "noops"
    \/ /\ p.ctl.phase = "request" /\ i.sends = <<Message("request")>>
       /\ c.phase = "wait" /\ c.noops = 0
    \/ p.ctl.phase = "wait" /\ Response(p, i) /\ c.phase = "normal" /\ c.noops = 0
    \/ /\ c.phase = p.ctl.phase /\ c.noops = p.ctl.noops /\ ~Start(p, i) /\ ~Expire(p, i)
       /\ c.phase = "wait" => ~Response(p, i)
       /\ c.phase \in {"noops", "request"} => i.sends = <<>>

\* The parts of a port after an edge (dl_uart_port.v).
LEMMA PortFields ==
    ASSUME NEW p, NEW i
    PROVE  /\ PortEdge(p, i).ctl =
                CtlEdge(p.ctl, CtlInputs(p, i), Sends(i, {"noop", "request", "response"}))
           /\ PortEdge(p, i).src = SrcAfter(p, i)
           /\ PortEdge(p, i).txq = TxAfter(p, i)
           /\ PortEdge(p, i).rx = RxEdge(p.rx, i.word, InReset(p, i), i.ready)
BY DEF PortEdge

\* A stream is in reset from a local or a remote Request to the Response.
LEMMA ResetMeans ==
    ASSUME NEW p, NEW i, CtlOK(p.ctl)
    PROVE  InReset(p, i) <=>
              Start(p, i) \/ Request(p, i) \/ p.ctl.phase # "normal" \/ p.ctl.responses > 0
BY DEF InReset, StreamReset, CtlInputs, Starts, Start, Request, CtlOK

\* Other messages wait as long as No-Ops and the Request are to be sent.
LEMMA BlockedMeans ==
    ASSUME NEW p, NEW i, CtlOK(p.ctl)
    PROVE  Blocked(p, i) <=>
              Start(p, i) \/ Expire(p, i) \/ p.ctl.phase \in {"noops", "request"}
BY DEF Blocked, BlockMessages, CtlInputs, Starts, Expires, Start, Expire, Response, CtlOK

\* The maintenance message that uart_reset_control.py offers.
LEMMA MaintenanceMeans ==
    ASSUME NEW p, NEW i, CtlOK(p.ctl)
    PROVE  LET m == Maintenance(p.ctl, CtlInputs(p, i)) IN
           \/ m = "none"
           \/ m = "noop" /\ p.ctl.phase = "noops"
           \/ m = "request" /\ p.ctl.phase = "request"
           \/ /\ m = "response" /\ p.ctl.responses > 0
              /\ p.ctl.phase \in {"normal", "wait"} /\ ~Start(p, i) /\ ~Expire(p, i)
BY DEF Maintenance, CtlInputs, Starts, Expires, Start, Expire, Response, CtlOK, CtlState

\* Each DWORD on offer to the arbiter, and when it is.
LEMMA OffersAre ==
    ASSUME NEW p, NEW i, PortOK(p), NEW d \in Offers(p, i)
    PROVE  SendCase(p, i, d) /\ d \in Dwords
<1>1. /\ CtlOK(p.ctl) /\ SrcOK(p.src) /\ RxOK(p.rx)
    BY DEF PortOK
<1>2. CASE Locked(p, i)
    <2>1. d = Payload(Head(p.src.payload)) /\ p.src.header_sent /\ ~InReset(p, i)
        BY <1>2 DEF Offers, Locked, SrcWord
    <2>2. Head(p.src.payload) \in Nat
        <3>1. p.src.payload \in Seq(Nat) /\ p.src.payload # <<>>
            BY <1>1, <2>1, EmptySeq DEF SrcOK
        <3> QED BY <3>1, HeadTailProperties
    <2> QED BY <2>1, <2>2 DEF SendCase, Dwords, Kinds, Payload
<1>3. CASE ~Locked(p, i)
    <2>1. p.src.header_sent => InReset(p, i)
        BY <1>3 DEF Locked
    <2>2. \/ /\ Maintenance(p.ctl, CtlInputs(p, i)) # "none"
             /\ d = Message(Maintenance(p.ctl, CtlInputs(p, i)))
          \/ Active(p.rx, InReset(p, i)) /\ ~Blocked(p, i) /\ d = Credit(p.rx.counter)
          \/ ~Blocked(p, i) /\ d = Message("other")
          \/ SrcOffers(p.src) /\ ~InReset(p, i) /\ d = SrcWord(p.src)
        BY <1>3 DEF Offers
    <2>3. CASE /\ Maintenance(p.ctl, CtlInputs(p, i)) # "none"
               /\ d = Message(Maintenance(p.ctl, CtlInputs(p, i)))
        BY <1>1, <2>3, MaintenanceMeans DEF SendCase, Dwords, Kinds, Message
    <2>4. CASE Active(p.rx, InReset(p, i)) /\ ~Blocked(p, i) /\ d = Credit(p.rx.counter)
        BY <1>1, <2>1, <2>4 DEF SendCase, Dwords, Kinds, Credit, Active, RxOK
    <2>5. CASE ~Blocked(p, i) /\ d = Message("other")
        BY <1>1, <2>1, <2>5, BlockedMeans
           DEF SendCase, Dwords, Kinds, Message, CtlOK, CtlState
    <2>6. CASE SrcOffers(p.src) /\ ~InReset(p, i) /\ d = SrcWord(p.src)
        BY <1>1, <2>1, <2>6 DEF SendCase, Dwords, Kinds, Header, SrcOffers, SrcWord, SrcOK
    <2> QED BY <2>2, <2>3, <2>4, <2>5, <2>6
<1> QED BY <1>2, <1>3

\* Nothing is on offer while a run-out starts.
LEMMA StartSendsNothing ==
    ASSUME NEW p, NEW i, PortOK(p), Start(p, i) \/ Expire(p, i)
    PROVE  Offers(p, i) = {}
<1>1. CtlOK(p.ctl)
    BY DEF PortOK
<1>2. InReset(p, i) /\ Blocked(p, i)
    BY <1>1, ResetMeans, BlockedMeans DEF Expire
<1>3. Maintenance(p.ctl, CtlInputs(p, i)) = "none"
    BY <1>1 DEF Maintenance, CtlInputs, Starts, Expires, Start, Expire, Response, CtlOK
<1> QED BY <1>2, <1>3 DEF Offers, Locked

\* What an edge sends was on offer.
LEMMA SendsAre ==
    ASSUME NEW p, NEW i, NEW w, NEW wr, PortOK(p), EdgeInput(p, w, wr, i), i.sends # <<>>
    PROVE  \E d \in Dwords : i.sends = <<d>> /\ SendCase(p, i, d)
BY OffersAre DEF EdgeInput

\* The reset control's share of an edge.
LEMMA CtlFacts ==
    ASSUME NEW p, NEW i, NEW w, NEW wr, PortOK(p), EdgeInput(p, w, wr, i),
           Request(p, i) => p.ctl.responses = 0
    PROVE  /\ CtlOK(PortEdge(p, i).ctl)
           /\ CtlMove(p, PortEdge(p, i).ctl, i)
           /\ PortEdge(p, i).ctl.responses =
                 p.ctl.responses + (IF Request(p, i) THEN 1 ELSE 0)
                                 - (IF SentKind(i, "response") THEN 1 ELSE 0)
<1> DEFINE c == p.ctl
           in == CtlInputs(p, i)
           take == Sends(i, {"noop", "request", "response"})
           c1 == CtlEdge(c, in, take)
<1>1. PortEdge(p, i).ctl = c1
    BY PortFields
<1>2. /\ c \in CtlState /\ ~c.fault
      /\ c.phase = "noops" <=> c.noops > 0
    BY DEF PortOK, CtlOK
<1>3. /\ in.local_request = i.local /\ in.timeout = i.timeout
      /\ in.rx_request = Request(p, i) /\ in.rx_response = Response(p, i)
    BY DEF CtlInputs, Request, Response
<1>4. /\ Starts(c, in) <=> Start(p, i)
      /\ Expires(c, in) <=> Expire(p, i)
      /\ Succeeds(c, in) <=> c.phase = "wait" /\ Response(p, i)
    BY <1>2, <1>3 DEF Starts, Expires, Succeeds, Start, Expire
<1>5. c1 = [phase     |-> PhaseAfter(c, in, take),
            noops     |-> IF take /\ Maintenance(c, in) = "noop"
                          THEN c.noops - 1 ELSE RunOutFrom(c, in),
            responses |-> c.responses + (IF in.rx_request THEN 1 ELSE 0)
                                      - (IF Replies(c, in, take) THEN 1 ELSE 0),
            fault     |-> FALSE]
    BY <1>2, <1>3, ResetAssumption DEF CtlEdge, Overflows
<1>6. \/ i.sends = <<>>
      \/ \E d \in Dwords : i.sends = <<d>> /\ SendCase(p, i, d)
    BY SendsAre
<1>7. /\ Maintenance(c, in) = "noop" <=> c.phase = "noops"
      /\ c.phase = "request" => Maintenance(c, in) = "request"
      /\ Maintenance(c, in) = "response" <=>
            /\ c.responses > 0 /\ c.phase \in {"normal", "wait"}
            /\ ~Start(p, i) /\ ~Expire(p, i)
    BY <1>2, <1>4 DEF Maintenance, CtlState, Start, Expire
<1>8. Replies(c, in, take) <=> SentKind(i, "response")
    <2>1. CASE i.sends = <<>>
        BY <2>1 DEF Replies, Sends, SentKind
    <2>2. ASSUME NEW d \in Dwords, i.sends = <<d>>, SendCase(p, i, d)
          PROVE  Replies(c, in, take) <=> SentKind(i, "response")
        <3>1. take <=> d.kind \in {"noop", "request", "response"}
            BY <2>2 DEF Sends
        <3>2. SentKind(i, "response") <=> d.kind = "response"
            BY <2>2 DEF SentKind
        <3> HIDE DEF take
        <3> QED BY <1>7, <2>2, <3>1, <3>2
                DEF Replies, SendCase, Message, Credit, Header, Payload
    <2> QED BY <1>6, <2>1, <2>2
<1>9. RunOut \in Nat /\ RunOut > 0
    BY StreamAssumption
<1> DEFINE ph == PhaseAfter(c, in, take)
           no == IF take /\ Maintenance(c, in) = "noop"
                 THEN c.noops - 1 ELSE RunOutFrom(c, in)
           mv == \/ Start(p, i) /\ ph = "noops" /\ no = RunOut /\ i.sends = <<>>
                 \/ Expire(p, i) /\ ph = "noops" /\ no = RunOut /\ i.sends = <<>>
                 \/ /\ c.phase = "noops" /\ i.sends = <<Message("noop")>>
                    /\ no = c.noops - 1
                    /\ ph = IF c.noops = 1 THEN "request" ELSE "noops"
                 \/ /\ c.phase = "request" /\ i.sends = <<Message("request")>>
                    /\ ph = "wait" /\ no = 0
                 \/ c.phase = "wait" /\ Response(p, i) /\ ph = "normal" /\ no = 0
                 \/ /\ ph = c.phase /\ no = c.noops /\ ~Start(p, i) /\ ~Expire(p, i)
                    /\ ph = "wait" => ~Response(p, i)
                    /\ ph \in {"noops", "request"} => i.sends = <<>>
<1>10. mv
    <2>1. CASE Start(p, i) \/ Expire(p, i)
        <3>1. i.sends = <<>>
            BY <2>1, StartSendsNothing DEF EdgeInput
        <3>2. ~take
            BY <3>1 DEF Sends
        <3> QED BY <1>4, <2>1, <3>1, <3>2 DEF PhaseAfter, RunOutFrom
    <2>2. ASSUME ~Start(p, i), ~Expire(p, i), i.sends = <<>> PROVE mv
        <3>1. ~take
            BY <2>2 DEF Sends
        <3> QED BY <1>2, <1>4, <2>2, <3>1 DEF PhaseAfter, RunOutFrom, CtlState
    <2>3. ASSUME ~Start(p, i), ~Expire(p, i), NEW d \in Dwords, i.sends = <<d>>,
                 SendCase(p, i, d)
          PROVE  mv
        <3>1. take <=> d.kind \in {"noop", "request", "response"}
            BY <2>3 DEF Sends
        <3>2. c.phase = "noops" => d = Message("noop")
            BY <1>2, <2>3, ResetMeans DEF SendCase, PortOK
        <3>3. c.phase = "request" => d = Message("request")
            BY <1>2, <2>3, ResetMeans DEF SendCase, PortOK
        <3>4. d.kind = "noop" => c.phase = "noops"
            BY <2>3 DEF SendCase, Message, Credit, Header, Payload
        <3>5. d.kind = "request" => c.phase = "request"
            BY <2>3 DEF SendCase, Message, Credit, Header, Payload
        <3>6. c.noops \in Nat /\ c.phase \in {"normal", "noops", "request", "wait"}
            BY <1>2, <1>9 DEF CtlState
        <3> HIDE DEF take
        <3>7. CASE c.phase = "noops"
            <4>1. take /\ i.sends = <<Message("noop")>>
                BY <2>3, <3>1, <3>2, <3>7 DEF Message
            <4>2. no = c.noops - 1
                BY <1>7, <3>7, <4>1
            <4>3. ph = IF c.noops = 1 THEN "request" ELSE "noops"
                BY <1>4, <2>3, <3>7, <4>1 DEF PhaseAfter
            <4> QED BY <3>7, <4>1, <4>2, <4>3
        <3>8. CASE c.phase = "request"
            <4>1. take /\ i.sends = <<Message("request")>>
                BY <2>3, <3>1, <3>3, <3>8 DEF Message
            <4>2. no = 0
                BY <1>2, <1>4, <1>7, <2>3, <3>6, <3>8 DEF RunOutFrom
            <4>3. ph = "wait"
                BY <1>4, <2>3, <3>8, <4>1 DEF PhaseAfter
            <4> QED BY <3>8, <4>1, <4>2, <4>3
        <3>9. CASE c.phase \in {"normal", "wait"}
            <4>1. no = c.noops /\ (c.noops = 0)
                BY <1>2, <1>4, <1>7, <2>3, <3>6, <3>9 DEF RunOutFrom
            <4>2. ph = IF c.phase = "wait" /\ Response(p, i) THEN "normal" ELSE c.phase
                BY <1>4, <2>3, <3>9 DEF PhaseAfter
            <4> QED BY <2>3, <3>9, <4>1, <4>2
        <3> QED BY <3>6, <3>7, <3>8, <3>9
    <2> QED BY <1>6, <2>1, <2>2, <2>3
<1>11. /\ c1.phase = ph /\ c1.noops = no /\ ~c1.fault
       /\ c1.responses = c.responses + (IF Request(p, i) THEN 1 ELSE 0)
                                     - (IF SentKind(i, "response") THEN 1 ELSE 0)
    BY <1>3, <1>5, <1>8
<1>12. SentKind(i, "response") => c.responses > 0
    BY <1>7, <1>8 DEF Replies
<1>13. /\ ph \in {"normal", "noops", "request", "wait"} /\ no \in 0 .. RunOut
       /\ ph = "noops" <=> no > 0
    <2>1. /\ c.noops \in 0 .. RunOut /\ c.phase \in {"normal", "noops", "request", "wait"}
        BY <1>2 DEF CtlState
    <2> HIDE DEF ph, no
    <2> QED BY <1>2, <1>9, <1>10, <2>1
<1>14. c1.responses \in 0 .. ResponseDepth
    <2>1. c.responses \in 0 .. ResponseDepth
        BY <1>2 DEF CtlState
    <2> QED BY <1>11, <1>12, <2>1, ResetAssumption
<1> DEFINE rs == c.responses + (IF in.rx_request THEN 1 ELSE 0)
                              - (IF Replies(c, in, take) THEN 1 ELSE 0)
<1>15. c1 = [phase |-> ph, noops |-> no, responses |-> rs, fault |-> FALSE]
    BY <1>5
<1>16. CtlOK(c1)
    <2> HIDE DEF ph, no, rs
    <2>1. c1.responses = rs
        BY <1>15
    <2> HIDE DEF c1
    <2>2. rs \in 0 .. ResponseDepth
        BY <1>14, <2>1
    <2>3. c1 \in CtlState
        BY <1>13, <1>15, <2>2 DEF CtlState
    <2> QED BY <1>11, <1>13, <2>3 DEF CtlOK
<1>17. CtlMove(p, c1, i)
    <2> HIDE DEF c1, ph, no
    <2> QED BY <1>10, <1>11 DEF CtlMove
<1> QED BY <1>1, <1>11, <1>16, <1>17
-----------------------------------------------------------------------------
(* The source and its FIFO. *)

\* Payload words of the present message that the sender still owes.
Owed(s) == IF s.header_sent THEN Len(s.payload) ELSE 0

\* Words of the present message still to send, announced or not.
ToSend(s) == IF s.header_sent THEN Len(s.payload) ELSE s.reserved

\* What the source has sent in all, and what a count c leaves beyond that.
Total(s) == s.tx_counter + (IF s.header_sent THEN s.reserved - Len(s.payload) ELSE 0)
Left(s, c) == (c - Total(s)) % Modulus

\* The credit update an edge takes over.
Update(p, i) == AtBoundary(p.rx, i.word, "credit") /\ Active(p.rx, InReset(p, i))
LatestAfter(p, i) == IF Update(p, i) THEN i.word[1].value ELSE p.src.latest_fc

\* What an edge out of reset does to the source s, t being its next state.
SrcMove(p, i, s, t) ==
    \/ /\ s.reserved = 0 /\ ~SentKind(i, "header") /\ ~SentKind(i, "payload")
       /\ \E n \in 0 .. MaxPayload :
             /\ n <= Left(s, s.latest_fc)
             /\ t = [s EXCEPT !.reserved = n, !.to_load = n, !.latest_fc = LatestAfter(p, i)]
       /\ Loaded(p, i) = <<>>
    \/ /\ s.to_load > 0 /\ ~s.header_sent
       /\ ~SentKind(i, "header") /\ ~SentKind(i, "payload")
       /\ t = [s EXCEPT !.payload = @ \o Loaded(p, i),
                        !.to_load = @ - Len(Loaded(p, i)),
                        !.latest_fc = LatestAfter(p, i)]
    \/ /\ s.reserved > 0 /\ s.to_load = 0
       /\ ~SentKind(i, "header") /\ ~SentKind(i, "payload")
       /\ t = [s EXCEPT !.latest_fc = LatestAfter(p, i)]
       /\ Loaded(p, i) = <<>>
    \/ /\ s.reserved > 0 /\ s.to_load = 0 /\ ~s.header_sent
       /\ SentKind(i, "header") /\ ~SentKind(i, "payload")
       /\ t = [s EXCEPT !.header_sent = TRUE, !.latest_fc = LatestAfter(p, i)]
       /\ Loaded(p, i) = <<>>
    \/ /\ s.header_sent /\ Len(s.payload) = 1
       /\ SentKind(i, "payload") /\ ~SentKind(i, "header")
       /\ t = [s EXCEPT !.payload = <<>>, !.reserved = 0, !.header_sent = FALSE,
                        !.tx_counter = (@ + s.reserved) % Modulus,
                        !.latest_fc = LatestAfter(p, i)]
       /\ Loaded(p, i) = <<>>
    \/ /\ s.header_sent /\ Len(s.payload) > 1
       /\ SentKind(i, "payload") /\ ~SentKind(i, "header")
       /\ t = [s EXCEPT !.payload = Tail(@), !.latest_fc = LatestAfter(p, i)]
       /\ Loaded(p, i) = <<>>

\* uart_tx_source.py reserves at most what the last update leaves.
LEMMA ReservationBound ==
    ASSUME NEW s, SrcOK(s), ~s.header_sent, NEW fill \in Nat
    PROVE  /\ Reservation(s, fill) \in 0 .. MaxPayload
           /\ Reservation(s, fill) <= Left(s, s.latest_fc)
<1>1. s.latest_fc - s.tx_counter \in Int /\ Total(s) = s.tx_counter
    BY DEF SrcOK, Total
<1>2. Available(s) \in Nat /\ Available(s) = Left(s, s.latest_fc)
    <2>1. (s.latest_fc - s.tx_counter) % Modulus \in 0 .. (Modulus - 1)
        BY <1>1, ModSplit, StreamAssumption
    <2> QED BY <1>1, <2>1, StreamAssumption DEF Available, Left
<1> QED BY <1>2, StreamAssumption DEF Reservation, Lesser

\* The FIFO hands over its oldest word, and only when it is asked.
LEMMA LoadedIs ==
    ASSUME NEW p, NEW i, p.txq \in Seq(Nat)
    PROVE  \/ Loaded(p, i) = <<>>
           \/ /\ Loaded(p, i) = <<Head(p.txq)>> /\ p.txq # <<>>
              /\ p.src.to_load > 0 /\ Head(p.txq) \in Nat
BY HeadTailProperties DEF Loaded, SrcLoads

\* What an edge out of reset does to the source, case by case.
LEMMA SrcMoves ==
    ASSUME NEW p, NEW i, NEW w, NEW wr, PortOK(p), EdgeInput(p, w, wr, i), ~InReset(p, i)
    PROVE  SrcMove(p, i, p.src, PortEdge(p, i).src)
<1> DEFINE s == p.src
           load == Loaded(p, i)
           credit == CreditIn(p.rx, i.word, InReset(p, i))
           take == Sends(i, {"header", "payload"})
           t == SrcMoved(s, Len(p.txq), load, take)
           t1 == [t EXCEPT !.latest_fc = IF credit = <<>> THEN @ ELSE credit[1]]
<1>1. PortEdge(p, i).src = t1
    BY PortFields DEF SrcAfter, SrcEdge
<1>2. SrcOK(s) /\ p.txq \in Seq(Nat) /\ Len(p.txq) \in Nat
    BY DEF PortOK
<1>3. /\ s = [reserved |-> s.reserved, to_load |-> s.to_load, payload |-> s.payload,
              header_sent |-> s.header_sent, tx_counter |-> s.tx_counter,
              latest_fc |-> s.latest_fc]
      /\ s.reserved \in 0 .. MaxPayload /\ s.to_load \in 0 .. MaxPayload
      /\ s.payload \in Seq(Nat) /\ Len(s.payload) \in Nat /\ s.header_sent \in BOOLEAN
      /\ IF s.header_sent THEN s.to_load = 0 /\ Len(s.payload) \in 1 .. s.reserved
         ELSE s.to_load + Len(s.payload) = s.reserved
    BY <1>2 DEF SrcOK
<1>4. /\ credit = <<>> <=> ~Update(p, i)
      /\ Update(p, i) => credit[1] = i.word[1].value
    BY DEF CreditIn, Update
<1>5. /\ take <=> SentKind(i, "header") \/ SentKind(i, "payload")
      /\ ~(SentKind(i, "header") /\ SentKind(i, "payload"))
    BY DEF Sends, SentKind
<1>6. SentKind(i, "header") => /\ s.reserved > 0 /\ s.to_load = 0 /\ ~s.header_sent
    <2> SUFFICES ASSUME SentKind(i, "header")
                 PROVE  s.reserved > 0 /\ s.to_load = 0 /\ ~s.header_sent
        OBVIOUS
    <2>1. PICK d \in Dwords : i.sends = <<d>> /\ SendCase(p, i, d)
        BY SendsAre DEF SentKind
    <2>2. d.kind = "header"
        BY <2>1 DEF SentKind
    <2> QED BY <2>1, <2>2 DEF SendCase, Message, Credit, Header, Payload
<1>7. SentKind(i, "payload") => s.header_sent
    <2> SUFFICES ASSUME SentKind(i, "payload") PROVE s.header_sent
        OBVIOUS
    <2>1. PICK d \in Dwords : i.sends = <<d>> /\ SendCase(p, i, d)
        BY SendsAre DEF SentKind
    <2>2. d.kind = "payload"
        BY <2>1 DEF SentKind
    <2> QED BY <2>1, <2>2 DEF SendCase, Message, Credit, Header, Payload
<1>8. load = <<>> \/ s.to_load > 0
    BY <1>2, LoadedIs
<1> DEFINE fc == LatestAfter(p, i)
<1>9. t.latest_fc = s.latest_fc => t1 = [t EXCEPT !.latest_fc = fc]
    <2>1. CASE Update(p, i)
        BY <1>4, <2>1 DEF LatestAfter
    <2>2. CASE ~Update(p, i)
        BY <1>4, <2>2 DEF LatestAfter
    <2> QED BY <2>1, <2>2
<1> HIDE DEF fc, load, credit, take, t1
<1>10. CASE s.reserved = 0
    <2> DEFINE n == Reservation(s, Len(p.txq))
    <2>1. ~s.header_sent /\ ~SentKind(i, "header") /\ ~SentKind(i, "payload")
        BY <1>3, <1>6, <1>7, <1>10
    <2>2. n \in 0 .. MaxPayload /\ n <= Left(s, s.latest_fc)
        BY <1>2, <2>1, ReservationBound
    <2>3. t = [s EXCEPT !.reserved = n, !.to_load = n]
        BY <1>10 DEF SrcMoved
    <2>4. load = <<>>
        BY <1>3, <1>8, <1>10, <2>1
    <2> HIDE DEF n
    <2>5. t.latest_fc = s.latest_fc
        BY <1>3, <2>3
    <2>6. t1 = [s EXCEPT !.reserved = n, !.to_load = n, !.latest_fc = fc]
        BY <1>3, <1>9, <2>3, <2>5
    <2> QED BY <1>1, <1>10, <2>1, <2>2, <2>4, <2>6 DEF SrcMove, fc, load
<1>11. CASE s.reserved > 0 /\ s.to_load > 0
    <2>1. ~s.header_sent /\ ~SentKind(i, "header") /\ ~SentKind(i, "payload")
        BY <1>3, <1>6, <1>7, <1>11
    <2>2. t = [s EXCEPT !.payload = @ \o load, !.to_load = @ - Len(load)]
        BY <1>11 DEF SrcMoved, SrcLoads
    <2>3. t.latest_fc = s.latest_fc
        BY <1>3, <2>2
    <2>4. t1 = [s EXCEPT !.payload = @ \o load, !.to_load = @ - Len(load),
                         !.latest_fc = fc]
        BY <1>3, <1>9, <2>2, <2>3
    <2> QED BY <1>1, <1>11, <2>1, <2>4 DEF SrcMove, fc, load
<1>12. ASSUME s.reserved > 0, s.to_load = 0 PROVE SrcMove(p, i, s, PortEdge(p, i).src)
    <2>1. load = <<>>
        BY <1>8, <1>12
    <2>2. CASE ~take
        <3>1. t = s
            BY <1>12, <2>2 DEF SrcMoved, SrcLoads
        <3>2. t1 = [s EXCEPT !.latest_fc = fc]
            BY <1>9, <3>1
        <3> QED BY <1>1, <1>5, <1>12, <2>1, <2>2, <3>2 DEF SrcMove, fc, load
    <2>3. CASE SentKind(i, "header")
        <3>1. t = [s EXCEPT !.header_sent = TRUE]
            BY <1>5, <1>6, <1>12, <2>3 DEF SrcMoved, SrcLoads
        <3>2. t1 = [s EXCEPT !.header_sent = TRUE, !.latest_fc = fc]
            BY <1>3, <1>9, <3>1
        <3> QED BY <1>1, <1>5, <1>6, <1>12, <2>1, <2>3, <3>2 DEF SrcMove, fc, load
    <2>4. CASE SentKind(i, "payload") /\ Len(s.payload) = 1
        <3>1. t = [s EXCEPT !.payload = <<>>, !.reserved = 0, !.header_sent = FALSE,
                            !.tx_counter = (@ + s.reserved) % Modulus]
            BY <1>5, <1>7, <1>12, <2>4 DEF SrcMoved, SrcLoads, Completed
        <3>2. t1 = [s EXCEPT !.payload = <<>>, !.reserved = 0, !.header_sent = FALSE,
                             !.tx_counter = (@ + s.reserved) % Modulus,
                             !.latest_fc = fc]
            BY <1>3, <1>9, <3>1
        <3> QED BY <1>1, <1>5, <1>7, <2>1, <2>4, <3>2 DEF SrcMove, fc, load
    <2>5. CASE SentKind(i, "payload") /\ Len(s.payload) # 1
        <3>1. t = [s EXCEPT !.payload = Tail(@)]
            BY <1>5, <1>7, <1>12, <2>5 DEF SrcMoved, SrcLoads
        <3>2. t1 = [s EXCEPT !.payload = Tail(@), !.latest_fc = fc]
            BY <1>3, <1>9, <3>1
        <3>3. Len(s.payload) > 1
            <4> DEFINE l == Len(s.payload)
            <4>1. l \in 1 .. s.reserved /\ s.reserved \in Nat /\ l # 1
                BY <1>3, <1>7, <2>5
            <4>2. l > 1
                <5> HIDE DEF l
                <5> QED BY <4>1
            <4> QED BY <4>2
        <3> QED BY <1>1, <1>5, <1>7, <2>1, <2>5, <3>2, <3>3 DEF SrcMove, fc, load
    <2> QED BY <1>5, <2>2, <2>3, <2>4, <2>5
<1> QED BY <1>3, <1>10, <1>11, <1>12

\* What the DWORD sent says of the port that sends it.
LEMMA SentMeans ==
    ASSUME NEW p, NEW i, NEW w, NEW wr, PortOK(p), EdgeInput(p, w, wr, i), i.sends # <<>>,
           NEW d, d = i.sends[1]
    PROVE  /\ i.sends = <<d>> /\ d \in Dwords
           /\ d.kind = "noop" => p.ctl.phase = "noops"
           /\ d.kind = "request" => p.ctl.phase = "request"
           /\ d.kind = "response" => p.ctl.responses > 0
           /\ d.kind = "credit" => /\ d.value = p.rx.counter /\ p.rx.initialized
                                   /\ ~InReset(p, i) /\ ~p.src.header_sent
           /\ d.kind = "header" => /\ d.value = p.src.reserved /\ p.src.reserved > 0
                                   /\ ~InReset(p, i) /\ ~p.src.header_sent
           /\ d.kind = "payload" => /\ d.value = Head(p.src.payload) /\ p.src.header_sent
                                    /\ ~InReset(p, i)
           /\ p.src.header_sent /\ ~InReset(p, i) => d.kind = "payload"
           /\ p.ctl.phase = "noops" => d.kind = "noop"
           /\ p.ctl.phase = "request" => d.kind = "request"
           /\ ~Start(p, i) /\ ~Expire(p, i)
<1>1. PICK x \in Dwords : i.sends = <<x>> /\ SendCase(p, i, x)
    BY SendsAre
<1>2. x = d
    BY <1>1
<1>3. i.sends = <<d>> /\ d \in Dwords /\ SendCase(p, i, d)
    BY <1>1, <1>2
<1>4. /\ p.src.header_sent => p.ctl.phase = "normal" /\ p.ctl.responses = 0
      /\ p.ctl.responses \in Nat
    BY ResetAssumption DEF PortOK, SrcReset, CtlOK, CtlState
<1>5. /\ InReset(p, i) <=>
             Start(p, i) \/ Request(p, i) \/ p.ctl.phase # "normal" \/ p.ctl.responses > 0
    BY ResetMeans DEF PortOK
<1>6. ~Start(p, i) /\ ~Expire(p, i)
    BY StartSendsNothing DEF EdgeInput
<1>7. \/ /\ d.kind = "noop" /\ p.ctl.phase = "noops"
      \/ /\ d.kind = "request" /\ p.ctl.phase = "request"
      \/ /\ d.kind = "response" /\ p.ctl.responses > 0
         /\ p.ctl.phase \in {"normal", "wait"}
      \/ /\ d.kind = "other" /\ p.ctl.phase \in {"normal", "wait"}
         /\ p.src.header_sent => InReset(p, i)
      \/ /\ d.kind = "credit" /\ d.value = p.rx.counter /\ p.rx.initialized
         /\ ~InReset(p, i) /\ ~p.src.header_sent
      \/ /\ d.kind = "header" /\ d.value = p.src.reserved /\ p.src.reserved > 0
         /\ ~InReset(p, i) /\ ~p.src.header_sent
      \/ /\ d.kind = "payload" /\ d.value = Head(p.src.payload) /\ p.src.header_sent
         /\ ~InReset(p, i)
    BY <1>3 DEF SendCase, Message, Credit, Header, Payload
<1> QED BY <1>3, <1>4, <1>5, <1>6, <1>7

\* The effect of an edge out of reset on what the source owes and may send.
LEMMA SrcFacts ==
    ASSUME NEW p, NEW i, NEW w, NEW wr, PortOK(p), EdgeInput(p, w, wr, i), ~InReset(p, i),
           LatestAfter(p, i) \in Nat, NEW t, t = PortEdge(p, i).src
    PROVE  LET s == p.src
               payload == SentKind(i, "payload") IN
           /\ SrcOK(t)
           /\ t.latest_fc = LatestAfter(p, i)
           /\ payload => Owed(s) >= 1 /\ ToSend(s) >= 1
           /\ Owed(t) = IF payload THEN Owed(s) - 1
                        ELSE IF SentKind(i, "header") THEN s.reserved ELSE Owed(s)
           /\ \A c \in Int : Left(t, c) = IF payload THEN (c - Total(s) - 1) % Modulus
                                          ELSE Left(s, c)
           /\ \/ ToSend(t) = IF payload THEN ToSend(s) - 1 ELSE ToSend(s)
              \/ ~payload /\ ToSend(t) \in 0 .. Left(s, s.latest_fc)
           /\ t.payload = IF payload THEN Tail(s.payload) ELSE s.payload \o Loaded(p, i)
<1> DEFINE s == p.src
           fc == LatestAfter(p, i)
           load == Loaded(p, i)
<1>1. SrcMove(p, i, s, t)
    BY SrcMoves
<1>2. PICK n \in 0 .. MaxPayload, l \in 0 .. MaxPayload, q \in Seq(Nat), h \in BOOLEAN,
           tc \in Nat, lf \in Nat :
         s = [reserved |-> n, to_load |-> l, payload |-> q, header_sent |-> h,
              tx_counter |-> tc, latest_fc |-> lf]
    BY DEF PortOK, SrcOK
<1>3. /\ s.reserved = n /\ s.to_load = l /\ s.payload = q /\ s.header_sent = h
      /\ s.tx_counter = tc /\ s.latest_fc = lf
    BY <1>2
<1>4. IF h THEN l = 0 /\ Len(q) \in 1 .. n ELSE l + Len(q) = n
    BY <1>3 DEF PortOK, SrcOK
<1>5. load = <<>> \/ (\E x \in Nat : load = <<x>>)
    BY LoadedIs DEF PortOK
<1>6. fc \in Nat
    OBVIOUS
<1>7. MaxPayload \in Nat \ {0} /\ Modulus \in Nat \ {0}
    BY StreamAssumption
<1>8. n \in Nat /\ l \in Nat /\ Len(q) \in Nat
    BY <1>7
<1> DEFINE pay == SentKind(i, "payload")
           hdr == SentKind(i, "header")
           sent == IF h THEN n - Len(q) ELSE 0
           owe  == IF h THEN Len(q) ELSE 0
           due  == IF h THEN Len(q) ELSE n
<1> HIDE DEF s, fc, load, pay, hdr
<1>9. Total(s) = tc + sent /\ Owed(s) = owe /\ ToSend(s) = due
    BY <1>3 DEF Total, Owed, ToSend
<1> DEFINE goal == /\ SrcOK(t)
                   /\ t.latest_fc = fc
                   /\ pay => Owed(s) >= 1 /\ ToSend(s) >= 1
                   /\ Owed(t) = IF pay THEN Owed(s) - 1
                                ELSE IF hdr THEN s.reserved ELSE Owed(s)
                   /\ \A c \in Int : Left(t, c) = IF pay THEN (c - Total(s) - 1) % Modulus
                                                  ELSE Left(s, c)
                   /\ \/ ToSend(t) = IF pay THEN ToSend(s) - 1 ELSE ToSend(s)
                      \/ ~pay /\ ToSend(t) \in 0 .. Left(s, s.latest_fc)
                   /\ t.payload = IF pay THEN Tail(s.payload) ELSE s.payload \o load
<1>10. ASSUME n = 0, ~hdr, ~pay, NEW m \in 0 .. MaxPayload, m <= Left(s, s.latest_fc),
              t = [s EXCEPT !.reserved = m, !.to_load = m, !.latest_fc = fc], load = <<>>
       PROVE  goal
    <2>1. t = [reserved |-> m, to_load |-> m, payload |-> q, header_sent |-> h,
               tx_counter |-> tc, latest_fc |-> fc]
        BY <1>2, <1>10
    <2>2. ~h /\ Len(q) = 0
        BY <1>4, <1>8, <1>10
    <2>3. /\ t.reserved = m /\ t.to_load = m /\ t.payload = q /\ t.header_sent = h
          /\ t.tx_counter = tc /\ t.latest_fc = fc
        BY <2>1
    <2>4. SrcOK(t)
        BY <1>6, <2>1, <2>2 DEF SrcOK
    <2>5. Total(t) = Total(s) /\ Owed(t) = Owed(s) /\ ToSend(t) = m
        BY <1>9, <2>2, <2>3 DEF Total, Owed, ToSend
    <2>6. q \o load = q
        BY <1>10, ConcatEmptySeq
    <2>7. m \in 0 .. Left(s, s.latest_fc)
        <3>1. s.latest_fc - Total(s) \in Int
            BY <1>3, <1>9, <2>2
        <3>2. Left(s, s.latest_fc) \in 0 .. (Modulus - 1)
            BY <1>7, <3>1, ModSplit DEF Left
        <3> QED BY <1>7, <1>10, <3>2
    <2> QED BY <1>3, <1>10, <2>3, <2>6, <2>7, <2>4, <2>5 DEF Left
<1>11. ASSUME l > 0, ~h, ~hdr, ~pay,
              t = [s EXCEPT !.payload = @ \o load, !.to_load = @ - Len(load),
                            !.latest_fc = fc]
       PROVE  goal
    <2> DEFINE q1 == q \o load
               l1 == l - Len(load)
    <2>1. t = [reserved |-> n, to_load |-> l1, payload |-> q1, header_sent |-> h,
               tx_counter |-> tc, latest_fc |-> fc]
        BY <1>2, <1>11
    <2>2. load \in Seq(Nat) /\ Len(load) \in {0, 1}
        <3>1. CASE load = <<>>
            BY <3>1, EmptySeq
        <3>2. CASE \E x \in Nat : load = <<x>>
            BY <3>2
        <3> QED BY <1>5, <3>1, <3>2
    <2>3. q1 \in Seq(Nat) /\ Len(q1) = Len(q) + Len(load)
        BY <2>2, ConcatProperties
    <2>4. l1 \in 0 .. MaxPayload /\ l1 + Len(q1) = n
        <3>1. l + Len(q) = n /\ l \in 0 .. MaxPayload
            BY <1>4, <1>11
        <3> DEFINE k == Len(load)
                   j == Len(q1)
        <3>2. k \in {0, 1} /\ j = Len(q) + k
            BY <2>2, <2>3
        <3> HIDE DEF k, j
        <3>3. l - k \in 0 .. MaxPayload /\ (l - k) + j = n
            BY <1>7, <1>8, <1>11, <3>1, <3>2
        <3> QED BY <3>3 DEF k, j
    <2> HIDE DEF l1, q1
    <2>5. /\ t.reserved = n /\ t.to_load = l1 /\ t.payload = q1 /\ t.header_sent = h
          /\ t.tx_counter = tc /\ t.latest_fc = fc
        BY <2>1
    <2>6. SrcOK(t)
        <3>1. ~h
            BY <1>11
        <3>2. q1 \in Seq(Nat)
            BY <2>3
        <3> QED BY <1>6, <2>1, <2>4, <3>1, <3>2 DEF SrcOK
    <2>7. Total(t) = Total(s) /\ Owed(t) = Owed(s) /\ ToSend(t) = ToSend(s)
        BY <1>9, <1>11, <2>5 DEF Total, Owed, ToSend
    <2> QED BY <1>3, <1>11, <2>5, <2>6, <2>7 DEF Left, q1
<1>12. ASSUME n > 0, l = 0, ~hdr, ~pay, t = [s EXCEPT !.latest_fc = fc], load = <<>>
       PROVE  goal
    <2>1. t = [reserved |-> n, to_load |-> l, payload |-> q, header_sent |-> h,
               tx_counter |-> tc, latest_fc |-> fc]
        BY <1>2, <1>12
    <2>2. /\ t.reserved = n /\ t.to_load = l /\ t.payload = q /\ t.header_sent = h
          /\ t.tx_counter = tc /\ t.latest_fc = fc
        BY <2>1
    <2>3. SrcOK(t)
        BY <1>4, <1>6, <2>1 DEF SrcOK
    <2>4. Total(t) = Total(s) /\ Owed(t) = Owed(s) /\ ToSend(t) = ToSend(s)
        BY <1>9, <2>2 DEF Total, Owed, ToSend
    <2>5. q \o load = q
        BY <1>12, ConcatEmptySeq
    <2> QED BY <1>3, <1>12, <2>2, <2>5, <2>3, <2>4 DEF Left
<1>13. ASSUME n > 0, l = 0, ~h, hdr, ~pay,
              t = [s EXCEPT !.header_sent = TRUE, !.latest_fc = fc], load = <<>>
       PROVE  goal
    <2>1. t = [reserved |-> n, to_load |-> l, payload |-> q, header_sent |-> TRUE,
               tx_counter |-> tc, latest_fc |-> fc]
        BY <1>2, <1>13
    <2>2. Len(q) = n /\ Len(q) \in 1 .. n
        BY <1>4, <1>8, <1>13
    <2>3. /\ t.reserved = n /\ t.to_load = l /\ t.payload = q /\ t.header_sent = TRUE
          /\ t.tx_counter = tc /\ t.latest_fc = fc
        BY <2>1
    <2>4. SrcOK(t)
        <3>1. l = 0
            BY <1>13
        <3> QED BY <1>6, <2>1, <2>2, <3>1 DEF SrcOK
    <2>5. Total(t) = Total(s) /\ Owed(t) = s.reserved /\ ToSend(t) = ToSend(s)
        BY <1>3, <1>8, <1>9, <1>13, <2>2, <2>3 DEF Total, Owed, ToSend
    <2>6. q \o load = q
        BY <1>13, ConcatEmptySeq
    <2> QED BY <1>3, <1>13, <2>3, <2>5, <2>6, <2>4 DEF Left
<1>14. ASSUME h, Len(q) = 1, pay, ~hdr,
              t = [s EXCEPT !.payload = <<>>, !.reserved = 0, !.header_sent = FALSE,
                            !.tx_counter = (@ + s.reserved) % Modulus, !.latest_fc = fc]
       PROVE  goal
    <2> DEFINE tc1 == (tc + n) % Modulus
    <2>1. t = [reserved |-> 0, to_load |-> l, payload |-> <<>>, header_sent |-> FALSE,
               tx_counter |-> tc1, latest_fc |-> fc]
        BY <1>2, <1>3, <1>14
    <2>2. tc + n \in Int
        BY <1>8
    <2>3. tc1 \in Nat
        <3>1. tc1 \in 0 .. (Modulus - 1)
            BY <1>7, <2>2, ModSplit
        <3> QED BY <1>7, <3>1
    <2> HIDE DEF tc1
    <2>4. /\ <<>> \in Seq(Nat) /\ 0 \in 0 .. MaxPayload /\ FALSE \in BOOLEAN
          /\ l = 0 /\ Len(<<>>) = 0
        BY <1>4, <1>7, <1>14, EmptySeq
    <2>5. /\ t.reserved = 0 /\ t.to_load = l /\ t.payload = <<>> /\ t.header_sent = FALSE
          /\ t.tx_counter = tc1 /\ t.latest_fc = fc
        BY <2>1
    <2>6. SrcOK(t)
        BY <1>6, <2>1, <2>3, <2>4 DEF SrcOK
    <2>7. Total(t) = tc1 /\ Owed(t) = 0 /\ ToSend(t) = 0
        BY <2>3, <2>5 DEF Total, Owed, ToSend
    <2>8. Owed(s) = 1 /\ ToSend(s) = 1 /\ Total(s) = tc + n - 1
        BY <1>8, <1>9, <1>14
    <2>9. ASSUME NEW c \in Int PROVE Left(t, c) = (c - Total(s) - 1) % Modulus
        <3>1. (c - tc1) % Modulus = (c - (tc + n)) % Modulus
            BY <1>7, <2>2, ModShift DEF tc1
        <3>2. c - (tc + n) = c - Total(s) - 1
            BY <1>8, <2>8
        <3> QED BY <2>7, <3>1, <3>2 DEF Left
    <2>10. Tail(q) = <<>>
        <3>1. Len(q) = 1
            BY <1>14
        <3>2. q # <<>>
            <4> SUFFICES ASSUME q = <<>> PROVE FALSE
                OBVIOUS
            <4>1. Len(q) = 0
                OBVIOUS
            <4> QED BY <3>1, <4>1
        <3>3. Tail(q) \in Seq(Nat) /\ Len(Tail(q)) = Len(q) - 1
            BY <3>2, HeadTailProperties
        <3>4. Len(Tail(q)) = 0
            BY <1>14, <3>3
        <3> QED BY <3>3, <3>4, EmptySeq
    <2>11. t.payload = Tail(q) /\ t.latest_fc = fc
        BY <2>5, <2>10
    <2>12. /\ pay /\ Owed(s) >= 1 /\ ToSend(s) >= 1 /\ Owed(t) = Owed(s) - 1
           /\ ToSend(t) = ToSend(s) - 1
        BY <1>14, <2>8, <2>7
    <2> QED BY <1>3, <2>9, <2>6, <2>11, <2>12
<1>15. ASSUME h, Len(q) > 1, pay, ~hdr,
              t = [s EXCEPT !.payload = Tail(@), !.latest_fc = fc]
       PROVE  goal
    <2> DEFINE q1 == Tail(q)
    <2>1. t = [reserved |-> n, to_load |-> l, payload |-> q1, header_sent |-> h,
               tx_counter |-> tc, latest_fc |-> fc]
        BY <1>2, <1>15
    <2>2. q1 \in Seq(Nat) /\ Len(q1) = Len(q) - 1
        <3>1. q # <<>>
            BY <1>15
        <3> QED BY <3>1, HeadTailProperties
    <2> HIDE DEF q1
    <2>3. l = 0 /\ Len(q1) \in 1 .. n
        BY <1>4, <1>8, <1>15, <2>2
    <2>4. /\ t.reserved = n /\ t.to_load = l /\ t.payload = q1 /\ t.header_sent = h
          /\ t.tx_counter = tc /\ t.latest_fc = fc
        BY <2>1
    <2>5. SrcOK(t)
        <3>1. h
            BY <1>15
        <3> QED BY <1>6, <2>1, <2>2, <2>3, <3>1 DEF SrcOK
    <2>6. Total(t) = tc + (n - Len(q1)) /\ Owed(t) = Len(q1) /\ ToSend(t) = Len(q1)
        BY <1>15, <2>4 DEF Total, Owed, ToSend
    <2>7. Total(s) = tc + (n - Len(q)) /\ Owed(s) = Len(q) /\ ToSend(s) = Len(q)
        BY <1>9, <1>15
    <2>8. /\ Total(t) = Total(s) + 1 /\ Owed(t) = Owed(s) - 1 /\ ToSend(t) = ToSend(s) - 1
          /\ Owed(s) > 1 /\ ToSend(s) > 1 /\ Owed(s) \in Nat /\ ToSend(s) \in Nat
          /\ Total(s) \in Int
        <3> DEFINE j == Len(q)
        <3>1. j \in Nat /\ j > 1 /\ Len(q1) = j - 1
            BY <1>8, <1>15, <2>2
        <3> HIDE DEF j
        <3> QED BY <1>8, <2>6, <2>7, <3>1 DEF j
    <2>9. ASSUME NEW c \in Int PROVE Left(t, c) = (c - Total(s) - 1) % Modulus
        <3>1. c - Total(t) = c - Total(s) - 1
            BY <2>8
        <3> QED BY <3>1 DEF Left
    <2>10. /\ pay /\ Owed(s) >= 1 /\ ToSend(s) >= 1
        BY <1>15, <2>8
    <2>11. t.payload = Tail(q) /\ t.latest_fc = fc
        BY <2>4 DEF q1
    <2> QED BY <1>3, <2>8, <2>9, <2>5, <2>10, <2>11
<1>16. goal
    <2> HIDE DEF goal
    <2>1. \/ /\ n = 0 /\ ~hdr /\ ~pay /\ load = <<>>
             /\ \E m \in 0 .. MaxPayload :
                   /\ m <= Left(s, s.latest_fc)
                   /\ t = [s EXCEPT !.reserved = m, !.to_load = m, !.latest_fc = fc]
          \/ /\ l > 0 /\ ~h /\ ~hdr /\ ~pay
             /\ t = [s EXCEPT !.payload = @ \o load, !.to_load = @ - Len(load),
                              !.latest_fc = fc]
          \/ n > 0 /\ l = 0 /\ ~hdr /\ ~pay /\ t = [s EXCEPT !.latest_fc = fc] /\ load = <<>>
          \/ /\ n > 0 /\ l = 0 /\ ~h /\ hdr /\ ~pay /\ load = <<>>
             /\ t = [s EXCEPT !.header_sent = TRUE, !.latest_fc = fc]
          \/ /\ h /\ Len(q) = 1 /\ pay /\ ~hdr
             /\ t = [s EXCEPT !.payload = <<>>, !.reserved = 0, !.header_sent = FALSE,
                              !.tx_counter = (@ + s.reserved) % Modulus, !.latest_fc = fc]
          \/ /\ h /\ Len(q) > 1 /\ pay /\ ~hdr
             /\ t = [s EXCEPT !.payload = Tail(@), !.latest_fc = fc]
        BY <1>1, <1>3 DEF SrcMove, fc, load, pay, hdr
    <2> QED BY <1>10, <1>11, <1>12, <1>13, <1>14, <1>15, <2>1
<1> QED BY <1>16 DEF s, fc, load, pay, hdr

\* Words of the firmware the port still holds, in the order they are sent, and
\* the number of the last one sent or flushed before them.
Unsent(p) == p.src.payload \o p.txq
Base(p, wr) == wr - Len(Unsent(p))
Numbered(p, wr) ==
    /\ wr \in Nat
    /\ Base(p, wr) \in Nat
    /\ \A k \in 1 .. Len(Unsent(p)) : Unsent(p)[k] = Base(p, wr) + k

\* The words not sent yet move up by the one sent and the one written.
LEMMA UnsentMoves ==
    ASSUME NEW p, NEW i, NEW w, NEW wr \in Nat, PortOK(p), EdgeInput(p, w, wr, i),
           ~InReset(p, i), LatestAfter(p, i) \in Nat, NEW p1, p1 = PortEdge(p, i)
    PROVE  /\ p1.txq \in Seq(Nat)
           /\ Len(p1.txq) + Len(p1.src.payload) <= TxDepth
           /\ Unsent(p) \in Seq(Nat)
           /\ SentKind(i, "payload") => p.src.payload # <<>> /\ Unsent(p) # <<>>
           /\ Unsent(p1) = (IF SentKind(i, "payload") THEN Tail(Unsent(p)) ELSE Unsent(p))
                           \o i.fw
<1> DEFINE q == p.src.payload
           x == p.txq
           load == Loaded(p, i)
           pay == SentKind(i, "payload")
           q1 == p1.src.payload
           x1 == p1.txq
<1>1. /\ q \in Seq(Nat) /\ x \in Seq(Nat) /\ Len(q) \in Nat /\ Len(x) \in Nat
      /\ Len(x) + Len(q) <= TxDepth
    <2>1. q \in Seq(Nat) /\ x \in Seq(Nat)
        BY DEF PortOK, SrcOK
    <2>2. Len(x) + Len(q) <= TxDepth
        BY DEF PortOK
    <2> HIDE DEF q, x
    <2> QED BY <2>1, <2>2, LenProperties
<1>2. /\ q1 \in Seq(Nat)
      /\ q1 = IF pay THEN Tail(q) ELSE q \o load
    BY SrcFacts, PortFields DEF SrcOK
<1>3. \/ i.fw = <<>>
      \/ i.fw = <<wr + 1>> /\ Len(x) + Len(q) < TxDepth
    BY DEF EdgeInput, FwAccepts, TxRoom
<1>4. i.fw \in Seq(Nat) /\ Len(i.fw) \in {0, 1} /\ Len(i.fw) + Len(x) + Len(q) <= TxDepth
    <2>1. CASE i.fw = <<>>
        <3>1. i.fw \in Seq(Nat) /\ Len(i.fw) = 0
            BY <2>1, EmptySeq
        <3> HIDE DEF q, x
        <3> QED BY <1>1, <3>1
    <2>2. CASE i.fw = <<wr + 1>> /\ Len(x) + Len(q) < TxDepth
        <3>1. wr + 1 \in Nat
            OBVIOUS
        <3>2. i.fw \in Seq(Nat) /\ Len(i.fw) = 1
            BY <2>2, <3>1
        <3>3. Len(x) + Len(q) < TxDepth
            BY <2>2
        <3> HIDE DEF q, x
        <3> QED BY <1>1, <3>2, <3>3, TxDepthAssumption
    <2> QED BY <1>3, <2>1, <2>2
<1>5. x1 = (IF load = <<>> THEN x ELSE Tail(x)) \o i.fw
    <2>1. x1 = (IF load = <<>> THEN x ELSE Tail(x)) \o (IF TxRoom(p) THEN i.fw ELSE <<>>)
        BY PortFields DEF TxAfter
    <2>2. CASE i.fw = <<>>
        BY <2>1, <2>2
    <2>3. CASE i.fw # <<>>
        BY <1>3, <2>1, <2>3 DEF TxRoom
    <2> QED BY <2>2, <2>3
<1>6. pay => Owed(p.src) >= 1 /\ ToSend(p.src) >= 1
    BY SrcFacts
<1>7. pay => load = <<>> /\ p.src.header_sent /\ q # <<>>
    <2> SUFFICES ASSUME pay PROVE load = <<>> /\ p.src.header_sent /\ q # <<>>
        OBVIOUS
    <2>1. p.src.header_sent
        BY <1>6 DEF Owed
    <2>2. p.src.to_load = 0 /\ Len(q) >= 1
        BY <2>1 DEF PortOK, SrcOK
    <2>3. q # <<>>
        <3> SUFFICES ASSUME q = <<>> PROVE FALSE
            OBVIOUS
        <3>1. Len(q) = 0
            OBVIOUS
        <3> QED BY <2>2, <3>1
    <2> QED BY <2>1, <2>2, <2>3, LoadedIs, <1>1
<1>8. \/ load = <<>>
      \/ load = <<Head(x)>> /\ x # <<>> /\ Head(x) \in Nat /\ <<Head(x)>> \in Seq(Nat)
    <2>1. \/ load = <<>>
          \/ load = <<Head(x)>> /\ x # <<>> /\ Head(x) \in Nat
        BY <1>1, LoadedIs
    <2> QED BY <2>1
<1> HIDE DEF q, x, load, pay, q1, x1
<1>9. q \o x \in Seq(Nat) /\ Len(q \o x) = Len(q) + Len(x)
    BY <1>1, ConcatProperties
<1>10. pay => /\ q \o x # <<>> /\ Tail(q \o x) = Tail(q) \o x
              /\ Tail(q) \in Seq(Nat) /\ Len(Tail(q \o x)) = Len(q) + Len(x) - 1
              /\ Tail(q \o x) \in Seq(Nat)
    <2> SUFFICES ASSUME pay
                 PROVE  /\ q \o x # <<>> /\ Tail(q \o x) = Tail(q) \o x
                        /\ Tail(q) \in Seq(Nat)
                        /\ Len(Tail(q \o x)) = Len(q) + Len(x) - 1
                        /\ Tail(q \o x) \in Seq(Nat)
        OBVIOUS
    <2>1. q \o x # <<>> /\ Tail(q \o x) = Tail(q) \o x
        BY <1>1, <1>7, TailConcat
    <2>2. Tail(q) \in Seq(Nat)
        BY <1>1, <1>7, HeadTailProperties
    <2>3. Len(Tail(q \o x)) = Len(q \o x) - 1 /\ Tail(q \o x) \in Seq(Nat)
        BY <1>9, <2>1, HeadTailProperties
    <2> QED BY <1>9, <2>1, <2>2, <2>3
<1>11. /\ x1 \in Seq(Nat)
       /\ q1 \o x1 = (IF pay THEN Tail(q \o x) ELSE q \o x) \o i.fw
    <2>1. CASE load = <<>>
        <3>1. x1 = x \o i.fw
            BY <1>5, <2>1
        <3>2. x1 \in Seq(Nat)
            BY <1>1, <1>4, <3>1, ConcatProperties
        <3>3. CASE pay
            <4>1. q1 \o x1 = (Tail(q) \o x) \o i.fw
                BY <1>1, <1>2, <1>4, <1>10, <3>1, <3>3, Reassociate
            <4> QED BY <1>10, <3>2, <3>3, <4>1
        <3>4. CASE ~pay
            <4>1. q1 = q
                BY <1>1, <1>2, <2>1, <3>4, ConcatEmptySeq
            <4>2. q1 \o x1 = (q \o x) \o i.fw
                BY <1>1, <1>4, <3>1, <4>1, Reassociate
            <4> QED BY <3>2, <3>4, <4>2
        <3> QED BY <3>3, <3>4
    <2>2. CASE /\ load = <<Head(x)>> /\ x # <<>> /\ Head(x) \in Nat
               /\ <<Head(x)>> \in Seq(Nat)
        <3>1. load # <<>> /\ ~pay
            BY <1>7, <2>2
        <3>2. x1 = Tail(x) \o i.fw /\ q1 = q \o <<Head(x)>>
            BY <1>2, <1>5, <2>2, <3>1
        <3>3. Tail(x) \in Seq(Nat) /\ <<Head(x)>> \o Tail(x) = x
            BY <1>1, <2>2, HeadTailConcat, HeadTailProperties
        <3> DEFINE a == <<Head(x)>>
                   b == Tail(x)
        <3>4. a \in Seq(Nat) /\ b \in Seq(Nat) /\ a \o b = x
            BY <2>2, <3>3
        <3> HIDE DEF a, b
        <3>5. b \o i.fw \in Seq(Nat)
            BY <1>4, <3>4, ConcatProperties
        <3>6. (q \o a) \o (b \o i.fw) = q \o (a \o (b \o i.fw))
            BY <1>1, <3>4, <3>5, Reassociate
        <3>7. a \o (b \o i.fw) = x \o i.fw
            BY <1>4, <3>4, Reassociate
        <3>8. q \o (x \o i.fw) = (q \o x) \o i.fw
            BY <1>1, <1>4, Reassociate
        <3>9. x1 = b \o i.fw /\ q1 = q \o a
            BY <3>2 DEF a, b
        <3> QED BY <3>1, <3>5, <3>6, <3>7, <3>8, <3>9
    <2> QED BY <1>8, <2>1, <2>2
<1>12. Len(x1) + Len(q1) <= TxDepth
    <2>1. Len(q1 \o x1) = Len(q1) + Len(x1) /\ Len(q1) \in Nat /\ Len(x1) \in Nat
        BY <1>2, <1>11, ConcatProperties
    <2> DEFINE u == IF pay THEN Tail(q \o x) ELSE q \o x
    <2>2. u \in Seq(Nat) /\ Len(u) \in Nat /\ Len(u) <= Len(q) + Len(x)
        <3>1. CASE pay
            BY <1>1, <1>10, <3>1
        <3>2. CASE ~pay
            BY <1>1, <1>9, <3>2
        <3> QED BY <3>1, <3>2
    <2>3. q1 \o x1 = u \o i.fw
        BY <1>11
    <2> HIDE DEF u
    <2>4. Len(u \o i.fw) = Len(u) + Len(i.fw)
        BY <1>4, <2>2, ConcatProperties
    <2> QED BY <1>1, <1>4, <2>1, <2>2, <2>3, <2>4, TxDepthAssumption
<1> QED BY <1>7, <1>9, <1>10, <1>11, <1>12 DEF Unsent, q, x, load, pay, q1, x1

\* The last credit update stays a count.
LEMMA LatestIsCount ==
    ASSUME NEW p, NEW i, PortOK(p), i.word # <<>> => i.word[1] \in Dwords
    PROVE  LatestAfter(p, i) \in Nat
BY DEF LatestAfter, Update, AtBoundary, PortOK, SrcOK, Dwords

\* A stream reset clears the transmit side.
LEMMA ResetClears ==
    ASSUME NEW p, NEW i, InReset(p, i), NEW p1, p1 = PortEdge(p, i)
    PROVE  p1.src = SrcReset /\ p1.txq = <<>> /\ Unsent(p1) = <<>>
<1>1. p1.src = SrcReset /\ p1.txq = <<>>
    BY PortFields DEF SrcAfter, TxAfter
<1>2. p1.src.payload = <<>>
    BY <1>1 DEF SrcReset
<1>3. <<>> \o <<>> = <<>>
    BY EmptySeq, ConcatEmptySeq
<1> QED BY <1>1, <1>2, <1>3 DEF Unsent

\* The words not sent yet stay consecutively numbered; the next to send is the
\* one behind all that have been sent or dropped.
LEMMA NumberedMoves ==
    ASSUME NEW p, NEW i, NEW w, NEW wr, PortOK(p), EdgeInput(p, w, wr, i), Numbered(p, wr),
           i.word # <<>> => i.word[1] \in Dwords,
           NEW p1, p1 = PortEdge(p, i), NEW wr1, wr1 = wr + Len(i.fw)
    PROVE  /\ Numbered(p1, wr1)
           /\ Base(p1, wr1) = IF InReset(p, i) THEN wr1
                              ELSE Base(p, wr) + (IF SentKind(i, "payload") THEN 1 ELSE 0)
           /\ Base(p, wr) <= Base(p1, wr1)
           /\ SentKind(i, "payload") /\ ~InReset(p, i) =>
                 Head(p.src.payload) = Base(p, wr) + 1
<1> DEFINE u == Unsent(p)
           u1 == Unsent(p1)
           pay == SentKind(i, "payload")
<1>1. wr \in Nat /\ Base(p, wr) \in Nat /\ Base(p, wr) = wr - Len(u)
      /\ \A k \in 1 .. Len(u) : u[k] = Base(p, wr) + k
    BY DEF Numbered, Base
<1>2. u \in Seq(Nat) /\ Len(u) \in Nat
    <2>1. p.src.payload \in Seq(Nat) /\ p.txq \in Seq(Nat)
        BY DEF PortOK, SrcOK
    <2>2. u \in Seq(Nat)
        BY <2>1, ConcatProperties DEF Unsent
    <2> HIDE DEF u
    <2> QED BY <2>2, LenProperties
<1>3. /\ i.fw \in Seq(Nat) /\ Len(i.fw) \in {0, 1}
      /\ \A k \in 1 .. Len(i.fw) : i.fw[k] = wr + k
    <2>1. CASE i.fw = <<>>
        <3>1. i.fw \in Seq(Nat) /\ Len(i.fw) = 0
            BY <2>1, EmptySeq
        <3> QED BY <3>1
    <2>2. CASE i.fw = <<wr + 1>>
        <3>1. wr + 1 \in Nat
            BY <1>1
        <3>2. i.fw \in Seq(Nat) /\ Len(i.fw) = 1 /\ i.fw[1] = wr + 1
            BY <2>2, <3>1
        <3> QED BY <3>2
    <2> QED BY <2>1, <2>2 DEF EdgeInput
<1> HIDE DEF u, u1
<1>4. CASE InReset(p, i)
    <2>1. u1 = <<>>
        BY <1>4, ResetClears DEF u1
    <2>2. Len(u1) = 0
        BY <2>1
    <2>3. Base(p1, wr1) = wr1 /\ wr1 \in Nat
        BY <1>1, <1>3, <2>2 DEF Base, u1
    <2>4. Numbered(p1, wr1)
        BY <2>2, <2>3 DEF Numbered, u1
    <2> QED BY <1>1, <1>2, <1>3, <1>4, <2>3, <2>4
<1>5. CASE ~InReset(p, i)
    <2> DEFINE v == IF pay THEN Tail(u) ELSE u
               d == IF pay THEN 1 ELSE 0
    <2>1. pay => p.src.payload # <<>> /\ u # <<>>
        BY <1>1, <1>5, LatestIsCount, UnsentMoves DEF u
    <2>2. u1 = v \o i.fw
        BY <1>1, <1>5, LatestIsCount, UnsentMoves DEF u, u1
    <2>3. /\ d \in {0, 1} /\ v \in Seq(Nat) /\ Len(v) \in Nat /\ Len(v) = Len(u) - d
          /\ \A k \in 1 .. Len(v) : v[k] = u[k + d]
        <3>1. CASE pay
            BY <1>2, <2>1, <3>1, HeadTailProperties, LenProperties
        <3>2. CASE ~pay
            BY <1>2, <3>2
        <3> QED BY <3>1, <3>2
    <2> HIDE DEF v, d
    <2>4. /\ Len(u1) = Len(v) + Len(i.fw)
          /\ \A k \in 1 .. Len(v) + Len(i.fw) :
                u1[k] = IF k <= Len(v) THEN v[k] ELSE i.fw[k - Len(v)]
        BY <1>3, <2>2, <2>3, ConcatProperties
    <2> DEFINE m == Len(v)
               f == Len(i.fw)
               b == Base(p, wr)
    <2>5. m \in Nat /\ f \in {0, 1} /\ d \in {0, 1} /\ b \in Nat /\ b = wr - (m + d)
          /\ wr \in Nat
        BY <1>1, <1>2, <1>3, <2>3
    <2>6. Base(p1, wr1) = b + d
        <3>1. Base(p1, wr1) = wr + f - (m + f)
            <4>1. Len(u1) = m + f
                BY <2>4
            <4>2. Base(p1, wr1) = wr1 - Len(u1)
                BY DEF Base, u1
            <4> HIDE DEF m, b
            <4> QED BY <2>5, <4>1, <4>2
        <3> HIDE DEF m, f, b
        <3> QED BY <2>5, <3>1
    <2>7. ASSUME NEW k \in 1 .. Len(u1) PROVE u1[k] = (b + d) + k
        <3>1. k \in 1 .. m + f
            BY <2>4
        <3>2. CASE k <= m
            <4>1. k \in 1 .. m /\ k + d \in 1 .. m + d /\ Len(u) = m + d
                <5>1. Len(u) = m + d
                    BY <1>2, <2>3
                <5> HIDE DEF m, f, b
                <5> QED BY <2>5, <3>1, <3>2, <5>1
            <4>2. u1[k] = u[k + d]
                BY <2>3, <2>4, <3>1, <3>2, <4>1
            <4>3. u[k + d] = b + (k + d)
                BY <1>1, <4>1
            <4> HIDE DEF m, f, b
            <4> QED BY <2>5, <3>1, <4>2, <4>3
        <3>3. CASE ~(k <= m)
            <4>1. k - m \in 1 .. f
                <5> HIDE DEF m, f, b
                <5> QED BY <2>5, <3>1, <3>3
            <4>2. u1[k] = i.fw[k - m]
                BY <2>4, <3>1, <3>3
            <4>3. i.fw[k - m] = wr + (k - m)
                BY <1>3, <4>1
            <4> HIDE DEF m, f, b
            <4> QED BY <2>5, <3>1, <4>2, <4>3
        <3> QED BY <3>2, <3>3
    <2>8. Numbered(p1, wr1)
        <3>1. wr1 \in Nat /\ b + d \in Nat
            <4> HIDE DEF m, b
            <4> QED BY <2>5
        <3> QED BY <2>6, <2>7, <3>1 DEF Numbered, u1
    <2>9. pay => Head(p.src.payload) = b + 1
        <3> SUFFICES ASSUME pay PROVE Head(p.src.payload) = b + 1
            OBVIOUS
        <3> DEFINE q == p.src.payload
        <3>1. q \in Seq(Nat) /\ p.txq \in Seq(Nat) /\ q # <<>>
            BY <2>1 DEF PortOK, SrcOK
        <3> HIDE DEF q
        <3>2. Len(q) \in Nat \ {0} /\ Len(p.txq) \in Nat /\ Head(q) = q[1]
            BY <3>1, EmptySeq, LenProperties
        <3>3. (q \o p.txq)[1] = q[1] /\ Len(q \o p.txq) = Len(q) + Len(p.txq)
            BY <3>1, <3>2, ConcatProperties
        <3>4. u[1] = q[1] /\ 1 \in 1 .. Len(u)
            <4>1. u = q \o p.txq
                BY DEF u, Unsent, q
            <4> QED BY <3>2, <3>3, <4>1
        <3> QED BY <1>1, <3>2, <3>4 DEF q
    <2>10. b <= Base(p1, wr1)
        <3> HIDE DEF m, f, b
        <3> QED BY <2>5, <2>6
    <2> QED BY <1>5, <2>6, <2>8, <2>9, <2>10 DEF d
<1> QED BY <1>4, <1>5
-----------------------------------------------------------------------------
(* The receive path, and a port as a whole. *)

\* Payload words still expected after the DWORD d, when r were before it.
RemAfter(r, d) ==
    IF r > 0 THEN r - 1 ELSE IF d.kind = "header" THEN d.value ELSE 0

\* The DWORD that arrives is one the peer sends.
WordOK(i) ==
    i.word # <<>> => /\ i.word = <<i.word[1]>> /\ i.word[1] \in Dwords
                     /\ i.word[1].kind = "header" => i.word[1].value \in 1 .. MaxPayload

Expected(p, i) ==
    IF i.word = <<>> THEN p.rx.remaining ELSE RemAfter(p.rx.remaining, i.word[1])
Reading(p, i)  == Reads(p.rx, InReset(p, i), i.ready)
Writing(p, i)  == Writes(p.rx, i.word, InReset(p, i))
ReadCount(p, i)  == IF Reading(p, i) THEN 1 ELSE 0
WriteCount(p, i) == IF Writing(p, i) THEN 1 ELSE 0
Discards(p, i) == DiscardAfter(p.rx, i.word, InReset(p, i))
Rejects(p, i)  == p.rx.initialized /\ ~InReset(p, i) /\ RxError(p.rx, i.word, InReset(p, i))

\* What an edge does to the receive path (uart_rx_path.py).
LEMMA RxFacts ==
    ASSUME NEW p, NEW i, PortOK(p), WordOK(i), NEW r1, r1 = PortEdge(p, i).rx
    PROVE  LET r == p.rx IN
           /\ r1.remaining = Expected(p, i)
           /\ r1.initialized <=> ~InReset(p, i)
           /\ r1.discard <=> Discards(p, i)
           /\ InReset(p, i) \/ ~r.initialized => r1.fifo = <<>>
           /\ ~InReset(p, i) /\ r.initialized =>
                 r1.fifo = (IF Reading(p, i) THEN Tail(r.fifo) ELSE r.fifo)
                           \o (IF Writing(p, i) THEN i.word ELSE <<>>)
           /\ r1.counter = IF InReset(p, i) THEN 0 ELSE IF ~r.initialized THEN RxDepth
                           ELSE IF Reading(p, i) THEN (r.counter + 1) % Modulus
                           ELSE r.counter
<1> DEFINE r == p.rx
           rst == InReset(p, i)
<1>1. r1 = RxEdge(r, i.word, rst, i.ready)
    BY PortFields
<1>2. /\ r1.remaining = RemainingAfter(r, i.word, rst)
      /\ r1.initialized = ~rst
      /\ r1.discard = DiscardAfter(r, i.word, rst)
      /\ r1.fifo = Stored(r, i.word, rst, i.ready)
      /\ r1.counter = CounterAfter(r, rst, i.ready)
    BY <1>1 DEF RxEdge
<1>3. r.remaining \in Nat
    BY StreamAssumption DEF PortOK, RxOK
<1> HIDE DEF r, rst
<1>4. r1.remaining = IF i.word = <<>> THEN r.remaining ELSE RemAfter(r.remaining, i.word[1])
    BY <1>2, <1>3 DEF RemainingAfter, Inside, AtBoundary, RemAfter
<1>5. rst \/ ~r.initialized => r1.fifo = <<>>
    BY <1>2 DEF Stored, Active
<1>6. ~rst /\ r.initialized =>
         r1.fifo = (IF Reads(r, rst, i.ready) THEN Tail(r.fifo) ELSE r.fifo)
                   \o (IF Writes(r, i.word, rst) THEN i.word ELSE <<>>)
    BY <1>2 DEF Stored, Active
<1>7. r1.counter = IF rst THEN 0 ELSE IF ~r.initialized THEN RxDepth
                   ELSE IF Reads(r, rst, i.ready) THEN (r.counter + 1) % Modulus
                   ELSE r.counter
    BY <1>2 DEF CounterAfter
<1> QED BY <1>2, <1>4, <1>5, <1>6, <1>7 DEF r, rst, Reading, Writing, Discards, Expected

\* What is stored after an edge in operation, in terms of what was.
LEMMA StoredIs ==
    ASSUME NEW p, NEW i, PortOK(p), WordOK(i), NEW r1, r1 = PortEdge(p, i).rx,
           ~InReset(p, i), p.rx.initialized
    PROVE  LET q == p.rx.fifo
               a == ReadCount(p, i)
               b == WriteCount(p, i) IN
           /\ r1.fifo \in Seq(Dwords) /\ Len(q) \in Nat /\ a <= Len(q)
           /\ Len(r1.fifo) = Len(q) - a + b
           /\ \A k \in 1 .. Len(q) - a : r1.fifo[k] = q[k + a]
           /\ b = 1 => i.word # <<>> /\ r1.fifo[Len(q) - a + 1] = i.word[1]
           /\ \A k \in 1 .. Len(q) : q[k] \in Dwords
           /\ a = 1 => Head(q) = q[1]
<1> DEFINE q == p.rx.fifo
           reads == Reading(p, i)
           writes == Writing(p, i)
           a == IF reads THEN 1 ELSE 0
           b == IF writes THEN 1 ELSE 0
           x == IF reads THEN Tail(q) ELSE q
           y == IF writes THEN i.word ELSE <<>>
<1>1. q \in Seq(Dwords)
    BY DEF PortOK, RxOK
<1>2. r1.fifo = x \o y
    BY RxFacts
<1>3. reads => q # <<>>
    BY DEF Reading, Reads
<1>4. writes => i.word # <<>>
    BY DEF Writing, Writes, Inside
<1> HIDE DEF q, reads, writes
<1>5. Len(q) \in Nat /\ \A k \in 1 .. Len(q) : q[k] \in Dwords
    BY <1>1, LenProperties, ElementOfSeq
<1>6. /\ x \in Seq(Dwords) /\ Len(x) = Len(q) - a /\ a <= Len(q)
      /\ \A k \in 1 .. Len(q) - a : x[k] = q[k + a]
      /\ a = 1 => Head(q) = q[1]
    <2>1. CASE reads
        <3>1. Len(q) > 0
            BY <1>1, <1>3, <2>1, EmptySeq
        <3> QED BY <1>1, <1>3, <1>5, <2>1, <3>1, HeadTailProperties
    <2>2. CASE ~reads
        BY <1>1, <1>5, <2>2
    <2> QED BY <2>1, <2>2
<1>7. y \in Seq(Dwords) /\ Len(y) = b /\ (b = 1 => y[1] = i.word[1] /\ i.word # <<>>)
    <2>1. CASE writes
        <3>1. i.word = <<i.word[1]>> /\ i.word[1] \in Dwords
            BY <1>4, <2>1 DEF WordOK
        <3> DEFINE d == i.word[1]
        <3>2. <<d>> \in Seq(Dwords) /\ Len(<<d>>) = 1 /\ <<d>>[1] = d
            BY <3>1
        <3> QED BY <1>4, <2>1, <3>1, <3>2
    <2>2. CASE ~writes
        <3>1. <<>> \in Seq(Dwords) /\ Len(<<>>) = 0
            BY EmptySeq
        <3> QED BY <2>2, <3>1
    <2> QED BY <2>1, <2>2
<1>8. a \in {0, 1} /\ b \in {0, 1}
    OBVIOUS
<1> HIDE DEF a, b, x, y
<1>9. /\ x \o y \in Seq(Dwords) /\ Len(x \o y) = Len(x) + Len(y)
      /\ \A k \in 1 .. Len(x) + Len(y) :
            (x \o y)[k] = IF k <= Len(x) THEN x[k] ELSE y[k - Len(x)]
    <2>1. x \in Seq(Dwords) /\ y \in Seq(Dwords)
        BY <1>6, <1>7
    <2> QED BY <2>1, ConcatProperties
<1>10. Len(x) \in Nat /\ Len(x) = Len(q) - a /\ Len(y) = b
    BY <1>5, <1>6, <1>7, <1>8
<1>11. /\ r1.fifo \in Seq(Dwords) /\ Len(r1.fifo) = Len(q) - a + b
       /\ \A k \in 1 .. Len(q) - a : r1.fifo[k] = q[k + a]
    <2>1. ASSUME NEW k \in 1 .. Len(q) - a PROVE (x \o y)[k] = q[k + a]
        <3>1. k \in 1 .. Len(x) + Len(y) /\ k <= Len(x)
            BY <1>8, <1>10, <2>1
        <3> QED BY <1>6, <1>9, <2>1, <3>1
    <2> QED BY <1>2, <1>9, <1>10, <2>1
<1>12. b = 1 => i.word # <<>> /\ r1.fifo[Len(q) - a + 1] = i.word[1]
    <2> SUFFICES ASSUME b = 1
                 PROVE  i.word # <<>> /\ r1.fifo[Len(q) - a + 1] = i.word[1]
        OBVIOUS
    <2> DEFINE n == Len(q) - a + 1
    <2>1. n \in 1 .. Len(x) + Len(y) /\ ~(n <= Len(x)) /\ n - Len(x) = 1
        BY <1>8, <1>10
    <2>2. (x \o y)[n] = y[1]
        <3> HIDE DEF n
        <3> QED BY <1>9, <2>1
    <2> QED BY <1>2, <1>7, <2>2
<1>13. a = ReadCount(p, i) /\ b = WriteCount(p, i)
    BY DEF a, b, reads, writes, ReadCount, WriteCount
<1> QED BY <1>5, <1>6, <1>11, <1>12, <1>13 DEF q

\* An edge keeps what a port holds, if no DWORD surprises it.
LEMMA PortKept ==
    ASSUME NEW p, NEW i, NEW w, NEW wr \in Nat, PortOK(p), EdgeInput(p, w, wr, i),
           WordOK(i), Request(p, i) => p.ctl.responses = 0,
           ~Rejects(p, i),
           NEW p1, p1 = PortEdge(p, i)
    PROVE  PortOK(p1)
<1> DEFINE r == p.rx
           rst == InReset(p, i)
           r1 == p1.rx
<1>1. CtlOK(p1.ctl) /\ CtlMove(p, p1.ctl, i)
      /\ p1.ctl.responses = p.ctl.responses + (IF Request(p, i) THEN 1 ELSE 0)
                                            - (IF SentKind(i, "response") THEN 1 ELSE 0)
    BY CtlFacts
<1>2. SrcOK(p1.src) /\ p1.txq \in Seq(Nat) /\ Len(p1.txq) + Len(p1.src.payload) <= TxDepth
    <2>1. CASE rst
        <3>1. p1.src = SrcReset /\ p1.txq = <<>>
            BY <2>1, ResetClears
        <3>2. /\ <<>> \in Seq(Nat) /\ Len(<<>>) = 0 /\ 0 \in 0 .. MaxPayload
              /\ 0 <= TxDepth
            BY EmptySeq, StreamAssumption, TxDepthAssumption
        <3>3. SrcOK(SrcReset)
            BY <3>2 DEF SrcOK, SrcReset
        <3>4. p1.src.payload = <<>>
            BY <3>1 DEF SrcReset
        <3> QED BY <3>1, <3>2, <3>3, <3>4
    <2>2. CASE ~rst
        <3>1. LatestAfter(p, i) \in Nat
            BY LatestIsCount DEF WordOK
        <3> QED BY <2>2, <3>1, SrcFacts, UnsentMoves, PortFields
    <2> QED BY <2>1, <2>2
<1>3. /\ r.remaining \in 0 .. MaxPayload /\ r.fifo \in Seq(Dwords) /\ r.counter \in Nat
      /\ r.discard \in BOOLEAN /\ r.initialized \in BOOLEAN
      /\ Len(r.fifo) <= RxDepth
      /\ r.remaining = 0 => ~r.discard
      /\ r.discard => r.fifo = <<>>
    BY DEF PortOK, RxOK
<1>4. /\ r1.remaining = Expected(p, i)
      /\ r1.initialized <=> ~rst
      /\ r1.discard <=> Discards(p, i)
      /\ rst \/ ~r.initialized => r1.fifo = <<>>
      /\ ~rst /\ r.initialized =>
            r1.fifo = (IF Reading(p, i) THEN Tail(r.fifo) ELSE r.fifo)
                      \o (IF Writing(p, i) THEN i.word ELSE <<>>)
      /\ r1.counter = IF rst THEN 0 ELSE IF ~r.initialized THEN RxDepth
                      ELSE IF Reading(p, i) THEN (r.counter + 1) % Modulus
                      ELSE r.counter
    <2>1. r1 = PortEdge(p, i).rx
        OBVIOUS
    <2> HIDE DEF r1
    <2> QED BY <2>1, RxFacts
<1>5. r1.remaining \in 0 .. MaxPayload
    BY <1>3, <1>4, StreamAssumption DEF Expected, RemAfter, WordOK
<1>6. r1.counter \in Nat
    <2>1. r.counter + 1 \in Int
        BY <1>3
    <2>2. (r.counter + 1) % Modulus \in 0 .. (Modulus - 1)
        BY <2>1, ModSplit, StreamAssumption
    <2> QED BY <1>3, <1>4, <2>2, StreamAssumption, RxPathAssumption
<1>7. r1.fifo \in Seq(Dwords) /\ Len(r1.fifo) <= RxDepth
    <2>1. CASE rst \/ ~r.initialized
        <3>1. r1.fifo = <<>>
            BY <1>4, <2>1
        <3>2. <<>> \in Seq(Dwords) /\ Len(<<>>) = 0 /\ 0 <= RxDepth
            BY EmptySeq, RxPathAssumption, StreamAssumption
        <3> QED BY <3>1, <3>2
    <2>2. CASE ~rst /\ r.initialized
        <3> DEFINE a == ReadCount(p, i)
                   b == WriteCount(p, i)
        <3>1. /\ r1.fifo \in Seq(Dwords) /\ Len(r.fifo) \in Nat
              /\ Len(r1.fifo) = Len(r.fifo) - a + b
            BY <2>2, StoredIs
        <3>2. b = 1 => Len(r.fifo) < RxDepth
            BY DEF Writing, Writes, WriteCount
        <3>3. a \in {0, 1} /\ b \in {0, 1} /\ RxDepth \in Nat
            BY RxPathAssumption, StreamAssumption DEF ReadCount, WriteCount
        <3> HIDE DEF a, b
        <3> QED BY <1>3, <3>1, <3>2, <3>3
    <2> QED BY <2>1, <2>2
<1>8. r1.remaining = 0 => ~r1.discard
    BY <1>3, <1>4, StreamAssumption
       DEF Discards, DiscardAfter, Expected, RemAfter, AtBoundary, WordOK
<1>9. r1.discard => r1.fifo = <<>>
    <2> SUFFICES ASSUME r1.discard, ~rst, r.initialized PROVE r1.fifo = <<>>
        BY <1>4
    <2>1. Active(r, rst)
        BY DEF Active
    <2>2. ~RxError(r, i.word, rst)
        BY DEF Rejects
    <2>3. r.discard /\ r.remaining > 0
        BY <1>4, <2>1, <2>2 DEF Discards, DiscardAfter, Dropping, Active
    <2>4. r.fifo = <<>> /\ ~Reading(p, i) /\ ~Writing(p, i)
        BY <1>3, <2>3 DEF Reading, Writing, Reads, Writes, Dropping
    <2>5. r1.fifo = <<>> \o <<>>
        BY <1>4, <2>4
    <2> QED BY <2>5, EmptySeq, ConcatEmptySeq
<1>10. ~r1.initialized => r1.fifo = <<>> /\ r1.counter = 0
    BY <1>4
<1>11. RxOK(r1)
    <2>1. r1 = [remaining |-> r1.remaining, discard |-> r1.discard,
                initialized |-> r1.initialized, fifo |-> r1.fifo, counter |-> r1.counter]
        <3>1. r1 = RxEdge(r, i.word, rst, i.ready)
            BY PortFields
        <3> HIDE DEF r1, r, rst
        <3> QED BY <3>1 DEF RxEdge
    <2>2. r1.discard \in BOOLEAN
        <3>1. r1 = RxEdge(r, i.word, rst, i.ready)
            BY PortFields
        <3>2. r1.discard = DiscardAfter(r, i.word, rst)
            BY <3>1 DEF RxEdge
        <3> QED BY <1>3, <3>2 DEF DiscardAfter
    <2>3. r1.initialized \in BOOLEAN
        <3>1. r1 = RxEdge(r, i.word, rst, i.ready)
            BY PortFields
        <3>2. r1.initialized = ~rst
            BY <3>1 DEF RxEdge
        <3> QED BY <3>2
    <2> HIDE DEF r1
    <2>4. r1 \in [remaining : 0 .. MaxPayload, discard : BOOLEAN, initialized : BOOLEAN,
                  fifo : Seq(Dwords), counter : Nat]
        BY <1>5, <1>6, <1>7, <2>1, <2>2, <2>3
    <2> QED BY <1>7, <1>8, <1>9, <1>10, <2>4 DEF RxOK
<1>12. p1.ctl.phase # "normal" \/ p1.ctl.responses > 0 =>
          p1.src = SrcReset /\ p1.txq = <<>> /\ ~r1.initialized
    <2> SUFFICES ASSUME p1.ctl.phase # "normal" \/ p1.ctl.responses > 0 PROVE rst
        BY <1>4, ResetClears
    <2>1. p.ctl.responses \in Nat
        BY ResetAssumption DEF PortOK, CtlOK, CtlState
    <2>2. CtlOK(p.ctl)
        BY DEF PortOK
    <2>3. CASE p1.ctl.phase # "normal"
        BY <1>1, <2>2, <2>3, ResetMeans DEF CtlMove, Expire
    <2>4. CASE p1.ctl.responses > 0
        BY <1>1, <2>1, <2>2, <2>4, ResetMeans
    <2> QED BY <2>3, <2>4
<1> QED BY <1>1, <1>2, <1>11, <1>12 DEF PortOK
-----------------------------------------------------------------------------
(* The wire into an end, as that end is going to parse it. *)

Has(w, kind) == \E k \in 1 .. Len(w) : w[k].kind = kind

\* p[k]: payload words still expected once the first k DWORDs are taken.
Parses(r, w, p) ==
    /\ p \in [0 .. Len(w) -> 0 .. MaxPayload]
    /\ p[0] = r
    /\ \A k \in 1 .. Len(w) : p[k] = RemAfter(p[k - 1], w[k])

\* A payload word is taken for payload; a header and a Request are not.
KindsAgree(w, p) ==
    \A k \in 1 .. Len(w) :
        /\ w[k].kind = "payload" => p[k - 1] > 0
        /\ w[k].kind \in {"header", "request"} => p[k - 1] = 0
        /\ w[k].kind = "header" => w[k].value \in 1 .. MaxPayload

\* A Request, or a Response that is decoded.
EndsStream(w, p, k) ==
    w[k].kind = "request" \/ (w[k].kind = "response" /\ p[k - 1] = 0)

\* Nothing of a transport follows one.
BoundaryLasts(w, p) ==
    \A k \in 1 .. Len(w) : EndsStream(w, p, k) => \A j \in k .. Len(w) : p[j] = 0

\* q[k]: DWORDs behind the first k that are taken for payload.
Counts(w, p, q) ==
    /\ q \in [0 .. Len(w) -> Nat]
    /\ q[Len(w)] = 0
    /\ \A k \in 1 .. Len(w) : q[k - 1] = q[k] + (IF p[k - 1] > 0 THEN 1 ELSE 0)
    /\ \A k \in 0 .. Len(w) : p[k] <= q[k] + p[Len(w)]
    /\ \A k \in 0 .. Len(w) : q[k] = 0 \/ \E j \in k .. Len(w) - 1 : p[j] > 0

WireOK(r, w, p, q) ==
    Parses(r, w, p) /\ KindsAgree(w, p) /\ BoundaryLasts(w, p) /\ Counts(w, p, q)

\* w1 is w less t DWORDs taken; w1 is w with g DWORDs, the DWORD d, appended.
Takes(w, w1, t) ==
    /\ t \in {0, 1} /\ Len(w) \in Nat /\ Len(w1) \in Nat /\ Len(w) = Len(w1) + t
    /\ \A k \in 1 .. Len(w1) : w1[k] = w[k + t]
Grows(w, w1, g, d) ==
    /\ g \in {0, 1} /\ Len(w) \in Nat /\ Len(w1) = Len(w) + g
    /\ \A k \in 1 .. Len(w) : w1[k] = w[k]
    /\ g = 1 => w1[Len(w) + 1] = d

\* The annotation p of w, for w1.
Behind(p, w1, t) == [k \in 0 .. Len(w1) |-> p[k + t]]
ParseBeyond(p, w, w1, d) ==
    [k \in 0 .. Len(w1) |-> IF k <= Len(w) THEN p[k] ELSE RemAfter(p[Len(w)], d)]
TakenAsPayload(p, w, g) == IF g = 1 /\ p[Len(w)] > 0 THEN 1 ELSE 0
CountBeyond(q, w, w1, c) == [k \in 0 .. Len(w1) |-> IF k <= Len(w) THEN q[k] + c ELSE 0]

\* What may be appended.
MayFollow(p, w, d) ==
    /\ d \in Dwords
    /\ d.kind = "payload" => p[Len(w)] > 0
    /\ d.kind \in {"header", "request"} => p[Len(w)] = 0
    /\ d.kind = "header" => /\ d.value \in 1 .. MaxPayload
                            /\ ~Has(w, "request") /\ ~Has(w, "response")

\* Taking a DWORD brings no kind onto the wire.
LEMMA HasTakes ==
    ASSUME NEW w, NEW w1, NEW t, Takes(w, w1, t), NEW kind, Has(w1, kind)
    PROVE  Has(w, kind)
<1>1. PICK k \in 1 .. Len(w1) : w1[k].kind = kind
    BY DEF Has
<1>2. k + t \in 1 .. Len(w) /\ w1[k] = w[k + t]
    BY DEF Takes
<1> QED BY <1>1, <1>2 DEF Has

\* Sending a DWORD brings its kind onto the wire.
LEMMA HasGrows ==
    ASSUME NEW w, NEW w1, NEW g, NEW d, Grows(w, w1, g, d), NEW kind
    PROVE  Has(w1, kind) <=> Has(w, kind) \/ (g = 1 /\ d.kind = kind)
<1>1. ASSUME Has(w1, kind) PROVE Has(w, kind) \/ (g = 1 /\ d.kind = kind)
    <2>1. PICK k \in 1 .. Len(w1) : w1[k].kind = kind
        BY <1>1 DEF Has
    <2>2. k \in 1 .. Len(w) \/ (g = 1 /\ k = Len(w) + 1)
        BY DEF Grows
    <2> QED BY <2>1, <2>2 DEF Grows, Has
<1>2. ASSUME Has(w, kind) PROVE Has(w1, kind)
    <2>1. PICK k \in 1 .. Len(w) : w[k].kind = kind
        BY <1>2 DEF Has
    <2>2. k \in 1 .. Len(w1) /\ w1[k] = w[k]
        BY DEF Grows
    <2> QED BY <2>1, <2>2 DEF Has
<1>3. ASSUME g = 1, d.kind = kind PROVE Has(w1, kind)
    <2>1. Len(w) + 1 \in 1 .. Len(w1) /\ w1[Len(w) + 1] = d
        BY <1>3 DEF Grows
    <2> QED BY <1>3, <2>1 DEF Has
<1> QED BY <1>1, <1>2, <1>3

\* A wire well parsed stays so when its first DWORD is taken.
LEMMA WireTaken ==
    ASSUME NEW r, NEW w, NEW p, NEW q, WireOK(r, w, p, q), NEW w1, NEW t, Takes(w, w1, t),
           NEW p1, p1 = Behind(p, w1, t), NEW q1, q1 = Behind(q, w1, t),
           NEW r1, r1 = IF t = 0 THEN r ELSE RemAfter(r, w[1])
    PROVE  /\ WireOK(r1, w1, p1, q1)
           /\ p1[Len(w1)] = p[Len(w)]
           /\ t = 1 => q[0] = q1[0] + (IF r > 0 THEN 1 ELSE 0)
<1> DEFINE m == Len(w1)
           l == Len(w)
<1>1. t \in {0, 1} /\ l \in Nat /\ m \in Nat /\ l = m + t
      /\ \A k \in 1 .. m : w1[k] = w[k + t]
    BY DEF Takes
<1>2. /\ p \in [0 .. l -> 0 .. MaxPayload] /\ p[0] = r
      /\ \A k \in 1 .. l : p[k] = RemAfter(p[k - 1], w[k])
    BY DEF WireOK, Parses
<1> HIDE DEF m, l
<1>3. \A k \in 0 .. m : /\ k + t \in 0 .. l
                        /\ p1[k] = p[k + t] /\ q1[k] = q[k + t]
    BY <1>1 DEF m, Behind
<1>4. \A k \in 1 .. m : /\ k + t \in 1 .. l /\ k - 1 \in 0 .. m
                        /\ (k + t) - 1 = (k - 1) + t
    BY <1>1
<1>5. Parses(r1, w1, p1)
    <2>1. p1 \in [0 .. m -> 0 .. MaxPayload]
        BY <1>2, <1>3 DEF m, Behind
    <2>2. p1[0] = r1
        <3>1. p1[0] = p[t]
            BY <1>1, <1>3
        <3>2. CASE t = 0
            BY <1>2, <3>1, <3>2
        <3>3. CASE t = 1
            <4>1. p[1] = RemAfter(p[0], w[1])
                <5>1. 1 \in 1 .. l /\ 1 - 1 = 0
                    BY <1>1, <3>3
                <5>2. p[1] = RemAfter(p[1 - 1], w[1])
                    BY <1>2, <5>1
                <5> QED BY <5>1, <5>2
            <4> QED BY <1>2, <3>1, <3>3, <4>1
        <3> QED BY <1>1, <3>2, <3>3
    <2>3. ASSUME NEW k \in 1 .. m PROVE p1[k] = RemAfter(p1[k - 1], w1[k])
        <3>1. p[k + t] = RemAfter(p[(k + t) - 1], w[k + t])
            BY <1>2, <1>4
        <3>2. /\ k \in 0 .. m /\ k - 1 \in 0 .. m /\ (k + t) - 1 = (k - 1) + t
            BY <1>1, <1>4
        <3>3. p1[k] = p[k + t] /\ p1[k - 1] = p[(k + t) - 1] /\ w1[k] = w[k + t]
            BY <1>1, <1>3, <3>2
        <3> QED BY <3>1, <3>3
    <2> QED BY <2>1, <2>2, <2>3 DEF Parses, m
<1>6. KindsAgree(w1, p1)
    <2> SUFFICES ASSUME NEW k \in 1 .. m
                 PROVE  /\ w1[k].kind = "payload" => p1[k - 1] > 0
                        /\ w1[k].kind \in {"header", "request"} => p1[k - 1] = 0
                        /\ w1[k].kind = "header" => w1[k].value \in 1 .. MaxPayload
        BY DEF KindsAgree, m
    <2>1. w1[k] = w[k + t] /\ p1[k - 1] = p[(k + t) - 1] /\ k + t \in 1 .. l
        BY <1>1, <1>3, <1>4
    <2>2. /\ w[k + t].kind = "payload" => p[(k + t) - 1] > 0
          /\ w[k + t].kind \in {"header", "request"} => p[(k + t) - 1] = 0
          /\ w[k + t].kind = "header" => w[k + t].value \in 1 .. MaxPayload
        BY <2>1 DEF WireOK, KindsAgree, l
    <2> QED BY <2>1, <2>2
<1>7. BoundaryLasts(w1, p1)
    <2> SUFFICES ASSUME NEW k \in 1 .. m, EndsStream(w1, p1, k), NEW j \in k .. m
                 PROVE  p1[j] = 0
        BY DEF BoundaryLasts, m
    <2>1. w1[k] = w[k + t] /\ p1[k - 1] = p[(k + t) - 1] /\ k + t \in 1 .. l
        BY <1>1, <1>3, <1>4
    <2>2. EndsStream(w, p, k + t)
        BY <2>1 DEF EndsStream
    <2>3. j + t \in k + t .. l /\ j \in 0 .. m
        BY <1>1
    <2>4. p[j + t] = 0
        BY <2>1, <2>2, <2>3 DEF WireOK, BoundaryLasts, l
    <2> QED BY <1>3, <2>3, <2>4
<1>8. p1[m] = p[l] /\ q1[m] = q[l] /\ m \in 0 .. m
    <2>1. m \in 0 .. m /\ m + t = l
        BY <1>1
    <2> QED BY <1>3, <2>1
<1>9. /\ q \in [0 .. l -> Nat] /\ q[l] = 0
      /\ \A k \in 1 .. l : q[k - 1] = q[k] + (IF p[k - 1] > 0 THEN 1 ELSE 0)
      /\ \A k \in 0 .. l : p[k] <= q[k] + p[l]
      /\ \A k \in 0 .. l : q[k] = 0 \/ \E j \in k .. l - 1 : p[j] > 0
    BY DEF WireOK, Counts, l
<1>10. Counts(w1, p1, q1)
    <2>1. q1 \in [0 .. m -> Nat]
        BY <1>3, <1>9 DEF m, Behind
    <2>2. ASSUME NEW k \in 1 .. m
          PROVE  q1[k - 1] = q1[k] + (IF p1[k - 1] > 0 THEN 1 ELSE 0)
        <3>1. k + t \in 1 .. l /\ k - 1 \in 0 .. m /\ (k + t) - 1 = (k - 1) + t /\ k \in 0 .. m
            BY <1>1, <1>4
        <3>2. q[(k + t) - 1] = q[k + t] + (IF p[(k + t) - 1] > 0 THEN 1 ELSE 0)
            BY <1>9, <3>1
        <3>3. /\ q1[k - 1] = q[(k + t) - 1] /\ p1[k - 1] = p[(k + t) - 1]
              /\ q1[k] = q[k + t]
            BY <1>3, <3>1
        <3> QED BY <3>2, <3>3
    <2>3. ASSUME NEW k \in 0 .. m PROVE p1[k] <= q1[k] + p1[m]
        BY <1>3, <1>8, <1>9
    <2>4. ASSUME NEW k \in 0 .. m, q1[k] # 0 PROVE \E j \in k .. m - 1 : p1[j] > 0
        <3>1. PICK j \in (k + t) .. l - 1 : p[j] > 0
            BY <1>3, <1>9, <2>4
        <3>2. j - t \in k .. m - 1 /\ j - t \in 0 .. m /\ (j - t) + t = j
            BY <1>1
        <3>3. p1[j - t] = p[j]
            BY <1>3, <3>2
        <3> QED BY <3>1, <3>2, <3>3
    <2> QED BY <1>8, <1>9, <2>1, <2>2, <2>3, <2>4 DEF Counts, m
<1>11. t = 1 => q[0] = q1[0] + (IF r > 0 THEN 1 ELSE 0)
    <2> SUFFICES ASSUME t = 1 PROVE q[0] = q1[0] + (IF r > 0 THEN 1 ELSE 0)
        OBVIOUS
    <2>1. 1 \in 1 .. l /\ 1 - 1 = 0 /\ 0 \in 0 .. m /\ 0 + t = 1
        BY <1>1
    <2>2. q[1 - 1] = q[1] + (IF p[1 - 1] > 0 THEN 1 ELSE 0)
        BY <1>9, <2>1
    <2>3. q1[0] = q[1]
        BY <1>3, <2>1
    <2> QED BY <1>2, <2>1, <2>2, <2>3
<1> QED BY <1>5, <1>6, <1>7, <1>8, <1>10, <1>11 DEF WireOK, m, l

\* A wire well parsed stays so when a DWORD that may follow is sent.
LEMMA WireGrown ==
    ASSUME NEW r, NEW w, NEW p, NEW q, WireOK(r, w, p, q),
           NEW w1, NEW g, NEW d, Grows(w, w1, g, d), g = 1 => MayFollow(p, w, d),
           NEW c, c = TakenAsPayload(p, w, g),
           NEW p1, p1 = ParseBeyond(p, w, w1, d), NEW q1, q1 = CountBeyond(q, w, w1, c)
    PROVE  /\ WireOK(r, w1, p1, q1)
           /\ p1[Len(w1)] = IF g = 1 THEN RemAfter(p[Len(w)], d) ELSE p[Len(w)]
           /\ \A k \in 0 .. Len(w) : p1[k] = p[k]
           /\ q1[0] = q[0] + c
<1> DEFINE m == Len(w1)
           l == Len(w)
           x == RemAfter(p[l], d)
<1>1. /\ g \in {0, 1} /\ l \in Nat /\ m = l + g /\ m \in Nat
      /\ \A k \in 1 .. l : w1[k] = w[k]
      /\ g = 1 => w1[l + 1] = d
    BY DEF Grows
<1>2. /\ p \in [0 .. l -> 0 .. MaxPayload] /\ p[0] = r
      /\ \A k \in 1 .. l : p[k] = RemAfter(p[k - 1], w[k])
    BY DEF WireOK, Parses
<1>3. /\ q \in [0 .. l -> Nat] /\ q[l] = 0
      /\ \A k \in 1 .. l : q[k - 1] = q[k] + (IF p[k - 1] > 0 THEN 1 ELSE 0)
      /\ \A k \in 0 .. l : p[k] <= q[k] + p[l]
      /\ \A k \in 0 .. l : q[k] = 0 \/ \E j \in k .. l - 1 : p[j] > 0
    BY DEF WireOK, Counts
<1>4. /\ \A k \in 0 .. m : p1[k] = IF k <= l THEN p[k] ELSE x
      /\ \A k \in 0 .. m : q1[k] = IF k <= l THEN q[k] + c ELSE 0
    BY DEF ParseBeyond, CountBeyond
<1>5. /\ g = 1 /\ d.kind = "payload" => p[l] > 0
      /\ g = 1 /\ d.kind \in {"header", "request"} => p[l] = 0
      /\ g = 1 /\ d.kind = "header" => /\ d.value \in 1 .. MaxPayload
                                       /\ ~Has(w, "request") /\ ~Has(w, "response")
    BY DEF MayFollow
<1>6. p[l] \in 0 .. MaxPayload /\ MaxPayload \in Nat
    BY <1>1, <1>2, StreamAssumption
<1>7. g = 1 => /\ x \in 0 .. MaxPayload
               /\ p[l] > 0 => x = p[l] - 1
               /\ p[l] = 0 /\ d.kind # "header" => x = 0
    BY <1>5, <1>6 DEF RemAfter
<1>8. c \in {0, 1} /\ (c = 1 <=> g = 1 /\ p[l] > 0)
    BY DEF TakenAsPayload
<1> HIDE DEF m, l, x
<1>9. /\ \A k \in 0 .. l : k \in 0 .. m /\ p1[k] = p[k] /\ q1[k] = q[k] + c
      /\ g = 1 => l + 1 \in 0 .. m /\ p1[l + 1] = x /\ q1[l + 1] = 0 /\ m = l + 1
    <2>1. ASSUME NEW k \in 0 .. l PROVE k \in 0 .. m /\ p1[k] = p[k] /\ q1[k] = q[k] + c
        <3>1. k \in 0 .. m /\ k <= l
            BY <1>1
        <3> QED BY <1>4, <3>1
    <2>2. ASSUME g = 1
          PROVE  l + 1 \in 0 .. m /\ p1[l + 1] = x /\ q1[l + 1] = 0 /\ m = l + 1
        <3>1. l + 1 \in 0 .. m /\ ~(l + 1 <= l) /\ m = l + 1
            BY <1>1, <2>2
        <3> QED BY <1>4, <3>1
    <2> QED BY <2>1, <2>2
<1>10. ASSUME NEW k \in 1 .. m
       PROVE  \/ k \in 1 .. l /\ k - 1 \in 0 .. l /\ k \in 0 .. l
              \/ g = 1 /\ k = l + 1 /\ k - 1 = l /\ l \in 0 .. l
    BY <1>1
<1>11. p1[m] = IF g = 1 THEN x ELSE p[l]
    <2>1. CASE g = 1
        BY <1>9, <2>1
    <2>2. CASE g = 0
        <3>1. m = l /\ l \in 0 .. l
            BY <1>1, <2>2
        <3> QED BY <1>9, <2>2, <3>1
    <2> QED BY <1>1, <2>1, <2>2
<1>12. Parses(r, w1, p1)
    <2>1. p1 \in [0 .. m -> 0 .. MaxPayload]
        <3>1. ASSUME NEW k \in 0 .. m PROVE p1[k] \in 0 .. MaxPayload
            <4>1. k \in 0 .. l \/ (g = 1 /\ k = l + 1)
                BY <1>1
            <4> QED BY <1>2, <1>7, <1>9, <4>1
        <3>2. p1 = [k \in 0 .. m |-> p1[k]]
            BY DEF m, ParseBeyond
        <3> QED BY <3>1, <3>2
    <2>2. p1[0] = r
        <3>1. 0 \in 0 .. l
            BY <1>1
        <3> QED BY <1>2, <1>9, <3>1
    <2>3. ASSUME NEW k \in 1 .. m PROVE p1[k] = RemAfter(p1[k - 1], w1[k])
        <3>1. CASE k \in 1 .. l /\ k - 1 \in 0 .. l /\ k \in 0 .. l
            BY <1>1, <1>2, <1>9, <3>1
        <3>2. CASE g = 1 /\ k = l + 1 /\ k - 1 = l /\ l \in 0 .. l
            BY <1>1, <1>9, <3>2 DEF x
        <3> QED BY <1>10, <3>1, <3>2
    <2> QED BY <2>1, <2>2, <2>3 DEF Parses, m
<1>13. KindsAgree(w1, p1)
    <2> SUFFICES ASSUME NEW k \in 1 .. m
                 PROVE  /\ w1[k].kind = "payload" => p1[k - 1] > 0
                        /\ w1[k].kind \in {"header", "request"} => p1[k - 1] = 0
                        /\ w1[k].kind = "header" => w1[k].value \in 1 .. MaxPayload
        BY DEF KindsAgree, m
    <2>1. CASE k \in 1 .. l /\ k - 1 \in 0 .. l /\ k \in 0 .. l
        <3>1. w1[k] = w[k] /\ p1[k - 1] = p[k - 1]
            BY <1>1, <1>9, <2>1
        <3>2. /\ w[k].kind = "payload" => p[k - 1] > 0
              /\ w[k].kind \in {"header", "request"} => p[k - 1] = 0
              /\ w[k].kind = "header" => w[k].value \in 1 .. MaxPayload
            BY <2>1 DEF WireOK, KindsAgree, l
        <3> QED BY <3>1, <3>2
    <2>2. CASE g = 1 /\ k = l + 1 /\ k - 1 = l /\ l \in 0 .. l
        <3>1. w1[k] = d /\ p1[k - 1] = p[l]
            BY <1>1, <1>9, <2>2
        <3> QED BY <1>5, <2>2, <3>1
    <2> QED BY <1>10, <2>1, <2>2
<1>14. BoundaryLasts(w1, p1)
    <2> SUFFICES ASSUME NEW k \in 1 .. m, EndsStream(w1, p1, k), NEW j \in k .. m
                 PROVE  p1[j] = 0
        BY DEF BoundaryLasts, m
    <2>1. CASE k \in 1 .. l /\ k - 1 \in 0 .. l /\ k \in 0 .. l
        <3>1. w1[k] = w[k] /\ p1[k - 1] = p[k - 1]
            BY <1>1, <1>9, <2>1
        <3>2. EndsStream(w, p, k)
            BY <3>1 DEF EndsStream
        <3>3. \A h \in k .. l : p[h] = 0
            BY <2>1, <3>2 DEF WireOK, BoundaryLasts, l
        <3>4. CASE j \in k .. l
            <4>1. j \in 0 .. l
                BY <1>1, <2>1, <3>4
            <4> QED BY <1>9, <3>3, <3>4, <4>1
        <3>5. CASE g = 1 /\ j = l + 1
            <4>1. p[l] = 0
                BY <1>1, <2>1, <3>3
            <4>2. d.kind # "header"
                <5>1. Has(w, "request") \/ Has(w, "response")
                    BY <2>1, <3>2 DEF EndsStream, Has, l
                <5> QED BY <1>5, <3>5, <5>1
            <4> QED BY <1>7, <1>9, <3>5, <4>1, <4>2
        <3>6. j \in k .. l \/ (g = 1 /\ j = l + 1)
            BY <1>1, <2>1
        <3> QED BY <3>4, <3>5, <3>6
    <2>2. CASE g = 1 /\ k = l + 1 /\ k - 1 = l /\ l \in 0 .. l
        <3>1. w1[k] = d /\ p1[k - 1] = p[l] /\ j = l + 1
            BY <1>1, <1>9, <2>2
        <3>2. d.kind = "request" \/ (d.kind = "response" /\ p[l] = 0)
            BY <3>1 DEF EndsStream
        <3>3. p[l] = 0 /\ d.kind # "header"
            BY <1>5, <2>2, <3>2
        <3> QED BY <1>7, <1>9, <2>2, <3>1, <3>3
    <2> QED BY <1>10, <2>1, <2>2
<1>15. Counts(w1, p1, q1)
    <2>1. q1 \in [0 .. m -> Nat]
        <3>1. ASSUME NEW k \in 0 .. m PROVE q1[k] \in Nat
            <4>1. k \in 0 .. l \/ (g = 1 /\ k = l + 1)
                BY <1>1
            <4> QED BY <1>3, <1>8, <1>9, <4>1
        <3>2. q1 = [k \in 0 .. m |-> q1[k]]
            BY DEF m, CountBeyond
        <3> QED BY <3>1, <3>2
    <2>2. q1[m] = 0
        <3>1. CASE g = 1
            BY <1>9, <3>1
        <3>2. CASE g = 0
            <4>1. m = l /\ l \in 0 .. l
                BY <1>1, <3>2
            <4> QED BY <1>3, <1>8, <1>9, <3>2, <4>1
        <3> QED BY <1>1, <3>1, <3>2
    <2>3. ASSUME NEW k \in 1 .. m
          PROVE  q1[k - 1] = q1[k] + (IF p1[k - 1] > 0 THEN 1 ELSE 0)
        <3>1. CASE k \in 1 .. l /\ k - 1 \in 0 .. l /\ k \in 0 .. l
            <4>1. q[k - 1] = q[k] + (IF p[k - 1] > 0 THEN 1 ELSE 0)
                BY <1>3, <3>1
            <4>2. q[k] \in Nat /\ q1[k - 1] = q[k - 1] + c /\ q1[k] = q[k] + c
                  /\ p1[k - 1] = p[k - 1]
                BY <1>3, <1>9, <3>1
            <4> QED BY <1>8, <4>1, <4>2
        <3>2. CASE g = 1 /\ k = l + 1 /\ k - 1 = l /\ l \in 0 .. l
            <4>1. q1[k - 1] = 0 + c /\ q1[k] = 0 /\ p1[k - 1] = p[l]
                BY <1>3, <1>9, <3>2
            <4>2. q1[k - 1] = c
                BY <1>8, <4>1
            <4>3. CASE p[l] > 0
                BY <1>8, <3>2, <4>1, <4>2, <4>3
            <4>4. CASE ~(p[l] > 0)
                BY <1>8, <3>2, <4>1, <4>2, <4>4
            <4> QED BY <4>3, <4>4
        <3> QED BY <1>10, <3>1, <3>2
    <2>4. ASSUME NEW k \in 0 .. m PROVE p1[k] <= q1[k] + p1[m]
        <3>1. CASE k \in 0 .. l
            <4>1. p[k] <= q[k] + p[l] /\ q[k] \in Nat /\ p[k] \in Nat
                BY <1>2, <1>3, <1>6, <3>1
            <4>2. p1[k] = p[k] /\ q1[k] = q[k] + c
                BY <1>9, <3>1
            <4>3. p[l] <= c + p1[m] /\ p1[m] \in Nat
                BY <1>6, <1>7, <1>8, <1>11
            <4> QED BY <1>6, <1>8, <4>1, <4>2, <4>3
        <3>2. CASE g = 1 /\ k = l + 1
            <4>1. k = m /\ q1[k] = 0 /\ p1[k] \in Nat
                BY <1>6, <1>7, <1>9, <3>2
            <4> QED BY <4>1
        <3>3. k \in 0 .. l \/ (g = 1 /\ k = l + 1)
            BY <1>1
        <3> QED BY <3>1, <3>2, <3>3
    <2>5. ASSUME NEW k \in 0 .. m, q1[k] # 0 PROVE \E j \in k .. m - 1 : p1[j] > 0
        <3>1. k \in 0 .. l
            <4>1. k \in 0 .. l \/ (g = 1 /\ k = l + 1)
                BY <1>1
            <4> QED BY <1>9, <2>5, <4>1
        <3>2. q1[k] = q[k] + c /\ q[k] \in Nat
            BY <1>3, <1>9, <3>1
        <3>3. CASE c = 1
            <4>1. l \in k .. m - 1 /\ p1[l] = p[l] /\ p[l] > 0
                BY <1>1, <1>8, <1>9, <3>1, <3>3
            <4> QED BY <4>1
        <3>4. CASE c = 0
            <4>1. q[k] # 0
                BY <2>5, <3>2, <3>4
            <4>2. PICK j \in k .. l - 1 : p[j] > 0
                BY <1>3, <3>1, <4>1
            <4>3. j \in k .. m - 1 /\ j \in 0 .. l
                BY <1>1, <3>1
            <4> QED BY <1>9, <4>2, <4>3
        <3> QED BY <1>8, <3>3, <3>4
    <2> QED BY <2>1, <2>2, <2>3, <2>4, <2>5 DEF Counts, m
<1>16. q1[0] = q[0] + c
    <2>1. 0 \in 0 .. l
        BY <1>1
    <2> QED BY <1>9, <2>1
<1> QED BY <1>9, <1>11, <1>12, <1>13, <1>14, <1>15, <1>16 DEF WireOK, m, l, x
-----------------------------------------------------------------------------
(* An edge of one end: x is the wire to it, y the wire to its peer.  What   *)
(* the edge takes and sends, and what it does to the phases of a reset.     *)

Edge(p, x, y, wr, i, p1, x1, y1) ==
    /\ PortOK(p) /\ wr \in Nat /\ EdgeInput(p, x, wr, i) /\ WordOK(i)
    /\ Request(p, i) => p.ctl.responses = 0
    /\ x \in Seq(Dwords) /\ y \in Seq(Dwords)
    /\ p1 = PortEdge(p, i)
    /\ x1 = IF i.word = <<>> THEN x ELSE Tail(x)
    /\ y1 = y \o i.sends

Taken(i) == IF i.word = <<>> THEN 0 ELSE 1
Given(i) == IF i.sends = <<>> THEN 0 ELSE 1

\* What an edge takes off the one wire and puts on the other.
LEMMA EdgeWires ==
    ASSUME NEW p, NEW x, NEW y, NEW wr, NEW i, NEW p1, NEW x1, NEW y1,
           Edge(p, x, y, wr, i, p1, x1, y1)
    PROVE  /\ x1 \in Seq(Dwords) /\ y1 \in Seq(Dwords)
           /\ Takes(x, x1, Taken(i)) /\ Grows(y, y1, Given(i), i.sends[1])
           /\ Len(x) \in Nat /\ Len(y) \in Nat
           /\ Taken(i) = 1 <=> i.word # <<>>
           /\ Taken(i) = 1 => Len(x) >= 1 /\ i.word[1] = x[1]
           /\ Given(i) = 1 <=> i.sends # <<>>
<1>1. x \in Seq(Dwords) /\ y \in Seq(Dwords) /\ Len(x) \in Nat /\ Len(y) \in Nat
    BY LenProperties DEF Edge
<1>2. i.word = <<>> \/ (x # <<>> /\ i.word = <<Head(x)>>)
    BY DEF Edge, EdgeInput
<1>3. x1 = IF i.word = <<>> THEN x ELSE Tail(x)
    BY DEF Edge
<1>4. x1 \in Seq(Dwords) /\ Takes(x, x1, Taken(i))
      /\ (Taken(i) = 1 => Len(x) >= 1 /\ i.word[1] = x[1])
    <2>1. CASE i.word = <<>>
        BY <1>1, <1>3, <2>1 DEF Takes, Taken
    <2>2. CASE i.word # <<>>
        <3>1. x # <<>> /\ i.word = <<Head(x)>> /\ x1 = Tail(x)
            BY <1>2, <1>3, <2>2
        <3>2. /\ Len(x) >= 1 /\ Head(x) = x[1] /\ Tail(x) \in Seq(Dwords)
              /\ Len(Tail(x)) = Len(x) - 1
              /\ \A k \in 1 .. Len(Tail(x)) : Tail(x)[k] = x[k + 1]
            BY <1>1, <3>1, EmptySeq, HeadTailProperties
        <3>3. Taken(i) = 1 /\ i.word[1] = x[1]
            BY <2>2, <3>1, <3>2 DEF Taken
        <3> DEFINE y2 == Tail(x)
        <3> HIDE DEF y2
        <3>4. x1 = y2 /\ Len(y2) = Len(x) - 1 /\ \A k \in 1 .. Len(y2) : y2[k] = x[k + 1]
            BY <3>1, <3>2 DEF y2
        <3>5. Takes(x, x1, 1)
            BY <1>1, <3>2, <3>4 DEF Takes
        <3> QED BY <3>1, <3>2, <3>3, <3>5
    <2> QED BY <2>1, <2>2
<1>5. y1 \in Seq(Dwords) /\ Grows(y, y1, Given(i), i.sends[1])
    <2>1. y1 = y \o i.sends
        BY DEF Edge
    <2>2. CASE i.sends = <<>>
        <3>1. y1 = y
            BY <1>1, <2>1, <2>2, ConcatEmptySeq
        <3> QED BY <1>1, <2>2, <3>1 DEF Grows, Given
    <2>3. CASE i.sends # <<>>
        <3>1. PICK d \in Dwords : i.sends = <<d>>
            BY <2>3, SendsAre DEF Edge
        <3>2. <<d>> \in Seq(Dwords) /\ Len(<<d>>) = 1 /\ <<d>>[1] = d
            OBVIOUS
        <3>3. /\ y1 \in Seq(Dwords) /\ Len(y1) = Len(y) + 1
              /\ \A k \in 1 .. Len(y) + 1 :
                    y1[k] = IF k <= Len(y) THEN y[k] ELSE <<d>>[k - Len(y)]
            BY <1>1, <2>1, <3>1, <3>2, ConcatProperties
        <3>4. \A k \in 1 .. Len(y) : y1[k] = y[k]
            BY <1>1, <3>3
        <3>5. y1[Len(y) + 1] = d
            <4>1. Len(y) + 1 \in 1 .. Len(y) + 1 /\ ~(Len(y) + 1 <= Len(y))
                  /\ Len(y) + 1 - Len(y) = 1
                BY <1>1
            <4> QED BY <3>2, <3>3, <4>1
        <3>6. Given(i) = 1 /\ i.sends[1] = d
            BY <2>3, <3>1 DEF Given
        <3> QED BY <1>1, <3>3, <3>4, <3>5, <3>6 DEF Grows
    <2> QED BY <2>2, <2>3
<1> QED BY <1>1, <1>4, <1>5 DEF Taken, Given

\* An event is the head of the wire.
LEMMA EventIsHead ==
    ASSUME NEW p, NEW x, NEW y, NEW wr, NEW i, NEW p1, NEW x1, NEW y1,
           Edge(p, x, y, wr, i, p1, x1, y1)
    PROVE  /\ Request(p, i) <=> Taken(i) = 1 /\ p.rx.remaining = 0 /\ x[1].kind = "request"
           /\ Response(p, i) <=> Taken(i) = 1 /\ p.rx.remaining = 0 /\ x[1].kind = "response"
           /\ Request(p, i) => Has(x, "request")
           /\ Response(p, i) => Has(x, "response")
<1>1. /\ Taken(i) = 1 <=> i.word # <<>>
      /\ Taken(i) = 1 => Len(x) >= 1 /\ i.word[1] = x[1]
      /\ Len(x) \in Nat
    BY EdgeWires
<1>2. Taken(i) = 1 => 1 \in 1 .. Len(x)
    BY <1>1
<1> QED BY <1>1, <1>2 DEF Request, Response, AtBoundary, Has

\* The phases.
LEMMA EdgePhases ==
    ASSUME NEW p, NEW x, NEW y, NEW wr, NEW i, NEW p1, NEW x1, NEW y1,
           Edge(p, x, y, wr, i, p1, x1, y1)
    PROVE  LET c == p.ctl
               c1 == p1.ctl IN
           /\ {c.phase, c1.phase} \subseteq {"normal", "noops", "request", "wait"}
           /\ c1.phase = "normal" => \/ c.phase = "normal" /\ ~Start(p, i)
                                     \/ c.phase = "wait" /\ Response(p, i)
           /\ c.phase = "wait" => \/ c1.phase = "wait" /\ ~Response(p, i)
                                  \/ c1.phase = "normal" /\ Response(p, i)
                                  \/ i.timeout /\ ~Response(p, i) /\ c1.phase = "noops"
           /\ c1.phase = "wait" => \/ c.phase = "wait"
                                   \/ c.phase = "request" /\ SentKind(i, "request")
           /\ SentKind(i, "request") => c.phase = "request" /\ c1.phase = "wait"
           /\ c1.phase = "request" =>
                 \/ c.phase = "request" /\ i.sends = <<>>
                 \/ c.phase = "noops" /\ c.noops = 1 /\ i.sends = <<Message("noop")>>
           /\ c1.phase = "noops" =>
                 \/ c1.noops = RunOut /\ i.sends = <<>>
                 \/ c.phase = "noops" /\ c1.noops = c.noops /\ i.sends = <<>>
                 \/ /\ c.phase = "noops" /\ c1.noops = c.noops - 1
                    /\ i.sends = <<Message("noop")>>
           /\ c.noops \in Nat /\ c1.noops \in Nat
           /\ c.responses \in Nat /\ c1.responses \in Nat
           /\ SentKind(i, "response") => c.responses > 0
           /\ c1.responses = c.responses + (IF Request(p, i) THEN 1 ELSE 0)
                                         - (IF SentKind(i, "response") THEN 1 ELSE 0)
<1>1. /\ CtlOK(p1.ctl) /\ CtlMove(p, p1.ctl, i)
      /\ p1.ctl.responses = p.ctl.responses + (IF Request(p, i) THEN 1 ELSE 0)
                                            - (IF SentKind(i, "response") THEN 1 ELSE 0)
    BY CtlFacts DEF Edge
<1>2. CtlOK(p.ctl)
    BY DEF Edge, PortOK
<1>3. /\ {p.ctl.phase, p1.ctl.phase} \subseteq {"normal", "noops", "request", "wait"}
      /\ p.ctl.noops \in 0 .. RunOut /\ p1.ctl.noops \in 0 .. RunOut
      /\ p.ctl.responses \in 0 .. ResponseDepth /\ p1.ctl.responses \in 0 .. ResponseDepth
    BY <1>1, <1>2 DEF CtlOK, CtlState
<1>4. RunOut \in Nat /\ ResponseDepth \in Nat
    BY StreamAssumption, ResetAssumption
<1>5. SentKind(i, "response") => p.ctl.responses > 0
    BY SentMeans DEF SentKind, Edge
<1>6. SentKind(i, "request") => p.ctl.phase = "request"
    BY SentMeans DEF SentKind, Edge
<1>7. /\ SentKind(i, "request") => i.sends # <<>> /\ i.sends # <<Message("noop")>>
    BY DEF SentKind, Message
<1> DEFINE c == p.ctl
           c1 == p1.ctl
           ph == c.phase
           ph1 == c1.phase
           nn == c.noops
           nn1 == c1.noops
<1>8. \/ Start(p, i) /\ ph1 = "noops" /\ nn1 = RunOut /\ i.sends = <<>>
      \/ Expire(p, i) /\ ph1 = "noops" /\ nn1 = RunOut /\ i.sends = <<>>
      \/ /\ ph = "noops" /\ i.sends = <<Message("noop")>>
         /\ nn1 = nn - 1
         /\ ph1 = IF nn = 1 THEN "request" ELSE "noops"
      \/ /\ ph = "request" /\ i.sends = <<Message("request")>>
         /\ ph1 = "wait" /\ nn1 = 0
      \/ ph = "wait" /\ Response(p, i) /\ ph1 = "normal" /\ nn1 = 0
      \/ /\ ph1 = ph /\ nn1 = nn /\ ~Start(p, i) /\ ~Expire(p, i)
         /\ ph1 = "wait" => ~Response(p, i)
         /\ ph1 \in {"noops", "request"} => i.sends = <<>>
    BY <1>1 DEF CtlMove
<1>9. /\ Start(p, i) => ph = "normal"
      /\ Expire(p, i) => ph = "wait" /\ i.timeout /\ ~Response(p, i)
    BY DEF Start, Expire
<1>10. i.sends = <<Message("request")>> => SentKind(i, "request")
    BY DEF SentKind, Message
<1> HIDE DEF ph, ph1, nn, nn1
<1>11. /\ ph1 = "normal" => \/ ph = "normal" /\ ~Start(p, i)
                            \/ ph = "wait" /\ Response(p, i)
       /\ ph = "wait" => \/ ph1 = "wait" /\ ~Response(p, i)
                         \/ ph1 = "normal" /\ Response(p, i)
                         \/ i.timeout /\ ~Response(p, i) /\ ph1 = "noops"
       /\ ph1 = "wait" => ph = "wait" \/ (ph = "request" /\ SentKind(i, "request"))
    BY <1>8, <1>9, <1>10
<1>12. /\ SentKind(i, "request") => ph = "request" /\ ph1 = "wait"
       /\ ph1 = "request" =>
             \/ ph = "request" /\ i.sends = <<>>
             \/ ph = "noops" /\ nn = 1 /\ i.sends = <<Message("noop")>>
    BY <1>6, <1>7, <1>8, <1>9 DEF ph
<1>13. ph1 = "noops" =>
             \/ nn1 = RunOut /\ i.sends = <<>>
             \/ ph = "noops" /\ nn1 = nn /\ i.sends = <<>>
             \/ ph = "noops" /\ nn1 = nn - 1 /\ i.sends = <<Message("noop")>>
    BY <1>8
<1> QED BY <1>1, <1>3, <1>4, <1>5, <1>11, <1>12, <1>13 DEF ph, ph1, nn, nn1

\* In reset, and out of it.
LEMMA EdgeReset ==
    ASSUME NEW p, NEW x, NEW y, NEW wr, NEW i, NEW p1, NEW x1, NEW y1,
           Edge(p, x, y, wr, i, p1, x1, y1)
    PROVE  /\ InReset(p, i) <=> \/ Start(p, i) \/ Request(p, i)
                                \/ p.ctl.phase # "normal" \/ p.ctl.responses > 0
           /\ Start(p, i) => p1.ctl.phase = "noops"
           /\ InReset(p, i) => /\ p1.src = SrcReset /\ ~p1.rx.initialized
                               /\ p1.rx.fifo = <<>> /\ p1.rx.counter = 0
           /\ p1.rx.initialized <=> ~InReset(p, i)
           /\ p.rx.initialized => p.ctl.phase = "normal" /\ p.ctl.responses = 0
           /\ p.src # SrcReset => p.ctl.phase = "normal" /\ p.ctl.responses = 0
           /\ SrcOK(p.src) /\ RxOK(p.rx)
<1>1. InReset(p, i) <=> \/ Start(p, i) \/ Request(p, i)
                        \/ p.ctl.phase # "normal" \/ p.ctl.responses > 0
    BY ResetMeans DEF Edge, PortOK
<1>2. Start(p, i) => p1.ctl.phase = "noops"
    BY CtlFacts DEF Edge, CtlMove, Start
<1>3. InReset(p, i) => p1.src = SrcReset
    BY ResetClears DEF Edge
<1>4. /\ InReset(p, i) => ~p1.rx.initialized /\ p1.rx.fifo = <<>> /\ p1.rx.counter = 0
      /\ p1.rx.initialized <=> ~InReset(p, i)
    <2>1. PortOK(p) /\ WordOK(i) /\ p1 = PortEdge(p, i)
        BY DEF Edge
    <2> QED BY <2>1, RxFacts
<1>5. p.ctl.responses \in Nat
    BY EdgePhases
<1> QED BY <1>1, <1>2, <1>3, <1>4, <1>5 DEF Edge, PortOK
-----------------------------------------------------------------------------
(* One direction: pe receives from w what pf sends, and v is the wire back.  *)
(* In the lemmas about an edge of one end, the names with a 1 are the next   *)
(* state's.                                                                  *)

\* The sender of the stream has no credits, and none are under way to it.
Cleared(pf, v) == pf.src = SrcReset /\ ~Has(v, "credit")

\* What the receiver expects beyond what the sender owes is flushed by the
\* sender's run-out, or else the receiver waits for a Response.
Excess(pe, pf, v, last) ==
    /\ last >= Owed(pf.src)
    /\ pf.ctl.phase = "noops" => last <= pf.ctl.noops
    /\ pf.ctl.phase \in {"request", "wait"} => last = 0
    /\ pf.ctl.phase = "normal" =>
          last = Owed(pf.src) \/ (pe.ctl.phase # "normal" /\ Cleared(pf, v))

OnlyRunOutInside(pe, w, p) ==
    pe.ctl.phase = "normal" =>
        \A k \in 1 .. Len(w) : p[k - 1] > 0 => w[k].kind \in {"payload", "noop"}

AtMostOne(w, kind) ==
    \A j, k \in 1 .. Len(w) : w[j].kind = kind /\ w[k].kind = kind => j = k

\* A DWORD of one kind never comes behind one of another.
NeverBehind(w, kind, kinds) ==
    \A j, k \in 1 .. Len(w) : w[j].kind = kind /\ j < k => w[k].kind \notin kinds

\* The reset exchange that e has begun.
UnderWay(pf, w, v) == Has(v, "request") \/ pf.ctl.responses > 0 \/ Has(w, "response")

Exchange(pe, pf, w, v) ==
    /\ UnderWay(pf, w, v) => pe.ctl.phase = "wait"
    /\ pf.ctl.responses <= 1
    /\ AtMostOne(v, "request") /\ AtMostOne(w, "response")
    /\ ~(Has(v, "request") /\ pf.ctl.responses > 0)
    /\ ~(Has(v, "request") /\ Has(w, "response"))
    /\ ~(pf.ctl.responses > 0 /\ Has(w, "response"))
    /\ pf.ctl.responses > 0 \/ Has(w, "response") => Cleared(pf, v)
    /\ NeverBehind(v, "request", {"credit"})

Stream == {"header", "payload", "noop"}

\* The reset of the sender is over at the receiver, but for the Response.
Flushed(pe, w, p) ==
    /\ \A k \in 0 .. Len(w) : p[k] = 0
    /\ \A k \in 1 .. Len(w) : w[k].kind \notin Stream
    /\ pe.rx.fifo = <<>>
    /\ pe.rx.counter = IF pe.rx.initialized THEN RxDepth ELSE 0

\* Where the No-Ops of the sender's run-out can be.
RunOutPlace(pe, pf, w, p) ==
    /\ pf.ctl.phase = "normal" => ~Has(w, "noop") /\ ~Has(pe.rx.fifo, "noop")
    /\ NeverBehind(w, "noop", {"payload"})
    /\ Has(pe.rx.fifo, "noop") => ~Has(w, "payload")
    /\ NeverBehind(w, "request", Stream)
    /\ pf.ctl.phase = "wait" /\ ~Has(w, "request") => Flushed(pe, w, p)

\* Credits behind the Response that f waits for are those of a fresh stream.
FreshCredits(pe, v) ==
    \A j, k \in 1 .. Len(v) :
        v[j].kind = "response" /\ j < k /\ v[k].kind = "credit" =>
            /\ v[k].value = RxDepth
            /\ pe.ctl.phase = "normal" => pe.rx.initialized

\* Both streams in operation.
Ordered(pe, pf, v) ==
    LET s == pf.src IN
    /\ Left(s, s.latest_fc) <= Left(s, pe.rx.counter)
    /\ ToSend(s) <= Left(s, s.latest_fc)
    /\ \A k \in 1 .. Len(v) : v[k].kind = "credit" =>
          /\ Left(s, v[k].value) <= Left(s, pe.rx.counter)
          /\ Left(s, s.latest_fc) <= Left(s, v[k].value)
          /\ \A j \in 1 .. k : v[j].kind = "credit" =>
                Left(s, v[j].value) <= Left(s, v[k].value)

Conserved(pe, pf, w, v, q) ==
    pe.ctl.phase = "normal" /\ pf.ctl.phase = "normal" =>
    /\ ~pe.rx.discard
    /\ ~pe.rx.initialized =>
          /\ q[0] = 0 /\ pe.rx.remaining = 0 /\ ~Has(w, "header")
          /\ Cleared(pf, v)
    /\ pe.rx.initialized =>
          /\ Left(pf.src, pe.rx.counter) = RxDepth - Len(pe.rx.fifo) - q[0]
          /\ Ordered(pe, pf, v)

\* What is under way to a stream in operation has a place reserved.
Reserved(pe, w, p, q) ==
    pe.ctl.phase = "normal" => Len(pe.rx.fifo) + q[0] + p[Len(w)] <= RxDepth

\* n[k]: number of the last payload word among the first k DWORDs and what
\* came before them.
CountsPayload(w, n) ==
    /\ n \in [0 .. Len(w) -> Nat]
    /\ \A k \in 1 .. Len(w) :
          n[k] = n[k - 1] + (IF w[k].kind = "payload" THEN 1 ELSE 0)
    /\ \A k \in 1 .. Len(w) : w[k].kind = "payload" => w[k].value = n[k]
    /\ \A k \in 0 .. Len(w) : \A j \in 0 .. k : n[j] <= n[k]

\* The FIFO holds m words of the stream, up to number last, then No-Ops.
HoldsUpTo(q, m, last) ==
    /\ m \in 0 .. Len(q)
    /\ \A k \in 1 .. m : q[k] = Payload(last - m + k)
    /\ \A k \in (m + 1) .. Len(q) : q[k].kind = "noop"

\* Beyond what is stored, firmware has read at most what comes before it.
Holds(q, rd, last) ==
    rd \in Nat /\ \E m \in 0 .. Len(q) : HoldsUpTo(q, m, last) /\ rd <= last - m

NumbersBy(pe, pf, w, v, rd, wr, n) ==
    /\ Holds(pe.rx.fifo, rd, n[0])
    /\ CountsPayload(w, n)
    /\ n[Len(w)] <= Base(pf, wr)
    /\ \/ n[Len(w)] = Base(pf, wr)
       \/ pf.ctl.phase # "normal"
       \/ pe.ctl.phase # "normal" /\ Cleared(pf, v)

Numbers(pe, pf, w, v, rd, wr) == \E n : NumbersBy(pe, pf, w, v, rd, wr, n)

\* What the state of the port must be for what the edge sends.
LEMMA EdgeSends ==
    ASSUME NEW p, NEW x, NEW y, NEW wr, NEW i, NEW p1, NEW x1, NEW y1,
           Edge(p, x, y, wr, i, p1, x1, y1), Given(i) = 1, NEW d, d = i.sends[1]
    PROVE  /\ i.sends = <<d>> /\ d \in Dwords
           /\ \A kind : SentKind(i, kind) <=> d.kind = kind
           /\ d.kind = "noop" => p.ctl.phase = "noops"
           /\ d.kind = "request" => p.ctl.phase = "request"
           /\ d.kind = "response" => p.ctl.responses > 0
           /\ d.kind = "credit" => /\ d.value = p.rx.counter /\ p.rx.initialized
                                   /\ ~InReset(p, i) /\ p.ctl.phase = "normal"
           /\ d.kind = "header" => /\ d.value = p.src.reserved /\ p.src.reserved > 0
                                   /\ ~InReset(p, i) /\ ~p.src.header_sent
                                   /\ p.ctl.phase = "normal"
           /\ d.kind = "payload" => /\ d.value = Head(p.src.payload) /\ p.src.header_sent
                                    /\ ~InReset(p, i) /\ p.ctl.phase = "normal"
           /\ p.src.header_sent /\ ~InReset(p, i) => d.kind = "payload"
           /\ p.ctl.phase = "noops" => d.kind = "noop"
           /\ p.ctl.phase = "request" => d.kind = "request"
<1>1. i.sends # <<>>
    BY EdgeWires
<1>2. /\ i.sends = <<d>> /\ d \in Dwords
      /\ d.kind = "noop" => p.ctl.phase = "noops"
      /\ d.kind = "request" => p.ctl.phase = "request"
      /\ d.kind = "response" => p.ctl.responses > 0
      /\ d.kind = "credit" => /\ d.value = p.rx.counter /\ p.rx.initialized
                              /\ ~InReset(p, i) /\ ~p.src.header_sent
      /\ d.kind = "header" => /\ d.value = p.src.reserved /\ p.src.reserved > 0
                              /\ ~InReset(p, i) /\ ~p.src.header_sent
      /\ d.kind = "payload" => /\ d.value = Head(p.src.payload) /\ p.src.header_sent
                               /\ ~InReset(p, i)
      /\ p.src.header_sent /\ ~InReset(p, i) => d.kind = "payload"
      /\ p.ctl.phase = "noops" => d.kind = "noop"
      /\ p.ctl.phase = "request" => d.kind = "request"
    BY <1>1, SentMeans DEF Edge
<1>3. ~InReset(p, i) => p.ctl.phase = "normal"
    BY EdgeReset
<1>4. \A kind : SentKind(i, kind) <=> d.kind = kind
    BY <1>1 DEF SentKind
<1> QED BY <1>2, <1>3, <1>4

\* A sender that has no credits, and none under way, gets none.
LEMMA ClearedStays ==
    ASSUME NEW p, NEW x, NEW y, NEW wr, NEW i, NEW p1, NEW x1, NEW y1,
           Edge(p, x, y, wr, i, p1, x1, y1), Cleared(p, x)
    PROVE  Cleared(p1, x1)
<1>1. ~Has(x1, "credit")
    BY EdgeWires, HasTakes DEF Cleared
<1>2. CASE InReset(p, i)
    BY <1>1, <1>2, EdgeReset DEF Cleared
<1>3. CASE ~InReset(p, i)
    <2> DEFINE t == PortEdge(p, i).src
    <2>1. SrcMove(p, i, SrcReset, t)
        BY <1>3, SrcMoves DEF Edge, Cleared
    <2>2. /\ SrcReset.reserved = 0 /\ SrcReset.to_load = 0 /\ ~SrcReset.header_sent
          /\ SrcReset.latest_fc = 0 /\ Total(SrcReset) = 0
        BY DEF SrcReset, Total
    <2>3. Left(SrcReset, SrcReset.latest_fc) = 0
        <3>1. 0 - 0 = Modulus * 0 + 0 /\ 0 \in 0 .. (Modulus - 1)
            BY StreamAssumption
        <3>2. (Modulus * 0 + 0) % Modulus = 0
            BY <3>1, ModUnique, StreamAssumption
        <3> QED BY <2>2, <3>1, <3>2 DEF Left
    <2>4. LatestAfter(p, i) = 0
        <3>1. ~Update(p, i)
            <4> SUFFICES ASSUME Update(p, i) PROVE FALSE
                OBVIOUS
            <4>1. i.word # <<>> /\ i.word[1].kind = "credit"
                BY DEF Update, AtBoundary
            <4>2. Len(x) \in Nat /\ Len(x) >= 1 /\ x[1].kind = "credit"
                BY <4>1, EdgeWires
            <4>3. 1 \in 1 .. Len(x)
                BY <4>2
            <4> QED BY <4>2, <4>3 DEF Has, Cleared
        <3> QED BY <2>2, <3>1 DEF LatestAfter, Cleared
    <2>5. PICK n \in 0 .. MaxPayload :
             /\ n <= Left(SrcReset, SrcReset.latest_fc)
             /\ t = [SrcReset EXCEPT !.reserved = n, !.to_load = n,
                                     !.latest_fc = LatestAfter(p, i)]
        <3> HIDE DEF t
        <3> DEFINE any == \E n \in 0 .. MaxPayload :
                             /\ n <= Left(SrcReset, SrcReset.latest_fc)
                             /\ t = [SrcReset EXCEPT !.reserved = n, !.to_load = n,
                                                     !.latest_fc = LatestAfter(p, i)]
        <3>1. any \/ SrcReset.to_load > 0 \/ SrcReset.reserved > 0 \/ SrcReset.header_sent
            BY <2>1 DEF SrcMove
        <3> HIDE DEF any
        <3>2. any
            BY <2>2, <3>1
        <3> QED BY <3>2 DEF any
    <2>6. n = 0
        BY <2>3, <2>5, StreamAssumption
    <2>7. t = SrcReset
        BY <2>4, <2>5, <2>6 DEF SrcReset
    <2> QED BY <1>1, <2>7 DEF Cleared, Edge
<1> QED BY <1>2, <1>3

\* An end that is not in operation sends no credit.
LEMMA ClearedBack ==
    ASSUME NEW p, NEW x, NEW y, NEW wr, NEW i, NEW p1, NEW x1, NEW y1,
           Edge(p, x, y, wr, i, p1, x1, y1), NEW pf, Cleared(pf, y),
           p.ctl.phase # "normal"
    PROVE  Cleared(pf, y1)
<1>1. Has(y1, "credit") <=> Has(y, "credit") \/ (Given(i) = 1 /\ i.sends[1].kind = "credit")
    BY EdgeWires, HasGrows
<1>2. ~(Given(i) = 1 /\ i.sends[1].kind = "credit")
    BY EdgeSends
<1> QED BY <1>1, <1>2 DEF Cleared
-----------------------------------------------------------------------------
(* The order of the DWORDs on a wire. *)

\* A DWORD that is the only one of its kind, when one is taken.
LEMMA AtMostOneTakes ==
    ASSUME NEW w, NEW w1, NEW t, Takes(w, w1, t), NEW kind, AtMostOne(w, kind)
    PROVE  /\ AtMostOne(w1, kind)
           /\ t = 1 /\ w[1].kind = kind => ~Has(w1, kind)
<1>1. /\ t \in {0, 1} /\ Len(w) \in Nat /\ Len(w1) \in Nat /\ Len(w) = Len(w1) + t
      /\ \A k \in 1 .. Len(w1) : w1[k] = w[k + t]
    BY DEF Takes
<1>2. AtMostOne(w1, kind)
    <2> SUFFICES ASSUME NEW j \in 1 .. Len(w1), NEW k \in 1 .. Len(w1),
                        w1[j].kind = kind, w1[k].kind = kind
                 PROVE  j = k
        BY DEF AtMostOne
    <2>1. j + t \in 1 .. Len(w) /\ k + t \in 1 .. Len(w)
        BY <1>1
    <2>2. w[j + t].kind = kind /\ w[k + t].kind = kind
        BY <1>1
    <2>3. j + t = k + t
        BY <2>1, <2>2 DEF AtMostOne
    <2> QED BY <1>1, <2>3
<1>3. ASSUME t = 1, w[1].kind = kind, Has(w1, kind) PROVE FALSE
    <2>1. PICK k \in 1 .. Len(w1) : w1[k].kind = kind
        BY <1>3 DEF Has
    <2>2. k + 1 \in 1 .. Len(w) /\ 1 \in 1 .. Len(w) /\ k + 1 # 1
        BY <1>1, <1>3
    <2>3. w[k + 1].kind = kind
        BY <1>1, <1>3, <2>1
    <2> QED BY <1>3, <2>2, <2>3 DEF AtMostOne
<1> QED BY <1>2, <1>3

\* A DWORD that is the only one of its kind, when one is sent.
LEMMA AtMostOneGrows ==
    ASSUME NEW w, NEW w1, NEW g, NEW d, Grows(w, w1, g, d), NEW kind, AtMostOne(w, kind),
           g = 1 /\ d.kind = kind => ~Has(w, kind)
    PROVE  AtMostOne(w1, kind)
<1>1. /\ g \in {0, 1} /\ Len(w) \in Nat /\ Len(w1) = Len(w) + g
      /\ \A k \in 1 .. Len(w) : w1[k] = w[k]
      /\ g = 1 => w1[Len(w) + 1] = d
    BY DEF Grows
<1> SUFFICES ASSUME NEW j \in 1 .. Len(w1), NEW k \in 1 .. Len(w1),
                    w1[j].kind = kind, w1[k].kind = kind
             PROVE  j = k
    BY DEF AtMostOne
<1>2. /\ j \in 1 .. Len(w) \/ (g = 1 /\ j = Len(w) + 1)
      /\ k \in 1 .. Len(w) \/ (g = 1 /\ k = Len(w) + 1)
    BY <1>1
<1>3. CASE j \in 1 .. Len(w) /\ k \in 1 .. Len(w)
    BY <1>1, <1>3 DEF AtMostOne
<1>4. CASE g = 1 /\ (j = Len(w) + 1 \/ k = Len(w) + 1) /\ d.kind = kind
    BY <1>1, <1>2, <1>4 DEF Has
<1> QED BY <1>1, <1>2, <1>3, <1>4

\* The order of kinds on a wire, when a DWORD is taken.
LEMMA NeverBehindTakes ==
    ASSUME NEW w, NEW w1, NEW t, Takes(w, w1, t), NEW kind, NEW kinds,
           NeverBehind(w, kind, kinds)
    PROVE  /\ NeverBehind(w1, kind, kinds)
           /\ t = 1 /\ w[1].kind = kind => \A k \in 1 .. Len(w1) : w1[k].kind \notin kinds
<1>1. /\ t \in {0, 1} /\ Len(w) \in Nat /\ Len(w1) \in Nat /\ Len(w) = Len(w1) + t
      /\ \A k \in 1 .. Len(w1) : w1[k] = w[k + t]
    BY DEF Takes
<1>2. NeverBehind(w1, kind, kinds)
    <2> SUFFICES ASSUME NEW j \in 1 .. Len(w1), NEW k \in 1 .. Len(w1),
                        w1[j].kind = kind, j < k
                 PROVE  w1[k].kind \notin kinds
        BY DEF NeverBehind
    <2>1. j + t \in 1 .. Len(w) /\ k + t \in 1 .. Len(w) /\ j + t < k + t
        BY <1>1
    <2>2. w[j + t].kind = kind /\ w1[k] = w[k + t]
        BY <1>1
    <2> QED BY <2>1, <2>2 DEF NeverBehind
<1>3. ASSUME t = 1, w[1].kind = kind, NEW k \in 1 .. Len(w1)
      PROVE  w1[k].kind \notin kinds
    <2>1. k + 1 \in 1 .. Len(w) /\ 1 \in 1 .. Len(w) /\ 1 < k + 1 /\ w1[k] = w[k + 1]
        BY <1>1, <1>3
    <2> QED BY <1>3, <2>1 DEF NeverBehind
<1> QED BY <1>2, <1>3

\* The order of kinds on a wire, when a DWORD is sent.
LEMMA NeverBehindGrows ==
    ASSUME NEW w, NEW w1, NEW g, NEW d, Grows(w, w1, g, d), NEW kind, NEW kinds,
           NeverBehind(w, kind, kinds), g = 1 /\ d.kind \in kinds => ~Has(w, kind)
    PROVE  NeverBehind(w1, kind, kinds)
<1>1. /\ g \in {0, 1} /\ Len(w) \in Nat /\ Len(w1) = Len(w) + g
      /\ \A k \in 1 .. Len(w) : w1[k] = w[k]
      /\ g = 1 => w1[Len(w) + 1] = d
    BY DEF Grows
<1> SUFFICES ASSUME NEW j \in 1 .. Len(w1), NEW k \in 1 .. Len(w1),
                    w1[j].kind = kind, j < k
             PROVE  w1[k].kind \notin kinds
    BY DEF NeverBehind
<1>2. j \in 1 .. Len(w) /\ (k \in 1 .. Len(w) \/ (g = 1 /\ k = Len(w) + 1))
    BY <1>1
<1>3. w[j].kind = kind
    BY <1>1, <1>2
<1>4. CASE k \in 1 .. Len(w)
    BY <1>1, <1>2, <1>3, <1>4 DEF NeverBehind
<1>5. CASE g = 1 /\ k = Len(w) + 1
    BY <1>1, <1>2, <1>3, <1>5 DEF Has
<1> QED BY <1>2, <1>4, <1>5
-----------------------------------------------------------------------------
(* The reset exchange of one end, over an edge of that end and of its peer. *)

\* The exchange that an end has begun, over an edge of that end.
LEMMA ExchangeKeptByOwner ==
    ASSUME NEW pe, NEW w, NEW v, NEW we, NEW i, NEW pe1, NEW w1, NEW v1,
           Edge(pe, w, v, we, i, pe1, w1, v1), NEW pf, Exchange(pe, pf, w, v),
           i.timeout => ~UnderWay(pf, w, v)
    PROVE  Exchange(pe1, pf, w1, v1)
<1> DEFINE d == i.sends[1]
           g == Given(i)
           t == Taken(i)
<1>1. Takes(w, w1, t) /\ Grows(v, v1, g, d)
    BY EdgeWires
<1>2. Has(w1, "response") => Has(w, "response")
    BY <1>1, HasTakes
<1>3. \A k : Has(v1, k) <=> Has(v, k) \/ (g = 1 /\ d.kind = k)
    BY <1>1, HasGrows
<1>4. g = 1 => /\ d.kind = "request" <=> SentKind(i, "request")
               /\ d.kind = "credit" => pe.ctl.phase = "normal"
    BY EdgeSends
<1>5. /\ SentKind(i, "request") => pe.ctl.phase = "request" /\ pe1.ctl.phase = "wait"
      /\ pe.ctl.phase = "wait" => \/ pe1.ctl.phase = "wait" /\ ~Response(pe, i)
                                  \/ pe1.ctl.phase = "normal" /\ Response(pe, i)
                                  \/ i.timeout /\ ~Response(pe, i) /\ pe1.ctl.phase = "noops"
    BY EdgePhases
<1>6. Response(pe, i) => t = 1 /\ w[1].kind = "response" /\ Has(w, "response")
    BY EventIsHead
<1>7. /\ UnderWay(pf, w, v) => pe.ctl.phase = "wait"
      /\ pf.ctl.responses <= 1
      /\ AtMostOne(v, "request") /\ AtMostOne(w, "response")
      /\ ~(Has(v, "request") /\ pf.ctl.responses > 0)
      /\ ~(Has(v, "request") /\ Has(w, "response"))
      /\ ~(pf.ctl.responses > 0 /\ Has(w, "response"))
      /\ pf.ctl.responses > 0 \/ Has(w, "response") => Cleared(pf, v)
      /\ NeverBehind(v, "request", {"credit"})
    BY DEF Exchange
<1> HIDE DEF d, g, t
<1>8. Response(pe, i) => ~Has(w1, "response")
    BY <1>1, <1>6, <1>7, AtMostOneTakes
<1>9. UnderWay(pf, w1, v1) =>
         \/ UnderWay(pf, w, v) /\ pe.ctl.phase = "wait" /\ ~SentKind(i, "request")
         \/ ~UnderWay(pf, w, v) /\ pe.ctl.phase = "request" /\ SentKind(i, "request")
    <2>1. UnderWay(pf, w1, v1) => UnderWay(pf, w, v) \/ (g = 1 /\ d.kind = "request")
        BY <1>2, <1>3 DEF UnderWay
    <2>2. g = 1 /\ d.kind = "request" => SentKind(i, "request")
        BY <1>4
    <2> QED BY <1>5, <1>7, <2>1, <2>2
<1>10. UnderWay(pf, w1, v1) => pe1.ctl.phase = "wait"
    <2> SUFFICES ASSUME UnderWay(pf, w1, v1) PROVE pe1.ctl.phase = "wait"
        OBVIOUS
    <2>1. CASE UnderWay(pf, w, v) /\ pe.ctl.phase = "wait" /\ ~SentKind(i, "request")
        <3>1. CASE Response(pe, i)
            <4>1. ~UnderWay(pf, w1, v1)
                <5>1. Has(w, "response") /\ ~Has(w1, "response")
                    BY <1>6, <1>8, <3>1
                <5>2. ~Has(v, "request") /\ ~(pf.ctl.responses > 0)
                    BY <1>7, <5>1
                <5>3. ~Has(v1, "request")
                    BY <1>3, <1>4, <2>1, <5>2
                <5> QED BY <5>1, <5>2, <5>3 DEF UnderWay
            <4> QED BY <4>1
        <3>2. CASE ~Response(pe, i)
            BY <1>5, <2>1, <3>2
        <3> QED BY <3>1, <3>2
    <2>2. CASE SentKind(i, "request")
        BY <1>5, <2>2
    <2> QED BY <1>9, <2>1, <2>2
<1>11. AtMostOne(v1, "request") /\ AtMostOne(w1, "response")
    <2>1. g = 1 /\ d.kind = "request" => ~Has(v, "request")
        BY <1>4, <1>5, <1>7 DEF UnderWay
    <2> QED BY <1>1, <1>7, <2>1, AtMostOneTakes, AtMostOneGrows
<1>12. Has(v1, "request") => ~(pf.ctl.responses > 0) /\ ~Has(w1, "response")
    <2>1. CASE g = 1 /\ d.kind = "request"
        BY <1>2, <1>4, <1>5, <1>7, <2>1 DEF UnderWay
    <2>2. CASE Has(v, "request")
        BY <1>2, <1>7, <2>2
    <2> QED BY <1>3, <2>1, <2>2
<1>13. pf.ctl.responses > 0 \/ Has(w1, "response") => Cleared(pf, v1)
    <2> SUFFICES ASSUME pf.ctl.responses > 0 \/ Has(w1, "response") PROVE Cleared(pf, v1)
        OBVIOUS
    <2>1. Cleared(pf, v) /\ pe.ctl.phase = "wait"
        BY <1>2, <1>7 DEF UnderWay
    <2>2. pe.ctl.phase # "normal"
        BY <2>1
    <2> QED BY <2>1, <2>2, ClearedBack
<1>14. NeverBehind(v1, "request", {"credit"})
    <2>1. g = 1 /\ d.kind \in {"credit"} => ~Has(v, "request")
        BY <1>4, <1>7 DEF UnderWay
    <2> QED BY <1>1, <1>7, <2>1, NeverBehindGrows
<1> QED BY <1>2, <1>7, <1>10, <1>11, <1>12, <1>13, <1>14 DEF Exchange

\* A Request, or its Response that is not sent yet, leaves the peer without
\* credits.
LEMMA RequestedIsCleared ==
    ASSUME NEW pf, NEW v, NEW w, NEW wr, NEW i, NEW pf1, NEW v1, NEW w1,
           Edge(pf, v, w, wr, i, pf1, v1, w1), NEW pe, Exchange(pe, pf, w, v),
           Request(pf, i) \/ pf.ctl.responses > 0
    PROVE  Cleared(pf1, v1) /\ pe.ctl.phase = "wait"
<1>1. Takes(v, v1, Taken(i))
    BY EdgeWires
<1>2. CASE pf.ctl.responses > 0
    BY <1>2, ClearedStays DEF Exchange, UnderWay
<1>3. CASE Request(pf, i)
    <2>1. Taken(i) = 1 /\ v[1].kind = "request" /\ Has(v, "request")
        BY <1>3, EventIsHead
    <2>2. \A k \in 1 .. Len(v1) : v1[k].kind \notin {"credit"}
        BY <1>1, <2>1, NeverBehindTakes DEF Exchange
    <2>3. pf1.src = SrcReset
        BY <1>3, EdgeReset
    <2> QED BY <2>1, <2>2, <2>3 DEF Cleared, Has, Exchange, UnderWay
<1> QED BY <1>2, <1>3

\* The exchange that an end has begun, over an edge of its peer.
LEMMA ExchangeKeptByPeer ==
    ASSUME NEW pf, NEW v, NEW w, NEW wr, NEW i, NEW pf1, NEW v1, NEW w1,
           Edge(pf, v, w, wr, i, pf1, v1, w1), NEW pe, Exchange(pe, pf, w, v)
    PROVE  Exchange(pe, pf1, w1, v1)
<1> DEFINE d == i.sends[1]
           g == Given(i)
           t == Taken(i)
           rs == pf.ctl.responses
           rs1 == pf1.ctl.responses
<1>1. Takes(v, v1, t) /\ Grows(w, w1, g, d)
    BY EdgeWires
<1>2. \A k : Has(v1, k) => Has(v, k)
    BY <1>1, HasTakes
<1>3. \A k : Has(w1, k) <=> Has(w, k) \/ (g = 1 /\ d.kind = k)
    BY <1>1, HasGrows
<1>4. g = 1 => (d.kind = "response" <=> SentKind(i, "response"))
    BY EdgeSends
<1>5. Request(pf, i) => t = 1 /\ v[1].kind = "request" /\ Has(v, "request")
    BY EventIsHead
<1>6. /\ rs \in Nat /\ rs1 \in Nat
      /\ SentKind(i, "response") => rs > 0
      /\ rs1 = rs + (IF Request(pf, i) THEN 1 ELSE 0)
                  - (IF SentKind(i, "response") THEN 1 ELSE 0)
    BY EdgePhases
<1>7. /\ UnderWay(pf, w, v) => pe.ctl.phase = "wait"
      /\ rs <= 1
      /\ AtMostOne(v, "request") /\ AtMostOne(w, "response")
      /\ ~(Has(v, "request") /\ rs > 0)
      /\ ~(Has(v, "request") /\ Has(w, "response"))
      /\ ~(rs > 0 /\ Has(w, "response"))
      /\ rs > 0 \/ Has(w, "response") => Cleared(pf, v)
      /\ NeverBehind(v, "request", {"credit"})
    BY DEF Exchange
<1>8. Request(pf, i) \/ rs > 0 => Cleared(pf1, v1) /\ pe.ctl.phase = "wait"
    BY RequestedIsCleared
<1> HIDE DEF d, g, t, rs, rs1
<1>9. Request(pf, i) => ~Has(v1, "request") /\ ~(rs > 0) /\ ~Has(w, "response")
                        /\ ~SentKind(i, "response") /\ rs1 = 1
    <2>1. Request(pf, i) => ~Has(v1, "request")
        BY <1>1, <1>5, <1>7, AtMostOneTakes
    <2>2. Request(pf, i) => ~(rs > 0) /\ ~Has(w, "response") /\ ~SentKind(i, "response")
        BY <1>5, <1>6, <1>7
    <2> QED BY <1>6, <2>1, <2>2
<1>10. SentKind(i, "response") => /\ rs > 0 /\ rs1 = 0 /\ ~Request(pf, i)
                                  /\ ~Has(w, "response") /\ ~Has(v, "request")
    BY <1>6, <1>7, <1>9
<1>11. ~Request(pf, i) /\ ~SentKind(i, "response") => rs1 = rs
    BY <1>6
<1>12. Has(w1, "response") <=> Has(w, "response") \/ SentKind(i, "response")
    <2>1. SentKind(i, "response") => g = 1
        BY EdgeWires DEF SentKind, g
    <2> QED BY <1>3, <1>4, <2>1
<1>13. UnderWay(pf1, w1, v1) => pe.ctl.phase = "wait"
    BY <1>2, <1>7, <1>8, <1>10, <1>11, <1>12 DEF UnderWay, rs, rs1
<1>14. AtMostOne(v1, "request") /\ AtMostOne(w1, "response")
    <2>1. g = 1 /\ d.kind = "response" => ~Has(w, "response")
        BY <1>4, <1>10
    <2> QED BY <1>1, <1>7, <2>1, AtMostOneTakes, AtMostOneGrows
<1>15. rs1 > 0 \/ Has(w1, "response") => Cleared(pf1, v1)
    <2>1. CASE Request(pf, i) \/ rs > 0
        BY <1>8, <2>1
    <2>2. CASE ~Request(pf, i) /\ ~(rs > 0)
        <3>1. ~SentKind(i, "response") /\ ~(rs1 > 0)
            BY <1>6, <1>11, <2>2
        <3>2. Has(w, "response") => Cleared(pf1, v1)
            BY <1>7, ClearedStays
        <3> QED BY <1>12, <3>1, <3>2
    <2> QED BY <2>1, <2>2
<1>16. NeverBehind(v1, "request", {"credit"})
    BY <1>1, <1>7, NeverBehindTakes
<1>17. /\ ~(Has(v1, "request") /\ rs1 > 0) /\ ~(Has(v1, "request") /\ Has(w1, "response"))
       /\ ~(rs1 > 0 /\ Has(w1, "response")) /\ rs1 <= 1
    BY <1>2, <1>6, <1>7, <1>9, <1>10, <1>11, <1>12
<1> QED BY <1>13, <1>14, <1>15, <1>16, <1>17 DEF Exchange, rs1
-----------------------------------------------------------------------------
(* What the sender appends agrees with how the receiver parses it. *)

\* A source out of reset owes nothing.
LEMMA ResetOwesNothing ==
    /\ Owed(SrcReset) = 0 /\ ToSend(SrcReset) = 0 /\ Total(SrcReset) = 0
    /\ SrcReset.reserved = 0 /\ ~SrcReset.header_sent /\ SrcReset.latest_fc = 0
BY DEF Owed, ToSend, Total, SrcReset

\* What an edge does to the counts of the source.
LEMMA EdgeSource ==
    ASSUME NEW p, NEW x, NEW y, NEW wr, NEW i, NEW p1, NEW x1, NEW y1,
           Edge(p, x, y, wr, i, p1, x1, y1), ~InReset(p, i)
    PROVE  LET s == p.src
               t == p1.src
               payload == SentKind(i, "payload") IN
           /\ SrcOK(t)
           /\ t.latest_fc = LatestAfter(p, i)
           /\ payload => Owed(s) >= 1 /\ ToSend(s) >= 1
           /\ Owed(t) = IF payload THEN Owed(s) - 1
                        ELSE IF SentKind(i, "header") THEN s.reserved ELSE Owed(s)
           /\ \A c \in Int : Left(t, c) = IF payload THEN (c - Total(s) - 1) % Modulus
                                          ELSE Left(s, c)
           /\ \/ ToSend(t) = IF payload THEN ToSend(s) - 1 ELSE ToSend(s)
              \/ ~payload /\ ToSend(t) \in 0 .. Left(s, s.latest_fc)
<1>1. LatestAfter(p, i) \in Nat
    BY LatestIsCount DEF Edge, WordOK
<1>2. PortOK(p) /\ EdgeInput(p, x, wr, i) /\ p1.src = PortEdge(p, i).src
    BY DEF Edge
<1> QED BY <1>1, <1>2, SrcFacts

\* What the source owes are words of one message.
LEMMA OwedIsCount ==
    ASSUME NEW s, SrcOK(s)
    PROVE  /\ Owed(s) \in 0 .. MaxPayload /\ ToSend(s) \in 0 .. MaxPayload
           /\ s.header_sent => Owed(s) >= 1
           /\ ~s.header_sent => Owed(s) = 0 /\ ToSend(s) = s.reserved
           /\ s.reserved \in 0 .. MaxPayload /\ MaxPayload \in Nat
<1>1. s.reserved \in 0 .. MaxPayload /\ MaxPayload \in Nat /\ s.header_sent \in BOOLEAN
      /\ (s.header_sent => Len(s.payload) \in 1 .. s.reserved)
    BY StreamAssumption DEF SrcOK
<1> DEFINE l == Len(s.payload)
<1>2. s.header_sent => l \in 1 .. MaxPayload
    BY <1>1
<1> HIDE DEF l
<1>3. Owed(s) = IF s.header_sent THEN l ELSE 0
    BY DEF Owed, l
<1>4. ToSend(s) = IF s.header_sent THEN l ELSE s.reserved
    BY DEF ToSend, l
<1> QED BY <1>1, <1>2, <1>3, <1>4

\* A header is sent only when the receiver is at a boundary and no reset is
\* under way on the wire.
LEMMA HeaderStartsClean ==
    ASSUME NEW pf, NEW v, NEW w, NEW wr, NEW i, NEW pf1, NEW v1, NEW w1,
           Edge(pf, v, w, wr, i, pf1, v1, w1), NEW pe,
           Exchange(pe, pf, w, v), Exchange(pf, pe, v, w),
           NEW last \in Nat, Excess(pe, pf, v, last), SentKind(i, "header")
    PROVE  last = 0 /\ ~Has(w, "request") /\ ~Has(w, "response")
<1>1. Given(i) = 1
    BY EdgeWires DEF SentKind
<1>2. /\ pf.src.reserved > 0 /\ ~pf.src.header_sent /\ pf.ctl.phase = "normal"
    BY <1>1, EdgeSends
<1>3. ~Cleared(pf, v)
    BY <1>2, ResetOwesNothing DEF Cleared
<1>4. last = Owed(pf.src) /\ Owed(pf.src) = 0
    BY <1>2, <1>3 DEF Excess, Owed
<1>5. ~Has(w, "request")
    BY <1>2 DEF Exchange, UnderWay
<1>6. ~Has(w, "response")
    BY <1>3 DEF Exchange
<1> QED BY <1>4, <1>5, <1>6

\* What an end sends goes with what its peer expects by then.
LEMMA SentMayFollow ==
    ASSUME NEW pf, NEW v, NEW w, NEW wr, NEW i, NEW pf1, NEW v1, NEW w1,
           Edge(pf, v, w, wr, i, pf1, v1, w1), NEW pe,
           Exchange(pe, pf, w, v), Exchange(pf, pe, v, w),
           NEW p, p[Len(w)] \in Nat, Excess(pe, pf, v, p[Len(w)]), Given(i) = 1
    PROVE  MayFollow(p, w, i.sends[1])
<1> DEFINE d == i.sends[1]
           last == p[Len(w)]
<1>1. /\ d \in Dwords
      /\ \A kind : SentKind(i, kind) <=> d.kind = kind
      /\ d.kind = "request" => pf.ctl.phase = "request"
      /\ d.kind = "header" => /\ d.value = pf.src.reserved /\ pf.src.reserved > 0
      /\ d.kind = "payload" => pf.src.header_sent
    BY EdgeSends
<1>2. SrcOK(pf.src)
    BY EdgeReset
<1>3. d.kind = "payload" => last > 0
    <2>1. last >= Owed(pf.src) /\ last \in Nat
        BY DEF Excess
    <2>2. d.kind = "payload" => Owed(pf.src) >= 1 /\ Owed(pf.src) \in 0 .. MaxPayload
        BY <1>1, <1>2, OwedIsCount
    <2> QED BY <2>1, <2>2, <1>2, OwedIsCount
<1>4. d.kind = "request" => last = 0
    BY <1>1 DEF Excess
<1>5. d.kind = "header" => last = 0 /\ ~Has(w, "request") /\ ~Has(w, "response")
    BY <1>1, HeaderStartsClean
<1>6. d.kind = "header" => d.value \in 1 .. MaxPayload
    BY <1>1, <1>2, OwedIsCount
<1> QED BY <1>1, <1>3, <1>4, <1>5, <1>6 DEF MayFollow

\* What is expected beyond what is owed, over an edge of the sender.
LEMMA ExcessKeptBySender ==
    ASSUME NEW pf, NEW v, NEW w, NEW wr, NEW i, NEW pf1, NEW v1, NEW w1,
           Edge(pf, v, w, wr, i, pf1, v1, w1), NEW pe,
           Exchange(pe, pf, w, v), Exchange(pf, pe, v, w),
           NEW last \in 0 .. MaxPayload, Excess(pe, pf, v, last),
           NEW last1, last1 = IF Given(i) = 1 THEN RemAfter(last, i.sends[1]) ELSE last
    PROVE  Excess(pe, pf1, v1, last1)
<1> DEFINE d == i.sends[1]
           g == Given(i)
           o == Owed(pf.src)
           o1 == Owed(pf1.src)
           hdr == SentKind(i, "header")
           pay == SentKind(i, "payload")
<1>1. SrcOK(pf.src) /\ o \in 0 .. MaxPayload /\ MaxPayload \in Nat
      /\ RunOut \in Nat /\ RunOut >= MaxPayload
    BY EdgeReset, OwedIsCount, StreamAssumption
<1>2. /\ g \in {0, 1} /\ (g = 1 <=> i.sends # <<>>)
    BY EdgeWires DEF Given
<1>3. g = 1 => /\ d.kind = "header" <=> hdr
               /\ d.kind = "payload" <=> pay
               /\ d.kind = "header" => /\ d.value = pf.src.reserved /\ ~InReset(pf, i)
               /\ d.kind = "payload" => ~InReset(pf, i)
               /\ pf.src.header_sent /\ ~InReset(pf, i) => pay
    BY EdgeSends
<1>4. pay \/ hdr => g = 1
    BY <1>2 DEF SentKind
<1>5. hdr => last = 0
    BY HeaderStartsClean, <1>1
<1>6. /\ last \in Nat /\ last >= o
      /\ pf.ctl.phase = "noops" => last <= pf.ctl.noops
      /\ pf.ctl.phase \in {"request", "wait"} => last = 0
      /\ pf.ctl.phase = "normal" => last = o \/ (pe.ctl.phase # "normal" /\ Cleared(pf, v))
    BY <1>1 DEF Excess
<1>7. g = 1 => last1 = (IF last > 0 THEN last - 1
                        ELSE IF hdr THEN pf.src.reserved ELSE 0)
    <2>1. g = 1 => last1 = RemAfter(last, d)
        OBVIOUS
    <2> QED BY <1>3, <2>1 DEF RemAfter
<1>8. g = 0 => last1 = last
    OBVIOUS
<1>9. pf.src.reserved \in 0 .. MaxPayload
    BY <1>1 DEF SrcOK
<1>10. InReset(pf, i) => o1 = 0 /\ pf1.src = SrcReset
    BY EdgeReset, ResetOwesNothing
<1>11. ~InReset(pf, i) =>
          /\ o1 = IF pay THEN o - 1 ELSE IF hdr THEN pf.src.reserved ELSE o
          /\ pay => o >= 1
          /\ pf.ctl.phase = "normal" /\ pf1.ctl.phase # "noops"
    <2>1. ~InReset(pf, i) => /\ o1 = IF pay THEN o - 1
                                     ELSE IF hdr THEN pf.src.reserved ELSE o
                             /\ pay => o >= 1
        BY EdgeSource
    <2>2. ~InReset(pf, i) => pf.ctl.phase = "normal" /\ ~Start(pf, i)
        BY EdgeReset
    <2>3. pf.ctl.phase = "normal" /\ ~Start(pf, i) => pf1.ctl.phase # "noops"
        BY CtlFacts DEF Edge, CtlMove, Expire
    <2> QED BY <2>1, <2>2, <2>3
<1>12. o = 0 \/ pf.src.header_sent
    BY <1>1, OwedIsCount
<1>13. Message("noop").kind = "noop"
    BY DEF Message
<1>14. i.sends = <<Message("noop")>> => g = 1 /\ ~hdr
    BY <1>2, <1>13 DEF SentKind
<1> HIDE DEF d, g, o, o1, hdr, pay
<1>15. InReset(pf, i) => ~hdr /\ ~pay
    BY <1>3, <1>4
<1>16. last1 \in Nat
    BY <1>1, <1>2, <1>6, <1>7, <1>8, <1>9
<1>17. last1 >= o1
    <2>1. CASE InReset(pf, i)
        BY <1>10, <1>16, <2>1
    <2>2. CASE ~InReset(pf, i)
        <3>1. CASE pay
            BY <1>1, <1>2, <1>4, <1>6, <1>7, <1>11, <2>2, <3>1
        <3>2. CASE hdr /\ ~pay
            BY <1>1, <1>2, <1>4, <1>5, <1>6, <1>7, <1>9, <1>11, <2>2, <3>2
        <3>3. CASE ~hdr /\ ~pay /\ g = 1
            <4>1. o = 0
                BY <1>3, <1>12, <2>2, <3>3
            <4> QED BY <1>11, <1>16, <2>2, <3>3, <4>1
        <3>4. CASE ~hdr /\ ~pay /\ g = 0
            BY <1>6, <1>8, <1>11, <2>2, <3>4
        <3> QED BY <1>2, <3>1, <3>2, <3>3, <3>4
    <2> QED BY <2>1, <2>2
<1>18. pf1.ctl.phase = "noops" => last1 <= pf1.ctl.noops
    <2> SUFFICES ASSUME pf1.ctl.phase = "noops" PROVE last1 <= pf1.ctl.noops
        OBVIOUS
    <2>1. /\ \/ pf1.ctl.noops = RunOut /\ i.sends = <<>>
             \/ pf.ctl.phase = "noops" /\ pf1.ctl.noops = pf.ctl.noops /\ i.sends = <<>>
             \/ /\ pf.ctl.phase = "noops" /\ pf1.ctl.noops = pf.ctl.noops - 1
                /\ i.sends = <<Message("noop")>>
          /\ pf.ctl.noops \in Nat /\ pf1.ctl.noops \in Nat
        BY EdgePhases
    <2> DEFINE nn == pf.ctl.noops
               nn1 == pf1.ctl.noops
    <2>2. CASE nn1 = RunOut /\ i.sends = <<>>
        BY <1>1, <1>2, <1>8, <2>2
    <2>3. CASE pf.ctl.phase = "noops" /\ nn1 = nn /\ i.sends = <<>>
        BY <1>2, <1>6, <1>8, <2>3
    <2>4. CASE pf.ctl.phase = "noops" /\ nn1 = nn - 1 /\ i.sends = <<Message("noop")>>
        <3>1. last1 = IF last > 0 THEN last - 1 ELSE 0
            BY <1>7, <1>14, <2>4
        <3>2. /\ last <= nn /\ nn \in Nat /\ nn1 \in Nat /\ last \in Nat
              /\ nn1 = nn - 1
            BY <1>6, <2>1, <2>4
        <3> HIDE DEF nn, nn1
        <3>3. last1 <= nn1
            BY <3>1, <3>2
        <3> QED BY <3>3 DEF nn1
    <2> QED BY <2>1, <2>2, <2>3, <2>4
<1>19. pf1.ctl.phase \in {"request", "wait"} => last1 = 0
    <2>1. ASSUME pf1.ctl.phase = "request" PROVE last1 = 0
        <3>1. \/ pf.ctl.phase = "request" /\ i.sends = <<>>
              \/ pf.ctl.phase = "noops" /\ pf.ctl.noops = 1 /\ i.sends = <<Message("noop")>>
            BY <2>1, EdgePhases
        <3>2. CASE pf.ctl.phase = "request" /\ i.sends = <<>>
            BY <1>2, <1>6, <1>8, <3>2
        <3>3. CASE /\ pf.ctl.phase = "noops" /\ pf.ctl.noops = 1
                   /\ i.sends = <<Message("noop")>>
            <4>1. last <= 1
                BY <1>6, <3>3
            <4> QED BY <1>6, <1>7, <1>14, <3>3, <4>1
        <3> QED BY <3>1, <3>2, <3>3
    <2>2. ASSUME pf1.ctl.phase = "wait" PROVE last1 = 0
        <3>1. pf.ctl.phase \in {"request", "wait"}
            BY <2>2, EdgePhases
        <3>2. InReset(pf, i)
            BY <3>1, EdgeReset
        <3> QED BY <1>2, <1>6, <1>7, <1>8, <1>15, <3>1, <3>2
    <2> QED BY <2>1, <2>2
<1>20. pf1.ctl.phase = "normal" =>
          last1 = o1 \/ (pe.ctl.phase # "normal" /\ Cleared(pf1, v1))
    <2> SUFFICES ASSUME pf1.ctl.phase = "normal"
                 PROVE  last1 = o1 \/ (pe.ctl.phase # "normal" /\ Cleared(pf1, v1))
        OBVIOUS
    <2>1. \/ pf.ctl.phase = "normal" /\ ~Start(pf, i)
          \/ pf.ctl.phase = "wait"
        BY EdgePhases
    <2>2. CASE pf.ctl.phase = "wait"
        <3>1. InReset(pf, i) /\ last = 0
            BY <1>6, <2>2, EdgeReset
        <3>2. last1 = 0
            BY <1>2, <1>7, <1>8, <1>15, <3>1
        <3> QED BY <1>10, <3>1, <3>2
    <2>3. CASE pf.ctl.phase = "normal" /\ InReset(pf, i) /\ ~Start(pf, i)
        <3>1. Request(pf, i) \/ pf.ctl.responses > 0
            BY <2>3, EdgeReset
        <3>2. Cleared(pf1, v1) /\ pe.ctl.phase = "wait"
            BY <3>1, RequestedIsCleared
        <3> QED BY <3>2
    <2>4. CASE pf.ctl.phase = "normal" /\ ~InReset(pf, i)
        <3>1. CASE pe.ctl.phase # "normal" /\ Cleared(pf, v)
            BY <3>1, ClearedStays
        <3>2. CASE last = o
            <4>1. CASE pay
                <5>1. o >= 1 /\ o1 = o - 1 /\ g = 1
                    BY <1>4, <1>11, <2>4, <4>1
                <5> QED BY <1>1, <1>7, <3>2, <5>1
            <4>2. CASE hdr /\ ~pay
                <5>1. o1 = pf.src.reserved /\ g = 1 /\ last = 0
                    BY <1>4, <1>5, <1>11, <2>4, <4>2
                <5> QED BY <1>7, <4>2, <5>1
            <4>3. CASE ~hdr /\ ~pay /\ g = 1
                <5>1. o = 0
                    BY <1>3, <1>12, <2>4, <4>3
                <5> QED BY <1>7, <1>11, <2>4, <3>2, <4>3, <5>1
            <4>4. CASE ~hdr /\ ~pay /\ g = 0
                BY <1>8, <1>11, <2>4, <3>2, <4>4
            <4> QED BY <1>2, <4>1, <4>2, <4>3, <4>4
        <3> QED BY <1>6, <2>4, <3>1, <3>2
    <2> QED BY <2>1, <2>2, <2>3, <2>4
<1> QED BY <1>17, <1>18, <1>19, <1>20 DEF Excess, o1
-----------------------------------------------------------------------------
(* The receiver takes a DWORD. *)

\* The receiver parses the wire as it was annotated.
LEMMA ReceiverParses ==
    ASSUME NEW pe, NEW w, NEW v, NEW we, NEW i, NEW pe1, NEW w1, NEW v1,
           Edge(pe, w, v, we, i, pe1, w1, v1),
           NEW p, NEW q, WireOK(pe.rx.remaining, w, p, q),
           NEW p1, p1 = Behind(p, w1, Taken(i)), NEW q1, q1 = Behind(q, w1, Taken(i))
    PROVE  /\ WireOK(pe1.rx.remaining, w1, p1, q1)
           /\ p1[Len(w1)] = p[Len(w)]
           /\ p[0] = pe.rx.remaining /\ p1[0] = pe1.rx.remaining
           /\ \A k \in 0 .. Len(w1) : k + Taken(i) \in 0 .. Len(w) /\ p1[k] = p[k + Taken(i)]
           /\ q[0] = q1[0] + (IF Taken(i) = 1 /\ pe.rx.remaining > 0 THEN 1 ELSE 0)
           /\ q[0] \in Nat /\ q1[0] \in Nat
           /\ p[Len(w)] \in 0 .. MaxPayload
<1> DEFINE t == Taken(i)
           r == pe.rx.remaining
           r1 == pe1.rx.remaining
<1>1. /\ Takes(w, w1, t) /\ t \in {0, 1}
      /\ t = 1 <=> i.word # <<>>
      /\ t = 1 => i.word[1] = w[1]
    BY EdgeWires DEF Taken
<1>2. r1 = IF t = 0 THEN r ELSE RemAfter(r, w[1])
    <2>1. r1 = Expected(pe, i)
        BY RxFacts DEF Edge
    <2> QED BY <1>1, <2>1 DEF Expected
<1>3. /\ WireOK(r1, w1, p1, q1)
      /\ p1[Len(w1)] = p[Len(w)]
      /\ t = 1 => q[0] = q1[0] + (IF r > 0 THEN 1 ELSE 0)
    BY <1>1, <1>2, WireTaken
<1>4. Len(w) \in Nat /\ Len(w1) \in Nat /\ Len(w) = Len(w1) + t
    BY <1>1 DEF Takes
<1>5. \A k \in 0 .. Len(w1) : k + t \in 0 .. Len(w) /\ p1[k] = p[k + t] /\ q1[k] = q[k + t]
    BY <1>1, <1>4 DEF Behind
<1>6. p[0] = r /\ q[0] \in Nat /\ p[Len(w)] \in 0 .. MaxPayload
    BY <1>4 DEF WireOK, Parses, Counts
<1>7. p1[0] = r1 /\ q1[0] \in Nat
    BY <1>3, <1>4 DEF WireOK, Parses, Counts
<1>8. t = 0 => q[0] = q1[0]
    <2>1. 0 \in 0 .. Len(w1)
        BY <1>4
    <2> QED BY <1>5, <2>1
<1>9. q[0] = q1[0] + (IF t = 1 /\ r > 0 THEN 1 ELSE 0)
    <2>1. CASE t = 1
        BY <1>3, <2>1
    <2>2. CASE t = 0
        BY <1>7, <1>8, <2>2
    <2> QED BY <1>1, <2>1, <2>2
<1> QED BY <1>3, <1>5, <1>6, <1>7, <1>9

\* Where nothing more is expected, nothing of a transport is under way.
LEMMA NothingExpected ==
    ASSUME NEW r, NEW w, NEW p, NEW q, WireOK(r, w, p, q), Len(w) \in Nat,
           \A k \in 0 .. Len(w) : p[k] = 0
    PROVE  q[0] = 0 /\ r = 0 /\ ~Has(w, "payload") /\ ~Has(w, "header")
<1>1. q[0] = 0
    <2>1. 0 \in 0 .. Len(w) /\ \A j \in 0 .. Len(w) - 1 : ~(p[j] > 0)
        <3>1. ASSUME NEW j \in 0 .. Len(w) - 1 PROVE ~(p[j] > 0)
            <4>1. j \in 0 .. Len(w)
                OBVIOUS
            <4>2. p[j] = 0
                BY <4>1
            <4> QED BY <4>2
        <3> QED BY <3>1
    <2>2. q[0] = 0 \/ \E j \in 0 .. Len(w) - 1 : p[j] > 0
        BY <2>1 DEF WireOK, Counts
    <2> QED BY <2>1, <2>2
<1>2. ASSUME NEW k \in 1 .. Len(w) PROVE w[k].kind \notin {"payload", "header"}
    <2>1. k \in 0 .. Len(w) /\ k - 1 \in 0 .. Len(w)
        OBVIOUS
    <2>2. p[k] = 0 /\ p[k - 1] = 0
        BY <2>1
    <2>3. /\ w[k].kind = "payload" => p[k - 1] > 0
          /\ w[k].kind = "header" => w[k].value \in 1 .. MaxPayload
          /\ p[k] = RemAfter(p[k - 1], w[k])
        BY DEF WireOK, KindsAgree, Parses
    <2>4. w[k].kind # "payload"
        BY <2>2, <2>3
    <2>5. w[k].kind # "header"
        BY <2>2, <2>3, StreamAssumption DEF RemAfter
    <2> QED BY <2>4, <2>5
<1>3. r = 0
    BY DEF WireOK, Parses
<1> QED BY <1>1, <1>2, <1>3 DEF Has

\* A Request or a Response that is decoded ends the stream before it.
LEMMA DecodedEndsStream ==
    ASSUME NEW pe, NEW w, NEW v, NEW we, NEW i, NEW pe1, NEW w1, NEW v1,
           Edge(pe, w, v, we, i, pe1, w1, v1),
           NEW p, NEW q, WireOK(pe.rx.remaining, w, p, q),
           NEW p1, p1 = Behind(p, w1, Taken(i)), NEW q1, q1 = Behind(q, w1, Taken(i)),
           Request(pe, i) \/ Response(pe, i)
    PROVE  /\ p[Len(w)] = 0
           /\ \A k \in 0 .. Len(w1) : p1[k] = 0
           /\ q1[0] = 0 /\ pe1.rx.remaining = 0 /\ pe.rx.remaining = 0
           /\ ~Has(w1, "payload") /\ ~Has(w1, "header")
<1> DEFINE t == Taken(i)
<1>1. /\ t = 1 /\ pe.rx.remaining = 0 /\ w[1].kind \in {"request", "response"}
    BY EventIsHead
<1>2. Len(w) \in Nat /\ Len(w) >= 1 /\ Len(w1) \in Nat /\ Len(w) = Len(w1) + 1
    BY <1>1, EdgeWires DEF Takes
<1>3. EndsStream(w, p, 1)
    <2>1. p[1 - 1] = 0
        BY <1>1 DEF WireOK, Parses
    <2> QED BY <1>1, <2>1 DEF EndsStream
<1>4. \A j \in 1 .. Len(w) : p[j] = 0
    <2>1. 1 \in 1 .. Len(w)
        BY <1>2
    <2> QED BY <1>3, <2>1 DEF WireOK, BoundaryLasts
<1>5. \A k \in 0 .. Len(w1) : p1[k] = 0
    <2> SUFFICES ASSUME NEW k \in 0 .. Len(w1) PROVE p1[k] = 0
        OBVIOUS
    <2>1. k + 1 \in 1 .. Len(w)
        BY <1>2
    <2>2. p1[k] = p[k + 1]
        BY <1>1 DEF Behind
    <2> QED BY <1>4, <2>1, <2>2
<1>6. WireOK(pe1.rx.remaining, w1, p1, q1)
    BY ReceiverParses
<1>7. q1[0] = 0 /\ pe1.rx.remaining = 0 /\ ~Has(w1, "payload") /\ ~Has(w1, "header")
    BY <1>2, <1>5, <1>6, NothingExpected
<1>8. p[Len(w)] = 0
    BY <1>2, <1>4
<1> QED BY <1>1, <1>5, <1>7, <1>8

\* What is expected beyond what is owed, over an edge of the receiver.
LEMMA ExcessKeptByReceiver ==
    ASSUME NEW pe, NEW w, NEW v, NEW we, NEW i, NEW pe1, NEW w1, NEW v1,
           Edge(pe, w, v, we, i, pe1, w1, v1),
           NEW p, NEW q, WireOK(pe.rx.remaining, w, p, q),
           NEW pf, Excess(pe, pf, v, p[Len(w)])
    PROVE  Excess(pe1, pf, v1, p[Len(w)])
<1> DEFINE last == p[Len(w)]
<1>1. /\ last >= Owed(pf.src)
      /\ pf.ctl.phase = "noops" => last <= pf.ctl.noops
      /\ pf.ctl.phase \in {"request", "wait"} => last = 0
      /\ pf.ctl.phase = "normal" =>
            last = Owed(pf.src) \/ (pe.ctl.phase # "normal" /\ Cleared(pf, v))
    BY DEF Excess
<1>2. ASSUME pf.ctl.phase = "normal", pe.ctl.phase # "normal", Cleared(pf, v)
      PROVE  last = Owed(pf.src) \/ (pe1.ctl.phase # "normal" /\ Cleared(pf, v1))
    <2>1. CASE pe1.ctl.phase # "normal"
        BY <1>2, <2>1, ClearedBack
    <2>2. CASE pe1.ctl.phase = "normal"
        <3>1. Response(pe, i)
            BY <1>2, <2>2, EdgePhases
        <3>2. last = 0
            BY <3>1, DecodedEndsStream
        <3> QED BY <1>2, <3>2, ResetOwesNothing DEF Cleared
    <2> QED BY <2>1, <2>2
<1> QED BY <1>1, <1>2 DEF Excess

\* Only payload and No-Ops inside a transport, over an edge of the receiver.
LEMMA InsideKeptByReceiver ==
    ASSUME NEW pe, NEW w, NEW v, NEW we, NEW i, NEW pe1, NEW w1, NEW v1,
           Edge(pe, w, v, we, i, pe1, w1, v1),
           NEW p, NEW q, WireOK(pe.rx.remaining, w, p, q), OnlyRunOutInside(pe, w, p),
           NEW p1, p1 = Behind(p, w1, Taken(i))
    PROVE  OnlyRunOutInside(pe1, w1, p1)
<1>1. Response(pe, i) => \A j \in 0 .. Len(w1) : p1[j] = 0
    <2>1. PICK q1 : q1 = Behind(q, w1, Taken(i))
        OBVIOUS
    <2> QED BY <2>1, DecodedEndsStream
<1> SUFFICES ASSUME pe1.ctl.phase = "normal", NEW k \in 1 .. Len(w1), p1[k - 1] > 0
             PROVE  w1[k].kind \in {"payload", "noop"}
    BY DEF OnlyRunOutInside
<1> DEFINE t == Taken(i)
<1>2. Takes(w, w1, t)
    BY EdgeWires
<1>3. t \in {0, 1} /\ Len(w) \in Nat /\ Len(w1) \in Nat /\ Len(w) = Len(w1) + t
      /\ w1[k] = w[k + t]
    BY <1>2 DEF Takes
<1>4. k + t \in 1 .. Len(w) /\ k - 1 \in 0 .. Len(w1) /\ (k - 1) + t = (k + t) - 1
    BY <1>3
<1>5. p1[k - 1] = p[(k + t) - 1]
    BY <1>4 DEF Behind
<1>6. ~Response(pe, i)
    BY <1>1, <1>4
<1>7. pe.ctl.phase = "normal"
    BY <1>6, EdgePhases
<1> QED BY <1>3, <1>4, <1>5, <1>7 DEF OnlyRunOutInside

\* Only payload and No-Ops inside a transport, over an edge of the sender.
LEMMA InsideKeptBySender ==
    ASSUME NEW pf, NEW v, NEW w, NEW wr, NEW i, NEW pf1, NEW v1, NEW w1,
           Edge(pf, v, w, wr, i, pf1, v1, w1), NEW pe,
           Exchange(pe, pf, w, v), NEW p, p[Len(w)] \in 0 .. MaxPayload,
           Excess(pe, pf, v, p[Len(w)]), OnlyRunOutInside(pe, w, p),
           NEW p1, \A k \in 0 .. Len(w) : p1[k] = p[k]
    PROVE  OnlyRunOutInside(pe, w1, p1)
<1> SUFFICES ASSUME pe.ctl.phase = "normal", NEW k \in 1 .. Len(w1), p1[k - 1] > 0
             PROVE  w1[k].kind \in {"payload", "noop"}
    BY DEF OnlyRunOutInside
<1> DEFINE d == i.sends[1]
           g == Given(i)
           l == Len(w)
<1>1. /\ g \in {0, 1} /\ l \in Nat /\ Len(w1) = l + g
      /\ \A j \in 1 .. l : w1[j] = w[j]
      /\ g = 1 => w1[l + 1] = d
    BY EdgeWires DEF Grows
<1>2. \/ k \in 1 .. l /\ k - 1 \in 0 .. l
      \/ g = 1 /\ k = l + 1 /\ k - 1 = l /\ l \in 0 .. l
    BY <1>1
<1>3. CASE k \in 1 .. l /\ k - 1 \in 0 .. l
    <2>1. w1[k] = w[k] /\ p1[k - 1] = p[k - 1]
        BY <1>1, <1>3
    <2> QED BY <1>3, <2>1 DEF OnlyRunOutInside
<1>4. CASE g = 1 /\ k = l + 1 /\ k - 1 = l /\ l \in 0 .. l
    <2>1. p[l] > 0 /\ w1[k] = d
        BY <1>1, <1>4
    <2>2. pf.ctl.phase \in {"normal", "noops"}
        <3>1. pf.ctl.phase \notin {"request", "wait"}
            BY <2>1 DEF Excess
        <3> QED BY <3>1, EdgePhases
    <2>3. CASE pf.ctl.phase = "noops"
        BY <1>4, <2>1, <2>3, EdgeSends
    <2>4. CASE pf.ctl.phase = "normal"
        <3>1. p[l] = Owed(pf.src)
            BY <2>4 DEF Excess
        <3>2. pf.src.header_sent
            BY <2>1, <3>1 DEF Owed
        <3>3. ~InReset(pf, i)
            <4>1. ~Request(pf, i) /\ ~(pf.ctl.responses > 0)
                BY RequestedIsCleared
            <4>2. ~Start(pf, i)
                <5>1. i.sends # <<>>
                    BY <1>4, EdgeWires
                <5> QED BY <5>1, SentMeans DEF Edge
            <4> QED BY <2>4, <4>1, <4>2, EdgeReset
        <3> QED BY <1>4, <2>1, <3>2, <3>3, EdgeSends
    <2> QED BY <2>2, <2>3, <2>4
<1> QED BY <1>2, <1>3, <1>4
-----------------------------------------------------------------------------
(* The run-out of the sender and the receiver's FIFO. *)

\* What an edge stores and how it counts (uart_rx_path.py).
LEMMA EdgeStores ==
    ASSUME NEW pe, NEW w, NEW v, NEW we, NEW i, NEW pe1, NEW w1, NEW v1,
           Edge(pe, w, v, we, i, pe1, w1, v1)
    PROVE  /\ InReset(pe, i) \/ ~pe.rx.initialized => pe1.rx.fifo = <<>>
           /\ pe1.rx.counter = IF InReset(pe, i) THEN 0
                               ELSE IF ~pe.rx.initialized THEN RxDepth
                               ELSE IF Reading(pe, i) THEN (pe.rx.counter + 1) % Modulus
                               ELSE pe.rx.counter
           /\ pe1.rx.initialized <=> ~InReset(pe, i)
           /\ pe1.rx.discard <=> Discards(pe, i)
           /\ Writing(pe, i) => Taken(i) = 1 /\ pe.rx.remaining > 0
           /\ \A kind : Has(pe1.rx.fifo, kind) =>
                 Has(pe.rx.fifo, kind) \/ (Writing(pe, i) /\ w[1].kind = kind)
<1>1. PortOK(pe) /\ WordOK(i) /\ pe1 = PortEdge(pe, i)
    BY DEF Edge
<1>2. /\ InReset(pe, i) \/ ~pe.rx.initialized => pe1.rx.fifo = <<>>
      /\ pe1.rx.counter = IF InReset(pe, i) THEN 0
                          ELSE IF ~pe.rx.initialized THEN RxDepth
                          ELSE IF Reading(pe, i) THEN (pe.rx.counter + 1) % Modulus
                          ELSE pe.rx.counter
      /\ pe1.rx.initialized <=> ~InReset(pe, i)
      /\ pe1.rx.discard <=> Discards(pe, i)
    BY <1>1, RxFacts
<1>3. /\ Taken(i) = 1 <=> i.word # <<>>
      /\ Taken(i) = 1 => i.word[1] = w[1]
    BY EdgeWires
<1>4. Writing(pe, i) => Taken(i) = 1 /\ pe.rx.remaining > 0
    BY <1>3 DEF Writing, Writes, Inside
<1>5. ASSUME NEW kind, Has(pe1.rx.fifo, kind)
      PROVE  Has(pe.rx.fifo, kind) \/ (Writing(pe, i) /\ w[1].kind = kind)
    <2>1. ~InReset(pe, i) /\ pe.rx.initialized
        <3> SUFFICES ASSUME pe1.rx.fifo = <<>> PROVE FALSE
            BY <1>2
        <3>1. Len(pe1.rx.fifo) = 0
            OBVIOUS
        <3> QED BY <1>5, <3>1 DEF Has
    <2> DEFINE q == pe.rx.fifo
               q1 == pe1.rx.fifo
               a == ReadCount(pe, i)
               b == WriteCount(pe, i)
    <2>2. PICK r1 : r1 = PortEdge(pe, i).rx
        OBVIOUS
    <2>3. r1.fifo = q1
        BY <1>1, <2>2
    <2>4. /\ Len(q) \in Nat /\ a <= Len(q)
           /\ Len(r1.fifo) = Len(q) - a + b
        BY <1>1, <2>1, <2>2, StoredIs
    <2>5. \A k \in 1 .. Len(q) - a : r1.fifo[k] = q[k + a]
        BY <1>1, <2>1, <2>2, StoredIs
    <2>6. b = 1 => i.word # <<>> /\ r1.fifo[Len(q) - a + 1] = i.word[1]
        BY <1>1, <2>1, <2>2, StoredIs
    <2>7. /\ Len(q) \in Nat /\ a <= Len(q)
          /\ Len(q1) = Len(q) - a + b
          /\ \A k \in 1 .. Len(q) - a : q1[k] = q[k + a]
          /\ b = 1 => i.word # <<>> /\ q1[Len(q) - a + 1] = i.word[1]
        BY <2>3, <2>4, <2>5, <2>6
    <2>8. PICK k \in 1 .. Len(q1) : q1[k].kind = kind
        BY <1>5 DEF Has
    <2>9. a \in {0, 1} /\ b \in {0, 1} /\ (b = 1 <=> Writing(pe, i))
        BY DEF ReadCount, WriteCount
    <2> HIDE DEF a, b, q, q1
    <2>10. k \in 1 .. Len(q) - a \/ (b = 1 /\ k = Len(q) - a + 1)
        BY <2>7, <2>9
    <2>11. CASE k \in 1 .. Len(q) - a
        <3>1. k + a \in 1 .. Len(q)
            BY <2>7, <2>9, <2>11
        <3> QED BY <2>7, <2>8, <2>11, <3>1 DEF Has, q
    <2>12. CASE b = 1 /\ k = Len(q) - a + 1
        BY <1>3, <2>7, <2>8, <2>9, <2>12
    <2> QED BY <2>10, <2>11, <2>12
<1> QED BY <1>2, <1>4, <1>5

\* Where No-Ops can be, over an edge of the receiver.
LEMMA RunOutKeptByReceiver ==
    ASSUME NEW pe, NEW w, NEW v, NEW we, NEW i, NEW pe1, NEW w1, NEW v1,
           Edge(pe, w, v, we, i, pe1, w1, v1),
           NEW p, NEW q, WireOK(pe.rx.remaining, w, p, q),
           NEW pf, RunOutPlace(pe, pf, w, p),
           NEW p1, p1 = Behind(p, w1, Taken(i))
    PROVE  RunOutPlace(pe1, pf, w1, p1)
<1> DEFINE t == Taken(i)
<1>1. Takes(w, w1, t) /\ (t = 1 => Len(w) >= 1) /\ Len(w) \in Nat
    BY EdgeWires
<1>2. \A k : Has(w1, k) => Has(w, k)
    BY <1>1, HasTakes
<1>3. /\ \A kind : Has(pe1.rx.fifo, kind) =>
            Has(pe.rx.fifo, kind) \/ (Writing(pe, i) /\ w[1].kind = kind)
      /\ Writing(pe, i) => t = 1 /\ pe.rx.remaining > 0
    BY EdgeStores
<1>4. /\ pf.ctl.phase = "normal" => ~Has(w, "noop") /\ ~Has(pe.rx.fifo, "noop")
      /\ NeverBehind(w, "noop", {"payload"})
      /\ Has(pe.rx.fifo, "noop") => ~Has(w, "payload")
      /\ NeverBehind(w, "request", Stream)
      /\ pf.ctl.phase = "wait" /\ ~Has(w, "request") => Flushed(pe, w, p)
    BY DEF RunOutPlace
<1>5. t = 1 => 1 \in 1 .. Len(w)
    BY <1>1
<1>6. \A kind : t = 1 /\ w[1].kind = kind => Has(w, kind)
    BY <1>5 DEF Has
<1>7. PICK q1 : q1 = Behind(q, w1, Taken(i))
    OBVIOUS
<1>8. Len(w1) \in Nat /\ \A k \in 0 .. Len(w1) : k + t \in 0 .. Len(w) /\ p1[k] = p[k + t]
    BY <1>1, <1>7, ReceiverParses DEF Takes
<1>9. p[0] = pe.rx.remaining
    BY <1>7, ReceiverParses
<1>10. pf.ctl.phase = "normal" => ~Has(w1, "noop") /\ ~Has(pe1.rx.fifo, "noop")
    BY <1>2, <1>3, <1>4, <1>6
<1>11. Has(pe1.rx.fifo, "noop") => ~Has(w1, "payload")
    <2>1. CASE Has(pe.rx.fifo, "noop")
        BY <1>2, <1>4, <2>1
    <2>2. CASE Writing(pe, i) /\ w[1].kind = "noop"
        <3>1. \A k \in 1 .. Len(w1) : w1[k].kind \notin {"payload"}
            BY <1>1, <1>3, <1>4, <2>2, NeverBehindTakes
        <3> QED BY <3>1 DEF Has
    <2> QED BY <1>3, <2>1, <2>2
<1>12. NeverBehind(w1, "noop", {"payload"}) /\ NeverBehind(w1, "request", Stream)
    BY <1>1, <1>4, NeverBehindTakes
<1>13. ASSUME pf.ctl.phase = "wait", ~Has(w1, "request") PROVE Flushed(pe1, w1, p1)
    <2>1. CASE ~Has(w, "request")
        <3>1. /\ \A k \in 0 .. Len(w) : p[k] = 0
              /\ \A k \in 1 .. Len(w) : w[k].kind \notin Stream
              /\ pe.rx.fifo = <<>>
              /\ pe.rx.counter = IF pe.rx.initialized THEN RxDepth ELSE 0
            BY <1>4, <1>13, <2>1 DEF Flushed
        <3>2. \A k \in 0 .. Len(w1) : p1[k] = 0
            BY <1>8, <3>1
        <3>3. \A k \in 1 .. Len(w1) : w1[k].kind \notin Stream
            <4> SUFFICES ASSUME NEW k \in 1 .. Len(w1) PROVE w1[k].kind \notin Stream
                OBVIOUS
            <4>1. k + t \in 1 .. Len(w) /\ w1[k] = w[k + t]
                BY <1>1 DEF Takes
            <4> QED BY <3>1, <4>1
        <3>4. pe.rx.remaining = 0
            <4>1. 0 \in 0 .. Len(w)
                BY <1>1
            <4> QED BY <1>9, <3>1, <4>1
        <3>5. ~Writing(pe, i) /\ ~Reading(pe, i)
            BY <1>3, <3>1, <3>4 DEF Reading, Reads
        <3>6. pe1.rx.fifo = <<>>
            <4>1. CASE InReset(pe, i) \/ ~pe.rx.initialized
                BY <4>1, EdgeStores
            <4>2. CASE ~InReset(pe, i) /\ pe.rx.initialized
                <5>1. PICK r1 : r1 = PortEdge(pe, i).rx
                    OBVIOUS
                <5>2. PortOK(pe) /\ WordOK(i) /\ pe1.rx = r1
                    BY <5>1 DEF Edge
                <5>3. r1.fifo = (IF Reading(pe, i) THEN Tail(pe.rx.fifo) ELSE pe.rx.fifo)
                                \o (IF Writing(pe, i) THEN i.word ELSE <<>>)
                    BY <4>2, <5>1, <5>2, RxFacts
                <5>4. pe1.rx.fifo = <<>> \o <<>>
                    BY <3>1, <3>5, <5>2, <5>3
                <5> QED BY <5>4, EmptySeq, ConcatEmptySeq
            <4> QED BY <4>1, <4>2
        <3>7. pe1.rx.counter = IF pe1.rx.initialized THEN RxDepth ELSE 0
            <4>1. /\ pe1.rx.counter = IF InReset(pe, i) THEN 0
                                      ELSE IF ~pe.rx.initialized THEN RxDepth
                                      ELSE IF Reading(pe, i) THEN (pe.rx.counter + 1) % Modulus
                                      ELSE pe.rx.counter
                  /\ pe1.rx.initialized <=> ~InReset(pe, i)
                BY EdgeStores
            <4> QED BY <3>1, <3>5, <4>1
        <3> QED BY <3>2, <3>3, <3>6, <3>7 DEF Flushed
    <2>2. CASE Has(w, "request")
        <3>1. t = 1 /\ w[1].kind = "request"
            <4>1. PICK k \in 1 .. Len(w) : w[k].kind = "request"
                BY <2>2 DEF Has
            <4>2. /\ t \in {0, 1} /\ Len(w1) \in Nat /\ Len(w) = Len(w1) + t
                  /\ \A j \in 1 .. Len(w1) : w1[j] = w[j + t]
                BY <1>1 DEF Takes
            <4>3. CASE k > t
                <5>1. k - t \in 1 .. Len(w1) /\ (k - t) + t = k
                    BY <4>2, <4>3
                <5>2. w1[k - t].kind = "request"
                    BY <4>1, <4>2, <5>1
                <5> QED BY <1>13, <5>1, <5>2 DEF Has
            <4>4. CASE ~(k > t)
                <5>1. t = 1 /\ k = 1
                    BY <4>2, <4>4
                <5> QED BY <4>1, <5>1
            <4> QED BY <4>3, <4>4
        <3>2. p[1 - 1] = 0
            BY <1>5, <3>1 DEF WireOK, KindsAgree
        <3>3. Request(pe, i)
            BY <1>9, <3>1, <3>2, EventIsHead
        <3>4. \A k \in 0 .. Len(w1) : p1[k] = 0
            BY <1>7, <3>3, DecodedEndsStream
        <3>5. \A k \in 1 .. Len(w1) : w1[k].kind \notin Stream
            BY <1>1, <1>4, <3>1, NeverBehindTakes
        <3>6. ~pe1.rx.initialized /\ pe1.rx.fifo = <<>> /\ pe1.rx.counter = 0
            BY <3>3, EdgeReset
        <3> QED BY <3>4, <3>5, <3>6 DEF Flushed
    <2> QED BY <2>1, <2>2
<1> QED BY <1>10, <1>11, <1>12, <1>13 DEF RunOutPlace

\* The sender's wait is over, or goes on: what it appends is no part of a
\* transport.
LEMMA FlushedStays ==
    ASSUME NEW pf, NEW v, NEW w, NEW wr, NEW i, NEW pf1, NEW v1, NEW w1,
           Edge(pf, v, w, wr, i, pf1, v1, w1), NEW pe,
           pf.ctl.phase = "wait", NEW p, Flushed(pe, w, p),
           NEW p1, p1 = ParseBeyond(p, w, w1, i.sends[1])
    PROVE  Flushed(pe, w1, p1)
<1> DEFINE d == i.sends[1]
           g == Given(i)
           l == Len(w)
<1>1. /\ g \in {0, 1} /\ l \in Nat /\ Len(w1) = l + g
      /\ \A j \in 1 .. l : w1[j] = w[j]
      /\ g = 1 => w1[l + 1] = d
    BY EdgeWires DEF Grows
<1>2. g = 1 => d.kind \notin Stream
    BY EdgeSends DEF Stream
<1>3. /\ \A k \in 0 .. l : p[k] = 0
      /\ \A k \in 1 .. l : w[k].kind \notin Stream
      /\ pe.rx.fifo = <<>>
      /\ pe.rx.counter = IF pe.rx.initialized THEN RxDepth ELSE 0
    BY DEF Flushed
<1>4. ASSUME NEW k \in 1 .. Len(w1) PROVE w1[k].kind \notin Stream
    <2>1. k \in 1 .. l \/ (g = 1 /\ k = l + 1)
        BY <1>1
    <2> QED BY <1>1, <1>2, <1>3, <2>1
<1>5. ASSUME NEW k \in 0 .. Len(w1) PROVE p1[k] = 0
    <2>1. p1[k] = IF k <= l THEN p[k] ELSE RemAfter(p[l], d)
        BY DEF ParseBeyond
    <2>2. CASE k <= l
        <3>1. k \in 0 .. l
            BY <1>1, <2>2
        <3> QED BY <1>3, <2>1, <2>2, <3>1
    <2>3. CASE ~(k <= l)
        <3>1. g = 1 /\ l \in 0 .. l
            BY <1>1, <2>3
        <3>2. p[l] = 0 /\ d.kind # "header"
            BY <1>2, <1>3, <3>1 DEF Stream
        <3> QED BY <2>1, <2>3, <3>2 DEF RemAfter
    <2> QED BY <2>2, <2>3
<1> QED BY <1>3, <1>4, <1>5 DEF Flushed

\* Where No-Ops can be, over an edge of the sender.
LEMMA RunOutKeptBySender ==
    ASSUME NEW pf, NEW v, NEW w, NEW wr, NEW i, NEW pf1, NEW v1, NEW w1,
           Edge(pf, v, w, wr, i, pf1, v1, w1), NEW pe,
           Exchange(pf, pe, v, w), NEW p, RunOutPlace(pe, pf, w, p),
           NEW p1, p1 = ParseBeyond(p, w, w1, i.sends[1])
    PROVE  RunOutPlace(pe, pf1, w1, p1)
<1> DEFINE d == i.sends[1]
           g == Given(i)
<1>1. Grows(w, w1, g, d)
    BY EdgeWires
<1>2. \A k : Has(w1, k) <=> Has(w, k) \/ (g = 1 /\ d.kind = k)
    BY <1>1, HasGrows
<1>3. g = 1 => /\ d.kind = "noop" => pf.ctl.phase = "noops"
               /\ d.kind \in {"payload", "header"} => pf.ctl.phase = "normal"
               /\ d.kind = "request" <=> SentKind(i, "request")
    BY EdgeSends
<1>4. /\ pf.ctl.phase = "normal" => ~Has(w, "noop") /\ ~Has(pe.rx.fifo, "noop")
      /\ NeverBehind(w, "noop", {"payload"})
      /\ Has(pe.rx.fifo, "noop") => ~Has(w, "payload")
      /\ NeverBehind(w, "request", Stream)
      /\ pf.ctl.phase = "wait" /\ ~Has(w, "request") => Flushed(pe, w, p)
    BY DEF RunOutPlace
<1>5. Has(w, "request") => pf.ctl.phase = "wait"
    BY DEF Exchange, UnderWay
<1>6. /\ pf1.ctl.phase = "normal" => \/ pf.ctl.phase = "normal"
                                     \/ pf.ctl.phase = "wait" /\ Response(pf, i)
      /\ pf1.ctl.phase = "wait" => \/ pf.ctl.phase = "wait"
                                   \/ SentKind(i, "request")
    BY EdgePhases
<1>7. SentKind(i, "request") => g = 1
    BY EdgeWires DEF SentKind
<1>8. pf1.ctl.phase = "normal" => ~Has(w1, "noop") /\ ~Has(pe.rx.fifo, "noop")
    <2> SUFFICES ASSUME pf1.ctl.phase = "normal"
                 PROVE  ~Has(w, "noop") /\ ~Has(pe.rx.fifo, "noop")
        BY <1>2, <1>3, <1>6
    <2>1. CASE pf.ctl.phase = "normal"
        BY <1>4, <2>1
    <2>2. CASE pf.ctl.phase = "wait" /\ Response(pf, i)
        <3>1. Has(v, "response")
            BY <2>2, EventIsHead
        <3>2. ~Has(w, "request")
            BY <3>1 DEF Exchange
        <3>3. Flushed(pe, w, p)
            BY <1>4, <2>2, <3>2
        <3>4. \A k \in 1 .. Len(w) : w[k].kind \notin Stream
            BY <3>3 DEF Flushed
        <3>5. ~Has(w, "noop")
            BY <3>4 DEF Has, Stream
        <3>6. ~Has(pe.rx.fifo, "noop")
            <4>1. pe.rx.fifo = <<>>
                BY <3>3 DEF Flushed
            <4>2. Len(pe.rx.fifo) = 0
                BY <4>1
            <4> QED BY <4>2 DEF Has
        <3> QED BY <3>5, <3>6
    <2> QED BY <1>6, <2>1, <2>2
<1>9. NeverBehind(w1, "noop", {"payload"})
    <2>1. g = 1 /\ d.kind \in {"payload"} => ~Has(w, "noop")
        BY <1>3, <1>4
    <2> QED BY <1>1, <1>4, <2>1, NeverBehindGrows
<1>10. Has(pe.rx.fifo, "noop") => ~Has(w1, "payload")
    BY <1>2, <1>3, <1>4
<1>11. NeverBehind(w1, "request", Stream)
    <2>1. g = 1 /\ d.kind \in Stream => ~Has(w, "request")
        BY <1>3, <1>5 DEF Stream
    <2> QED BY <1>1, <1>4, <2>1, NeverBehindGrows
<1>12. ASSUME pf1.ctl.phase = "wait", ~Has(w1, "request") PROVE Flushed(pe, w1, p1)
    <2>1. ~Has(w, "request") /\ ~SentKind(i, "request")
        BY <1>2, <1>3, <1>7, <1>12
    <2>2. pf.ctl.phase = "wait"
        BY <1>6, <1>12, <2>1
    <2>3. Flushed(pe, w, p)
        BY <1>4, <2>1, <2>2
    <2> QED BY <2>2, <2>3, FlushedStays
<1> QED BY <1>8, <1>9, <1>10, <1>11, <1>12 DEF RunOutPlace

\* Credits behind a Response, over an edge of the sender of the stream.
LEMMA FreshKeptBySender ==
    ASSUME NEW pe, NEW v, NEW v1, NEW t, Takes(v, v1, t), FreshCredits(pe, v)
    PROVE  FreshCredits(pe, v1)
<1>1. /\ t \in {0, 1} /\ Len(v) \in Nat /\ Len(v1) \in Nat /\ Len(v) = Len(v1) + t
      /\ \A k \in 1 .. Len(v1) : v1[k] = v[k + t]
    BY DEF Takes
<1> SUFFICES ASSUME NEW j \in 1 .. Len(v1), NEW k \in 1 .. Len(v1),
                    v1[j].kind = "response", j < k, v1[k].kind = "credit"
             PROVE  /\ v1[k].value = RxDepth
                    /\ pe.ctl.phase = "normal" => pe.rx.initialized
    BY DEF FreshCredits
<1>2. j + t \in 1 .. Len(v) /\ k + t \in 1 .. Len(v) /\ j + t < k + t
      /\ v1[j] = v[j + t] /\ v1[k] = v[k + t]
    BY <1>1
<1> QED BY <1>2 DEF FreshCredits

\* Credits behind a Response, over an edge of the receiver, which sends them.
LEMMA FreshKeptByReceiver ==
    ASSUME NEW pe, NEW w, NEW v, NEW we, NEW i, NEW pe1, NEW w1, NEW v1,
           Edge(pe, w, v, we, i, pe1, w1, v1), NEW pf,
           Exchange(pe, pf, w, v), Exchange(pf, pe, v, w),
           NEW p, RunOutPlace(pe, pf, w, p), FreshCredits(pe, v)
    PROVE  FreshCredits(pe1, v1)
<1> DEFINE d == i.sends[1]
           g == Given(i)
           l == Len(v)
<1> SUFFICES ASSUME NEW j \in 1 .. Len(v1), NEW k \in 1 .. Len(v1),
                    v1[j].kind = "response", j < k, v1[k].kind = "credit"
             PROVE  /\ v1[k].value = RxDepth
                    /\ pe1.ctl.phase = "normal" => pe1.rx.initialized
    BY DEF FreshCredits
<1>1. /\ g \in {0, 1} /\ l \in Nat /\ Len(v1) = l + g
      /\ \A n \in 1 .. l : v1[n] = v[n]
      /\ g = 1 => v1[l + 1] = d
    BY EdgeWires DEF Grows
<1>2. j \in 1 .. l /\ (k \in 1 .. l \/ (g = 1 /\ k = l + 1))
    BY <1>1
<1>3. v[j].kind = "response" /\ Has(v, "response")
    BY <1>1, <1>2 DEF Has
<1>4. pf.ctl.phase = "wait" /\ ~Has(w, "request") /\ ~(pe.ctl.responses > 0)
    BY <1>3 DEF Exchange, UnderWay
<1>5. Flushed(pe, w, p)
    BY <1>4 DEF RunOutPlace
<1>6. CASE k \in 1 .. l
    <2>1. v[k].kind = "credit" /\ Has(v, "credit") /\ v1[k] = v[k]
        BY <1>1, <1>6 DEF Has
    <2>2. v1[k].value = RxDepth /\ (pe.ctl.phase = "normal" => pe.rx.initialized)
        BY <1>2, <1>3, <1>6, <2>1 DEF FreshCredits
    <2>3. ~Response(pe, i)
        <3> SUFFICES ASSUME Response(pe, i) PROVE FALSE
            OBVIOUS
        <3>1. Has(w, "response")
            BY EventIsHead
        <3> QED BY <2>1, <3>1 DEF Exchange, Cleared
    <2>4. pe1.ctl.phase = "normal" => pe.ctl.phase = "normal" /\ ~Start(pe, i)
        BY <2>3, EdgePhases
    <2>5. ~Request(pe, i)
        BY <1>4, EventIsHead
    <2>6. pe1.ctl.phase = "normal" => ~InReset(pe, i)
        BY <1>4, <2>4, <2>5, EdgeReset
    <2> QED BY <2>2, <2>6, EdgeReset
<1>7. CASE g = 1 /\ k = l + 1
    <2>1. d.kind = "credit" /\ v1[k] = d
        BY <1>1, <1>7
    <2>2. d.value = pe.rx.counter /\ pe.rx.initialized /\ ~InReset(pe, i)
        BY <1>7, <2>1, EdgeSends
    <2>3. pe.rx.counter = RxDepth
        BY <1>5, <2>2 DEF Flushed
    <2>4. pe1.rx.initialized
        BY <2>2, EdgeReset
    <2> QED BY <2>1, <2>2, <2>3, <2>4
<1> QED BY <1>2, <1>6, <1>7
-----------------------------------------------------------------------------
(* The places of the receiver's FIFO. *)

\* A DWORD whose places are reserved is never rejected.
LEMMA NoSurprise ==
    ASSUME NEW r, RxOK(r), NEW w, NEW p, NEW q, WireOK(r.remaining, w, p, q),
           Len(w) \in Nat, Len(r.fifo) + q[0] + p[Len(w)] <= RxDepth,
           NEW word, word = <<>> \/ (Len(w) >= 1 /\ word[1] = w[1])
    PROVE  /\ ~(Inside(r, word) /\ Len(r.fifo) >= RxDepth)
           /\ ~(AtBoundary(r, word, "header") /\ Len(r.fifo) + word[1].value > RxDepth)
<1> DEFINE l == Len(w)
           f == Len(r.fifo)
<1>1. f \in Nat /\ RxDepth \in Nat /\ MaxPayload \in Nat
    BY LenProperties, RxPathAssumption, StreamAssumption DEF RxOK
<1>2. /\ p \in [0 .. l -> 0 .. MaxPayload] /\ p[0] = r.remaining
      /\ \A k \in 1 .. l : p[k] = RemAfter(p[k - 1], w[k])
      /\ q \in [0 .. l -> Nat]
      /\ \A k \in 1 .. l : q[k - 1] = q[k] + (IF p[k - 1] > 0 THEN 1 ELSE 0)
      /\ \A k \in 0 .. l : p[k] <= q[k] + p[l]
      /\ \A k \in 1 .. l : w[k].kind = "header" => w[k].value \in 1 .. MaxPayload
    BY DEF WireOK, Parses, Counts, KindsAgree
<1> HIDE DEF l, f
<1>3. p[l] \in Nat /\ q[0] \in Nat
    <2>1. l \in 0 .. l /\ 0 \in 0 .. l
        BY DEF l
    <2> QED BY <1>1, <1>2, <2>1
<1>4. ASSUME word # <<>> PROVE 1 \in 1 .. l /\ 1 - 1 = 0 /\ 1 \in 0 .. l /\ word[1] = w[1]
    BY <1>4 DEF l
<1>5. ASSUME word # <<>>
      PROVE  /\ q[1] \in Nat /\ p[1] \in Nat /\ p[1] <= q[1] + p[l]
             /\ q[0] = q[1] + (IF p[0] > 0 THEN 1 ELSE 0)
             /\ p[1] = RemAfter(p[0], w[1])
    <2>1. 1 \in 1 .. l /\ 1 - 1 = 0 /\ 1 \in 0 .. l
        BY <1>4, <1>5
    <2>2. q[1] \in Nat /\ p[1] \in Nat /\ p[1] <= q[1] + p[l]
        BY <1>1, <1>2, <2>1
    <2>3. q[1 - 1] = q[1] + (IF p[1 - 1] > 0 THEN 1 ELSE 0) /\ p[1] = RemAfter(p[1 - 1], w[1])
        BY <1>2, <2>1
    <2> QED BY <2>1, <2>2, <2>3
<1>6. f + q[0] + p[l] <= RxDepth
    BY DEF f, l
<1>7. ~(Inside(r, word) /\ f >= RxDepth)
    <2> SUFFICES ASSUME Inside(r, word) PROVE ~(f >= RxDepth)
        OBVIOUS
    <2>1. word # <<>> /\ p[0] > 0
        BY <1>2 DEF Inside
    <2> QED BY <1>1, <1>3, <1>5, <1>6, <2>1
<1>8. ~(AtBoundary(r, word, "header") /\ f + word[1].value > RxDepth)
    <2> SUFFICES ASSUME AtBoundary(r, word, "header") PROVE ~(f + word[1].value > RxDepth)
        OBVIOUS
    <2>1. word # <<>> /\ p[0] = 0 /\ word[1].kind = "header"
        BY <1>2 DEF AtBoundary
    <2>2. p[1] = word[1].value /\ word[1].value \in Nat
        <3>1. w[1].value \in 1 .. MaxPayload /\ w[1].kind = "header" /\ word[1] = w[1]
            BY <1>2, <1>4, <2>1
        <3> QED BY <1>1, <1>5, <2>1, <3>1 DEF RemAfter
    <2>3. q[0] = q[1]
        BY <1>5, <2>1
    <2> DEFINE x == word[1].value
    <2>4. x \in Nat /\ x <= q[0] + p[l]
        BY <1>5, <2>1, <2>2, <2>3
    <2> HIDE DEF x
    <2>5. f + x <= RxDepth
        BY <1>1, <1>3, <1>6, <2>4
    <2> QED BY <1>1, <2>4, <2>5 DEF x
<1> QED BY <1>7, <1>8 DEF f

\* An edge of the receiver rejects nothing (RxError of uart_rx_path.py).
LEMMA NotRejected ==
    ASSUME NEW pe, NEW w, NEW v, NEW we, NEW i, NEW pe1, NEW w1, NEW v1,
           Edge(pe, w, v, we, i, pe1, w1, v1),
           NEW p, NEW q, WireOK(pe.rx.remaining, w, p, q), Reserved(pe, w, p, q)
    PROVE  ~Rejects(pe, i)
<1> SUFFICES ASSUME pe.rx.initialized PROVE ~Rejects(pe, i)
    BY DEF Rejects
<1>1. pe.ctl.phase = "normal" /\ RxOK(pe.rx)
    BY EdgeReset
<1>2. Len(pe.rx.fifo) + q[0] + p[Len(w)] <= RxDepth
    BY <1>1 DEF Reserved
<1>3. Len(w) \in Nat /\ (i.word = <<>> \/ (Len(w) >= 1 /\ i.word[1] = w[1]))
    BY EdgeWires
<1>4. /\ ~(Inside(pe.rx, i.word) /\ Len(pe.rx.fifo) >= RxDepth)
      /\ ~(AtBoundary(pe.rx, i.word, "header") /\ Len(pe.rx.fifo) + i.word[1].value > RxDepth)
    BY <1>1, <1>2, <1>3, NoSurprise
<1> QED BY <1>4 DEF Rejects, RxError

\* An edge of a receiver in operation.
LEMMA EdgeStored ==
    ASSUME NEW pe, NEW w, NEW v, NEW we, NEW i, NEW pe1, NEW w1, NEW v1,
           Edge(pe, w, v, we, i, pe1, w1, v1), ~Rejects(pe, i),
           pe.rx.initialized, ~InReset(pe, i)
    PROVE  LET q == pe.rx.fifo
               q1 == pe1.rx.fifo
               a == ReadCount(pe, i)
               b == WriteCount(pe, i) IN
           /\ a \in {0, 1} /\ b \in {0, 1} /\ Len(q) \in Nat /\ Len(q) <= RxDepth
           /\ a <= Len(q) /\ Len(q1) = Len(q) - a + b
           /\ \A k \in 1 .. Len(q) - a : q1[k] = q[k + a]
           /\ b = 1 <=> Taken(i) = 1 /\ pe.rx.remaining > 0 /\ ~pe.rx.discard
           /\ b = 1 => q1[Len(q) - a + 1] = w[1]
           /\ a = 1 => Head(q) = q[1]
           /\ a = 1 <=> Reading(pe, i)
           /\ pe1.rx.counter = IF a = 1 THEN (pe.rx.counter + 1) % Modulus
                               ELSE pe.rx.counter
           /\ pe1.rx.discard => pe.rx.discard
<1> DEFINE q == pe.rx.fifo
           q1 == pe1.rx.fifo
           a == ReadCount(pe, i)
           b == WriteCount(pe, i)
<1>1. PICK r1 : r1 = PortEdge(pe, i).rx
    OBVIOUS
<1>2. PortOK(pe) /\ WordOK(i) /\ pe1.rx = r1 /\ r1.fifo = q1 /\ RxOK(pe.rx)
    BY <1>1 DEF Edge, PortOK
<1>3. /\ Taken(i) = 1 <=> i.word # <<>>
      /\ Taken(i) = 1 => i.word[1] = w[1]
    BY EdgeWires
<1>4. Len(q) \in Nat /\ a <= Len(q) /\ Len(r1.fifo) = Len(q) - a + b
    BY <1>1, <1>2, StoredIs
<1>5. \A k \in 1 .. Len(q) - a : r1.fifo[k] = q[k + a]
    BY <1>1, <1>2, StoredIs
<1>6. b = 1 => i.word # <<>> /\ r1.fifo[Len(q) - a + 1] = i.word[1]
    BY <1>1, <1>2, StoredIs
<1>7. a = 1 => Head(q) = q[1]
    BY <1>1, <1>2, StoredIs
<1>8. /\ a \in {0, 1} /\ b \in {0, 1}
      /\ a = 1 <=> Reading(pe, i)
      /\ b = 1 <=> Writing(pe, i)
    BY DEF ReadCount, WriteCount
<1>9. Writing(pe, i) <=> Taken(i) = 1 /\ pe.rx.remaining > 0 /\ ~pe.rx.discard
    <2>1. ~RxError(pe.rx, i.word, InReset(pe, i))
        BY DEF Rejects
    <2>2. Active(pe.rx, InReset(pe, i))
        BY DEF Active
    <2>3. Dropping(pe.rx, InReset(pe, i)) <=> pe.rx.remaining > 0 /\ pe.rx.discard
        BY <2>2 DEF Dropping
    <2>4. Inside(pe.rx, i.word) <=> Taken(i) = 1 /\ pe.rx.remaining > 0
        BY <1>3 DEF Inside
    <2>5. Len(q) \in Nat /\ RxDepth \in Nat /\ pe.rx.fifo = q
        BY <1>4, RxPathAssumption, StreamAssumption
    <2>6. Inside(pe.rx, i.word) /\ ~Dropping(pe.rx, InReset(pe, i)) => Len(q) < RxDepth
        BY <2>1, <2>5 DEF RxError
    <2>7. Writing(pe, i) <=> /\ Inside(pe.rx, i.word) /\ ~Dropping(pe.rx, InReset(pe, i))
                             /\ Len(q) < RxDepth
        BY <2>5 DEF Writing, Writes
    <2> QED BY <2>3, <2>4, <2>6, <2>7
<1>10. pe1.rx.counter = IF a = 1 THEN (pe.rx.counter + 1) % Modulus ELSE pe.rx.counter
    BY <1>8, EdgeStores
<1>11. pe1.rx.discard => pe.rx.discard
    <2>1. ~RxError(pe.rx, i.word, InReset(pe, i)) /\ Active(pe.rx, InReset(pe, i))
        BY DEF Rejects, Active
    <2>2. pe1.rx.discard <=> Discards(pe, i)
        BY EdgeStores
    <2> QED BY <2>1, <2>2 DEF Discards, DiscardAfter, Dropping
<1>12. Len(q) <= RxDepth
    BY <1>2 DEF RxOK
<1> QED BY <1>2, <1>3, <1>4, <1>5, <1>6, <1>7, <1>8, <1>9, <1>10, <1>11, <1>12

\* The places reserved, over an edge of the receiver.
LEMMA ReservedKeptByReceiver ==
    ASSUME NEW pe, NEW w, NEW v, NEW we, NEW i, NEW pe1, NEW w1, NEW v1,
           Edge(pe, w, v, we, i, pe1, w1, v1),
           NEW p, NEW q, WireOK(pe.rx.remaining, w, p, q), Reserved(pe, w, p, q),
           NEW p1, p1 = Behind(p, w1, Taken(i)), NEW q1, q1 = Behind(q, w1, Taken(i))
    PROVE  Reserved(pe1, w1, p1, q1)
<1>1. Request(pe, i) \/ Response(pe, i) => p[Len(w)] = 0
    BY DecodedEndsStream
<1>2. ASSUME Request(pe, i) \/ Response(pe, i) PROVE q1[0] = 0
    <2>1. \A k \in 0 .. Len(w1) : p1[k] = 0
        BY <1>2, DecodedEndsStream
    <2>2. WireOK(pe1.rx.remaining, w1, p1, q1)
        BY ReceiverParses
    <2>3. Len(w1) \in Nat
        BY EdgeWires DEF Takes
    <2> QED BY <2>1, <2>2, <2>3, NothingExpected
<1> DEFINE m == q1[0]
           last == p[Len(w)]
           f1 == Len(pe1.rx.fifo)
<1>3. /\ p1[Len(w1)] = last /\ q[0] \in Nat /\ m \in Nat /\ last \in 0 .. MaxPayload
      /\ q[0] = m + (IF Taken(i) = 1 /\ pe.rx.remaining > 0 THEN 1 ELSE 0)
    BY ReceiverParses
<1>4. last \in Nat /\ RxDepth \in Nat
    BY <1>3, StreamAssumption, RxPathAssumption
<1> SUFFICES ASSUME pe1.ctl.phase = "normal" PROVE f1 + m + last <= RxDepth
    BY <1>3 DEF Reserved
<1>5. CASE pe.ctl.phase = "wait" /\ Response(pe, i)
    <2>1. q1[0] = 0 /\ p[Len(w)] = 0
        BY <1>5, <1>1, <1>2
    <2>2. pe1.rx.fifo = <<>>
        BY <1>5, EdgeReset
    <2>3. f1 = 0
        BY <2>2
    <2>4. m = 0 /\ last = 0
        BY <2>1
    <2> HIDE DEF m, last, f1
    <2> QED BY <1>4, <2>3, <2>4
<1>6. CASE pe.ctl.phase = "normal"
    <2> DEFINE f == Len(pe.rx.fifo)
    <2>1. f + q[0] + last <= RxDepth
        BY <1>6 DEF Reserved
    <2>2. f \in Nat
        BY EdgeReset, LenProperties DEF RxOK
    <2>3. CASE InReset(pe, i) \/ ~pe.rx.initialized
        <3>1. pe1.rx.fifo = <<>>
            BY <2>3, EdgeStores
        <3>2. f1 = 0 /\ q[0] >= m
            BY <1>3, <3>1
        <3> HIDE DEF m, last, f1, f
        <3> QED BY <1>3, <1>4, <2>1, <2>2, <3>2
    <2>4. CASE ~InReset(pe, i) /\ pe.rx.initialized
        <3>1. ~Rejects(pe, i)
            BY NotRejected
        <3> DEFINE a == ReadCount(pe, i)
                   b == WriteCount(pe, i)
        <3>2. a \in {0, 1} /\ b \in {0, 1} /\ f1 = f - a + b
            BY <2>4, <3>1, EdgeStored
        <3>3. b = 1 => Taken(i) = 1 /\ pe.rx.remaining > 0
            BY <2>4, <3>1, EdgeStored
        <3>4. m + b <= q[0]
            BY <1>3, <3>2, <3>3
        <3> HIDE DEF m, last, f1, f, a, b
        <3> QED BY <1>3, <1>4, <2>1, <2>2, <3>2, <3>4
    <2> QED BY <2>3, <2>4
<1> QED BY <1>5, <1>6, EdgePhases
-----------------------------------------------------------------------------
(* The credits. *)

\* What a count leaves to send is a count.
LEMMA LeftIsCount ==
    ASSUME NEW s, SrcOK(s), NEW c \in Int
    PROVE  /\ Total(s) \in Int /\ Modulus \in Nat \ {0}
           /\ Left(s, c) \in 0 .. (Modulus - 1) /\ Left(s, c) \in Nat
<1>1. Total(s) \in Int
    <2>1. s.tx_counter \in Nat /\ s.reserved \in 0 .. MaxPayload /\ s.payload \in Seq(Nat)
        BY DEF SrcOK
    <2>2. Len(s.payload) \in Nat /\ MaxPayload \in Nat
        BY <2>1, LenProperties, StreamAssumption
    <2> QED BY <2>1, <2>2 DEF Total
<1>2. Modulus \in Nat \ {0}
    BY StreamAssumption
<1>3. c - Total(s) \in Int
    BY <1>1
<1>4. Left(s, c) \in 0 .. (Modulus - 1)
    BY <1>2, <1>3, ModSplit DEF Left
<1>5. Left(s, c) \in Nat
    BY <1>2, <1>4
<1> QED BY <1>1, <1>2, <1>4, <1>5

\* A word read gives a credit; a payload word sent uses one up.
LEMMA LeftRead ==
    ASSUME NEW s, SrcOK(s), NEW c \in Nat, Left(s, c) + 1 <= Modulus - 1
    PROVE  Left(s, (c + 1) % Modulus) = Left(s, c) + 1
<1> DEFINE T == Total(s)
<1>1. T \in Int /\ Modulus \in Nat \ {0} /\ Left(s, c) \in Nat
    BY LeftIsCount
<1>2. c + 1 \in Int
    OBVIOUS
<1>3. Left(s, (c + 1) % Modulus) = ((c + 1) - T) % Modulus
    BY <1>1, <1>2, ModShift DEF Left
<1>4. (c + 1) - T = (c - T) + 1 /\ c - T \in Int /\ 1 \in Int
    BY <1>1
<1>5. ((c - T) % Modulus) + 1 \in 0 .. (Modulus - 1)
    BY <1>1 DEF Left
<1>6. ((c - T) + 1) % Modulus = ((c - T) % Modulus) + 1
    <2> DEFINE a == c - T
    <2>1. a \in Int /\ 1 \in Int /\ (a % Modulus) + 1 \in 0 .. (Modulus - 1)
        BY <1>4, <1>5
    <2> HIDE DEF a
    <2>2. (a + 1) % Modulus = (a % Modulus) + 1
        BY <1>1, <2>1, ModMove
    <2> QED BY <2>2 DEF a
<1> QED BY <1>3, <1>4, <1>6 DEF Left

\* A payload word sent uses one up.
LEMMA LeftSend ==
    ASSUME NEW s, SrcOK(s), NEW c \in Int, Left(s, c) >= 1
    PROVE  (c - Total(s) - 1) % Modulus = Left(s, c) - 1
<1> DEFINE T == Total(s)
<1>1. T \in Int /\ Modulus \in Nat \ {0} /\ Left(s, c) \in 0 .. (Modulus - 1)
    BY LeftIsCount
<1>2. c - T \in Int /\ -1 \in Int /\ c - T - 1 = (c - T) + (-1)
    BY <1>1
<1>3. ((c - T) % Modulus) + (-1) \in 0 .. (Modulus - 1)
    BY <1>1 DEF Left
<1>4. ((c - T) + (-1)) % Modulus = ((c - T) % Modulus) + (-1)
    BY <1>1, <1>2, <1>3, ModMove
<1>5. Left(s, c) + (-1) = Left(s, c) - 1
    BY <1>1
<1> QED BY <1>2, <1>4, <1>5 DEF Left

\* Nothing of a count is used by a source just reset.
LEMMA LeftReset ==
    ASSUME NEW c \in 0 .. (Modulus - 1)
    PROVE  Left(SrcReset, c) = c
<1>1. Total(SrcReset) = 0 /\ Modulus \in Nat \ {0} /\ c \in Int
    BY ResetOwesNothing, StreamAssumption
<1>2. c - 0 = Modulus * 0 + c
    BY <1>1
<1>3. (Modulus * 0 + c) % Modulus = c
    BY <1>1, ModUnique
<1> QED BY <1>1, <1>2, <1>3 DEF Left

\* A credit that is sent carries the count of that edge, and the count grows.
LEMMA OrderedGrows ==
    ASSUME NEW pe, NEW pe1, NEW pf, NEW v, NEW v1, NEW g, NEW d, Grows(v, v1, g, d),
           SrcOK(pf.src), Ordered(pe, pf, v),
           v \in Seq(Dwords), pe.rx.counter \in Nat, pe1.rx.counter \in Nat,
           Left(pf.src, pe.rx.counter) <= Left(pf.src, pe1.rx.counter),
           g = 1 /\ d.kind = "credit" => d.value = pe.rx.counter
    PROVE  Ordered(pe1, pf, v1)
<1> DEFINE s == pf.src
           L(c) == Left(s, c)
           l == Len(v)
<1>1. /\ g \in {0, 1} /\ l \in Nat /\ Len(v1) = l + g
      /\ \A k \in 1 .. l : v1[k] = v[k]
      /\ g = 1 => v1[l + 1] = d
    BY DEF Grows
<1>2. /\ L(s.latest_fc) <= L(pe.rx.counter)
      /\ ToSend(s) <= L(s.latest_fc)
      /\ \A k \in 1 .. l : v[k].kind = "credit" =>
            /\ L(v[k].value) <= L(pe.rx.counter)
            /\ L(s.latest_fc) <= L(v[k].value)
            /\ \A j \in 1 .. k : v[j].kind = "credit" => L(v[j].value) <= L(v[k].value)
    BY DEF Ordered
<1>3. \A c \in Int : L(c) \in Nat
    BY LeftIsCount
<1>4. s.latest_fc \in Nat /\ \A k \in 1 .. l : v[k].value \in Nat
    <2>1. s.latest_fc \in Nat
        BY DEF SrcOK
    <2>2. \A k \in 1 .. l : v[k] \in Dwords
        BY ElementOfSeq
    <2> QED BY <2>1, <2>2 DEF Dwords
<1>5. L(pe.rx.counter) \in Nat /\ L(pe1.rx.counter) \in Nat /\ L(s.latest_fc) \in Nat
    <2>1. \A c \in Nat : L(c) \in Nat
        BY <1>3
    <2> HIDE DEF L
    <2> QED BY <1>4, <2>1
<1> HIDE DEF L
<1>6. L(pe.rx.counter) <= L(pe1.rx.counter)
    BY DEF L
<1>7. L(s.latest_fc) <= L(pe1.rx.counter)
    BY <1>2, <1>5, <1>6
<1>8. ASSUME NEW k \in 1 .. Len(v1), v1[k].kind = "credit"
      PROVE  /\ L(v1[k].value) <= L(pe1.rx.counter)
             /\ L(s.latest_fc) <= L(v1[k].value)
             /\ \A j \in 1 .. k : v1[j].kind = "credit" => L(v1[j].value) <= L(v1[k].value)
    <2>1. CASE k \in 1 .. l
        <3>1. v1[k] = v[k] /\ L(v[k].value) \in Nat
            BY <1>1, <1>3, <1>4, <2>1
        <3>2. /\ L(v[k].value) <= L(pe.rx.counter)
              /\ L(s.latest_fc) <= L(v[k].value)
              /\ \A j \in 1 .. k : v[j].kind = "credit" => L(v[j].value) <= L(v[k].value)
            BY <1>2, <1>8, <2>1, <3>1
        <3>3. \A j \in 1 .. k : v1[j] = v[j]
            BY <1>1, <2>1
        <3>4. L(v[k].value) <= L(pe1.rx.counter)
            BY <1>5, <1>6, <3>1, <3>2
        <3> QED BY <3>1, <3>2, <3>3, <3>4
    <2>2. CASE g = 1 /\ k = l + 1
        <3>1. v1[k].value = pe.rx.counter
            BY <1>1, <1>8, <2>2
        <3>2. ASSUME NEW j \in 1 .. k, v1[j].kind = "credit"
              PROVE  L(v1[j].value) <= L(pe.rx.counter)
            <4>1. CASE j \in 1 .. l
                BY <1>1, <1>2, <3>2, <4>1
            <4>2. CASE j = k
                BY <1>5, <3>1, <4>2
            <4>3. j \in 1 .. l \/ j = k
                BY <1>1, <2>2
            <4> QED BY <4>1, <4>2, <4>3
        <3> QED BY <1>2, <1>6, <3>1, <3>2
    <2>3. k \in 1 .. l \/ (g = 1 /\ k = l + 1)
        BY <1>1
    <2> QED BY <2>1, <2>2, <2>3
<1> QED BY <1>2, <1>7, <1>8 DEF Ordered, L

\* A source just reset is behind every count.
LEMMA ClearedIsOrdered ==
    ASSUME NEW pe, NEW pf, NEW v, Cleared(pf, v), pe.rx.counter = RxDepth
    PROVE  Ordered(pe, pf, v)
<1>1. /\ pf.src = SrcReset /\ SrcReset.latest_fc = 0 /\ ToSend(SrcReset) = 0
      /\ ~Has(v, "credit")
    BY ResetOwesNothing DEF Cleared
<1>2. RxDepth \in 0 .. Modulus - 1 /\ 0 \in 0 .. Modulus - 1
    BY RxPathAssumption, StreamAssumption
<1>3. Left(SrcReset, 0) = 0 /\ Left(SrcReset, RxDepth) = RxDepth
    BY <1>2, LeftReset
<1>4. \A k \in 1 .. Len(v) : v[k].kind # "credit"
    BY <1>1 DEF Has
<1>5. 0 <= RxDepth /\ 0 <= 0
    BY RxPathAssumption, StreamAssumption
<1> QED BY <1>1, <1>3, <1>4, <1>5 DEF Ordered

\* The sums of credits, over an edge of the receiver.
LEMMA ConservedKeptByReceiver ==
    ASSUME NEW pe, NEW w, NEW v, NEW we, NEW i, NEW pe1, NEW w1, NEW v1,
           Edge(pe, w, v, we, i, pe1, w1, v1),
           NEW p, NEW q, WireOK(pe.rx.remaining, w, p, q), Reserved(pe, w, p, q),
           NEW p1, p1 = Behind(p, w1, Taken(i)), NEW q1, q1 = Behind(q, w1, Taken(i)),
           NEW pf, SrcOK(pf.src), Exchange(pe, pf, w, v), Exchange(pf, pe, v, w),
           Conserved(pe, pf, w, v, q)
    PROVE  Conserved(pe1, pf, w1, v1, q1)
<1> DEFINE t == Taken(i)
           d == i.sends[1]
           g == Given(i)
<1>1. /\ p[0] = pe.rx.remaining /\ p1[0] = pe1.rx.remaining
      /\ q[0] = q1[0] + (IF Taken(i) = 1 /\ pe.rx.remaining > 0 THEN 1 ELSE 0)
      /\ q[0] \in Nat /\ q1[0] \in Nat
    BY ReceiverParses
<1>2. /\ Takes(w, w1, t) /\ Grows(v, v1, g, d) /\ (t = 1 => Len(w) >= 1) /\ Len(w) \in Nat
      /\ (t = 1 <=> i.word # <<>>) /\ (t = 1 => i.word[1] = w[1])
    BY EdgeWires
<1>3. /\ pe1.rx.discard <=> Discards(pe, i)
      /\ pe1.rx.initialized <=> ~InReset(pe, i)
      /\ pe1.rx.counter = IF InReset(pe, i) THEN 0
                          ELSE IF ~pe.rx.initialized THEN RxDepth
                          ELSE IF Reading(pe, i) THEN (pe.rx.counter + 1) % Modulus
                          ELSE pe.rx.counter
      /\ InReset(pe, i) \/ ~pe.rx.initialized => pe1.rx.fifo = <<>>
    BY EdgeStores
<1>4. ASSUME Response(pe, i)
      PROVE  q1[0] = 0 /\ pe1.rx.remaining = 0 /\ pe.rx.remaining = 0 /\ ~Has(w1, "header")
    <2>1. \A k \in 0 .. Len(w1) : p1[k] = 0
        BY <1>4, DecodedEndsStream
    <2>2. WireOK(pe1.rx.remaining, w1, p1, q1)
        BY ReceiverParses
    <2>3. Len(w1) \in Nat
        BY <1>2 DEF Takes
    <2>4. q1[0] = 0 /\ pe1.rx.remaining = 0 /\ ~Has(w1, "header")
        BY <2>1, <2>2, <2>3, NothingExpected
    <2>5. pe.rx.remaining = 0
        BY <1>4 DEF Response, AtBoundary
    <2> QED BY <2>4, <2>5
<1>5. \A kind : Has(w1, kind) => Has(w, kind)
    BY <1>2, HasTakes
<1>6. \A kind : t = 1 /\ w[1].kind = kind => Has(w, kind)
    <2>1. t = 1 => 1 \in 1 .. Len(w)
        BY <1>2
    <2> QED BY <2>1 DEF Has
<1>7. pe.rx.remaining = 0 /\ ~(t = 1 /\ w[1].kind = "header") => ~Discards(pe, i)
    BY <1>2 DEF Discards, DiscardAfter, AtBoundary
<1> SUFFICES ASSUME pe1.ctl.phase = "normal", pf.ctl.phase = "normal"
    PROVE /\ ~pe1.rx.discard
          /\ ~pe1.rx.initialized =>
                q1[0] = 0 /\ pe1.rx.remaining = 0 /\ ~Has(w1, "header") /\ Cleared(pf, v1)
          /\ pe1.rx.initialized =>
                /\ Left(pf.src, pe1.rx.counter) = RxDepth - Len(pe1.rx.fifo) - q1[0]
                /\ Ordered(pe1, pf, v1)
    BY DEF Conserved
<1>8. CASE pe.ctl.phase = "wait" /\ Response(pe, i)
    <2>1. Has(w, "response") /\ t = 1 /\ w[1].kind = "response"
        BY <1>8, EventIsHead
    <2>2. Cleared(pf, v)
        BY <2>1 DEF Exchange
    <2>3. Cleared(pf, v1)
        BY <1>8, <2>2, ClearedBack
    <2>4. InReset(pe, i)
        BY <1>8, EdgeReset
    <2>5. ~pe1.rx.discard
        BY <1>3, <1>4, <1>7, <1>8, <2>1
    <2> QED BY <1>3, <1>4, <1>8, <2>3, <2>4, <2>5
<1>9. CASE pe.ctl.phase = "normal" /\ ~Start(pe, i)
    <2>1. ~Has(w, "request") /\ ~(pe.ctl.responses > 0)
        BY DEF Exchange, UnderWay
    <2>2. ~InReset(pe, i)
        <3>1. ~Request(pe, i)
            BY <2>1, EventIsHead
        <3> QED BY <1>9, <2>1, <3>1, EdgeReset
    <2>3. /\ ~pe.rx.discard
          /\ ~pe.rx.initialized =>
                q[0] = 0 /\ pe.rx.remaining = 0 /\ ~Has(w, "header") /\ Cleared(pf, v)
          /\ pe.rx.initialized =>
                /\ Left(pf.src, pe.rx.counter) = RxDepth - Len(pe.rx.fifo) - q[0]
                /\ Ordered(pe, pf, v)
        BY <1>9 DEF Conserved
    <2>4. pe1.rx.initialized
        BY <1>3, <2>2
    <2>5. CASE ~pe.rx.initialized
        <3>1. pe1.rx.fifo = <<>> /\ pe1.rx.counter = RxDepth
            BY <1>3, <2>2, <2>5
        <3>2. q1[0] = 0
            BY <1>1, <2>3, <2>5
        <3>3. ~pe1.rx.discard
            BY <1>3, <1>6, <1>7, <2>3, <2>5
        <3>4. Cleared(pf, v1)
            <4>1. ~(g = 1 /\ d.kind = "credit")
                BY <2>5, EdgeSends
            <4>2. ~Has(v1, "credit")
                BY <1>2, <2>3, <2>5, <4>1, HasGrows DEF Cleared
            <4> QED BY <2>3, <2>5, <4>2 DEF Cleared
        <3>5. Left(pf.src, RxDepth) = RxDepth
            <4>1. RxDepth \in 0 .. Modulus - 1
                BY RxPathAssumption, StreamAssumption
            <4> QED BY <2>3, <2>5, <4>1, LeftReset DEF Cleared
        <3>6. Len(pe1.rx.fifo) = 0 /\ RxDepth - 0 - 0 = RxDepth
            BY <3>1, RxPathAssumption, StreamAssumption
        <3> QED BY <2>4, <3>1, <3>2, <3>3, <3>4, <3>5, <3>6, ClearedIsOrdered
    <2>6. CASE pe.rx.initialized
        <3> DEFINE f == Len(pe.rx.fifo)
                   f1 == Len(pe1.rx.fifo)
                   a == ReadCount(pe, i)
                   b == WriteCount(pe, i)
                   m == q[0]
                   m1 == q1[0]
                   L == Left(pf.src, pe.rx.counter)
                   L1 == Left(pf.src, pe1.rx.counter)
        <3>1. ~Rejects(pe, i)
            BY NotRejected
        <3>2. /\ a \in {0, 1} /\ b \in {0, 1} /\ f \in Nat /\ f <= RxDepth
              /\ a <= f /\ f1 = f - a + b
              /\ b = 1 <=> t = 1 /\ pe.rx.remaining > 0 /\ ~pe.rx.discard
            BY <2>2, <2>6, <3>1, EdgeStored
        <3>3. /\ pe1.rx.counter = IF a = 1 THEN (pe.rx.counter + 1) % Modulus
                                  ELSE pe.rx.counter
              /\ pe1.rx.discard => pe.rx.discard
            BY <2>2, <2>6, <3>1, EdgeStored
        <3>4. m \in Nat /\ m1 \in Nat /\ m = m1 + b
            BY <1>1, <2>3, <3>2
        <3>5. L = RxDepth - f - m
            BY <2>3, <2>6
        <3>6. RxDepth \in Nat /\ RxDepth <= Modulus - 1 /\ Modulus \in Nat
            BY RxPathAssumption, StreamAssumption
        <3>7. pe.rx.counter \in Nat /\ RxOK(pe.rx)
            BY EdgeReset DEF RxOK
        <3>8. L1 = L + a
            <4>1. CASE a = 0
                <5>1. pe1.rx.counter = pe.rx.counter
                    BY <3>3, <4>1
                <5>2. L \in Nat
                    BY <3>7, LeftIsCount
                <5>3. L1 = L
                    BY <5>1
                <5> HIDE DEF L, L1, a
                <5> QED BY <4>1, <5>2, <5>3
            <4>2. CASE a = 1
                <5>1. L + 1 <= Modulus - 1
                    <6> HIDE DEF L, f, m, a
                    <6> QED BY <3>2, <3>4, <3>5, <3>6, <4>2
                <5>2. pe1.rx.counter = (pe.rx.counter + 1) % Modulus
                    BY <3>3, <4>2
                <5>3. L1 = L + 1
                    BY <3>7, <5>1, <5>2, LeftRead
                <5> QED BY <4>2, <5>3
            <4> QED BY <3>2, <4>1, <4>2
        <3>9. L1 = RxDepth - f1 - m1 /\ L <= L1
            <4> HIDE DEF L, L1, f, f1, m, m1, a, b
            <4> QED BY <3>2, <3>4, <3>5, <3>6, <3>8
        <3>10. pe1.rx.counter \in Nat
            BY <3>3, <3>6, <3>7
        <3>11. Ordered(pe1, pf, v1)
            <4>1. v \in Seq(Dwords)
                BY DEF Edge
            <4>2. g = 1 /\ d.kind = "credit" => d.value = pe.rx.counter
                BY EdgeSends
            <4> QED BY <1>2, <2>3, <2>6, <3>7, <3>9, <3>10, <4>1, <4>2, OrderedGrows
        <3> QED BY <2>3, <2>4, <3>3, <3>9, <3>11
    <2> QED BY <2>5, <2>6
<1> QED BY <1>8, <1>9, EdgePhases

\* The sender keeps the wire well parsed.
LEMMA SenderParses ==
    ASSUME NEW pf, NEW v, NEW w, NEW wr, NEW i, NEW pf1, NEW v1, NEW w1,
           Edge(pf, v, w, wr, i, pf1, v1, w1), NEW pe,
           Exchange(pe, pf, w, v), Exchange(pf, pe, v, w),
           NEW p, NEW q, NEW r, WireOK(r, w, p, q), Excess(pe, pf, v, p[Len(w)]),
           NEW p1, p1 = ParseBeyond(p, w, w1, i.sends[1]),
           NEW q1, q1 = CountBeyond(q, w, w1, TakenAsPayload(p, w, Given(i)))
    PROVE  /\ WireOK(r, w1, p1, q1)
           /\ p1[Len(w1)] = IF Given(i) = 1 THEN RemAfter(p[Len(w)], i.sends[1]) ELSE p[Len(w)]
           /\ \A k \in 0 .. Len(w) : p1[k] = p[k]
           /\ q1[0] = q[0] + TakenAsPayload(p, w, Given(i))
           /\ p[Len(w)] \in 0 .. MaxPayload
           /\ q[0] \in Nat
<1> DEFINE d == i.sends[1]
           g == Given(i)
<1>1. Grows(w, w1, g, d) /\ Len(w) \in Nat
    BY EdgeWires
<1>2. p[Len(w)] \in 0 .. MaxPayload /\ q[0] \in Nat
    <2>1. Len(w) \in 0 .. Len(w) /\ 0 \in 0 .. Len(w)
        BY <1>1
    <2> QED BY <2>1 DEF WireOK, Parses, Counts
<1>3. p[Len(w)] \in Nat
    BY <1>2, StreamAssumption
<1>4. g = 1 => MayFollow(p, w, d)
    BY <1>3, SentMayFollow
<1>5. PICK c : c = TakenAsPayload(p, w, g)
    OBVIOUS
<1>6. WireOK(r, w1, p1, q1)
    BY <1>1, <1>4, <1>5, WireGrown
<1>7. p1[Len(w1)] = IF g = 1 THEN RemAfter(p[Len(w)], d) ELSE p[Len(w)]
    BY <1>1, <1>4, <1>5, WireGrown
<1>8. \A k \in 0 .. Len(w) : p1[k] = p[k]
    BY <1>1, <1>4, <1>5, WireGrown
<1>9. q1[0] = q[0] + c
    BY <1>1, <1>4, <1>5, WireGrown
<1> QED BY <1>2, <1>5, <1>6, <1>7, <1>8, <1>9

\* The updates under way to the source s, lat being the last one it has taken
\* over and count what the receiver has given by now.
OrderedFrom(s, lat, count, v) ==
    /\ Left(s, lat) <= Left(s, count)
    /\ \A k \in 1 .. Len(v) : v[k].kind = "credit" =>
          /\ Left(s, v[k].value) <= Left(s, count)
          /\ Left(s, lat) <= Left(s, v[k].value)
          /\ \A j \in 1 .. k : v[j].kind = "credit" =>
                Left(s, v[j].value) <= Left(s, v[k].value)

\* Credit updates on a wire stay in order when one is taken.
LEMMA OrderedTakes ==
    ASSUME NEW s, NEW lat, NEW count, NEW v, OrderedFrom(s, lat, count, v),
           NEW v1, NEW t, Takes(v, v1, t), Left(s, lat) \in Nat,
           NEW lat1, lat1 = lat \/ (t = 1 /\ v[1].kind = "credit" /\ lat1 = v[1].value)
    PROVE  OrderedFrom(s, lat1, count, v1) /\ Left(s, lat) <= Left(s, lat1)
<1> DEFINE L(c) == Left(s, c)
<1>1. /\ t \in {0, 1} /\ Len(v) \in Nat /\ Len(v1) \in Nat /\ Len(v) = Len(v1) + t
      /\ \A k \in 1 .. Len(v1) : v1[k] = v[k + t]
    BY DEF Takes
<1>2. /\ L(lat) <= L(count)
      /\ \A k \in 1 .. Len(v) : v[k].kind = "credit" =>
            /\ L(v[k].value) <= L(count)
            /\ L(lat) <= L(v[k].value)
            /\ \A j \in 1 .. k : v[j].kind = "credit" => L(v[j].value) <= L(v[k].value)
    BY DEF OrderedFrom
<1> HIDE DEF L
<1>3. t = 1 => 1 \in 1 .. Len(v)
    BY <1>1
<1>4. L(lat) <= L(lat1) /\ L(lat1) <= L(count)
    <2>1. CASE lat1 = lat
        BY <1>2, <2>1 DEF L
    <2>2. CASE t = 1 /\ v[1].kind = "credit" /\ lat1 = v[1].value
        BY <1>2, <1>3, <2>2
    <2> QED BY <2>1, <2>2
<1>5. ASSUME NEW k \in 1 .. Len(v1), v1[k].kind = "credit"
      PROVE  /\ L(v1[k].value) <= L(count)
             /\ L(lat1) <= L(v1[k].value)
             /\ \A j \in 1 .. k : v1[j].kind = "credit" => L(v1[j].value) <= L(v1[k].value)
    <2>1. k + t \in 1 .. Len(v) /\ v1[k] = v[k + t]
        BY <1>1
    <2>2. /\ L(v1[k].value) <= L(count)
          /\ L(lat) <= L(v1[k].value)
          /\ \A j \in 1 .. (k + t) : v[j].kind = "credit" => L(v[j].value) <= L(v1[k].value)
        BY <1>2, <1>5, <2>1
    <2>3. L(lat1) <= L(v1[k].value)
        <3>1. CASE lat1 = lat
            BY <2>2, <3>1
        <3>2. CASE t = 1 /\ v[1].kind = "credit" /\ lat1 = v[1].value
            <4>1. 1 \in 1 .. (k + t)
                BY <1>1
            <4> QED BY <2>2, <3>2, <4>1
        <3> QED BY <3>1, <3>2
    <2>4. ASSUME NEW j \in 1 .. k, v1[j].kind = "credit"
          PROVE  L(v1[j].value) <= L(v1[k].value)
        <3>1. j + t \in 1 .. (k + t) /\ v1[j] = v[j + t]
            BY <1>1
        <3> QED BY <2>2, <2>4, <3>1
    <2> QED BY <2>2, <2>3, <2>4
<1> QED BY <1>4, <1>5 DEF OrderedFrom, L

\* A payload word sent uses up one credit of every count that is under way.
LEMMA OrderedSends ==
    ASSUME NEW s, SrcOK(s), NEW t, SrcOK(t), NEW lat \in Nat, NEW count \in Nat,
           NEW v \in Seq(Dwords), OrderedFrom(s, lat, count, v), Left(s, lat) >= 1,
           \A c \in Int : Left(t, c) = (c - Total(s) - 1) % Modulus
    PROVE  /\ OrderedFrom(t, lat, count, v)
           /\ Left(t, lat) = Left(s, lat) - 1 /\ Left(t, count) = Left(s, count) - 1
<1> DEFINE L(c) == Left(s, c)
           L1(c) == Left(t, c)
<1>1. ASSUME NEW c \in Nat PROVE L(c) \in Nat
    <2>1. c \in Int
        OBVIOUS
    <2> QED BY <2>1, LeftIsCount
<1>2. \A c \in Nat : L(c) >= 1 => L1(c) = L(c) - 1
    BY LeftSend
<1>3. /\ L(lat) <= L(count) /\ L(lat) >= 1
      /\ \A k \in 1 .. Len(v) : v[k].kind = "credit" =>
            /\ L(v[k].value) <= L(count)
            /\ L(lat) <= L(v[k].value)
            /\ \A j \in 1 .. k : v[j].kind = "credit" => L(v[j].value) <= L(v[k].value)
    BY DEF OrderedFrom
<1>4. \A k \in 1 .. Len(v) : v[k].value \in Nat
    <2>1. \A k \in 1 .. Len(v) : v[k] \in Dwords
        BY ElementOfSeq
    <2> QED BY <2>1 DEF Dwords
<1>5. Len(v) \in Nat
    BY LenProperties
<1> HIDE DEF L, L1
<1>6. L(lat) \in Nat /\ L(count) \in Nat /\ L(count) >= 1
    <2>1. L(lat) \in Nat /\ L(count) \in Nat
        BY <1>1
    <2> QED BY <1>3, <2>1
<1>7. L1(lat) = L(lat) - 1 /\ L1(count) = L(count) - 1
    BY <1>2, <1>3, <1>6
<1>8. ASSUME NEW k \in 1 .. Len(v), v[k].kind = "credit"
      PROVE  /\ L1(v[k].value) <= L1(count)
             /\ L1(lat) <= L1(v[k].value)
             /\ \A j \in 1 .. k : v[j].kind = "credit" => L1(v[j].value) <= L1(v[k].value)
    <2> DEFINE x == v[k].value
    <2>1. /\ x \in Nat /\ L(x) \in Nat /\ L(x) <= L(count) /\ L(lat) <= L(x)
          /\ \A j \in 1 .. k : v[j].kind = "credit" => L(v[j].value) <= L(x)
        BY <1>1, <1>3, <1>4, <1>8
    <2> HIDE DEF x
    <2>2. L(x) >= 1
        BY <1>3, <1>6, <2>1
    <2>3. L1(x) = L(x) - 1
        BY <1>2, <2>1, <2>2
    <2>4. ASSUME NEW j \in 1 .. k, v[j].kind = "credit"
          PROVE  L1(v[j].value) <= L1(x)
        <3> DEFINE y == v[j].value
        <3>1. j \in 1 .. Len(v)
            BY <1>5
        <3>2. y \in Nat /\ L(y) \in Nat /\ L(y) <= L(x) /\ L(lat) <= L(y)
            BY <1>1, <1>3, <1>4, <2>1, <2>4, <3>1
        <3> HIDE DEF y
        <3>3. L(y) >= 1
            BY <1>3, <1>6, <3>2
        <3>4. L1(y) = L(y) - 1
            BY <1>2, <3>2, <3>3
        <3>5. L1(y) <= L1(x)
            BY <2>1, <2>3, <3>2, <3>4
        <3> QED BY <3>5 DEF y
    <2>5. L1(x) <= L1(count) /\ L1(lat) <= L1(x)
        BY <1>6, <1>7, <2>1, <2>3
    <2> QED BY <2>4, <2>5 DEF x
<1>9. L1(lat) <= L1(count)
    BY <1>3, <1>6, <1>7
<1> QED BY <1>7, <1>8, <1>9 DEF OrderedFrom, L, L1

\* The update an edge takes over, or the last one.
LEMMA LatestMoves ==
    ASSUME NEW pf, NEW v, NEW w, NEW wr, NEW i, NEW pf1, NEW v1, NEW w1,
           Edge(pf, v, w, wr, i, pf1, v1, w1)
    PROVE  LET lat == LatestAfter(pf, i) IN
           /\ lat \in Nat
           /\ \/ lat = pf.src.latest_fc
              \/ Taken(i) = 1 /\ v[1].kind = "credit" /\ lat = v[1].value
<1>1. /\ Taken(i) = 1 <=> i.word # <<>>
      /\ Taken(i) = 1 => i.word[1] = v[1]
    BY EdgeWires
<1>2. PortOK(pf) /\ (i.word # <<>> => i.word[1] \in Dwords)
    BY DEF Edge, WordOK
<1> QED BY <1>1, <1>2, LatestIsCount DEF LatestAfter, Update, AtBoundary

\* The sums of credits, over an edge of the sender.
LEMMA ConservedKeptBySender ==
    ASSUME NEW pf, NEW v, NEW w, NEW wr, NEW i, NEW pf1, NEW v1, NEW w1,
           Edge(pf, v, w, wr, i, pf1, v1, w1), NEW pe, RxOK(pe.rx),
           Exchange(pe, pf, w, v), Exchange(pf, pe, v, w),
           NEW p, NEW q, WireOK(pe.rx.remaining, w, p, q), Excess(pe, pf, v, p[Len(w)]),
           RunOutPlace(pe, pf, w, p), FreshCredits(pe, v), Conserved(pe, pf, w, v, q),
           NEW q1, q1 = CountBeyond(q, w, w1, TakenAsPayload(p, w, Given(i)))
    PROVE  Conserved(pe, pf1, w1, v1, q1)
<1> DEFINE d == i.sends[1]
           g == Given(i)
           t == Taken(i)
           s == pf.src
           last == p[Len(w)]
           c == TakenAsPayload(p, w, g)
           count == pe.rx.counter
<1>1. PICK p1 : p1 = ParseBeyond(p, w, w1, i.sends[1])
    OBVIOUS
<1>2. last \in 0 .. MaxPayload /\ q[0] \in Nat
    BY <1>1, SenderParses
<1>3. q1[0] = q[0] + c
    BY <1>1, SenderParses
<1>4. Grows(w, w1, g, d) /\ Takes(v, v1, t) /\ Len(w) \in Nat /\ v1 \in Seq(Dwords)
    BY EdgeWires
<1>5. \A kind : Has(w1, kind) <=> Has(w, kind) \/ (g = 1 /\ d.kind = kind)
    BY <1>4, HasGrows
<1>6. c \in {0, 1} /\ (c = 1 <=> g = 1 /\ last > 0)
    BY DEF TakenAsPayload
<1>7. /\ count \in Nat /\ Len(pe.rx.fifo) \in Nat /\ RxDepth \in 0 .. (Modulus - 1)
      /\ RxDepth \in Nat /\ SrcOK(s)
    <2>1. count \in Nat /\ Len(pe.rx.fifo) \in Nat
        BY LenProperties DEF RxOK
    <2> QED BY <2>1, EdgeReset, RxPathAssumption, StreamAssumption
<1> SUFFICES ASSUME pe.ctl.phase = "normal", pf1.ctl.phase = "normal"
    PROVE /\ ~pe.rx.discard
          /\ ~pe.rx.initialized =>
                q1[0] = 0 /\ pe.rx.remaining = 0 /\ ~Has(w1, "header") /\ Cleared(pf1, v1)
          /\ pe.rx.initialized =>
                /\ Left(pf1.src, count) = RxDepth - Len(pe.rx.fifo) - q1[0]
                /\ Ordered(pe, pf1, v1)
    BY DEF Conserved
<1>8. CASE pf.ctl.phase = "wait" /\ Response(pf, i)
    <2>1. Has(v, "response") /\ t = 1 /\ v[1].kind = "response"
        BY <1>8, EventIsHead
    <2>2. ~Has(w, "request")
        BY <2>1 DEF Exchange
    <2>3. Flushed(pe, w, p)
        BY <1>8, <2>2 DEF RunOutPlace
    <2>4. \A k \in 0 .. Len(w) : p[k] = 0
        BY <2>3 DEF Flushed
    <2>5. q[0] = 0 /\ pe.rx.remaining = 0 /\ ~Has(w, "header")
        BY <1>4, <2>4, NothingExpected
    <2>6. last = 0
        <3>1. Len(w) \in 0 .. Len(w)
            BY <1>4
        <3> QED BY <2>4, <3>1
    <2>7. q1[0] = 0
        <3>1. c = 0
            BY <1>6, <2>6
        <3> QED BY <1>3, <2>5, <3>1
    <2>8. ~Has(w1, "header")
        BY <1>5, <1>8, <2>5, EdgeSends
    <2>9. ~pe.rx.discard
        BY <2>5 DEF RxOK
    <2>10. pf1.src = SrcReset
        BY <1>8, EdgeReset
    <2>11. \A k \in 1 .. Len(v1) :
              v1[k].kind = "credit" => v1[k].value = RxDepth /\ pe.rx.initialized
        <3> SUFFICES ASSUME NEW k \in 1 .. Len(v1), v1[k].kind = "credit"
                     PROVE  v1[k].value = RxDepth /\ pe.rx.initialized
            OBVIOUS
        <3>1. 1 \in 1 .. Len(v) /\ k + 1 \in 1 .. Len(v) /\ 1 < k + 1 /\ v1[k] = v[k + 1]
            BY <1>4, <2>1 DEF Takes
        <3> QED BY <2>1, <3>1 DEF FreshCredits
    <2>12. ~pe.rx.initialized => Cleared(pf1, v1)
        BY <2>10, <2>11 DEF Cleared, Has
    <2>13. ASSUME pe.rx.initialized
           PROVE  /\ Left(pf1.src, count) = RxDepth - Len(pe.rx.fifo) - q1[0]
                  /\ Ordered(pe, pf1, v1)
        <3>1. count = RxDepth /\ pe.rx.fifo = <<>>
            BY <2>3, <2>13 DEF Flushed
        <3>2. 0 \in 0 .. (Modulus - 1)
            BY StreamAssumption
        <3>3. Left(SrcReset, RxDepth) = RxDepth /\ Left(SrcReset, 0) = 0
            BY <1>7, <3>2, LeftReset
        <3>4. Len(pe.rx.fifo) = 0 /\ RxDepth - 0 - 0 = RxDepth
            BY <1>7, <3>1
        <3>5. SrcReset.latest_fc = 0 /\ ToSend(SrcReset) = 0 /\ 0 <= RxDepth /\ RxDepth <= RxDepth
            BY <1>7, ResetOwesNothing
        <3>6. Ordered(pe, pf1, v1)
            BY <2>10, <2>11, <3>1, <3>3, <3>5 DEF Ordered
        <3> QED BY <2>7, <2>10, <3>1, <3>3, <3>4, <3>6
    <2> QED BY <2>5, <2>7, <2>8, <2>9, <2>12, <2>13
<1>9. CASE pf.ctl.phase = "normal" /\ ~Start(pf, i)
    <2>1. ~InReset(pf, i)
        <3>1. ~Has(v, "request") /\ ~(pf.ctl.responses > 0)
            BY DEF Exchange, UnderWay
        <3>2. ~Request(pf, i)
            BY <3>1, EventIsHead
        <3> QED BY <1>9, <3>1, <3>2, EdgeReset
    <2>2. last = Owed(s)
        BY <1>9 DEF Excess
    <2>3. /\ Owed(s) \in 0 .. MaxPayload /\ ToSend(s) \in 0 .. MaxPayload
          /\ s.header_sent => Owed(s) >= 1
          /\ ~s.header_sent => Owed(s) = 0
        BY <1>7, OwedIsCount
    <2>4. c = 1 <=> SentKind(i, "payload")
        <3>1. g = 1 => (d.kind = "payload" <=> SentKind(i, "payload"))
            BY EdgeSends
        <3>2. g = 1 /\ s.header_sent => d.kind = "payload"
            BY <2>1, EdgeSends
        <3>3. g = 1 /\ d.kind = "payload" => s.header_sent
            BY EdgeSends
        <3>4. SentKind(i, "payload") => g = 1
            BY EdgeWires DEF SentKind
        <3>5. last > 0 <=> s.header_sent
            <4> HIDE DEF last
            <4> QED BY <1>2, <2>2, <2>3
        <3> QED BY <1>6, <3>1, <3>2, <3>3, <3>4, <3>5
    <2>5. /\ ~pe.rx.discard
          /\ ~pe.rx.initialized =>
                q[0] = 0 /\ pe.rx.remaining = 0 /\ ~Has(w, "header") /\ Cleared(pf, v)
          /\ pe.rx.initialized =>
                /\ Left(s, count) = RxDepth - Len(pe.rx.fifo) - q[0]
                /\ Ordered(pe, pf, v)
        BY <1>9 DEF Conserved
    <2>6. ASSUME ~pe.rx.initialized
          PROVE  /\ q1[0] = 0 /\ pe.rx.remaining = 0 /\ ~Has(w1, "header")
                 /\ Cleared(pf1, v1)
        <3>1. Cleared(pf1, v1)
            BY <2>5, <2>6, ClearedStays
        <3>2. s = SrcReset /\ Owed(s) = 0 /\ s.reserved = 0
            BY <2>5, <2>6, ResetOwesNothing DEF Cleared
        <3>3. c = 0
            BY <1>6, <2>2, <3>2
        <3>4. ~(g = 1 /\ d.kind = "header")
            BY <3>2, EdgeSends
        <3>5. q1[0] = 0
            BY <1>3, <2>5, <2>6, <3>3
        <3> QED BY <1>5, <2>5, <2>6, <3>1, <3>4, <3>5
    <2>7. ASSUME pe.rx.initialized
          PROVE  /\ Left(pf1.src, count) = RxDepth - Len(pe.rx.fifo) - q1[0]
                 /\ Ordered(pe, pf1, v1)
        <3> DEFINE lat == LatestAfter(pf, i)
                   s1 == pf1.src
                   f == Len(pe.rx.fifo)
        <3>1. lat \in Nat
            BY LatestMoves
        <3>2. lat = s.latest_fc \/ (t = 1 /\ v[1].kind = "credit" /\ lat = v[1].value)
            BY LatestMoves
        <3>3. /\ SrcOK(s1) /\ s1.latest_fc = lat
              /\ SentKind(i, "payload") => Owed(s) >= 1 /\ ToSend(s) >= 1
            BY <2>1, EdgeSource
        <3>4. \A x \in Int : Left(s1, x) = IF SentKind(i, "payload")
                                           THEN (x - Total(s) - 1) % Modulus ELSE Left(s, x)
            BY <2>1, EdgeSource
        <3>5. \/ ToSend(s1) = IF SentKind(i, "payload") THEN ToSend(s) - 1 ELSE ToSend(s)
              \/ ~SentKind(i, "payload") /\ ToSend(s1) \in 0 .. Left(s, s.latest_fc)
            BY <2>1, EdgeSource
        <3>6. OrderedFrom(s, s.latest_fc, count, v) /\ ToSend(s) <= Left(s, s.latest_fc)
            BY <2>5, <2>7 DEF Ordered, OrderedFrom
        <3>7. s.latest_fc \in Nat
            BY <1>7 DEF SrcOK
        <3>8. \A x \in Int : Left(s, x) \in Nat
            BY <1>7, LeftIsCount
        <3>9. Left(s, s.latest_fc) \in Nat /\ Left(s, lat) \in Nat /\ Left(s, count) \in Nat
            <4>1. \A x \in Nat : Left(s, x) \in Nat
                BY <3>8
            <4> HIDE DEF lat, s, count
            <4> QED BY <1>7, <3>1, <3>7, <4>1
        <3>10. OrderedFrom(s, lat, count, v1) /\ Left(s, s.latest_fc) <= Left(s, lat)
            BY <1>4, <3>2, <3>6, <3>9, OrderedTakes
        <3>11. Left(s, count) = RxDepth - f - q[0]
            BY <2>5, <2>7
        <3>12. CASE SentKind(i, "payload")
            <4>1. \A x \in Int : Left(s1, x) = (x - Total(s) - 1) % Modulus
                BY <3>4, <3>12
            <4>2. ToSend(s) \in Nat
                BY <2>3, StreamAssumption
            <4>3. Left(s, lat) >= 1
                <5> DEFINE A == Left(s, s.latest_fc)
                           B == Left(s, lat)
                           C == ToSend(s)
                <5>1. A \in Nat /\ B \in Nat /\ C \in Nat /\ C >= 1 /\ C <= A /\ A <= B
                    BY <3>3, <3>6, <3>9, <3>10, <3>12, <4>2
                <5> HIDE DEF A, B, C
                <5>2. B >= 1
                    BY <5>1
                <5> QED BY <5>2 DEF B
            <4>4. /\ OrderedFrom(s1, lat, count, v1)
                  /\ Left(s1, lat) = Left(s, lat) - 1 /\ Left(s1, count) = Left(s, count) - 1
                BY <1>4, <1>7, <3>1, <3>3, <3>10, <4>1, <4>3, OrderedSends
            <4>5. q1[0] = q[0] + 1
                BY <1>3, <1>6, <2>4, <3>12
            <4>6. Left(s1, count) = RxDepth - f - q1[0]
                <5> DEFINE x == Left(s1, count)
                           y == Left(s, count)
                           m == q[0]
                           m1 == q1[0]
                <5>1. x = y - 1 /\ y = RxDepth - f - m /\ m1 = m + 1 /\ m \in Nat
                      /\ f \in Nat /\ RxDepth \in Nat
                    BY <1>2, <1>7, <3>11, <4>4, <4>5
                <5> HIDE DEF x, y, m, m1, f
                <5>2. x = RxDepth - f - m1
                    BY <5>1
                <5> QED BY <5>2 DEF x, m1
            <4>7. ToSend(s1) <= Left(s1, lat)
                <5> DEFINE x == Left(s1, lat)
                           A == Left(s, s.latest_fc)
                           B == Left(s, lat)
                           C == ToSend(s)
                           D == ToSend(s1)
                <5>1. /\ A \in Nat /\ B \in Nat /\ C \in Nat /\ C <= A /\ A <= B
                      /\ x = B - 1 /\ D = C - 1
                    BY <3>5, <3>6, <3>9, <3>10, <3>12, <4>2, <4>4
                <5> HIDE DEF A, B, C, D, x
                <5>2. D <= x
                    BY <5>1
                <5> QED BY <5>2 DEF D, x
            <4> QED BY <3>3, <4>4, <4>6, <4>7 DEF Ordered, OrderedFrom
        <3>13. CASE ~SentKind(i, "payload")
            <4>1. \A x \in Int : Left(s1, x) = Left(s, x)
                BY <3>4, <3>13
            <4>2. \A k \in 1 .. Len(v1) : v1[k].value \in Int
                <5>1. \A k \in 1 .. Len(v1) : v1[k] \in Dwords
                    BY <1>4, ElementOfSeq
                <5> QED BY <5>1 DEF Dwords
            <4>3. Left(s1, lat) = Left(s, lat) /\ Left(s1, count) = Left(s, count)
                <5> HIDE DEF lat, s, s1, count
                <5> QED BY <1>7, <3>1, <4>1
            <4>4. OrderedFrom(s1, lat, count, v1)
                <5>1. \A k \in 1 .. Len(v1) : Left(s1, v1[k].value) = Left(s, v1[k].value)
                    <6> HIDE DEF s, s1
                    <6> QED BY <4>1, <4>2
                <5>2. Len(v1) \in Nat
                    BY <1>4, LenProperties
                <5>3. \A k \in 1 .. Len(v1) : \A j \in 1 .. k : j \in 1 .. Len(v1)
                    BY <5>2
                <5> HIDE DEF lat, s, s1, count
                <5> QED BY <3>10, <4>3, <5>1, <5>3 DEF OrderedFrom
            <4>5. q1[0] = q[0]
                <5>1. c = 0
                    BY <1>6, <2>4, <3>13
                <5> QED BY <1>2, <1>3, <5>1
            <4>6. ToSend(s1) <= Left(s1, lat)
                <5> DEFINE x == Left(s1, lat)
                           A == Left(s, s.latest_fc)
                           B == Left(s, lat)
                           C == ToSend(s)
                           D == ToSend(s1)
                <5>1. /\ A \in Nat /\ B \in Nat /\ C \in Nat /\ C <= A /\ A <= B
                      /\ x = B /\ (D = C \/ D \in 0 .. A)
                    BY <2>3, <3>5, <3>6, <3>9, <3>10, <3>13, <4>3, StreamAssumption
                <5> HIDE DEF A, B, C, D, x
                <5>2. D <= x
                    BY <5>1
                <5> QED BY <5>2 DEF D, x
            <4> QED BY <3>3, <3>11, <4>3, <4>4, <4>5, <4>6 DEF Ordered, OrderedFrom
        <3> QED BY <3>12, <3>13
    <2> QED BY <2>5, <2>6, <2>7
<1> QED BY <1>8, <1>9, EdgePhases

\* The places reserved, over an edge of the sender: it sends within its credits.
LEMMA ReservedKeptBySender ==
    ASSUME NEW pf, NEW v, NEW w, NEW wr, NEW i, NEW pf1, NEW v1, NEW w1,
           Edge(pf, v, w, wr, i, pf1, v1, w1), NEW pe, RxOK(pe.rx),
           Exchange(pe, pf, w, v), Exchange(pf, pe, v, w),
           NEW p, NEW q, WireOK(pe.rx.remaining, w, p, q), Excess(pe, pf, v, p[Len(w)]),
           Conserved(pe, pf, w, v, q), Reserved(pe, w, p, q),
           NEW p1, p1 = ParseBeyond(p, w, w1, i.sends[1]),
           NEW q1, q1 = CountBeyond(q, w, w1, TakenAsPayload(p, w, Given(i)))
    PROVE  Reserved(pe, w1, p1, q1)
<1> DEFINE d == i.sends[1]
           g == Given(i)
           s == pf.src
           c == TakenAsPayload(p, w, g)
           f == Len(pe.rx.fifo)
           last == p[Len(w)]
           m == q[0]
           last1 == p1[Len(w1)]
           m1 == q1[0]
<1>1. last \in 0 .. MaxPayload /\ m \in Nat
    BY SenderParses
<1>2. m1 = m + c
    BY SenderParses
<1>3. last1 = IF g = 1 THEN RemAfter(last, d) ELSE last
    BY SenderParses
<1>4. c \in {0, 1} /\ (c = 1 <=> g = 1 /\ last > 0)
    BY DEF TakenAsPayload
<1>5. f \in Nat /\ RxDepth \in Nat /\ last \in Nat /\ SrcOK(s)
    BY <1>1, LenProperties, EdgeReset, RxPathAssumption, StreamAssumption DEF RxOK
<1> SUFFICES ASSUME pe.ctl.phase = "normal" PROVE f + m1 + last1 <= RxDepth
    BY DEF Reserved
<1>6. f + m + last <= RxDepth
    BY DEF Reserved
<1>7. CASE g # 1
    <2>1. c = 0 /\ last1 = last
        BY <1>3, <1>4, <1>7
    <2> HIDE DEF f, m, m1, last, last1, c
    <2> QED BY <1>1, <1>2, <1>5, <1>6, <2>1
<1>8. CASE g = 1 /\ last > 0
    <2>1. c = 1 /\ last1 = last - 1
        BY <1>3, <1>4, <1>8 DEF RemAfter
    <2> HIDE DEF f, m, m1, last, last1, c
    <2> QED BY <1>1, <1>2, <1>5, <1>6, <2>1
<1>9. CASE g = 1 /\ ~(last > 0) /\ d.kind # "header"
    <2>1. c = 0 /\ last1 = 0
        BY <1>3, <1>4, <1>9 DEF RemAfter
    <2> HIDE DEF f, m, m1, last, last1, c
    <2> QED BY <1>1, <1>2, <1>5, <1>6, <2>1
<1>10. CASE g = 1 /\ ~(last > 0) /\ d.kind = "header"
    <2>1. c = 0 /\ last1 = d.value
        BY <1>3, <1>4, <1>10 DEF RemAfter
    <2>2. /\ d.value = s.reserved /\ s.reserved > 0 /\ ~s.header_sent
          /\ pf.ctl.phase = "normal"
        BY <1>10, EdgeSends
    <2>3. pe.rx.initialized
        <3> SUFFICES ASSUME ~pe.rx.initialized PROVE FALSE
            OBVIOUS
        <3>1. s = SrcReset
            BY <2>2 DEF Conserved, Cleared
        <3>2. s.reserved = 0
            BY <3>1, ResetOwesNothing
        <3> QED BY <2>2, <3>2
    <2>4. /\ Left(s, pe.rx.counter) = RxDepth - f - m
          /\ Left(s, s.latest_fc) <= Left(s, pe.rx.counter)
          /\ ToSend(s) <= Left(s, s.latest_fc)
        BY <2>2, <2>3 DEF Conserved, Ordered
    <2>5. ToSend(s) = s.reserved /\ ToSend(s) \in Nat
        BY <1>5, <2>2, OwedIsCount, StreamAssumption
    <2>6. s.latest_fc \in Int /\ pe.rx.counter \in Int
        BY <1>5 DEF SrcOK, RxOK
    <2>7. Left(s, s.latest_fc) \in Nat /\ Left(s, pe.rx.counter) \in Nat
        BY <1>5, <2>6, LeftIsCount
    <2> DEFINE A == Left(s, s.latest_fc)
               B == Left(s, pe.rx.counter)
               C == ToSend(s)
    <2>8. /\ A \in Nat /\ B \in Nat /\ C \in Nat /\ C <= A /\ A <= B /\ B = RxDepth - f - m
          /\ last1 = C
        BY <2>1, <2>2, <2>4, <2>5, <2>7
    <2> HIDE DEF f, m, m1, last, last1, c, A, B, C
    <2> QED BY <1>1, <1>2, <1>5, <2>1, <2>8
<1> QED BY <1>7, <1>8, <1>9, <1>10
-----------------------------------------------------------------------------
(* The numbers of the payload words. *)

\* The numbers of the payload words on a wire, when a DWORD is taken.
LEMMA CountsTaken ==
    ASSUME NEW w, NEW n, CountsPayload(w, n), NEW w1, NEW t, Takes(w, w1, t),
           NEW n1, n1 = Behind(n, w1, t)
    PROVE  /\ CountsPayload(w1, n1)
           /\ n1[Len(w1)] = n[Len(w)] /\ n[Len(w)] \in Nat
           /\ n[0] \in Nat /\ n[0] <= n[Len(w)] /\ n1[0] \in Nat /\ n[0] <= n1[0]
           /\ n1[0] = n[0] + (IF t = 1 /\ w[1].kind = "payload" THEN 1 ELSE 0)
           /\ t = 1 /\ w[1].kind = "payload" => w[1].value = n1[0]
<1>1. /\ t \in {0, 1} /\ Len(w) \in Nat /\ Len(w1) \in Nat /\ Len(w) = Len(w1) + t
      /\ \A k \in 1 .. Len(w1) : w1[k] = w[k + t]
    BY DEF Takes
<1>2. \A k \in 0 .. Len(w1) : k + t \in 0 .. Len(w) /\ n1[k] = n[k + t]
    BY <1>1 DEF Behind
<1>3. /\ n \in [0 .. Len(w) -> Nat]
      /\ \A k \in 1 .. Len(w) :
            n[k] = n[k - 1] + (IF w[k].kind = "payload" THEN 1 ELSE 0)
      /\ \A k \in 1 .. Len(w) : w[k].kind = "payload" => w[k].value = n[k]
      /\ \A k \in 0 .. Len(w) : \A j \in 0 .. k : n[j] <= n[k]
    BY DEF CountsPayload
<1>4. n1 \in [0 .. Len(w1) -> Nat]
    <2>1. \A k \in 0 .. Len(w1) : n[k + t] \in Nat
        BY <1>2, <1>3
    <2> QED BY <2>1 DEF Behind
<1>5. ASSUME NEW k \in 1 .. Len(w1)
      PROVE  /\ n1[k] = n1[k - 1] + (IF w1[k].kind = "payload" THEN 1 ELSE 0)
             /\ w1[k].kind = "payload" => w1[k].value = n1[k]
    <2>1. k + t \in 1 .. Len(w) /\ w1[k] = w[k + t] /\ (k + t) - 1 = (k - 1) + t
          /\ k \in 0 .. Len(w1) /\ k - 1 \in 0 .. Len(w1)
        BY <1>1
    <2>2. n1[k] = n[k + t] /\ n1[k - 1] = n[(k + t) - 1]
        BY <1>2, <2>1
    <2> QED BY <1>3, <2>1, <2>2
<1>6. ASSUME NEW k \in 0 .. Len(w1), NEW j \in 0 .. k
      PROVE  n1[j] <= n1[k]
    <2>1. j \in 0 .. Len(w1) /\ j + t \in 0 .. (k + t) /\ k + t \in 0 .. Len(w)
        BY <1>1
    <2> QED BY <1>2, <1>3, <2>1
<1>7. CountsPayload(w1, n1)
    BY <1>4, <1>5, <1>6 DEF CountsPayload
<1>8. n1[Len(w1)] = n[Len(w)]
    <2>1. Len(w1) \in 0 .. Len(w1)
        BY <1>1
    <2> QED BY <1>1, <1>2, <2>1
<1>9. /\ n[Len(w)] \in Nat /\ n[0] \in Nat /\ n[0] <= n[Len(w)]
    <2>1. Len(w) \in 0 .. Len(w) /\ 0 \in 0 .. Len(w)
        BY <1>1
    <2> QED BY <1>3, <2>1
<1>10. n1[0] = n[t]
    <2>1. 0 \in 0 .. Len(w1) /\ 0 + t = t
        BY <1>1
    <2> QED BY <1>2, <2>1
<1>11. n1[0] = n[0] + (IF t = 1 /\ w[1].kind = "payload" THEN 1 ELSE 0)
    <2>1. CASE t = 0
        BY <1>9, <1>10, <2>1
    <2>2. CASE t = 1
        <3>1. 1 \in 1 .. Len(w) /\ 1 - 1 = 0
            BY <1>1, <2>2
        <3>2. n[1] = n[1 - 1] + (IF w[1].kind = "payload" THEN 1 ELSE 0)
            BY <1>3, <3>1
        <3> QED BY <1>10, <2>2, <3>1, <3>2
    <2> QED BY <1>1, <2>1, <2>2
<1>12. t = 1 /\ w[1].kind = "payload" => w[1].value = n1[0]
    <2>1. t = 1 => 1 \in 1 .. Len(w)
        BY <1>1
    <2> QED BY <1>3, <1>10, <2>1
<1>13. n1[0] \in Nat /\ n[0] <= n1[0]
    BY <1>9, <1>11
<1> QED BY <1>7, <1>8, <1>9, <1>11, <1>12, <1>13

NumberBeyond(n, w, w1, d) ==
    [k \in 0 .. Len(w1) |->
        IF k <= Len(w) THEN n[k] ELSE n[Len(w)] + (IF d.kind = "payload" THEN 1 ELSE 0)]

\* The numbers of the payload words on a wire, when a DWORD is sent.
LEMMA CountsGrown ==
    ASSUME NEW w, NEW n, CountsPayload(w, n), NEW w1, NEW g, NEW d, Grows(w, w1, g, d),
           g = 1 /\ d.kind = "payload" => d.value = n[Len(w)] + 1,
           NEW n1, n1 = NumberBeyond(n, w, w1, d)
    PROVE  /\ CountsPayload(w1, n1)
           /\ n1[Len(w1)] = n[Len(w)] + (IF g = 1 /\ d.kind = "payload" THEN 1 ELSE 0)
           /\ n1[0] = n[0]
<1> DEFINE l == Len(w)
           last == n[l] + (IF d.kind = "payload" THEN 1 ELSE 0)
<1>1. /\ g \in {0, 1} /\ l \in Nat /\ Len(w1) = l + g
      /\ \A k \in 1 .. l : w1[k] = w[k]
      /\ g = 1 => w1[l + 1] = d
    BY DEF Grows
<1>2. /\ n \in [0 .. l -> Nat]
      /\ \A k \in 1 .. l :
            n[k] = n[k - 1] + (IF w[k].kind = "payload" THEN 1 ELSE 0)
      /\ \A k \in 1 .. l : w[k].kind = "payload" => w[k].value = n[k]
      /\ \A k \in 0 .. l : \A j \in 0 .. k : n[j] <= n[k]
    BY DEF CountsPayload
<1>3. n[l] \in Nat /\ n[0] \in Nat /\ last \in Nat /\ n[l] <= last
    <2>1. l \in 0 .. l /\ 0 \in 0 .. l
        BY <1>1
    <2>2. n[l] \in Nat /\ n[0] \in Nat
        BY <1>2, <2>1
    <2> QED BY <2>2
<1>4. \A k \in 0 .. Len(w1) : n1[k] = IF k <= l THEN n[k] ELSE last
    BY DEF NumberBeyond
<1>5. \A k \in 0 .. l : k \in 0 .. Len(w1) /\ n1[k] = n[k]
    BY <1>1, <1>4
<1>6. g = 1 => l + 1 \in 0 .. Len(w1) /\ n1[l + 1] = last
    BY <1>1, <1>4
<1>7. n1 \in [0 .. Len(w1) -> Nat]
    <2>1. \A k \in 0 .. Len(w1) : (IF k <= l THEN n[k] ELSE last) \in Nat
        <3> SUFFICES ASSUME NEW k \in 0 .. Len(w1)
                     PROVE  (IF k <= l THEN n[k] ELSE last) \in Nat
            OBVIOUS
        <3>1. k <= l => k \in 0 .. l
            BY <1>1
        <3>2. k <= l => n[k] \in Nat
            BY <1>2, <3>1
        <3> HIDE DEF last
        <3> QED BY <1>3, <3>2
    <2> QED BY <2>1 DEF NumberBeyond
<1> HIDE DEF last
<1>8. ASSUME NEW k \in 1 .. Len(w1)
      PROVE  /\ n1[k] = n1[k - 1] + (IF w1[k].kind = "payload" THEN 1 ELSE 0)
             /\ w1[k].kind = "payload" => w1[k].value = n1[k]
    <2>1. CASE k \in 1 .. l
        <3>1. k \in 0 .. l /\ k - 1 \in 0 .. l
            BY <1>1, <2>1
        <3>2. n1[k] = n[k] /\ n1[k - 1] = n[k - 1] /\ w1[k] = w[k]
            BY <1>1, <1>5, <2>1, <3>1
        <3> QED BY <1>2, <2>1, <3>2
    <2>2. CASE g = 1 /\ k = l + 1
        <3>1. (l + 1) - 1 = l /\ l \in 0 .. l
            BY <1>1
        <3>2. n1[k] = last /\ n1[k - 1] = n[l] /\ w1[k] = d
            BY <1>1, <1>5, <1>6, <2>2, <3>1
        <3> QED BY <2>2, <3>2 DEF last
    <2>3. k \in 1 .. l \/ (g = 1 /\ k = l + 1)
        BY <1>1
    <2> QED BY <2>1, <2>2, <2>3
<1>9. ASSUME NEW k \in 0 .. Len(w1), NEW j \in 0 .. k
      PROVE  n1[j] <= n1[k]
    <2>1. CASE k \in 0 .. l
        <3>1. j \in 0 .. l
            BY <1>1, <2>1
        <3> QED BY <1>2, <1>5, <2>1, <3>1
    <2>2. CASE g = 1 /\ k = l + 1
        <3>1. CASE j = k
            <4>1. n1[k] = last
                BY <1>6, <2>2
            <4> QED BY <1>3, <3>1, <4>1
        <3>2. CASE j \in 0 .. l
            <4>1. n1[j] = n[j] /\ n[j] \in Nat /\ n[j] <= n[l] /\ n1[k] = last
                <5>1. l \in 0 .. l
                    BY <1>1
                <5> QED BY <1>2, <1>5, <1>6, <2>2, <3>2, <5>1
            <4> QED BY <1>3, <4>1
        <3>3. j = k \/ j \in 0 .. l
            BY <1>1, <2>2
        <3> QED BY <3>1, <3>2, <3>3
    <2>3. k \in 0 .. l \/ (g = 1 /\ k = l + 1)
        BY <1>1
    <2> QED BY <2>1, <2>2, <2>3
<1>10. CountsPayload(w1, n1)
    BY <1>7, <1>8, <1>9 DEF CountsPayload
<1>11. n1[0] = n[0]
    <2>1. 0 \in 0 .. l
        BY <1>1
    <2> QED BY <1>5, <2>1
<1>12. n1[Len(w1)] = n[l] + (IF g = 1 /\ d.kind = "payload" THEN 1 ELSE 0)
    <2>1. CASE g = 1
        BY <1>1, <1>6, <2>1 DEF last
    <2>2. CASE g = 0
        <3>1. l \in 0 .. l /\ Len(w1) = l
            BY <1>1, <2>2
        <3> QED BY <1>3, <1>5, <2>2, <3>1
    <2> QED BY <1>1, <2>1, <2>2
<1> QED BY <1>10, <1>11, <1>12

\* The FIFO one edge later: a words are read, b words are stored, of which pl
\* is a payload word, the next one of the stream.
Shifts(q, q1, a, b, pl, x) ==
    /\ a \in {0, 1} /\ b \in {0, 1} /\ pl \in {0, 1}
    /\ Len(q) \in Nat /\ a <= Len(q) /\ Len(q1) = Len(q) - a + b
    /\ \A k \in 1 .. Len(q) - a : q1[k] = q[k + a]
    /\ b = 1 => q1[Len(q) - a + 1] = x
    /\ b = 1 /\ pl = 0 => x.kind = "noop"

\* Of f words the first m are payload; c of them is read.
HeldCounts(f, m, a, b, pl, c, m1) ==
    /\ f \in Nat /\ m \in 0 .. f /\ a \in {0, 1} /\ b \in {0, 1} /\ pl \in {0, 1}
    /\ a <= f
    /\ pl = 1 => b = 1 /\ m = f
    /\ c = IF a = 1 /\ m >= 1 THEN 1 ELSE 0
    /\ m1 = m - c + pl

\* After the edge m1 are payload; where each of the words comes from.
HeldAfter(f, m, a, b, pl, c, m1) ==
    /\ m1 \in 0 .. (f - a + b) /\ c \in {0, 1} /\ m \in Nat
    /\ \A k \in 1 .. m1 :
          \/ k \in 1 .. (f - a) /\ k + a \in 1 .. m /\ a = c
          \/ pl = 1 /\ b = 1 /\ k = f - a + 1 /\ k = m1
    /\ \A k \in (m1 + 1) .. (f - a + b) :
          \/ k \in 1 .. (f - a) /\ k + a \in (m + 1) .. f
          \/ pl = 0 /\ b = 1 /\ k = f - a + 1

\* The words move up by those that are read.
LEMMA HeldMoves ==
    ASSUME NEW f, NEW m, NEW a, NEW b, NEW pl, NEW c, NEW m1,
           HeldCounts(f, m, a, b, pl, c, m1)
    PROVE  HeldAfter(f, m, a, b, pl, c, m1)
<1>1. /\ f \in Nat /\ m \in 0 .. f /\ a \in {0, 1} /\ b \in {0, 1} /\ pl \in {0, 1}
      /\ a <= f
      /\ pl = 1 => b = 1 /\ m = f
      /\ c = IF a = 1 /\ m >= 1 THEN 1 ELSE 0
      /\ m1 = m - c + pl
    BY DEF HeldCounts
<1>2. m \in Int /\ f \in Int /\ m >= 0 /\ m <= f
    BY <1>1
<1>3. CASE pl = 1 /\ a = 1
    <2>1. b = 1 /\ m = f /\ c = 1 /\ m1 = f
        BY <1>1, <1>2, <1>3
    <2> QED BY <1>1, <1>2, <1>3, <2>1 DEF HeldAfter
<1>4. CASE pl = 1 /\ a = 0
    <2>1. b = 1 /\ m = f /\ c = 0 /\ m1 = f + 1
        BY <1>1, <1>2, <1>4
    <2> QED BY <1>2, <1>4, <2>1 DEF HeldAfter
<1>5. CASE pl = 0 /\ a = 0
    <2>1. c = 0 /\ m1 = m
        BY <1>1, <1>2, <1>5
    <2>2. CASE b = 0
        BY <1>2, <1>5, <2>1, <2>2 DEF HeldAfter
    <2>3. CASE b = 1
        BY <1>2, <1>5, <2>1, <2>3 DEF HeldAfter
    <2> QED BY <1>1, <2>2, <2>3
<1>6. CASE pl = 0 /\ a = 1 /\ m >= 1
    <2>1. c = 1 /\ m1 = m - 1 /\ f >= 1
        BY <1>1, <1>2, <1>6
    <2>2. CASE b = 0
        BY <1>2, <1>6, <2>1, <2>2 DEF HeldAfter
    <2>3. CASE b = 1
        BY <1>2, <1>6, <2>1, <2>3 DEF HeldAfter
    <2> QED BY <1>1, <2>2, <2>3
<1>7. CASE pl = 0 /\ a = 1 /\ m = 0
    <2>1. c = 0 /\ m1 = 0 /\ f >= 1
        BY <1>1, <1>2, <1>7
    <2>2. CASE b = 0
        BY <1>2, <1>7, <2>1, <2>2 DEF HeldAfter
    <2>3. CASE b = 1
        BY <1>2, <1>7, <2>1, <2>3 DEF HeldAfter
    <2> QED BY <1>1, <2>2, <2>3
<1> QED BY <1>1, <1>2, <1>3, <1>4, <1>5, <1>6, <1>7

\* What is read and what the next word is.
Delivers(q, a, pl, b, x, last, last1, rd, rd1) ==
    /\ last \in Nat /\ last1 = last + pl
    /\ Holds(q, rd, last)
    /\ pl = 1 => b = 1 /\ x = Payload(last1) /\ ~Has(q, "noop")
    /\ rd1 = IF a = 1 /\ q[1].kind = "payload" THEN q[1].value ELSE rd

\* What the FIFO holds, when a word is read or stored.
LEMMA HoldsNext ==
    ASSUME NEW q, NEW q1, NEW a, NEW b, NEW pl, NEW x, Shifts(q, q1, a, b, pl, x),
           NEW last, NEW last1, NEW rd, NEW rd1,
           Delivers(q, a, pl, b, x, last, last1, rd, rd1)
    PROVE  Holds(q1, rd1, last1)
<1>1. PICK f, f1 : f = Len(q) /\ f1 = Len(q1)
    OBVIOUS
<1>2. /\ a \in {0, 1} /\ b \in {0, 1} /\ pl \in {0, 1}
      /\ f \in Nat /\ a <= f /\ f1 = f - a + b
      /\ \A k \in 1 .. f - a : q1[k] = q[k + a]
      /\ b = 1 => q1[f - a + 1] = x
      /\ b = 1 /\ pl = 0 => x.kind = "noop"
    BY <1>1 DEF Shifts
<1>3. /\ last \in Nat /\ last1 = last + pl /\ Holds(q, rd, last)
      /\ pl = 1 => b = 1 /\ x = Payload(last1) /\ ~Has(q, "noop")
      /\ rd1 = IF a = 1 /\ q[1].kind = "payload" THEN q[1].value ELSE rd
    BY DEF Delivers
<1>4. rd \in Nat /\ \E m \in 0 .. f : HoldsUpTo(q, m, last) /\ rd <= last - m
    BY <1>1, <1>3 DEF Holds
<1>5. PICK m \in 0 .. f : HoldsUpTo(q, m, last) /\ rd <= last - m
    BY <1>4
<1>6. /\ \A k \in 1 .. m : q[k] = Payload(last - m + k)
      /\ \A k \in (m + 1) .. f : q[k].kind = "noop"
    BY <1>1, <1>5 DEF HoldsUpTo
<1>7. pl = 1 => m = f
    <2> SUFFICES ASSUME pl = 1, m # f PROVE FALSE
        OBVIOUS
    <2>1. m + 1 \in (m + 1) .. f /\ m + 1 \in 1 .. f
        BY <1>2
    <2>2. q[m + 1].kind = "noop"
        BY <1>6, <2>1
    <2> QED BY <1>1, <1>3, <2>1, <2>2 DEF Has
<1>8. PICK c : c = IF a = 1 /\ m >= 1 THEN 1 ELSE 0
    OBVIOUS
<1>9. PICK m1 : m1 = m - c + pl
    OBVIOUS
<1>10. HeldCounts(f, m, a, b, pl, c, m1)
    BY <1>2, <1>3, <1>5, <1>7, <1>8, <1>9 DEF HeldCounts
<1>11. HeldAfter(f, m, a, b, pl, c, m1)
    BY <1>10, HeldMoves
<1>12. m1 \in 0 .. f1 /\ c \in {0, 1} /\ m \in Nat
    BY <1>2, <1>11 DEF HeldAfter
<1>13. \A k \in 1 .. m1 :
          \/ k \in 1 .. (f - a) /\ k + a \in 1 .. m /\ a = c
          \/ pl = 1 /\ b = 1 /\ k = f - a + 1 /\ k = m1
    BY <1>11 DEF HeldAfter
<1>14. \A k \in (m1 + 1) .. f1 :
          \/ k \in 1 .. (f - a) /\ k + a \in (m + 1) .. f
          \/ pl = 0 /\ b = 1 /\ k = f - a + 1
    BY <1>2, <1>11 DEF HeldAfter
<1>15. m1 \in Int /\ c \in Int /\ pl \in Int /\ a \in Int /\ last \in Int /\ last1 \in Int
    <2>1. f1 \in Int
        BY <1>2
    <2> QED BY <1>2, <1>3, <1>12, <2>1
<1>16. ASSUME NEW k \in 1 .. m1 PROVE q1[k] = Payload(last1 - m1 + k)
    <2>1. CASE k \in 1 .. (f - a) /\ k + a \in 1 .. m /\ a = c
        <3>1. q1[k] = q[k + a]
            BY <1>2, <2>1
        <3>2. q[k + a] = Payload(last - m + (k + a))
            BY <1>6, <2>1
        <3>3. last - m + (k + a) = last1 - m1 + k
            BY <1>3, <1>9, <1>12, <1>15, <2>1
        <3> QED BY <3>1, <3>2, <3>3
    <2>2. CASE pl = 1 /\ b = 1 /\ k = f - a + 1 /\ k = m1
        <3>1. q1[k] = Payload(last1)
            BY <1>2, <1>3, <2>2
        <3>2. last1 - m1 + k = last1
            BY <1>15, <2>2
        <3> QED BY <3>1, <3>2
    <2> QED BY <1>13, <2>1, <2>2
<1>17. ASSUME NEW k \in (m1 + 1) .. f1 PROVE q1[k].kind = "noop"
    <2>1. CASE k \in 1 .. (f - a) /\ k + a \in (m + 1) .. f
        BY <1>2, <1>6, <2>1
    <2>2. CASE pl = 0 /\ b = 1 /\ k = f - a + 1
        BY <1>2, <2>2
    <2> QED BY <1>14, <2>1, <2>2
<1>18. rd1 \in Nat /\ rd1 <= last1 - m1
    <2>1. CASE a = 1 /\ m >= 1
        <3>1. 1 \in 1 .. m /\ c = 1
            BY <1>8, <1>12, <2>1
        <3>2. PICK y : y = last - m + 1
            OBVIOUS
        <3>3. q[1] = Payload(y)
            BY <1>6, <3>1, <3>2
        <3>4. rd1 = y
            BY <1>3, <2>1, <3>3 DEF Payload
        <3>5. last1 - m1 = y /\ rd <= last - m
            BY <1>3, <1>5, <1>9, <1>12, <1>15, <3>1, <3>2
        <3>6. y \in Nat
            BY <1>4, <1>12, <1>15, <3>2, <3>5
        <3> QED BY <3>4, <3>5, <3>6
    <2>2. CASE ~(a = 1 /\ m >= 1)
        <3>1. rd1 = rd
            <4>1. CASE a = 0
                BY <1>3, <4>1
            <4>2. CASE a = 1
                <5>1. 1 \in (m + 1) .. f
                    BY <1>2, <1>12, <2>2, <4>2
                <5>2. q[1].kind = "noop"
                    BY <1>6, <5>1
                <5> QED BY <1>3, <5>2
            <4> QED BY <1>2, <4>1, <4>2
        <3>2. c = 0
            BY <1>8, <2>2
        <3>3. last1 - m1 = last - m
            BY <1>3, <1>9, <1>12, <1>15, <3>2
        <3> QED BY <1>4, <1>5, <3>1, <3>3
    <2> QED BY <2>1, <2>2
<1>19. HoldsUpTo(q1, m1, last1)
    BY <1>1, <1>12, <1>16, <1>17 DEF HoldsUpTo
<1> QED BY <1>1, <1>12, <1>18, <1>19 DEF Holds

\* What firmware has written, and what it has read, once an edge is over.
WrittenAfter(i, wr) == wr + Len(i.fw)

ReadAfter(p, i, rd) ==
    IF Reading(p, i) /\ Head(p.rx.fifo).kind = "payload" THEN Head(p.rx.fifo).value ELSE rd

\* When a reset is over, everything written by then counts as sent.
LEMMA NumbersRestart ==
    ASSUME NEW pe, NEW pf, NEW w, NEW v, NEW rd \in Nat, NEW wr,
           Base(pf, wr) \in Nat, rd <= Base(pf, wr), ~Has(w, "payload"), pe.rx.fifo = <<>>,
           Len(w) \in Nat
    PROVE  Numbers(pe, pf, w, v, rd, wr)
<1> DEFINE base == Base(pf, wr)
           n == [k \in 0 .. Len(w) |-> base]
<1>1. \A k \in 0 .. Len(w) : n[k] = base
    OBVIOUS
<1>2. n \in [0 .. Len(w) -> Nat]
    OBVIOUS
<1>3. \A k \in 1 .. Len(w) : k \in 0 .. Len(w) /\ k - 1 \in 0 .. Len(w)
    OBVIOUS
<1>4. \A k \in 1 .. Len(w) : w[k].kind # "payload"
    BY DEF Has
<1>5. \A k \in 1 .. Len(w) : n[k] = n[k - 1] + (IF w[k].kind = "payload" THEN 1 ELSE 0)
    <2> HIDE DEF base
    <2> SUFFICES ASSUME NEW k \in 1 .. Len(w) PROVE n[k] = n[k - 1] + 0
        BY <1>4
    <2>1. n[k] = base /\ n[k - 1] = base /\ base \in Nat
        BY <1>1, <1>3 DEF base
    <2> QED BY <2>1
<1>6. \A k \in 0 .. Len(w) : \A j \in 0 .. k : n[j] <= n[k]
    <2> SUFFICES ASSUME NEW k \in 0 .. Len(w), NEW j \in 0 .. k PROVE n[j] <= n[k]
        OBVIOUS
    <2>1. j \in 0 .. Len(w)
        OBVIOUS
    <2>2. n[j] = base /\ n[k] = base /\ base \in Nat
        BY <1>1, <2>1
    <2> QED BY <2>2
<1>7. CountsPayload(w, n)
    BY <1>2, <1>4, <1>5, <1>6 DEF CountsPayload
<1>8. n[0] = base /\ n[Len(w)] = base /\ base \in Nat
    BY <1>1
<1>9. Len(pe.rx.fifo) = 0
    OBVIOUS
<1>10. HoldsUpTo(pe.rx.fifo, 0, n[0])
    BY <1>9 DEF HoldsUpTo
<1> HIDE DEF base, n
<1>11. 0 \in 0 .. Len(pe.rx.fifo) /\ rd <= n[0] - 0 /\ n[Len(w)] <= base
    BY <1>8, <1>9 DEF base
<1>12. Holds(pe.rx.fifo, rd, n[0])
    BY <1>10, <1>11 DEF Holds
<1>13. NumbersBy(pe, pf, w, v, rd, wr, n)
    BY <1>7, <1>8, <1>11, <1>12 DEF NumbersBy, base
<1> QED BY <1>13 DEF Numbers

\* What the FIFO holds, over an edge of the receiver.
LEMMA HeldKeptByReceiver ==
    ASSUME NEW pe, NEW w, NEW v, NEW we, NEW i, NEW pe1, NEW w1, NEW v1,
           Edge(pe, w, v, we, i, pe1, w1, v1), ~Rejects(pe, i),
           NEW p, NEW q, WireOK(pe.rx.remaining, w, p, q), OnlyRunOutInside(pe, w, p),
           NEW pf, RunOutPlace(pe, pf, w, p),
           NEW n, CountsPayload(w, n), NEW rd, Holds(pe.rx.fifo, rd, n[0]),
           NEW n1, n1 = Behind(n, w1, Taken(i)), NEW rd1, rd1 = ReadAfter(pe, i, rd)
    PROVE  Holds(pe1.rx.fifo, rd1, n1[0])
<1> DEFINE t == Taken(i)
           q0 == pe.rx.fifo
           f1 == pe1.rx.fifo
           f == Len(q0)
           x == w[1]
           payload == t = 1 /\ x.kind = "payload"
<1>1. /\ Takes(w, w1, t) /\ (t = 1 => Len(w) >= 1) /\ w \in Seq(Dwords) /\ t \in {0, 1}
      /\ Len(w) \in Nat
    <2>1. w \in Seq(Dwords)
        BY DEF Edge
    <2>2. Takes(w, w1, t) /\ (t = 1 => Len(w) >= 1)
        BY EdgeWires
    <2>3. t \in {0, 1} /\ Len(w) \in Nat
        BY <2>2 DEF Takes
    <2> QED BY <2>1, <2>2, <2>3
<1>2. n[0] \in Nat /\ n1[0] \in Nat /\ n[0] <= n1[0]
    BY <1>1, CountsTaken
<1>3. n1[0] = n[0] + (IF payload THEN 1 ELSE 0)
    BY <1>1, CountsTaken
<1>4. payload => x.value = n1[0]
    BY <1>1, CountsTaken
<1>5. RxOK(pe.rx) /\ (pe.rx.initialized => pe.ctl.phase = "normal")
    BY EdgeReset
<1>6. f \in Nat
    BY <1>5, LenProperties DEF RxOK
<1>7. rd \in Nat /\ rd <= n1[0]
    <2>1. PICK m \in 0 .. f : rd <= n[0] - m
        BY DEF Holds
    <2>2. rd \in Nat
        BY DEF Holds
    <2> QED BY <1>2, <1>6, <2>1, <2>2
<1>8. ~Reading(pe, i) => rd1 = rd
    BY DEF ReadAfter
<1>9. CASE InReset(pe, i) \/ ~pe.rx.initialized
    <2>1. f1 = <<>>
        BY <1>9, EdgeStores
    <2>2. Len(f1) = 0
        BY <2>1
    <2>3. ~Reading(pe, i)
        BY <1>9 DEF Reading, Reads, Active
    <2>4. HoldsUpTo(f1, 0, n1[0])
        BY <2>2 DEF HoldsUpTo
    <2>5. 0 \in 0 .. Len(f1) /\ rd <= n1[0] - 0
        BY <1>2, <1>7, <2>2
    <2> QED BY <1>8, <1>7, <2>3, <2>4, <2>5 DEF Holds
<1>10. CASE ~InReset(pe, i) /\ pe.rx.initialized
    <2> DEFINE a == ReadCount(pe, i)
               b == WriteCount(pe, i)
    <2>1. a \in {0, 1} /\ b \in {0, 1} /\ a <= f /\ Len(f1) = f - a + b
        BY <1>10, EdgeStored
    <2>2. \A k \in 1 .. f - a : f1[k] = q0[k + a]
        BY <1>10, EdgeStored
    <2>3. /\ b = 1 <=> t = 1 /\ pe.rx.remaining > 0 /\ ~pe.rx.discard
          /\ b = 1 => f1[f - a + 1] = x
          /\ a = 1 => Head(q0) = q0[1]
          /\ a = 1 <=> Reading(pe, i)
        BY <1>10, EdgeStored
    <2>4. rd1 = IF a = 1 /\ q0[1].kind = "payload" THEN q0[1].value ELSE rd
        BY <2>3 DEF ReadAfter
    <2>5. t = 1 => 1 \in 1 .. Len(w) /\ 1 - 1 = 0
        BY <1>1
    <2>6. /\ p[0] = pe.rx.remaining
          /\ \A k \in 1 .. Len(w) : w[k].kind = "payload" => p[k - 1] > 0
          /\ \A k \in 1 .. Len(w) : p[k - 1] > 0 => w[k].kind \in {"payload", "noop"}
        BY <1>5, <1>10 DEF WireOK, Parses, KindsAgree, OnlyRunOutInside
    <2>7. payload => pe.rx.remaining > 0
        BY <2>5, <2>6
    <2>8. b = 1 => x.kind \in {"payload", "noop"}
        BY <2>3, <2>5, <2>6
    <2>9. CASE pe.rx.discard
        <3>1. q0 = <<>> /\ b = 0
            BY <1>5, <2>1, <2>3, <2>9 DEF RxOK
        <3>2. f = 0
            BY <3>1
        <3>3. a = 0 /\ Len(f1) = 0
            <4> HIDE DEF a, b, f
            <4> QED BY <1>6, <2>1, <3>1, <3>2
        <3>4. HoldsUpTo(f1, 0, n1[0])
            BY <3>3 DEF HoldsUpTo
        <3>5. 0 \in 0 .. Len(f1) /\ rd <= n1[0] - 0 /\ rd1 = rd
            <4>1. rd1 = rd
                BY <2>4, <3>3
            <4> QED BY <1>2, <1>7, <3>3, <4>1
        <3> QED BY <1>7, <3>4, <3>5 DEF Holds
    <2>10. CASE ~pe.rx.discard
        <3> DEFINE pl == IF payload THEN 1 ELSE 0
        <3>1. pl \in {0, 1} /\ (b = 1 /\ pl = 0 => x.kind = "noop")
            BY <2>3, <2>8
        <3>2. pl = 1 => b = 1
            BY <2>3, <2>7, <2>10
        <3>3. pl = 1 => x = Payload(n1[0])
            <4> SUFFICES ASSUME payload PROVE x = Payload(n1[0])
                OBVIOUS
            <4>1. x \in Dwords
                BY <1>1, <2>5, ElementOfSeq
            <4>2. x.value = n1[0] /\ x.kind = "payload"
                BY <1>4
            <4> HIDE DEF x
            <4> QED BY <4>1, <4>2 DEF Dwords, Payload
        <3>4. pl = 1 => ~Has(q0, "noop")
            <4> SUFFICES ASSUME payload PROVE ~Has(q0, "noop")
                OBVIOUS
            <4>1. Has(w, "payload")
                BY <2>5 DEF Has
            <4> QED BY <4>1 DEF RunOutPlace
        <3>5. n1[0] = n[0] + pl
            BY <1>3
        <3>6. Holds(q0, rd, n[0])
            OBVIOUS
        <3> HIDE DEF a, b, pl, q0, f1, x, payload
        <3>7. PICK last : last = n[0]
            OBVIOUS
        <3>8. PICK last1 : last1 = n1[0]
            OBVIOUS
        <3>9. last \in Nat /\ last1 = last + pl /\ Holds(q0, rd, last)
            BY <1>2, <3>5, <3>6, <3>7, <3>8
        <3>10. Shifts(q0, f1, a, b, pl, x)
            BY <1>6, <2>1, <2>2, <2>3, <3>1 DEF Shifts
        <3>11. pl = 1 => b = 1 /\ x = Payload(last1) /\ ~Has(q0, "noop")
            BY <3>2, <3>3, <3>4, <3>8
        <3>12. Holds(f1, rd1, last1)
            <4>1. Delivers(q0, a, pl, b, x, last, last1, rd, rd1)
                BY <2>4, <3>9, <3>11 DEF Delivers
            <4> QED BY <3>10, <4>1, HoldsNext
        <3> QED BY <3>8, <3>12 DEF f1
    <2> QED BY <2>9, <2>10
<1> QED BY <1>9, <1>10

\* The numbers of the words, over an edge of the receiver.
LEMMA NumbersKeptByReceiver ==
    ASSUME NEW pe, NEW w, NEW v, NEW we, NEW i, NEW pe1, NEW w1, NEW v1,
           Edge(pe, w, v, we, i, pe1, w1, v1), ~Rejects(pe, i),
           NEW p, NEW q, WireOK(pe.rx.remaining, w, p, q), OnlyRunOutInside(pe, w, p),
           NEW pf, RunOutPlace(pe, pf, w, p),
           NEW wr, Base(pf, wr) \in Nat,
           NEW rd, Numbers(pe, pf, w, v, rd, wr),
           NEW rd1, rd1 = ReadAfter(pe, i, rd)
    PROVE  Numbers(pe1, pf, w1, v1, rd1, wr)
<1>1. PICK n : NumbersBy(pe, pf, w, v, rd, wr, n)
    BY DEF Numbers
<1> DEFINE t == Taken(i)
           base == Base(pf, wr)
<1>2. Takes(w, w1, t) /\ Len(w1) \in Nat
    BY EdgeWires DEF Takes
<1>3. ASSUME Response(pe, i) PROVE ~Has(w1, "payload")
    <2>1. PICK q1 : q1 = Behind(q, w1, Taken(i))
        OBVIOUS
    <2>2. PICK p1 : p1 = Behind(p, w1, Taken(i))
        OBVIOUS
    <2>3. \A k \in 0 .. Len(w1) : p1[k] = 0
        BY <1>3, <2>1, <2>2, DecodedEndsStream
    <2>4. WireOK(pe1.rx.remaining, w1, p1, q1)
        BY <2>1, <2>2, ReceiverParses
    <2> QED BY <1>2, <2>3, <2>4, NothingExpected
<1>4. /\ Holds(pe.rx.fifo, rd, n[0])
      /\ CountsPayload(w, n)
      /\ n[Len(w)] <= base
      /\ \/ n[Len(w)] = base
         \/ pf.ctl.phase # "normal"
         \/ pe.ctl.phase # "normal" /\ Cleared(pf, v)
    BY <1>1 DEF NumbersBy
<1>5. PICK n1 : n1 = Behind(n, w1, t)
    OBVIOUS
<1>6. CountsPayload(w1, n1)
    BY <1>2, <1>4, <1>5, CountsTaken
<1>7. n1[Len(w1)] = n[Len(w)]
    BY <1>2, <1>4, <1>5, CountsTaken
<1>8. Holds(pe1.rx.fifo, rd1, n1[0])
    BY <1>4, <1>5, HeldKeptByReceiver
<1>9. CASE \/ n[Len(w)] = base
           \/ pf.ctl.phase # "normal"
           \/ pe1.ctl.phase # "normal"
    <2>1. pe1.ctl.phase # "normal" /\ Cleared(pf, v) /\ pe.ctl.phase # "normal" => Cleared(pf, v1)
        BY ClearedBack
    <2>2. NumbersBy(pe1, pf, w1, v1, rd1, wr, n1)
        BY <1>4, <1>6, <1>7, <1>8, <1>9, <2>1 DEF NumbersBy
    <2> QED BY <2>2 DEF Numbers
<1>10. CASE ~(\/ n[Len(w)] = base
             \/ pf.ctl.phase # "normal"
             \/ pe1.ctl.phase # "normal")
    <2>1. pe.ctl.phase = "wait" /\ Response(pe, i)
        BY <1>4, <1>10, EdgePhases
    <2>2. ~Has(w1, "payload")
        BY <1>3, <2>1
    <2>3. pe1.rx.fifo = <<>> /\ InReset(pe, i)
        BY <2>1, EdgeReset
    <2>4. rd1 = rd
        BY <2>3 DEF ReadAfter, Reading, Reads, Active
    <2>5. rd \in Nat /\ rd <= base
        <3>1. n[0] \in Nat /\ n[Len(w)] \in Nat /\ n[0] <= n[Len(w)]
            BY <1>2, <1>4, <1>5, CountsTaken
        <3>2. PICK m \in 0 .. Len(pe.rx.fifo) : rd <= n[0] - m
            BY <1>4 DEF Holds
        <3>3. rd \in Nat
            BY <1>4 DEF Holds
        <3>4. Len(pe.rx.fifo) \in Nat
            BY EdgeReset, LenProperties DEF RxOK
        <3> DEFINE x == n[0]
                   y == n[Len(w)]
        <3>5. x \in Nat /\ y \in Nat /\ x <= y /\ y <= base /\ rd <= x - m
            BY <1>4, <3>1, <3>2
        <3> HIDE DEF x, y, base
        <3> QED BY <3>3, <3>4, <3>5 DEF base
    <2> QED BY <1>2, <2>2, <2>3, <2>4, <2>5, NumbersRestart
<1> QED BY <1>9, <1>10

\* The numbers of the words, over an edge of the sender.
LEMMA NumbersKeptBySender ==
    ASSUME NEW pf, NEW v, NEW w, NEW wr, NEW i, NEW pf1, NEW v1, NEW w1,
           Edge(pf, v, w, wr, i, pf1, v1, w1), NEW pe, RxOK(pe.rx),
           Exchange(pe, pf, w, v), Exchange(pf, pe, v, w),
           NEW p, NEW q, WireOK(pe.rx.remaining, w, p, q),
           RunOutPlace(pe, pf, w, p), Numbered(pf, wr),
           NEW rd, Numbers(pe, pf, w, v, rd, wr),
           NEW wr1, wr1 = WrittenAfter(i, wr)
    PROVE  Numbers(pe, pf1, w1, v1, rd, wr1)
<1>1. PICK n : NumbersBy(pe, pf, w, v, rd, wr, n)
    BY DEF Numbers
<1> DEFINE d == i.sends[1]
           g == Given(i)
           base == Base(pf, wr)
           base1 == Base(pf1, wr1)
           last == n[Len(w)]
<1>2. Grows(w, w1, g, d) /\ Len(w) \in Nat /\ Len(w1) \in Nat
    BY EdgeWires DEF Grows
<1>3. /\ Holds(pe.rx.fifo, rd, n[0])
      /\ CountsPayload(w, n)
      /\ last <= base
      /\ \/ last = base
         \/ pf.ctl.phase # "normal"
         \/ pe.ctl.phase # "normal" /\ Cleared(pf, v)
    BY <1>1 DEF NumbersBy
<1>4. last \in Nat /\ n[0] \in Nat /\ n[0] <= last
    <2>1. Len(w) \in 0 .. Len(w) /\ 0 \in 0 .. Len(w)
        BY <1>2
    <2> QED BY <1>3, <2>1 DEF CountsPayload
<1>5. PortOK(pf) /\ EdgeInput(pf, v, wr, i) /\ pf1 = PortEdge(pf, i)
      /\ (i.word # <<>> => i.word[1] \in Dwords) /\ wr1 = wr + Len(i.fw)
    BY DEF Edge, WordOK, WrittenAfter
<1>6. Numbered(pf1, wr1)
    BY <1>5, NumberedMoves
<1>7. base1 = IF InReset(pf, i) THEN wr1
              ELSE base + (IF SentKind(i, "payload") THEN 1 ELSE 0)
    BY <1>5, NumberedMoves
<1>8. base <= base1
    BY <1>5, NumberedMoves
<1>9. SentKind(i, "payload") /\ ~InReset(pf, i) => Head(pf.src.payload) = base + 1
    BY <1>5, NumberedMoves
<1>10. base \in Nat /\ base1 \in Nat
    BY <1>6 DEF Numbered
<1>11. g = 1 /\ d.kind = "payload" =>
          /\ SentKind(i, "payload") /\ ~InReset(pf, i) /\ pf.ctl.phase = "normal"
          /\ d.value = base + 1 /\ last = base
    <2> SUFFICES ASSUME g = 1, d.kind = "payload"
                 PROVE  /\ SentKind(i, "payload") /\ ~InReset(pf, i) /\ pf.ctl.phase = "normal"
                        /\ d.value = base + 1 /\ last = base
        OBVIOUS
    <2>1. /\ SentKind(i, "payload") /\ ~InReset(pf, i) /\ pf.ctl.phase = "normal"
          /\ d.value = Head(pf.src.payload) /\ pf.src.header_sent
        BY EdgeSends
    <2>2. ~Cleared(pf, v)
        BY <2>1, ResetOwesNothing DEF Cleared
    <2> QED BY <1>3, <1>9, <2>1, <2>2
<1>12. SentKind(i, "payload") => g = 1 /\ d.kind = "payload"
    BY EdgeWires DEF SentKind
<1>13. PICK n1 : n1 = NumberBeyond(n, w, w1, d)
    OBVIOUS
<1>14. g = 1 /\ d.kind = "payload" => d.value = last + 1
    BY <1>11
<1>15. CountsPayload(w1, n1)
    BY <1>2, <1>3, <1>13, <1>14, CountsGrown
<1>16. n1[Len(w1)] = last + (IF g = 1 /\ d.kind = "payload" THEN 1 ELSE 0)
    BY <1>2, <1>3, <1>13, <1>14, CountsGrown
<1>17. n1[0] = n[0]
    BY <1>2, <1>3, <1>13, <1>14, CountsGrown
<1>18. n1[Len(w1)] <= base1
    <2>1. CASE g = 1 /\ d.kind = "payload"
        <3>1. n1[Len(w1)] = base + 1 /\ base1 = base + 1
            BY <1>7, <1>11, <1>16, <2>1
        <3> QED BY <1>10, <3>1
    <2>2. CASE ~(g = 1 /\ d.kind = "payload")
        <3>1. n1[Len(w1)] = last
            BY <1>4, <1>16, <2>2
        <3> HIDE DEF last, base, base1
        <3> QED BY <1>3, <1>4, <1>8, <1>10, <3>1
    <2> QED BY <2>1, <2>2
<1>19. CASE pf1.ctl.phase = "normal" /\ pf.ctl.phase # "normal"
    <2>1. pf.ctl.phase = "wait" /\ Response(pf, i)
        BY <1>19, EdgePhases
    <2>2. Has(v, "response")
        BY <2>1, EventIsHead
    <2>3. ~Has(w, "request")
        BY <2>2 DEF Exchange
    <2>4. Flushed(pe, w, p)
        BY <2>1, <2>3 DEF RunOutPlace
    <2>5. pe.rx.fifo = <<>> /\ ~Has(w, "payload")
        BY <2>4 DEF Flushed, Has, Stream
    <2>6. ~Has(w1, "payload")
        BY <1>2, <1>11, <1>19, <2>5, HasGrows
    <2>7. rd \in Nat /\ rd <= base1
        <3>1. PICK m \in 0 .. Len(pe.rx.fifo) : rd <= n[0] - m
            BY <1>3 DEF Holds
        <3>2. rd \in Nat /\ m \in Nat
            <4>1. Len(pe.rx.fifo) \in Nat
                BY LenProperties DEF RxOK
            <4>2. rd \in Nat
                BY <1>3 DEF Holds
            <4> QED BY <4>1, <4>2
        <3> DEFINE x == n[0]
        <3>3. x \in Nat /\ last \in Nat /\ x <= last /\ last <= base /\ rd <= x - m
            BY <1>3, <1>4, <3>1
        <3> HIDE DEF x, last, base, base1
        <3> QED BY <1>8, <1>10, <3>2, <3>3
    <2> QED BY <1>2, <1>10, <2>5, <2>6, <2>7, NumbersRestart
<1>20. CASE ~(pf1.ctl.phase = "normal" /\ pf.ctl.phase # "normal")
    <2>1. \/ n1[Len(w1)] = base1
          \/ pf1.ctl.phase # "normal"
          \/ pe.ctl.phase # "normal" /\ Cleared(pf1, v1)
        <3> SUFFICES ASSUME pf1.ctl.phase = "normal"
                     PROVE  \/ n1[Len(w1)] = base1
                            \/ pe.ctl.phase # "normal" /\ Cleared(pf1, v1)
            OBVIOUS
        <3>1. pf.ctl.phase = "normal" /\ ~Start(pf, i)
            BY <1>20, EdgePhases
        <3>2. CASE InReset(pf, i)
            <4>1. Request(pf, i) \/ pf.ctl.responses > 0
                BY <3>1, <3>2, EdgeReset
            <4> QED BY <4>1, RequestedIsCleared
        <3>3. CASE ~InReset(pf, i) /\ last = base
            <4>1. base1 = base + (IF SentKind(i, "payload") THEN 1 ELSE 0)
                BY <1>7, <3>3
            <4>2. SentKind(i, "payload") <=> g = 1 /\ d.kind = "payload"
                BY <1>11, <1>12
            <4> QED BY <1>16, <3>3, <4>1, <4>2
        <3>4. CASE pe.ctl.phase # "normal" /\ Cleared(pf, v)
            BY <3>4, ClearedStays
        <3> QED BY <1>3, <3>1, <3>2, <3>3, <3>4
    <2>2. NumbersBy(pe, pf1, w1, v1, rd, wr1, n1)
        <3>1. Holds(pe.rx.fifo, rd, n1[0])
            BY <1>3, <1>17
        <3> QED BY <1>15, <1>18, <2>1, <3>1 DEF NumbersBy
    <2> QED BY <2>2 DEF Numbers
<1> QED BY <1>19, <1>20
-----------------------------------------------------------------------------
(* One direction of the stream: w is the wire from its sender pf to its       *)
(* receiver pe, v the wire back; rd is what the receiver's firmware has read  *)
(* and wr what the sender's has written.                                      *)

DirectionBy(pe, pf, w, v, rd, wr, p, q) ==
    /\ Exchange(pe, pf, w, v)
    /\ WireOK(pe.rx.remaining, w, p, q)
    /\ Excess(pe, pf, v, p[Len(w)])
    /\ OnlyRunOutInside(pe, w, p)
    /\ RunOutPlace(pe, pf, w, p)
    /\ FreshCredits(pe, v)
    /\ Conserved(pe, pf, w, v, q)
    /\ Reserved(pe, w, p, q)
    /\ Numbers(pe, pf, w, v, rd, wr)

Direction(pe, pf, w, v, rd, wr) ==
    \E p, q : DirectionBy(pe, pf, w, v, rd, wr, p, q)

\* What an edge gets is what the invariant says of the wire.
LEMMA EdgeHolds ==
    ASSUME NEW pe, NEW w, NEW v, NEW we, NEW i, NEW pf, NEW rd, NEW wr,
           PortOK(pe), EdgeInput(pe, w, we, i), we \in Nat,
           w \in Seq(Dwords), v \in Seq(Dwords),
           Direction(pe, pf, w, v, rd, wr), Exchange(pf, pe, v, w),
           NEW pe1, pe1 = PortEdge(pe, i),
           NEW w1, w1 = IF i.word = <<>> THEN w ELSE Tail(w), NEW v1, v1 = v \o i.sends
    PROVE  Edge(pe, w, v, we, i, pe1, w1, v1)
<1>1. ASSUME i.word # <<>>
      PROVE  /\ i.word = <<w[1]>> /\ i.word[1] = w[1] /\ 1 \in 1 .. Len(w)
             /\ w[1] \in Dwords
    <2>1. w # <<>> /\ i.word = <<Head(w)>>
        BY <1>1 DEF EdgeInput
    <2>2. Head(w) = w[1] /\ Len(w) >= 1 /\ Len(w) \in Nat
        BY <2>1, HeadTailProperties, LenProperties, EmptySeq
    <2>3. 1 \in 1 .. Len(w)
        BY <2>2
    <2> QED BY <2>1, <2>2, <2>3, ElementOfSeq
<1>2. WordOK(i)
    <2> SUFFICES ASSUME i.word # <<>>, i.word[1].kind = "header"
                 PROVE  i.word[1].value \in 1 .. MaxPayload
        BY <1>1 DEF WordOK
    <2> QED BY <1>1 DEF Direction, DirectionBy, WireOK, KindsAgree
<1>3. Request(pe, i) => pe.ctl.responses = 0
    <2> SUFFICES ASSUME Request(pe, i) PROVE pe.ctl.responses = 0
        OBVIOUS
    <2>1. i.word # <<>> /\ i.word[1].kind = "request"
        BY DEF Request, AtBoundary
    <2>2. Has(w, "request")
        BY <1>1, <2>1 DEF Has
    <2>3. ~(pe.ctl.responses > 0) /\ pe.ctl.responses \in Nat
        BY <2>2, ResetAssumption DEF Exchange, PortOK, CtlOK, CtlState
    <2> QED BY <2>3
<1> QED BY <1>2, <1>3 DEF Edge

\* One direction, over an edge of its receiver.
LEMMA ReceiverMoves ==
    ASSUME NEW pe, NEW w, NEW v, NEW we, NEW i, NEW pe1, NEW w1, NEW v1,
           Edge(pe, w, v, we, i, pe1, w1, v1), NEW pf, PortOK(pf),
           NEW wr, Numbered(pf, wr), NEW rd, Direction(pe, pf, w, v, rd, wr),
           Exchange(pf, pe, v, w), i.timeout => ~UnderWay(pf, w, v),
           NEW rd1, rd1 = ReadAfter(pe, i, rd)
    PROVE  Direction(pe1, pf, w1, v1, rd1, wr) /\ ~Rejects(pe, i)
<1>1. PICK p, q : DirectionBy(pe, pf, w, v, rd, wr, p, q)
    BY DEF Direction
<1>2. /\ Exchange(pe, pf, w, v) /\ WireOK(pe.rx.remaining, w, p, q)
      /\ Excess(pe, pf, v, p[Len(w)]) /\ OnlyRunOutInside(pe, w, p)
      /\ RunOutPlace(pe, pf, w, p) /\ FreshCredits(pe, v)
      /\ Conserved(pe, pf, w, v, q) /\ Reserved(pe, w, p, q)
      /\ Numbers(pe, pf, w, v, rd, wr)
    BY <1>1 DEF DirectionBy
<1>3. SrcOK(pf.src) /\ Base(pf, wr) \in Nat
    BY DEF PortOK, Numbered
<1>4. ~Rejects(pe, i)
    BY <1>2, NotRejected
<1>5. Numbers(pe1, pf, w1, v1, rd1, wr)
    BY <1>2, <1>3, <1>4, NumbersKeptByReceiver
<1>6. PICK p1 : p1 = Behind(p, w1, Taken(i))
    OBVIOUS
<1>7. PICK q1 : q1 = Behind(q, w1, Taken(i))
    OBVIOUS
<1>8. Exchange(pe1, pf, w1, v1)
    BY <1>2, ExchangeKeptByOwner
<1>9. WireOK(pe1.rx.remaining, w1, p1, q1)
    BY <1>2, <1>6, <1>7, ReceiverParses
<1>10. p1[Len(w1)] = p[Len(w)]
    BY <1>2, <1>6, <1>7, ReceiverParses
<1>11. Excess(pe1, pf, v1, p1[Len(w1)])
    <2>1. Excess(pe1, pf, v1, p[Len(w)])
        BY <1>2, ExcessKeptByReceiver
    <2> QED BY <1>10, <2>1
<1>12. OnlyRunOutInside(pe1, w1, p1)
    BY <1>2, <1>6, InsideKeptByReceiver
<1>13. RunOutPlace(pe1, pf, w1, p1)
    BY <1>2, <1>6, RunOutKeptByReceiver
<1>14. FreshCredits(pe1, v1)
    BY <1>2, FreshKeptByReceiver
<1>15. Conserved(pe1, pf, w1, v1, q1)
    BY <1>2, <1>3, <1>6, <1>7, ConservedKeptByReceiver
<1>16. Reserved(pe1, w1, p1, q1)
    BY <1>2, <1>6, <1>7, ReservedKeptByReceiver
<1>17. DirectionBy(pe1, pf, w1, v1, rd1, wr, p1, q1)
    BY <1>8, <1>9, <1>11, <1>12, <1>13, <1>14, <1>15, <1>16, <1>5 DEF DirectionBy
<1> QED BY <1>4, <1>17 DEF Direction

\* One direction, over an edge of its sender.
LEMMA SenderMoves ==
    ASSUME NEW pf, NEW v, NEW w, NEW wr, NEW i, NEW pf1, NEW v1, NEW w1,
           Edge(pf, v, w, wr, i, pf1, v1, w1), NEW pe, PortOK(pe),
           Numbered(pf, wr), NEW rd, Direction(pe, pf, w, v, rd, wr),
           Exchange(pf, pe, v, w), NEW wr1, wr1 = WrittenAfter(i, wr)
    PROVE  Direction(pe, pf1, w1, v1, rd, wr1)
<1>1. PICK p, q : DirectionBy(pe, pf, w, v, rd, wr, p, q)
    BY DEF Direction
<1>2. /\ Exchange(pe, pf, w, v) /\ WireOK(pe.rx.remaining, w, p, q)
      /\ Excess(pe, pf, v, p[Len(w)]) /\ OnlyRunOutInside(pe, w, p)
      /\ RunOutPlace(pe, pf, w, p) /\ FreshCredits(pe, v)
      /\ Conserved(pe, pf, w, v, q) /\ Reserved(pe, w, p, q)
      /\ Numbers(pe, pf, w, v, rd, wr)
    BY <1>1 DEF DirectionBy
<1>3. RxOK(pe.rx)
    BY DEF PortOK
<1>4. Numbers(pe, pf1, w1, v1, rd, wr1)
    BY <1>2, <1>3, NumbersKeptBySender
<1>5. PICK p1 : p1 = ParseBeyond(p, w, w1, i.sends[1])
    OBVIOUS
<1>6. PICK q1 : q1 = CountBeyond(q, w, w1, TakenAsPayload(p, w, Given(i)))
    OBVIOUS
<1>7. Exchange(pe, pf1, w1, v1)
    BY <1>2, ExchangeKeptByPeer
<1>8. WireOK(pe.rx.remaining, w1, p1, q1)
    BY <1>2, <1>5, <1>6, SenderParses
<1>9. p1[Len(w1)] = IF Given(i) = 1 THEN RemAfter(p[Len(w)], i.sends[1]) ELSE p[Len(w)]
    BY <1>2, <1>5, <1>6, SenderParses
<1>10. \A k \in 0 .. Len(w) : p1[k] = p[k]
    BY <1>2, <1>5, <1>6, SenderParses
<1>11. p[Len(w)] \in 0 .. MaxPayload
    BY <1>2, <1>5, <1>6, SenderParses
<1>12. Excess(pe, pf1, v1, p1[Len(w1)])
    <2>1. PICK last : last = p[Len(w)]
        OBVIOUS
    <2>2. PICK last1 : last1 = p1[Len(w1)]
        OBVIOUS
    <2>3. /\ last \in 0 .. MaxPayload /\ Excess(pe, pf, v, last)
          /\ last1 = IF Given(i) = 1 THEN RemAfter(last, i.sends[1]) ELSE last
        BY <1>2, <1>9, <1>11, <2>1, <2>2
    <2>4. Excess(pe, pf1, v1, last1)
        BY <1>2, <2>3, ExcessKeptBySender
    <2> QED BY <2>2, <2>4
<1>13. OnlyRunOutInside(pe, w1, p1)
    BY <1>2, <1>10, <1>11, InsideKeptBySender
<1>14. RunOutPlace(pe, pf1, w1, p1)
    BY <1>2, <1>5, RunOutKeptBySender
<1>15. FreshCredits(pe, v1)
    <2>1. Takes(v, v1, Taken(i))
        BY EdgeWires
    <2> QED BY <1>2, <2>1, FreshKeptBySender
<1>16. Conserved(pe, pf1, w1, v1, q1)
    BY <1>2, <1>3, <1>6, ConservedKeptBySender
<1>17. Reserved(pe, w1, p1, q1)
    BY <1>2, <1>3, <1>5, <1>6, ReservedKeptBySender
<1>18. DirectionBy(pe, pf1, w1, v1, rd, wr1, p1, q1)
    BY <1>7, <1>8, <1>12, <1>13, <1>14, <1>15, <1>16, <1>17, <1>4 DEF DirectionBy
<1> QED BY <1>18 DEF Direction

\* Where nothing has been sent.
LEMMA DirectionStarts ==
    /\ PortOK(PortReset) /\ Numbered(PortReset, 0)
    /\ Direction(PortReset, PortReset, <<>>, <<>>, 0, 0)
<1> DEFINE z == [k \in 0 .. 0 |-> 0]
           p == PortReset
           e == <<>>
<1>1. /\ p.ctl = CtlReset /\ p.src = SrcReset /\ p.txq = <<>> /\ p.rx = RxPathReset
      /\ p.ctl.phase = "normal" /\ p.ctl.responses = 0 /\ p.ctl.noops = 0 /\ ~p.ctl.fault
      /\ p.rx.remaining = 0 /\ ~p.rx.discard /\ ~p.rx.initialized /\ p.rx.fifo = <<>>
      /\ p.rx.counter = 0
    BY DEF PortReset, CtlReset, RxPathReset
<1>2. Len(e) = 0 /\ \A k \in 1 .. Len(e) : FALSE
    OBVIOUS
<1>3. z[0] = 0 /\ z \in [0 .. 0 -> Nat]
    OBVIOUS
<1>4. \A kind : ~Has(e, kind)
    BY <1>2 DEF Has
<1>5. MaxPayload \in Nat /\ TxDepth \in Nat /\ RxDepth \in Nat /\ RunOut \in Nat
      /\ ResponseDepth \in Nat
    BY StreamAssumption, TxDepthAssumption, RxPathAssumption, ResetAssumption
<1>6. <<>> \in Seq(Nat) /\ <<>> \in Seq(Dwords) /\ Len(<<>>) = 0
    BY EmptySeq
<1>7. PortOK(p)
    <2>1. CtlOK(p.ctl)
        BY <1>1, <1>5 DEF CtlOK, CtlReset, CtlState
    <2>2. SrcOK(p.src)
        BY <1>1, <1>5, <1>6 DEF SrcOK, SrcReset
    <2>3. RxOK(p.rx)
        BY <1>1, <1>5, <1>6 DEF RxOK, RxPathReset
    <2>4. Len(p.txq) + Len(p.src.payload) <= TxDepth /\ p.txq \in Seq(Nat)
        BY <1>1, <1>5, <1>6 DEF SrcReset
    <2> HIDE DEF p
    <2> QED BY <1>1, <2>1, <2>2, <2>3, <2>4 DEF PortOK
<1>8. Unsent(p) = <<>> /\ Base(p, 0) = 0 /\ Len(Unsent(p)) = 0
    <2>1. p.src.payload = <<>>
        BY <1>1 DEF SrcReset
    <2>2. Unsent(p) = <<>>
        BY <1>1, <2>1, EmptySeq, ConcatEmptySeq DEF Unsent
    <2>3. Len(Unsent(p)) = 0
        BY <2>2
    <2>4. Base(p, 0) = 0 - Len(Unsent(p))
        BY DEF Base
    <2> HIDE DEF p
    <2> QED BY <2>2, <2>3, <2>4
<1>9. Numbered(p, 0)
    BY <1>6, <1>8 DEF Numbered
<1>10. Cleared(p, e)
    BY <1>1, <1>4 DEF Cleared
<1>11. Owed(p.src) = 0
    BY <1>1, ResetOwesNothing
<1> HIDE DEF p, e, z
<1>12. Exchange(p, p, e, e)
    BY <1>1, <1>2, <1>4 DEF Exchange, UnderWay, AtMostOne, NeverBehind
<1>13. WireOK(p.rx.remaining, e, z, z)
    <2>1. Parses(p.rx.remaining, e, z)
        BY <1>1, <1>2, <1>3, <1>5 DEF Parses, z
    <2>2. KindsAgree(e, z) /\ BoundaryLasts(e, z)
        BY <1>2 DEF KindsAgree, BoundaryLasts
    <2>3. \A k \in 0 .. Len(e) : k = 0
        BY <1>2
    <2>4. Counts(e, z, z)
        BY <1>2, <1>3, <2>3 DEF Counts
    <2> QED BY <2>1, <2>2, <2>4 DEF WireOK
<1>14. Excess(p, p, e, z[Len(e)])
    BY <1>1, <1>2, <1>3, <1>11 DEF Excess
<1>15. OnlyRunOutInside(p, e, z)
    BY <1>2 DEF OnlyRunOutInside
<1>16. RunOutPlace(p, p, e, z)
    <2>1. ~Has(p.rx.fifo, "noop")
        BY <1>1, <1>4 DEF e
    <2> QED BY <1>1, <1>2, <1>4, <2>1 DEF RunOutPlace, NeverBehind
<1>17. FreshCredits(p, e)
    BY <1>2 DEF FreshCredits
<1>18. Conserved(p, p, e, e, z)
    BY <1>1, <1>3, <1>4, <1>10 DEF Conserved
<1>19. Reserved(p, e, z, z)
    BY <1>1, <1>2, <1>3, <1>5, <1>6 DEF Reserved
<1>20. Numbers(p, p, e, e, 0, 0)
    <2>1. HoldsUpTo(p.rx.fifo, 0, 0) /\ 0 \in 0 .. Len(p.rx.fifo)
        BY <1>1, <1>6 DEF HoldsUpTo
    <2>2. Holds(p.rx.fifo, 0, z[0])
        BY <1>3, <2>1 DEF Holds
    <2>3. \A k \in 0 .. Len(e) : k = 0
        BY <1>2
    <2>4. CountsPayload(e, z)
        BY <1>2, <1>3, <2>3 DEF CountsPayload
    <2>5. NumbersBy(p, p, e, e, 0, 0, z)
        BY <1>2, <1>3, <1>8, <2>2, <2>4 DEF NumbersBy
    <2> QED BY <2>5 DEF Numbers
<1>21. DirectionBy(p, p, e, e, 0, 0, z, z)
    BY <1>12, <1>13, <1>14, <1>15, <1>16, <1>17, <1>18, <1>19, <1>20 DEF DirectionBy
<1> QED BY <1>7, <1>9, <1>21 DEF Direction, p, e
-----------------------------------------------------------------------------
(* Both directions.                                                           *)

Ends(pe, pf, w, v, rde, rdf, we, wf) ==
    /\ PortOK(pe) /\ PortOK(pf)
    /\ w \in Seq(Dwords) /\ v \in Seq(Dwords)
    /\ Numbered(pe, we) /\ Numbered(pf, wf)
    /\ Direction(pe, pf, w, v, rde, wf)
    /\ Direction(pf, pe, v, w, rdf, we)

\* Both directions, over an edge of one end.
LEMMA EdgeKeepsEnds ==
    ASSUME NEW pe, NEW pf, NEW w, NEW v, NEW rde, NEW rdf, NEW we, NEW wf,
           Ends(pe, pf, w, v, rde, rdf, we, wf),
           NEW i, EdgeInput(pe, w, we, i), i.timeout => ~UnderWay(pf, w, v),
           NEW pe1, pe1 = PortEdge(pe, i),
           NEW w1, w1 = IF i.word = <<>> THEN w ELSE Tail(w), NEW v1, v1 = v \o i.sends,
           NEW rd1, rd1 = ReadAfter(pe, i, rde), NEW we1, we1 = WrittenAfter(i, we)
    PROVE  Ends(pe1, pf, w1, v1, rd1, rdf, we1, wf)
<1>1. /\ PortOK(pe) /\ PortOK(pf) /\ w \in Seq(Dwords) /\ v \in Seq(Dwords)
      /\ Numbered(pe, we) /\ Numbered(pf, wf)
      /\ Direction(pe, pf, w, v, rde, wf) /\ Direction(pf, pe, v, w, rdf, we)
    BY DEF Ends
<1>2. Exchange(pe, pf, w, v)
    BY <1>1 DEF Direction, DirectionBy
<1>3. Exchange(pf, pe, v, w)
    BY <1>1 DEF Direction, DirectionBy
<1>4. we \in Nat
    BY <1>1 DEF Numbered
<1>5. Edge(pe, w, v, we, i, pe1, w1, v1)
    BY <1>1, <1>3, <1>4, EdgeHolds
<1>6. Direction(pe1, pf, w1, v1, rd1, wf)
    BY <1>1, <1>3, <1>5, ReceiverMoves
<1>7. ~Rejects(pe, i)
    BY <1>1, <1>3, <1>5, ReceiverMoves
<1>8. Direction(pf, pe1, v1, w1, rdf, we1)
    BY <1>1, <1>2, <1>5, SenderMoves
<1>9. /\ WordOK(i) /\ (Request(pe, i) => pe.ctl.responses = 0)
      /\ (i.word # <<>> => i.word[1] \in Dwords)
    BY <1>5 DEF Edge, WordOK
<1>10. PortOK(pe1)
    BY <1>1, <1>4, <1>7, <1>9, PortKept
<1>11. Numbered(pe1, we1)
    <2>1. we1 = we + Len(i.fw)
        BY DEF WrittenAfter
    <2> QED BY <1>1, <1>9, <2>1, NumberedMoves
<1>12. w1 \in Seq(Dwords) /\ v1 \in Seq(Dwords)
    BY <1>5, EdgeWires
<1> QED BY <1>1, <1>6, <1>8, <1>10, <1>11, <1>12 DEF Ends

\* The peer is the other one of two ends.
LEMMA PeerIsOther ==
    ASSUME NEW e \in End
    PROVE  /\ Peer(e) \in End /\ Peer(e) # e /\ Peer(Peer(e)) = e
           /\ End = {e, Peer(e)}
<1>1. PICK f \in End \ {e} : End = {e, f}
    BY PeersAssumption
<1>2. Peer(e) \in End /\ Peer(e) # e
    BY <1>1 DEF Peer
<1>3. Peer(e) = f
    BY <1>1, <1>2
<1>4. Peer(f) \in End /\ Peer(f) # f
    BY <1>1 DEF Peer
<1> QED BY <1>1, <1>2, <1>3, <1>4

PeersInv ==
    /\ DOMAIN port = End /\ DOMAIN wire = End
    /\ written \in [End -> Nat] /\ read \in [End -> Nat]
    /\ \A e \in End :
          /\ Len(wire[e]) <= WireDepth
          /\ Ends(port[e], port[Peer(e)], wire[e], wire[Peer(e)],
                  read[e], read[Peer(e)], written[e], written[Peer(e)])

\* Positions of a wire are those up to its length.
LEMMA OnWireIsHas ==
    ASSUME NEW e, wire[e] \in Seq(Dwords), NEW kind
    PROVE  OnWire(e, kind) <=> Has(wire[e], kind)
<1>1. DOMAIN wire[e] = 1 .. Len(wire[e])
    BY LenProperties
<1> QED BY <1>1 DEF OnWire, Has

\* The inputs of a step are inputs of the port.
LEMMA InputsAre ==
    ASSUME NEW e \in End, NEW i \in Inputs(e)
    PROVE  /\ EdgeInput(port[e], wire[e], written[e], i)
           /\ i.timeout => ~ExchangeUnderWay(e)
           /\ i.sends = <<>>
           /\ i \in [word : {<<>>, Arriving(e)}, local : BOOLEAN, timeout : BOOLEAN,
                     fw : {<<>>, <<written[e] + 1>>}, load : BOOLEAN, ready : BOOLEAN,
                     sends : {<<>>}]
<1>1. \A c : Possibly(c) \subseteq BOOLEAN
    BY DEF Possibly
<1>2. Optional(IF written[e] < Words[e] THEN {written[e] + 1} ELSE {})
      \subseteq {<<>>, <<written[e] + 1>>}
    <2> DEFINE x == written[e] + 1
               c == written[e] < Words[e]
    <2> HIDE DEF x, c
    <2>1. Optional(IF c THEN {x} ELSE {}) \subseteq {<<>>, <<x>>}
        BY DEF Optional
    <2> QED BY <2>1 DEF x, c
<1> DEFINE FW == Optional(IF written[e] < Words[e] THEN {written[e] + 1} ELSE {})
           LO == Possibly(resets[e] < Resets[e])
           TI == Possibly(port[e].ctl.phase = "wait" /\ ~ExchangeUnderWay(e))
           LD == Possibly(SrcLoads(port[e].src))
           RE == Possibly(port[e].rx.fifo # <<>>)
<1>3. /\ i \in [word : {<<>>, Arriving(e)}, local : LO, timeout : TI, fw : FW, load : LD,
                ready : RE, sends : {<<>>}]
      /\ i.fw # <<>> => FwAccepts(port[e], i)
    BY DEF Inputs
<1>4. LO \subseteq BOOLEAN /\ TI \subseteq BOOLEAN /\ LD \subseteq BOOLEAN /\ RE \subseteq BOOLEAN
    BY <1>1
<1>5. TRUE \in TI => ~ExchangeUnderWay(e)
    BY DEF Possibly
<1> HIDE DEF FW, LO, TI, LD, RE
<1>6. FW \subseteq {<<>>, <<written[e] + 1>>}
    BY <1>2 DEF FW
<1>7. /\ i.word \in {<<>>, Arriving(e)} /\ i.local \in LO /\ i.timeout \in TI /\ i.fw \in FW
      /\ i.load \in LD /\ i.ready \in RE /\ i.sends \in {<<>>}
    BY <1>3
<1>8. i \in [word : {<<>>, Arriving(e)}, local : BOOLEAN, timeout : BOOLEAN,
             fw : {<<>>, <<written[e] + 1>>}, load : BOOLEAN, ready : BOOLEAN,
             sends : {<<>>}]
    BY <1>3, <1>4, <1>6
<1>9. i.timeout => ~ExchangeUnderWay(e)
    BY <1>4, <1>5, <1>7
<1>10. EdgeInput(port[e], wire[e], written[e], i)
    <2>1. i.word = <<>> \/ (wire[e] # <<>> /\ i.word = <<Head(wire[e])>>)
        BY <1>7 DEF Arriving
    <2>2. {i.local, i.timeout, i.load, i.ready} \subseteq BOOLEAN
        BY <1>4, <1>7
    <2>3. i.fw = <<>> \/ (i.fw = <<written[e] + 1>> /\ FwAccepts(port[e], i))
        BY <1>3, <1>6, <1>7
    <2> QED BY <1>7, <2>1, <2>2, <2>3 DEF EdgeInput
<1> QED BY <1>7, <1>8, <1>9, <1>10

\* What the arbiter sends does not change what it could have sent.
LEMMA SendsAreOffers ==
    ASSUME NEW e \in End, NEW i \in Inputs(e), NEW d \in Offers(port[e], i),
           NEW j, j = [i EXCEPT !.sends = <<d>>]
    PROVE  /\ EdgeInput(port[e], wire[e], written[e], j)
           /\ j.timeout => ~ExchangeUnderWay(e)
           /\ j.sends = <<d>>
<1>1. /\ EdgeInput(port[e], wire[e], written[e], i)
      /\ i.timeout => ~ExchangeUnderWay(e)
      /\ i \in [word : {<<>>, Arriving(e)}, local : BOOLEAN, timeout : BOOLEAN,
                fw : {<<>>, <<written[e] + 1>>}, load : BOOLEAN, ready : BOOLEAN,
                sends : {<<>>}]
    BY InputsAre
<1>2. /\ j.word = i.word /\ j.local = i.local /\ j.timeout = i.timeout /\ j.fw = i.fw
      /\ j.load = i.load /\ j.ready = i.ready /\ j.sends = <<d>>
    BY <1>1
<1>3. CtlInputs(port[e], j) = CtlInputs(port[e], i)
    BY <1>2 DEF CtlInputs
<1>4. InReset(port[e], j) = InReset(port[e], i) /\ Blocked(port[e], j) = Blocked(port[e], i)
    BY <1>3 DEF InReset, Blocked
<1>5. Offers(port[e], j) = Offers(port[e], i)
    BY <1>3, <1>4 DEF Offers, Locked
<1>6. FwAccepts(port[e], i) => FwAccepts(port[e], j)
    BY <1>4 DEF FwAccepts
<1> QED BY <1>1, <1>2, <1>5, <1>6 DEF EdgeInput
-----------------------------------------------------------------------------
(* The invariant holds of the whole specification.                           *)

\* One edge of one end.
LEMMA StepKeepsPeersInv ==
    ASSUME PeersInv, NEW e \in End, NEW i, EdgeInput(port[e], wire[e], written[e], i),
           i.timeout => ~ExchangeUnderWay(e), Step(e, i),
           i.sends # <<>> => Len(wire[Peer(e)]) < WireDepth
    PROVE  PeersInv'
<1> DEFINE f == Peer(e)
<1>1. f \in End /\ f # e /\ Peer(f) = e /\ End = {e, f}
    BY PeerIsOther
<1>2. /\ DOMAIN port = End /\ DOMAIN wire = End
      /\ written \in [End -> Nat] /\ read \in [End -> Nat]
      /\ Len(wire[e]) <= WireDepth /\ Len(wire[f]) <= WireDepth
      /\ Ends(port[e], port[f], wire[e], wire[f], read[e], read[f], written[e], written[f])
    BY <1>1 DEF PeersInv
<1>3. /\ wire[e] \in Seq(Dwords) /\ wire[f] \in Seq(Dwords)
      /\ written[e] \in Nat
    BY <1>1, <1>2 DEF Ends
<1>4. /\ port' = [port EXCEPT ![e] = PortEdge(port[e], i)]
      /\ wire' = [wire EXCEPT ![e] = IF i.word = <<>> THEN wire[e] ELSE Tail(wire[e]),
                              ![f] = wire[f] \o i.sends]
      /\ written' = [written EXCEPT ![e] = written[e] + Len(i.fw)]
      /\ read' = [read EXCEPT ![e] = ReadAfter(port[e], i, read[e])]
    BY <1>1, <1>2 DEF Step, ReadAfter, Reading
<1> HIDE DEF f
<1>5. /\ DOMAIN port' = End /\ DOMAIN wire' = End
      /\ port'[e] = PortEdge(port[e], i) /\ port'[f] = port[f]
      /\ wire'[e] = IF i.word = <<>> THEN wire[e] ELSE Tail(wire[e])
      /\ wire'[f] = wire[f] \o i.sends
      /\ written'[e] = WrittenAfter(i, written[e]) /\ written'[f] = written[f]
      /\ read'[e] = ReadAfter(port[e], i, read[e]) /\ read'[f] = read[f]
      /\ DOMAIN written' = End /\ DOMAIN read' = End
    BY <1>1, <1>2, <1>4 DEF WrittenAfter
<1>6. i.timeout => ~UnderWay(port[f], wire[e], wire[f])
    BY <1>1, <1>3, OnWireIsHas DEF ExchangeUnderWay, UnderWay, f
<1>7. Ends(port'[e], port[f], wire'[e], wire'[f], read'[e], read[f],
           written'[e], written[f])
    <2>1. PICK pe, pf, w, v, rde, rdf, we, wf :
              /\ pe = port[e] /\ pf = port[f] /\ w = wire[e] /\ v = wire[f]
              /\ rde = read[e] /\ rdf = read[f] /\ we = written[e] /\ wf = written[f]
        OBVIOUS
    <2>2. /\ Ends(pe, pf, w, v, rde, rdf, we, wf) /\ EdgeInput(pe, w, we, i)
          /\ i.timeout => ~UnderWay(pf, w, v)
        BY <1>2, <1>6, <2>1
    <2>3. PICK pe1 : pe1 = PortEdge(pe, i)
        OBVIOUS
    <2>4. PICK w1 : w1 = IF i.word = <<>> THEN w ELSE Tail(w)
        OBVIOUS
    <2>5. PICK v1 : v1 = v \o i.sends
        OBVIOUS
    <2>6. PICK rd1 : rd1 = ReadAfter(pe, i, rde)
        OBVIOUS
    <2>7. PICK we1 : we1 = WrittenAfter(i, we)
        OBVIOUS
    <2>8. Ends(pe1, pf, w1, v1, rd1, rdf, we1, wf)
        BY <2>2, <2>3, <2>4, <2>5, <2>6, <2>7, EdgeKeepsEnds
    <2> QED BY <1>5, <2>1, <2>3, <2>4, <2>5, <2>6, <2>7, <2>8
<1>8. Ends(port'[e], port'[f], wire'[e], wire'[f], read'[e], read'[f],
           written'[e], written'[f])
    BY <1>5, <1>7
<1>9. Ends(port'[f], port'[e], wire'[f], wire'[e], read'[f], read'[e],
           written'[f], written'[e])
    BY <1>8 DEF Ends
<1>10. /\ written'[e] \in Nat /\ written'[f] \in Nat
       /\ read'[e] \in Nat /\ read'[f] \in Nat
    BY <1>8 DEF Ends, Numbered, Direction, DirectionBy, Numbers, NumbersBy, Holds
<1>11. written' \in [End -> Nat] /\ read' \in [End -> Nat]
    <2>1. written' = [x \in End |-> written'[x]] /\ read' = [x \in End |-> read'[x]]
        BY <1>4, <1>2
    <2>2. \A x \in End : written'[x] \in Nat /\ read'[x] \in Nat
        BY <1>1, <1>10
    <2> QED BY <2>1, <2>2
<1>12. Len(wire'[e]) <= WireDepth
    <2>1. CASE i.word = <<>>
        BY <1>2, <1>5, <2>1
    <2>2. CASE i.word # <<>>
        <3>1. wire[e] # <<>>
            BY <2>2 DEF EdgeInput
        <3>2. Len(wire[e]) \in Nat /\ Len(Tail(wire[e])) = Len(wire[e]) - 1
            BY <1>3, <3>1, HeadTailProperties, LenProperties
        <3>3. WireDepth \in Nat
            BY PeersAssumption
        <3> QED BY <1>2, <1>5, <2>2, <3>2, <3>3
    <2> QED BY <2>1, <2>2
<1>13. Len(wire'[f]) <= WireDepth
    <2>1. CASE i.sends = <<>>
        BY <1>2, <1>3, <1>5, <2>1, ConcatEmptySeq
    <2>2. CASE i.sends # <<>>
        <3>1. PICK d \in Offers(port[e], i) : i.sends = <<d>>
            BY <2>2 DEF EdgeInput
        <3>2. wire[f] \o i.sends = Append(wire[f], d)
            BY <1>3, <3>1
        <3>3. Len(wire[f] \o i.sends) = Len(wire[f]) + 1
            BY <1>3, <3>2
        <3>4. Len(wire[f]) \in Nat /\ WireDepth \in Nat
            BY <1>3, LenProperties, PeersAssumption
        <3>5. Len(wire[f]) < WireDepth
            BY <2>2 DEF f
        <3> QED BY <1>5, <3>3, <3>4, <3>5
    <2> QED BY <2>1, <2>2
<1>14. PICK K : K = [x \in End |-> CHOOSE y \in End : y # x]
    OBVIOUS
<1>15. \A x \in End : Peer(x) = K[x]
    BY <1>14 DEF Peer
<1>16. ASSUME NEW x \in End
       PROVE  /\ Len(wire'[x]) <= WireDepth
              /\ Ends(port'[x], port'[Peer(x)], wire'[x], wire'[Peer(x)],
                      read'[x], read'[Peer(x)], written'[x], written'[Peer(x)])
    <2>1. x = e \/ x = f
        BY <1>1
    <2>2. CASE x = e
        BY <1>8, <1>12, <2>2 DEF f
    <2>3. CASE x = f
        BY <1>1, <1>9, <1>13, <2>3
    <2> QED BY <2>1, <2>2, <2>3
<1> QED BY <1>5, <1>11, <1>16 DEF PeersInv, Peer

\* Two ports out of reset and empty wires.
LEMMA PeersInvStarts == Init => PeersInv
<1> SUFFICES ASSUME Init PROVE PeersInv
    OBVIOUS
<1>1. /\ port = [e \in End |-> PortReset] /\ wire = [e \in End |-> <<>>]
      /\ written = [e \in End |-> 0] /\ read = [e \in End |-> 0]
    BY DEF Init
<1>2. Ends(PortReset, PortReset, <<>>, <<>>, 0, 0, 0, 0)
    <2>1. <<>> \in Seq(Dwords)
        BY EmptySeq
    <2> HIDE DEF PortReset
    <2> QED BY <2>1, DirectionStarts DEF Ends
<1>3. ASSUME NEW e \in End
      PROVE  /\ Len(wire[e]) <= WireDepth
             /\ Ends(port[e], port[Peer(e)], wire[e], wire[Peer(e)],
                     read[e], read[Peer(e)], written[e], written[Peer(e)])
    <2>1. Peer(e) \in End
        BY PeerIsOther
    <2>2. Len(<<>>) <= WireDepth
        BY PeersAssumption
    <2> QED BY <1>1, <1>2, <2>1, <2>2
<1>4. DOMAIN port = End /\ DOMAIN wire = End /\ written \in [End -> Nat] /\ read \in [End -> Nat]
    BY <1>1
<1> QED BY <1>3, <1>4 DEF PeersInv

\* Every step.
LEMMA NextKeepsPeersInv == PeersInv /\ [Next]_vars => PeersInv'
<1> SUFFICES ASSUME PeersInv, [Next]_vars PROVE PeersInv'
    OBVIOUS
<1>1. ASSUME NEW e \in End, Waits(e) PROVE PeersInv'
    <2>1. PICK i \in Inputs(e) : Step(e, i)
        BY <1>1 DEF Waits
    <2>2. /\ EdgeInput(port[e], wire[e], written[e], i)
          /\ i.timeout => ~ExchangeUnderWay(e)
          /\ i.sends = <<>>
        BY InputsAre
    <2> QED BY <2>1, <2>2, StepKeepsPeersInv
<1>2. ASSUME NEW e \in End, Serves(e) PROVE PeersInv'
    <2>1. /\ Len(wire[Peer(e)]) < WireDepth
          /\ \E i \in Inputs(e) : \E d \in Offers(port[e], i) :
                Step(e, [i EXCEPT !.sends = <<d>>])
        BY <1>2 DEF Serves, ServesKind
    <2>2. PICK i \in Inputs(e) : \E d \in Offers(port[e], i) :
              Step(e, [i EXCEPT !.sends = <<d>>])
        BY <2>1
    <2>3. PICK d \in Offers(port[e], i) : Step(e, [i EXCEPT !.sends = <<d>>])
        BY <2>2
    <2>4. PICK j : j = [i EXCEPT !.sends = <<d>>]
        OBVIOUS
    <2>5. /\ EdgeInput(port[e], wire[e], written[e], j)
          /\ j.timeout => ~ExchangeUnderWay(e)
        BY <2>4, SendsAreOffers
    <2>6. Step(e, j)
        BY <2>3, <2>4
    <2> QED BY <2>1, <2>5, <2>6, StepKeepsPeersInv
<1>3. CASE UNCHANGED vars
    BY <1>3 DEF vars, PeersInv, Peer
<1> QED BY <1>1, <1>2, <1>3 DEF Next

\* Whatever the lengths, depths and counts, every edge of either end keeps both
\* directions of the stream (uart_reset_control.py, uart_tx_source.py, uart_rx_path.py)
\* in the invariant.
THEOREM PeersInvariant == Spec => []PeersInv
<1> QED BY PeersInvStarts, NextKeepsPeersInv, PTL DEF Spec
-----------------------------------------------------------------------------
(* Counting the DWORDs of a kind.                                            *)

\* A set of numbers has a least one.
LEMMA LeastNumber ==
    ASSUME NEW T, T \subseteq Nat, T # {}
    PROVE  \E x \in T : \A y \in T : ~(y < x)
<1>1. PICK x \in T : \A y \in T : <<y, x>> \notin OpToRel(<, Nat)
    BY NatLessThanWellFounded, WFMin
<1> QED BY <1>1 DEF OpToRel

\* q steps down by one at each member of A.
StepsDownAt(q, l, A) ==
    /\ l \in Nat /\ A \subseteq 1 .. l /\ q \in [0 .. l -> Nat]
    /\ \A k \in 1 .. l : q[k - 1] = q[k] + (IF k \in A THEN 1 ELSE 0)

\* So the steps count the members.
LEMMA CountsMembers ==
    ASSUME NEW q, NEW l, NEW A, StepsDownAt(q, l, A)
    PROVE  Cardinality(A) = q[0] - q[l]
<1>1. /\ l \in Nat /\ A \subseteq 1 .. l /\ q \in [0 .. l -> Nat]
      /\ \A k \in 1 .. l : q[k - 1] = q[k] + (IF k \in A THEN 1 ELSE 0)
    BY DEF StepsDownAt
<1> DEFINE C(k) == A \cap (1 .. k)
           bad == {k \in 0 .. l : Cardinality(C(k)) # q[0] - q[k]}
<1>2. \A k \in 0 .. l : IsFiniteSet(C(k)) /\ Cardinality(C(k)) \in Nat
    <2> TAKE k \in 0 .. l
    <2>1. IsFiniteSet(1 .. k)
        BY <1>1, FS_Interval
    <2>2. C(k) \in SUBSET (1 .. k)
        OBVIOUS
    <2>3. IsFiniteSet(C(k))
        BY <2>1, <2>2, FS_Subset
    <2> QED BY <2>3, FS_CardinalityType
<1>3. \A k \in 0 .. l : q[k] \in Nat
    BY <1>1
<1>4. C(l) = A
    BY <1>1
<1>5. C(0) = {}
    OBVIOUS
<1>6. \A k \in 1 .. l : C(k) = IF k \in A THEN C(k - 1) \cup {k} ELSE C(k - 1)
    <2> TAKE k \in 1 .. l
    <2>1. \A j : j \in 1 .. k <=> j \in 1 .. (k - 1) \/ j = k
        BY <1>1
    <2>2. \A j : j \in C(k) <=> j \in C(k - 1) \/ (j = k /\ k \in A)
        BY <2>1
    <2> QED BY <2>2
<1>7. \A k \in 1 .. l : k \notin C(k - 1)
    BY <1>1
<1> HIDE DEF C
<1>8. bad = {}
    <2> SUFFICES ASSUME bad # {} PROVE FALSE
        OBVIOUS
    <2>1. PICK x \in bad : \A y \in bad : ~(y < x)
        <3>1. bad \subseteq Nat
            BY <1>1
        <3> HIDE DEF bad
        <3> QED BY <3>1, LeastNumber
    <2>2. x \in 0 .. l /\ Cardinality(C(x)) # q[0] - q[x]
        BY <2>1
    <2>3. CASE x = 0
        <3>1. C(x) = {} /\ q[x] = q[0] /\ q[0] \in Nat
            BY <1>3, <1>5, <2>2, <2>3
        <3>2. Cardinality(C(x)) = 0
            BY <3>1, FS_EmptySet
        <3> QED BY <2>2, <3>1, <3>2
    <2>4. CASE x # 0
        <3>1. x \in 1 .. l /\ x - 1 \in 0 .. l /\ x - 1 < x
            BY <1>1, <2>2, <2>4
        <3>2. Cardinality(C(x - 1)) = q[0] - q[x - 1]
            BY <2>1, <3>1
        <3>3. q[x - 1] = q[x] + (IF x \in A THEN 1 ELSE 0)
            BY <1>1, <3>1
        <3>4. Cardinality(C(x)) = Cardinality(C(x - 1)) + (IF x \in A THEN 1 ELSE 0)
            <4>1. PICK S : S = C(x - 1)
                OBVIOUS
            <4>2. IsFiniteSet(S) /\ x \notin S /\ Cardinality(S) \in Nat
                BY <1>2, <1>7, <3>1, <4>1
            <4>3. Cardinality(S \cup {x}) = Cardinality(S) + 1
                BY <4>2, FS_AddElement
            <4>4. C(x) = IF x \in A THEN S \cup {x} ELSE S
                BY <1>6, <3>1, <4>1
            <4> QED BY <4>1, <4>2, <4>3, <4>4
        <3>5. PICK a, b, d : a = q[x] /\ b = q[x - 1] /\ d = Cardinality(C(x - 1))
            OBVIOUS
        <3>6. a \in Nat /\ b \in Nat /\ d \in Nat /\ q[0] \in Nat
            BY <1>1, <1>2, <1>3, <2>2, <3>1, <3>5
        <3>7. d = q[0] - b
            BY <3>2, <3>5
        <3>8. CASE x \in A
            <4>1. b = a + 1 /\ Cardinality(C(x)) = d + 1
                BY <3>3, <3>4, <3>5, <3>8
            <4>2. d + 1 = q[0] - a
                BY <3>6, <3>7, <4>1
            <4> QED BY <2>2, <3>5, <4>1, <4>2
        <3>9. CASE x \notin A
            <4>1. b = a + 0 /\ Cardinality(C(x)) = d + 0
                BY <3>3, <3>4, <3>5, <3>9
            <4>2. d + 0 = q[0] - a
                BY <3>6, <3>7, <4>1
            <4> QED BY <2>2, <3>5, <4>1, <4>2
        <3> QED BY <3>8, <3>9
    <2> QED BY <2>3, <2>4
<1>9. Cardinality(C(l)) = q[0] - q[l]
    <2>1. l \in 0 .. l
        BY <1>1
    <2> QED BY <1>8, <2>1
<1> QED BY <1>4, <1>9

\* How many of a kind are on a wire.
LEMMA CopiesOf ==
    ASSUME NEW w \in Seq(Dwords), NEW kind
    PROVE  /\ Copies(w, kind) \in Nat
           /\ Copies(w, kind) = 0 <=> ~Has(w, kind)
           /\ AtMostOne(w, kind) => Copies(w, kind) <= 1
<1> DEFINE S == {n \in DOMAIN w : w[n].kind = kind}
<1>1. DOMAIN w = 1 .. Len(w) /\ Len(w) \in Nat
    BY LenProperties
<1>2. IsFiniteSet(1 .. Len(w))
    BY <1>1, FS_Interval
<1>3. S \in SUBSET (1 .. Len(w))
    BY <1>1
<1>4. Has(w, kind) <=> S # {}
    BY <1>1 DEF Has
<1>5. AtMostOne(w, kind) => \A a, b \in S : a = b
    BY <1>1 DEF AtMostOne
<1>6. Copies(w, kind) = Cardinality(S)
    BY DEF Copies
<1> HIDE DEF S
<1>7. IsFiniteSet(S)
    BY <1>2, <1>3, FS_Subset
<1>8. Cardinality(S) \in Nat /\ (Cardinality(S) = 0 <=> S = {})
    BY <1>7, FS_CardinalityType, FS_EmptySet
<1>9. AtMostOne(w, kind) => Cardinality(S) <= 1
    <2> SUFFICES ASSUME AtMostOne(w, kind) PROVE Cardinality(S) <= 1
        OBVIOUS
    <2>1. CASE S = {}
        BY <1>8, <2>1
    <2>2. CASE S # {}
        <3>1. PICK a : a \in S
            BY <2>2
        <3>2. S = {a}
            BY <1>5, <3>1
        <3>3. Cardinality({a}) = 1
            BY FS_Singleton
        <3> QED BY <3>2, <3>3
    <2> QED BY <2>1, <2>2
<1> QED BY <1>4, <1>6, <1>8, <1>9

\* Outside a reset what the receiver takes for payload is payload.
LEMMA PayloadIsCounted ==
    ASSUME NEW pe, NEW pf, NEW w \in Seq(Dwords), NEW p, NEW q, NEW v, NEW rd, NEW wr,
           DirectionBy(pe, pf, w, v, rd, wr, p, q),
           pe.ctl.phase = "normal", pf.ctl.phase = "normal"
    PROVE  q[0] \in Nat /\ Copies(w, "payload") = q[0]
<1> DEFINE l == Len(w)
           A == {n \in DOMAIN w : w[n].kind = "payload"}
<1>1. DOMAIN w = 1 .. l /\ l \in Nat
    BY LenProperties
<1>2. /\ Parses(pe.rx.remaining, w, p) /\ KindsAgree(w, p) /\ Counts(w, p, q)
      /\ OnlyRunOutInside(pe, w, p) /\ RunOutPlace(pe, pf, w, p)
    BY DEF DirectionBy, WireOK
<1>3. /\ q \in [0 .. l -> Nat] /\ q[l] = 0
      /\ \A k \in 1 .. l : q[k - 1] = q[k] + (IF p[k - 1] > 0 THEN 1 ELSE 0)
    BY <1>2 DEF Counts
<1>4. ASSUME NEW k \in 1 .. l PROVE p[k - 1] > 0 <=> k \in A
    <2>1. w[k].kind = "payload" => p[k - 1] > 0
        BY <1>2 DEF KindsAgree
    <2>2. p[k - 1] > 0 => w[k].kind \in {"payload", "noop"}
        BY <1>2 DEF OnlyRunOutInside
    <2>3. w[k].kind # "noop"
        BY <1>2 DEF RunOutPlace, Has
    <2> QED BY <1>1, <2>1, <2>2, <2>3
<1>5. \A k \in 1 .. l : q[k - 1] = q[k] + (IF k \in A THEN 1 ELSE 0)
    BY <1>3, <1>4
<1>6. A \subseteq 1 .. l
    BY <1>1
<1>7. Copies(w, "payload") = Cardinality(A)
    BY DEF Copies
<1>8. q[0] \in Nat
    BY <1>1, <1>3
<1> HIDE DEF A, l
<1>9. Cardinality(A) = q[0] - q[l]
    <2>1. StepsDownAt(q, l, A)
        BY <1>1, <1>3, <1>5, <1>6 DEF StepsDownAt
    <2> QED BY <2>1, CountsMembers
<1> QED BY <1>3, <1>7, <1>8, <1>9
-----------------------------------------------------------------------------
(* What the runs check.                                                      *)

\* The invariant, at one end.
LEMMA AtEnd ==
    ASSUME PeersInv, NEW e \in End
    PROVE  /\ PortOK(port[e]) /\ PortOK(port[Peer(e)])
           /\ wire[e] \in Seq(Dwords) /\ wire[Peer(e)] \in Seq(Dwords)
           /\ Direction(port[e], port[Peer(e)], wire[e], wire[Peer(e)],
                        read[e], written[Peer(e)])
           /\ \A kind : /\ OnWire(e, kind) <=> Has(wire[e], kind)
                        /\ OnWire(Peer(e), kind) <=> Has(wire[Peer(e)], kind)
<1>1. /\ PortOK(port[e]) /\ PortOK(port[Peer(e)])
      /\ wire[e] \in Seq(Dwords) /\ wire[Peer(e)] \in Seq(Dwords)
      /\ Direction(port[e], port[Peer(e)], wire[e], wire[Peer(e)],
                   read[e], written[Peer(e)])
    BY DEF PeersInv, Ends
<1> QED BY <1>1, OnWireIsHas

\* The FIFOs, the reservation of uart_tx_source.py:79 and the wires stay within
\* their bounds, and the reset control in its states.
THEOREM TypeCorrect == Spec => []TypeOK
<1>1. PeersInv => TypeOK
    <2> SUFFICES ASSUME PeersInv PROVE TypeOK
        OBVIOUS
    <2>1. ASSUME NEW e \in End
          PROVE  /\ port[e].ctl \in CtlState
                 /\ Len(port[e].txq) + Len(port[e].src.payload) <= TxDepth
                 /\ port[e].src.to_load + Len(port[e].src.payload) <= port[e].src.reserved
                 /\ Len(port[e].rx.fifo) <= RxDepth
        <3>1. PICK x : x = port[e]
            OBVIOUS
        <3>2. PortOK(x)
            BY <3>1, AtEnd
        <3>3. /\ x.ctl \in CtlState /\ Len(x.txq) + Len(x.src.payload) <= TxDepth
              /\ Len(x.rx.fifo) <= RxDepth
            BY <3>2 DEF PortOK, CtlOK, RxOK
        <3>4. x.src.to_load + Len(x.src.payload) <= x.src.reserved
            <4>1. /\ x.src.reserved \in 0 .. MaxPayload /\ x.src.to_load \in 0 .. MaxPayload
                  /\ x.src.payload \in Seq(Nat)
                  /\ IF x.src.header_sent
                     THEN x.src.to_load = 0 /\ Len(x.src.payload) \in 1 .. x.src.reserved
                     ELSE x.src.to_load + Len(x.src.payload) = x.src.reserved
                BY <3>2 DEF PortOK, SrcOK
            <4>2. Len(x.src.payload) \in Nat /\ MaxPayload \in Nat
                BY <4>1, LenProperties, StreamAssumption
            <4> QED BY <4>1, <4>2
        <3> QED BY <3>1, <3>3, <3>4
    <2>2. /\ \A e \in End : Len(wire[e]) <= WireDepth
          /\ written \in [End -> Nat] /\ read \in [End -> Nat]
        BY DEF PeersInv
    <2> QED BY <2>1, <2>2 DEF TypeOK
<1> QED BY <1>1, PeersInvariant, PTL

\* What the receiver stores (uart_rx_path.py:82) is payload its peer sent and firmware
\* has not read, in order and without a gap, or a No-Op of a run-out; then the
\* Request that flushes it is still to come.
THEOREM NothingButPayloadIsRead == Spec => []OnlyPayloadStored
<1>1. PeersInv => OnlyPayloadStored
    <2> SUFFICES ASSUME PeersInv, NEW e \in End, NEW k \in DOMAIN port[e].rx.fifo
                 PROVE  LET q == port[e].rx.fifo IN
                        \/ /\ q[k].kind = "payload"
                           /\ q[k].value > read[e]
                           /\ k > 1 => q[k - 1] = Payload(q[k].value - 1)
                        \/ q[k].kind = "noop" /\ PeerInRunOut(e)
        BY DEF OnlyPayloadStored
    <2>1. PICK pe, pf, w, v, rd, wr :
              /\ pe = port[e] /\ pf = port[Peer(e)] /\ w = wire[e] /\ v = wire[Peer(e)]
              /\ rd = read[e] /\ wr = written[Peer(e)]
        OBVIOUS
    <2>2. PICK f : f = pe.rx.fifo
        OBVIOUS
    <2>3. PICK l : l = Len(f)
        OBVIOUS
    <2>4. PortOK(pe) /\ PortOK(pf) /\ Direction(pe, pf, w, v, rd, wr)
        BY <2>1, AtEnd
    <2>5. f \in Seq(Dwords) /\ l \in Nat /\ DOMAIN f = 1 .. l
        BY <2>2, <2>3, <2>4, LenProperties DEF PortOK, RxOK
    <2>6. k \in 1 .. l
        BY <2>1, <2>2, <2>5
    <2>7. PICK p, q : DirectionBy(pe, pf, w, v, rd, wr, p, q)
        BY <2>4 DEF Direction
    <2>8. PICK n : NumbersBy(pe, pf, w, v, rd, wr, n)
        BY <2>7 DEF DirectionBy, Numbers
    <2>9. PICK last : last = n[0]
        OBVIOUS
    <2>10. rd \in Nat /\ last \in Nat
        <3>1. /\ rd \in Nat /\ n \in [0 .. Len(w) -> Nat]
            BY <2>8 DEF NumbersBy, Holds, CountsPayload
        <3>2. Len(w) \in Nat
            BY <2>1, AtEnd, LenProperties
        <3> QED BY <2>9, <3>1, <3>2
    <2>11. PICK m \in 0 .. l : HoldsUpTo(f, m, last) /\ rd <= last - m
        BY <2>2, <2>3, <2>8, <2>9 DEF NumbersBy, Holds
    <2>12. CASE k <= m
        <3>1. k \in 1 .. m
            BY <2>5, <2>6, <2>11, <2>12
        <3>2. \A j \in 1 .. m : f[j] = Payload(last - m + j)
            BY <2>11 DEF HoldsUpTo
        <3>3. f[k].kind = "payload" /\ f[k].value = last - m + k
            <4>1. PICK x : x = last - m + k
                OBVIOUS
            <4>2. f[k] = Payload(x)
                BY <3>1, <3>2, <4>1
            <4> QED BY <4>1, <4>2 DEF Payload
        <3>4. f[k].value > rd
            BY <2>10, <2>11, <3>1, <3>3
        <3>5. ASSUME k > 1 PROVE f[k - 1] = Payload(f[k].value - 1)
            <4>1. k - 1 \in 1 .. m
                BY <3>1, <3>5
            <4>2. f[k - 1] = Payload(last - m + (k - 1))
                BY <3>2, <4>1
            <4>3. last - m + (k - 1) = f[k].value - 1
                BY <2>10, <2>11, <3>1, <3>3
            <4> QED BY <4>2, <4>3
        <3> QED BY <2>1, <2>2, <3>3, <3>4, <3>5
    <2>13. CASE k > m
        <3>1. k \in (m + 1) .. l
            BY <2>5, <2>6, <2>11, <2>13
        <3>2. f[k].kind = "noop"
            BY <2>3, <2>11, <3>1 DEF HoldsUpTo
        <3>3. Has(f, "noop")
            BY <2>3, <2>6, <3>2 DEF Has
        <3>4. RunOutPlace(pe, pf, w, p)
            BY <2>7 DEF DirectionBy
        <3>5. pf.ctl.phase # "normal"
            BY <2>2, <3>3, <3>4 DEF RunOutPlace
        <3>6. f # <<>>
            BY <2>3, <2>5, <2>6, EmptySeq
        <3>7. pf.ctl.phase = "wait" => Has(w, "request")
            BY <2>2, <3>4, <3>6 DEF RunOutPlace, Flushed
        <3>8. pf.ctl.phase \in {"normal", "noops", "request", "wait"}
            BY <2>4 DEF PortOK, CtlOK, CtlState
        <3>9. PeerInRunOut(e)
            BY <2>1, <3>5, <3>7, <3>8, AtEnd DEF PeerInRunOut
        <3> QED BY <2>1, <2>2, <3>2, <3>9
    <2> QED BY <2>5, <2>6, <2>11, <2>12, <2>13
<1> QED BY <1>1, PeersInvariant, PTL

\* uart_rx_path.py never reports an error: every transport that arrives in
\* operation fits, and each word of it finds a place.
THEOREM EveryWordFits == Spec => []CreditsAreStorage
<1>1. PeersInv => CreditsAreStorage
    <2> SUFFICES ASSUME PeersInv, NEW e \in End,
                        port[e].ctl.phase = "normal", port[e].ctl.responses = 0
                 PROVE  ~RxError(port[e].rx, Arriving(e), FALSE)
        BY DEF CreditsAreStorage
    <2>1. PICK pe, w : pe = port[e] /\ w = wire[e]
        OBVIOUS
    <2>2. RxOK(pe.rx) /\ w \in Seq(Dwords)
        BY <2>1, AtEnd DEF PortOK
    <2>3. PICK p, q : DirectionBy(pe, port[Peer(e)], w, wire[Peer(e)], read[e],
                                  written[Peer(e)], p, q)
        BY <2>1, AtEnd DEF Direction
    <2>4. WireOK(pe.rx.remaining, w, p, q) /\ Len(pe.rx.fifo) + q[0] + p[Len(w)] <= RxDepth
        BY <2>1, <2>3 DEF DirectionBy, Reserved
    <2>5. PICK word : word = Arriving(e)
        OBVIOUS
    <2>6. Len(w) \in Nat /\ (word = <<>> \/ (Len(w) >= 1 /\ word[1] = w[1]))
        <3>1. Len(w) \in Nat
            BY <2>2, LenProperties
        <3>2. CASE w = <<>>
            BY <2>1, <2>5, <3>1, <3>2 DEF Arriving
        <3>3. CASE w # <<>>
            <4>1. word = <<Head(w)>>
                BY <2>1, <2>5, <3>3 DEF Arriving
            <4>2. Head(w) = w[1] /\ Len(w) # 0
                BY <2>2, <3>3, HeadTailProperties, EmptySeq
            <4> QED BY <3>1, <4>1, <4>2
        <3> QED BY <3>2, <3>3
    <2>7. /\ ~(Inside(pe.rx, word) /\ Len(pe.rx.fifo) >= RxDepth)
          /\ ~(AtBoundary(pe.rx, word, "header")
               /\ Len(pe.rx.fifo) + word[1].value > RxDepth)
        BY <2>2, <2>4, <2>6, NoSurprise
    <2> QED BY <2>1, <2>5, <2>7 DEF RxError
<1> QED BY <1>1, PeersInvariant, PTL

\* Outside a reset no credit is lost or made, modulo the width of the counters
\* (uart_tx_source.py:79, uart_rx_path.py:84).
THEOREM CreditsAreConserved == Spec => []CreditsConserved
<1>1. PeersInv => CreditsConserved
    <2> SUFFICES ASSUME PeersInv, Quiet, NEW e \in End
                 PROVE  (port[e].src.tx_counter + SentOfMessage(e)) % Modulus =
                        (port[Peer(e)].rx.counter - RxDepth + Len(port[Peer(e)].rx.fifo)
                            + PayloadOnWire(Peer(e))) % Modulus
        BY DEF CreditsConserved
    <2>1. PICK f : f = Peer(e)
        OBVIOUS
    <2>2. f \in End /\ Peer(f) = e
        BY <2>1, PeerIsOther
    <2>3. PICK pe, pf, w, v : pe = port[f] /\ pf = port[e] /\ w = wire[f] /\ v = wire[e]
        OBVIOUS
    <2>4. /\ RxOK(pe.rx) /\ SrcOK(pf.src) /\ w \in Seq(Dwords)
          /\ Direction(pe, pf, w, v, read[f], written[e])
        BY <2>2, <2>3, AtEnd DEF PortOK
    <2>5. pe.ctl.phase = "normal" /\ pf.ctl.phase = "normal" /\ pe.rx.initialized
        BY <2>2, <2>3 DEF Quiet
    <2>6. PICK p, q : DirectionBy(pe, pf, w, v, read[f], written[e], p, q)
        BY <2>4 DEF Direction
    <2>7. q[0] \in Nat /\ Copies(w, "payload") = q[0]
        BY <2>4, <2>5, <2>6, PayloadIsCounted
    <2>8. Left(pf.src, pe.rx.counter) = RxDepth - Len(pe.rx.fifo) - q[0]
        BY <2>5, <2>6 DEF DirectionBy, Conserved
    <2>9. PICK c, t, r, n : /\ c = pe.rx.counter /\ t = Total(pf.src)
                            /\ r = Len(pe.rx.fifo) /\ n = q[0]
        OBVIOUS
    <2>10. /\ c \in Nat /\ t \in Int /\ r \in Nat /\ n \in Nat /\ RxDepth \in Nat
           /\ Modulus \in Nat \ {0}
        <3>1. c \in Nat /\ r \in Nat
            BY <2>4, <2>9, LenProperties DEF RxOK
        <3>2. t \in Int /\ Modulus \in Nat \ {0}
            BY <2>4, <2>9, <3>1, LeftIsCount
        <3>3. RxDepth \in Nat
            BY RxPathAssumption, <3>2
        <3> QED BY <2>7, <2>9, <3>1, <3>2, <3>3
    <2>11. (c - t) % Modulus = RxDepth - r - n
        BY <2>8, <2>9 DEF Left
    <2>12. (c - ((c - t) % Modulus)) % Modulus = (c - (c - t)) % Modulus
        <3>1. c \in Int /\ c - t \in Int
            BY <2>10
        <3> QED BY <2>10, <3>1, ModShift
    <2>13. c - (c - t) = t
        BY <2>10
    <2>14. c - (RxDepth - r - n) = c - RxDepth + r + n
        BY <2>10
    <2>15. (c - RxDepth + r + n) % Modulus = t % Modulus
        BY <2>11, <2>12, <2>13, <2>14
    <2>16. t = port[e].src.tx_counter + SentOfMessage(e)
        BY <2>3, <2>9 DEF Total, SentOfMessage
    <2>17. PayloadOnWire(f) = n
        BY <2>3, <2>7, <2>9 DEF PayloadOnWire
    <2> QED BY <2>1, <2>3, <2>9, <2>15, <2>16, <2>17
<1> QED BY <1>1, PeersInvariant, PTL

\* Between, during and after resets (uart_rx_path.py:115): when payload is about to
\* arrive the receiver expects words of a transport, and when a header or a reset
\* Request is about to arrive it expects none.
THEOREM FramingIsAgreed == Spec => []FramingAgrees
<1>1. PeersInv => FramingAgrees
    <2> SUFFICES ASSUME PeersInv, NEW e \in End, wire[e] # <<>>
                 PROVE  /\ wire[e][1].kind = "payload" => port[e].rx.remaining > 0
                        /\ wire[e][1].kind \in {"header", "request"} =>
                              port[e].rx.remaining = 0
        BY DEF FramingAgrees
    <2>1. PICK p, q : WireOK(port[e].rx.remaining, wire[e], p, q)
        BY AtEnd DEF Direction, DirectionBy
    <2>2. 1 \in 1 .. Len(wire[e])
        <3>1. wire[e] \in Seq(Dwords)
            BY AtEnd
        <3>2. Len(wire[e]) \in Nat /\ Len(wire[e]) # 0
            BY <3>1, EmptySeq, LenProperties
        <3> QED BY <3>2
    <2>3. p[1 - 1] = port[e].rx.remaining
        BY <2>1 DEF WireOK, Parses
    <2> QED BY <2>1, <2>2, <2>3 DEF WireOK, KindsAgree
<1> QED BY <1>1, PeersInvariant, PTL

\* A Response is always the answer to the Request its receiver waits for
\* (uart_reset_control.py).
THEOREM OneExchangeAtMost == Spec => []ResponseAnswersRequest
<1>1. PeersInv => ResponseAnswersRequest
    <2> SUFFICES ASSUME PeersInv, NEW e \in End
                 PROVE  /\ Copies(wire[Peer(e)], "request") + port[Peer(e)].ctl.responses
                           + Copies(wire[e], "response")
                           <= (IF port[e].ctl.phase = "wait" THEN 1 ELSE 0)
                        /\ ~port[e].ctl.fault
        BY DEF ResponseAnswersRequest
    <2>1. PICK pe, pf, w, v : /\ pe = port[e] /\ pf = port[Peer(e)]
                              /\ w = wire[e] /\ v = wire[Peer(e)]
        OBVIOUS
    <2>2. /\ PortOK(pe) /\ PortOK(pf) /\ w \in Seq(Dwords) /\ v \in Seq(Dwords)
        BY <2>1, AtEnd
    <2>3. Exchange(pe, pf, w, v)
        BY <2>1, AtEnd DEF Direction, DirectionBy
    <2>4. PICK a, b, c : /\ a = Copies(v, "request") /\ b = pf.ctl.responses
                         /\ c = Copies(w, "response")
        OBVIOUS
    <2>5. /\ a \in Nat /\ (a = 0 <=> ~Has(v, "request")) /\ (AtMostOne(v, "request") => a <= 1)
        BY <2>2, <2>4, CopiesOf
    <2>6. /\ c \in Nat /\ (c = 0 <=> ~Has(w, "response")) /\ (AtMostOne(w, "response") => c <= 1)
        BY <2>2, <2>4, CopiesOf
    <2>7. b \in Nat
        BY <2>2, <2>4, ResetAssumption DEF PortOK, CtlOK, CtlState
    <2>8. /\ a <= 1 /\ b <= 1 /\ c <= 1
          /\ ~(a > 0 /\ b > 0) /\ ~(a > 0 /\ c > 0) /\ ~(b > 0 /\ c > 0)
          /\ a > 0 \/ b > 0 \/ c > 0 => pe.ctl.phase = "wait"
        BY <2>3, <2>4, <2>5, <2>6, <2>7 DEF Exchange, UnderWay
    <2>9. a + b + c <= (IF pe.ctl.phase = "wait" THEN 1 ELSE 0)
        BY <2>5, <2>6, <2>7, <2>8
    <2>10. ~pe.ctl.fault
        BY <2>2 DEF PortOK, CtlOK
    <2> QED BY <2>1, <2>4, <2>9, <2>10
<1> QED BY <1>1, PeersInvariant, PTL
====
