--------------------------- MODULE FlowControlLink --------------------------
(***************************************************************************)
(* Two platforms joined by a link in each direction: on each an egress and *)
(* an ingress switch, the ingress's flow_control_response feeding the last *)
(* queue of the egress and the ingress's last port feeding the credits of  *)
(* the egress, as generateCode.py wires them.                              *)
(***************************************************************************)
EXTENDS FlowControlEgress, FlowControlIngress

vars == <<sharedVars, egressVars, ingressVars>>

Init == SharedInit /\ EgressInit /\ IngressInit

\* What the two switches of x do to the link and to each other in a cycle in
\* which Newmsg2 of queue s fires and the read goes to queue idx.  A chunk read
\* for the flow control port is there for the next cycle only.
SharedCycle(x, s, idx) ==
  /\ wire' = [wire EXCEPT
       ![x] = @ \o Written(x, s),
       ![Peer(x)] = IF Receiving(x) THEN Tail(@) ELSE @]
  /\ headerFIFO' = [headerFIFO EXCEPT ![x] =
       @ - (IF s = Fc(x) THEN 1 ELSE 0) + (IF Batching(x) THEN 1 ELSE 0)]
  /\ bodyFIFO' = [bodyFIFO EXCEPT ![x] =
       (IF Continuing(x) /\ requestActiveQueue[x] = Fc(x) THEN Tail(@) ELSE @)
       \o (IF Finishing(x) THEN <<sendSize[x]>> ELSE <<>>)]
  /\ portRead' = [portRead EXCEPT ![x] =
       IF idx = RxFc(x) THEN Head(buffer[x][idx]) ELSE None]
  /\ finish' = finish \cup EgressFinish(x, s) \cup IngressFinish(x)

\* One clock cycle of side x: winner is the choice of the egress arbiter, idx
\* that of the ingress arbiter.
Cycle(x, winner, idx) ==
  /\ EgressCycle(x, winner)
  /\ IngressCycle(x, idx)
  /\ SharedCycle(x, Starting(x, winner), idx)

Tick(x) ==
  \E winner \in Winners(x), ready \in Requests(x) :
    Cycle(x, winner, Arbitrate(x, ready))

Offer(x) ==
  /\ \E q \in DataQueues(x), k \in 0..MaxChunks : NewRequest(x, q, k)
  /\ UNCHANGED ingressVars

\* The platforms' clocks are independent.
Next == \E x \in Side : Tick(x) \/ Offer(x)

Spec == Init /\ [][Next]_vars

\* A cycle in which queue q is read.
TickReading(x, q) ==
  \E winner \in Winners(x), ready \in Requests(x) :
    Arbitrate(x, ready) = q /\ Cycle(x, winner, q)

\* The clocks keep running, and the receivers outside keep asking for chunks:
\* a queue that can be read over and over is read.  Nobody has to send.
Fairness ==
  \A x \in Side :
    /\ WF_vars(Tick(x))
    /\ \A q \in RxQueues(x) : SF_vars(TickReading(x, q))

FairSpec == Spec /\ Fairness

-----------------------------------------------------------------------------

\* One value of the right kind in every register, FIFO and counter; the
\* counters of the ingress never leave their width.
TypeOK ==
  /\ EgressTypeOK
  /\ IngressTypeOK
  /\ \A x \in Side :
       /\ wire[x] \in Seq(Chunks) /\ Len(wire[x]) <= LinkDepth
       /\ headerFIFO[x] \in 0..FifofDepth
       /\ bodyFIFO[x] \in Seq(Chunks) /\ Len(bodyFIFO[x]) <= FifofDepth
       /\ portRead[x] \in Chunks \cup {None}

\* The egress queue of x that chunk c travels for.
Carrier(x, c) == IF c.kind = "credit" THEN Fc(x) ELSE c.idx

\* Where on the wire s of x the chunks of queue q are.
Carried(x, s, q) == {n \in DOMAIN s : Carrier(x, s[n]) = q}

\* Chunks of queue q of x that were started and have not reached the buffer.
InFlight(x, q) ==
  Cardinality(Carried(x, wire[x], q))
  + IF requestActiveQueue[x] = q THEN requestChunksRemaining[x] ELSE 0

Stored(x, q) == Len(buffer[Peer(x)][q])

AsSeq(slot) == IF slot = None THEN <<>> ELSE <<slot>>

\* The credits of queue q in the chunks of s: those of chunk n are <<n, 1>>,
\* <<n, 2>> and so on.
CreditsIn(s, q) ==
  UNION {{n} \X (1..s[n].amnt) :
           n \in {m \in DOMAIN s : s[m].kind = "credit" /\ s[m].idx = q}}

CreditCount(s, q) == Cardinality(CreditsIn(s, q))

\* The credits on their way back to queue q of x.
Returning(x, q) ==
  CreditCount(AsSeq(portRead[x]), q) + CreditCount(buffer[x][RxFc(x)], q)
  + CreditCount(wire[Peer(x)], q) + CreditCount(bodyFIFO[Peer(x)], q)
  + CreditCount(AsSeq(sendSize[Peer(x)]), q)

\* Credits are neither created nor lost on the round trip from portCredits over
\* the wire, the buffer, its free counter and a flow control packet back to
\* portCredits.  The flow control queue runs the same accounting unchecked, so
\* its count is exact modulo the width of portCredits only.
CreditConservation ==
  \A x \in Side : \A q \in Queues(x) :
    (portCredits[x][q] + InFlight(x, q) + Stored(x, q) + free[Peer(x)][q]
       + Returning(x, q)) % CreditMod = FifoSize

\* The unguarded enq of the ingress always finds a slot for what the credits
\* pay for.
BufferNeverOverflows ==
  \A x \in Side : \A q \in DataQueues(x) :
    Stored(x, q) + InFlight(x, q) <= FifoSize

\* No $finish of the two switches is reached: no credit underflow or overflow,
\* no refill too small for a packet, no unknown service.
NeverFinishes == finish = {}

\* The bit the arbiter trusts is never ahead of the credits: it promises room
\* for the largest packet of any queue and its header, although the test after
\* a refill leaves the header out.
BufferAvailableIsSound ==
  \A x \in Side : \A q \in DataQueues(x) :
    bufferAvailable[x][q] => portCredits[x][q] >= MaximumPacketSize(x) + 1

\* The chunks that have come in for the flow control port of x.
AtPort(x) == AsSeq(portRead[x]) \o buffer[x][RxFc(x)]

\* The batches on their way back to queue q of x.
Batches(x, q) ==
  SelectSeq(AtPort(x) \o wire[Peer(x)] \o bodyFIFO[Peer(x)] \o AsSeq(sendSize[Peer(x)]),
            LAMBDA c : c.kind = "credit" /\ c.idx = q)

\* The ingress never sends a second batch of a queue while the first is on its
\* way, the queue of the flow control packets included; and those, which no
\* credit holds back, stay within their buffer and their credits because of it.
FlowControlFits ==
  \A x \in Side :
    /\ \A q \in Queues(x) : Len(Batches(x, q)) <= 1
    /\ Stored(x, Fc(x)) + InFlight(x, Fc(x)) <= FifoSize
    /\ portCredits[x][Fc(x)] <= FifoSize

\* Credits, the unguarded buffer and the bit that the arbiter trusts agree
\* (flowcontrol-egress.bsv:343-361, 515; flowcontrol-ingress.bsv:304-346, 382).
BuffersAreSound ==
  TypeOK /\ CreditConservation /\ BufferNeverOverflows /\ BufferAvailableIsSound

\* What a flow control packet carries to queue q of x: a batch that was ready.
BatchesFor(x) ==
  {c \in Chunks : /\ c.kind = "credit" /\ c.idx \in Queues(x)
                  /\ c.amnt > ReturnThreshold /\ c.amnt < CreditMod}

\* The chunks that may follow a header of queue q of x.
Bodies(x, q) == IF q = Fc(x) THEN BatchesFor(Peer(x)) ELSE {DataChunk(q)}

\* Where a reader of the wire of x may be: in a packet of queue, of which left
\* chunks are still to come.
Readers(x) == [queue : Queues(x), left : 0..Max({1, MaxChunks})]

\* A reader at a comes to b by chunk c.
Reads(x, a, c, b) ==
  IF a.left = 0
  THEN c = Header(b.queue, b.left) /\ (b.queue = Fc(x) => b.left = 1)
  ELSE c \in Bodies(x, a.queue) /\ b = [a EXCEPT !.left = @ - 1]

\* A reader at first comes to last by the chunks of s.
Framed(x, s, first, last) ==
  \E at \in [0..Len(s) -> Readers(x)] :
    /\ at[0] = first /\ at[Len(s)] = last
    /\ \A n \in 1..Len(s) : Reads(x, at[n - 1], s[n], at[n])

Sending(x) == [queue |-> requestActiveQueue[x], left |-> requestChunksRemaining[x]]

Receives(x) == [queue |-> rxActiveQueue[Peer(x)], left |-> rxChunksRemaining[Peer(x)]]

\* Packets are neither cut nor interleaved: what is on the wire takes the
\* ingress from where it is to where the egress is.
PacketsAreWhole == \A x \in Side : Framed(x, wire[x], Receives(x), Sending(x))

\* A chunk ends in the queue it was sent from.
ChunksReachTheirQueue ==
  \A x \in Side : \A q \in Queues(x) : \A n \in 1..Stored(x, q) :
    Carrier(x, buffer[Peer(x)][q][n]) = q

\* deqHeader is in step with the flow control packets that arrive: what it
\* drops is a header, and what it takes for credits is a body.
FcFraming ==
  \A x \in Side : \A n \in 1..Len(AtPort(x)) :
    AtPort(x)[n].kind = IF deqHeader[x] = (n % 2 = 1) THEN "header" ELSE "credit"

\* Headers are taken for headers and bodies for bodies of the same queue, on the
\* wire, in the buffers and at the flow control port
\* (flowcontrol-ingress.bsv:358-412, flowcontrol-egress.bsv:329-338).
StreamsAreFramed == PacketsAreWhole /\ ChunksReachTheirQueue /\ FcFraming

\* An offered packet is sent: credits come back, and the flow control packets,
\* which take precedence and cost credits of their own, die down.
RequestsAreSent ==
  \A x \in Side : \A q \in DataQueues(x) :
    request[x][q] # None ~> request[x][q] = None

StartedFlowControl(x) ==
  requestActiveQueue[x] = Fc(x) /\ requestChunksRemaining[x] # 0

\* "Flow control requests have priority": a waiting flow control packet is
\* sent, whatever the data queues do.
FlowControlIsSent ==
  \A x \in Side : headerFIFO[x] > 0 ~> StartedFlowControl(x)

-----------------------------------------------------------------------------

Channels == UNION {{<<x, q>> : q \in DataQueues(x)} : x \in Side}

Credits(c) == INSTANCE CreditProtocol WITH
  Capacity <- FifoSize,
  MaxPacket <- MaxChunks,
  Threshold <- ReturnThreshold,
  credits <- portCredits[c[1]][c[2]],
  inFlight <- InFlight(c[1], c[2]),
  stored <- Stored(c[1], c[2]),
  freed <- free[Peer(c[1])][c[2]],
  returning <- Returning(c[1], c[2])

\* The switches keep the credit protocol on every data channel: this is
\* Credits(c)!Spec for each c.
ImplementsCreditProtocol ==
  /\ \A c \in Channels : Credits(c)!Init
  /\ [][\A c \in Channels : Credits(c)!Next \/ UNCHANGED Credits(c)!vars]_vars

\* A switch is stopped by the unchecked credits of the flow control queue or not
\* at all.
OnlyFlowControlStops ==
  finish' # finish => \E x \in Side : Refilling(x) /\ portRead[x].idx = Fc(x)

\* The switches keep the credit protocol whatever the arbiter: no step overruns a
\* buffer, leaves the arbiter's bit ahead of the credits or stops a switch over a
\* data queue (flowcontrol-egress.bsv:343-382, 594-630).
SwitchesKeepProtocol ==
  /\ \A c \in Channels : Credits(c)!Init
  /\ [][/\ BufferNeverOverflows' /\ BufferAvailableIsSound' /\ OnlyFlowControlStops
        /\ \A c \in Channels : Credits(c)!Next \/ UNCHANGED Credits(c)!vars]_vars

=============================================================================
