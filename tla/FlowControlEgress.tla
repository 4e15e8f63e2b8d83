-------------------------- MODULE FlowControlEgress -------------------------
(***************************************************************************)
(* mkFlowControlSwitchEgressNonZero: serialises packets of its request     *)
(* queues onto the link, starting one only if the queue's bufferAvailable  *)
(* bit says the receiver has room for the largest packet of any queue, and *)
(* turns returned credits into that bit again.                             *)
(*                                                                         *)
(* EgressCycle is one clock cycle of the switch of side x: every rule that *)
(* can fire does, on the registers as the cycle finds them.  Its parameter *)
(* s is the queue whose writeRequestNewmsg2 fires, or None.                *)
(***************************************************************************)
EXTENDS Switches

VARIABLES
  request,                 \* header waiting in a data queue: its numChunks
  portCredits,             \* LUTRAM of credits
  bufferAvailable,
  requestChunksRemaining,
  requestActiveQueue,
  deqHeader,               \* the next chunk of the flow control port is a header
  newMsgQIdx               \* winner of the last cycle (multi-cycle arbiter)

egressVars == <<request, portCredits, bufferAvailable, requestChunksRemaining,
                requestActiveQueue, deqHeader, newMsgQIdx>>

EgressInit ==
  /\ request = [x \in Side |-> [q \in DataQueues(x) |-> None]]
  /\ portCredits = [x \in Side |-> [q \in Queues(x) |-> FifoSize]]
  /\ bufferAvailable = [x \in Side |-> [q \in Queues(x) |-> TRUE]]
  /\ requestChunksRemaining = [x \in Side |-> 0]
  /\ requestActiveQueue = [x \in Side |-> 0]
  /\ deqHeader = [x \in Side |-> TRUE]
  /\ newMsgQIdx = [x \in Side |-> None]

-----------------------------------------------------------------------------
(* Choosing a queue: writeRequestNewmsg1 and the guard of Newmsg2.         *)

NotEmptyHeader(x, q) ==
  IF q = Fc(x) THEN headerFIFO[x] > 0 ELSE request[x][q] # None

\* The header at the front of queue q.
FirstHeader(x, q) == Header(q, IF q = Fc(x) THEN 1 ELSE request[x][q])

\* Mutant of NotLocked: the winner of the last cycle may win again.
NeverLocked(x, q) == TRUE

\* With the multi-cycle arbiter the winner fires a cycle after it is chosen
\* and may not win in that cycle.
NotLocked(x, q) == SingleCycleArb \/ newMsgQIdx[x] # q

\* Mutant of Reqs: every request takes part, whatever its credits.
ReqsIgnoreCredits(x) ==
  {q \in Queues(x) : NotEmptyHeader(x, q) /\ NotLocked(x, q)}

\* The queues that compete: flow control goes before everything else.
Reqs(x) ==
  LET hasRequest == {q \in Queues(x) : NotEmptyHeader(x, q) /\ NotLocked(x, q)}
      fc == {q \in hasRequest : BypassFlowcontrol(x, q)}
      normal == {q \in hasRequest : ~BypassFlowcontrol(x, q) /\ bufferAvailable[x][q]}
  IN  IF fc # {} THEN fc ELSE normal

\* The local random arbiter picks any one of the requests.
Winners(x) == IF Reqs(x) = {} THEN {None} ELSE Reqs(x)

\* Mutant of MayStart: a message may start inside another.
MayStartAnywhere(x, s) ==
  s # None /\ deqHeader[x] /\ LinkReady(x) /\ NotEmptyHeader(x, s)

\* Mutant of MayStart: a message may start while credits are being added.
MayStartDuringRefill(x, s) ==
  /\ s # None
  /\ requestChunksRemaining[x] = 0
  /\ LinkReady(x)
  /\ NotEmptyHeader(x, s)

\* The guard of writeRequestNewmsg2 for queue s.
MayStart(x, s) ==
  /\ s # None
  /\ requestChunksRemaining[x] = 0
  /\ deqHeader[x]
  /\ LinkReady(x)
  /\ NotEmptyHeader(x, s)

\* The queue whose Newmsg2 fires if winner wins this cycle.
Starting(x, winner) ==
  LET chosen == IF SingleCycleArb THEN winner ELSE newMsgQIdx[x]
  IN  IF MayStart(x, chosen) THEN chosen ELSE None

\* The guard of writeRequestContinue.  The chunks of a data packet are there
\* when their header is; those of a flow control packet may come later.
Continuing(x) ==
  /\ requestChunksRemaining[x] # 0
  /\ LinkReady(x)
  /\ requestActiveQueue[x] = Fc(x) => bodyFIFO[x] # <<>>

-----------------------------------------------------------------------------
(* The effects of Newmsg2, Continue, dropHeader and scan_responses.        *)

\* What the switch writes to the link.
Written(x, s) ==
  IF s # None THEN <<FirstHeader(x, s)>>
  ELSE IF ~Continuing(x) THEN <<>>
  ELSE IF requestActiveQueue[x] = Fc(x) THEN <<Head(bodyFIFO[x])>>
  ELSE <<DataChunk(requestActiveQueue[x])>>

DeqRequest(x, s) ==
  request' = IF s # None /\ s # Fc(x) THEN [request EXCEPT ![x][s] = None] ELSE request

CountChunks(x, s) ==
  /\ requestChunksRemaining' = [requestChunksRemaining EXCEPT ![x] =
       IF s # None THEN FirstHeader(x, s).amnt
       ELSE IF Continuing(x) THEN @ - 1 ELSE @]
  /\ requestActiveQueue' = [requestActiveQueue EXCEPT ![x] =
       IF s # None THEN s ELSE @]

\* Mutant of PacketCost: the header travels for free.
PacketCostBodyOnly(header) == header.amnt % CreditMod

\* requestChunks: the header is sent too.
PacketCost(header) == (header.amnt + 1) % CreditMod

\* Mutant of RoomAfterSend: room for the body but not for the header.
RoomAfterSendTight(x, newCount) == newCount >= MaximumPacketSize(x)

RoomAfterSend(x, newCount) == newCount >= MaximumPacketSize(x) + 1

\* The test that follows a refill leaves the header out.
RoomAfterRefill(x, creditsNext) == creditsNext >= MaximumPacketSize(x)

\* The credits of queue s after its packet's header is sent.
NewCount(x, s) == (portCredits[x][s] - PacketCost(FirstHeader(x, s))) % CreditMod

Refilling(x) == ~deqHeader[x] /\ portRead[x] # None

\* Mutant of CreditsNext: the message's credits replace the current ones.
CreditsNextOverwrites(x) == portRead[x].amnt

\* The credits of the queue that portRead names after the refill.
CreditsNext(x) == (portRead[x].amnt + portCredits[x][portRead[x].idx]) % CreditMod

\* Newmsg2 and scan_responses exclude each other through deqHeader.
AccountCredits(x, s) ==
  LET Update(q, count, room) ==
        /\ portCredits' = [portCredits EXCEPT ![x][q] = count]
        /\ bufferAvailable' = [bufferAvailable EXCEPT ![x][q] = room]
  IN  IF s # None
      THEN Update(s, NewCount(x, s), RoomAfterSend(x, NewCount(x, s)))
      ELSE IF Refilling(x)
      THEN Update(portRead[x].idx, CreditsNext(x), RoomAfterRefill(x, CreditsNext(x)))
      ELSE UNCHANGED <<portCredits, bufferAvailable>>

\* The $finish statements reached.
EgressFinish(x, s) ==
  {f \in {"credit underflow", "credit overflow", "setting credits to zero"} :
     \/ /\ f = "credit underflow"
        /\ s # None /\ ~BypassFlowcontrol(x, s)
        /\ portCredits[x][s] < PacketCost(FirstHeader(x, s))
     \/ /\ f = "credit overflow"
        /\ Refilling(x) /\ CreditsNext(x) > FifoSize
     \/ /\ f = "setting credits to zero"
        /\ Refilling(x) /\ CreditsNext(x) < MaximumPacketSize(x)}

\* dropHeader and scan_responses take turns.
ReadPort(x) ==
  deqHeader' = [deqHeader EXCEPT ![x] = IF portRead[x] # None THEN ~@ ELSE @]

EgressCycle(x, winner) ==
  LET s == Starting(x, winner)
  IN  /\ DeqRequest(x, s)
      /\ CountChunks(x, s)
      /\ AccountCredits(x, s)
      /\ ReadPort(x)
      /\ newMsgQIdx' = [newMsgQIdx EXCEPT ![x] = IF SingleCycleArb THEN None ELSE winner]

\* Outside: a sender attached to data queue q offers a packet of k chunks
\* after the header.
NewRequest(x, q, k) ==
  /\ request[x][q] = None
  /\ request' = [request EXCEPT ![x][q] = k]
  /\ UNCHANGED <<sharedVars, portCredits, bufferAvailable, newMsgQIdx,
                 requestChunksRemaining, requestActiveQueue, deqHeader>>

EgressTypeOK ==
  /\ DOMAIN request = Side
  /\ \A x \in Side :
       /\ request[x] \in [DataQueues(x) -> 0..MaxChunks \cup {None}]
       /\ portCredits[x] \in [Queues(x) -> 0..(CreditMod - 1)]
       /\ bufferAvailable[x] \in [Queues(x) -> BOOLEAN]
       /\ requestChunksRemaining[x] \in 0..Max({1, MaxChunks})
       /\ requestActiveQueue[x] \in Queues(x)
       /\ deqHeader[x] \in BOOLEAN
       /\ newMsgQIdx[x] \in Queues(x) \cup {None}

=============================================================================
