-------------------------- MODULE FlowControlIngress ------------------------
(***************************************************************************)
(* mkFlowControlSwitchIngressNonZero: sorts the chunks of the link into    *)
(* the queues of a VLevelFIFO, hands them to the ports that ask, and sends *)
(* the slots these free back to the sender, a batch at a time.             *)
(*                                                                         *)
(* IngressCycle is one clock cycle of the switch of side x; its parameter  *)
(* idx is the queue whose port is allocated the read (makeReq), or None.   *)
(*                                                                         *)
(* The VLevelFIFO is taken at its word (MultiQueue): a queue holds what    *)
(* was put in, and a chunk taken out is a free slot until it is claimed.   *)
(* Its enq is unguarded; an enq beyond FifoSize, which would overwrite a   *)
(* chunk in the ring, shows here as a queue longer than FifoSize.          *)
(***************************************************************************)
EXTENDS Switches

VARIABLES
  buffer,            \* requestQueues: the queues' contents
  free,              \* requestQueues.free
  rxChunksRemaining, \* requestChunksRemaining of the ingress
  rxActiveQueue,     \* requestActiveQueue of the ingress
  idxRR,             \* the queue startSendEmpty looks at next
  sendSize,          \* the batch between startSendEmpty and finishSendEmpty
  lastRead           \* the round robin arbiter's last choice

ingressVars == <<buffer, free, rxChunksRemaining, rxActiveQueue, idxRR, sendSize,
                 lastRead>>

\* Ingress queues of x: one for each egress queue of its peer.
RxQueues(x) == Queues(Peer(x))

RxFc(x) == Fc(Peer(x))

IngressInit ==
  /\ buffer = [x \in Side |-> [q \in RxQueues(x) |-> <<>>]]
  /\ free = [x \in Side |-> [q \in RxQueues(x) |-> 0]]
  /\ rxChunksRemaining = [x \in Side |-> 0]
  /\ rxActiveQueue = [x \in Side |-> 0]
  /\ idxRR = [x \in Side |-> 0]
  /\ sendSize = [x \in Side |-> None]
  /\ lastRead = [x \in Side |-> 0]

-----------------------------------------------------------------------------
(* scan_requests and scan_params: one of them fires if a chunk is there.   *)

Receiving(x) == wire[Peer(x)] # <<>>

Arrived(x) == Head(wire[Peer(x)])

\* The queue the chunk goes to: what it says if it is read as a header.
Target(x) == IF rxChunksRemaining[x] = 0 THEN Arrived(x).idx ELSE rxActiveQueue[x]

CountReceived(x) ==
  /\ rxChunksRemaining' = [rxChunksRemaining EXCEPT ![x] =
       IF ~Receiving(x) THEN @ ELSE IF @ = 0 THEN Arrived(x).amnt ELSE @ - 1]
  /\ rxActiveQueue' = [rxActiveQueue EXCEPT ![x] =
       IF Receiving(x) THEN Target(x) ELSE @]

\* The test lets the first invalid service pass (> n, not >= n).
IngressFinish(x) ==
  {f \in {"invalid service ID"} :
     /\ Receiving(x)
     /\ rxChunksRemaining[x] = 0
     /\ Arrived(x).idx > Cardinality(RxQueues(x))}

-----------------------------------------------------------------------------
(* write_response_newmsg1 and makeReq: the reads of the VLevelFIFO.        *)

NotEmpty(x) == {q \in RxQueues(x) : buffer[x][q] # <<>>}

\* The ports that may ask in a cycle: that of the flow control queue always
\* does; those of the data queues belong to receivers outside.
Requests(x) ==
  {ready \in SUBSET NotEmpty(x) : RxFc(x) \in NotEmpty(x) => RxFc(x) \in ready}

\* Outside: mkRoundRobinArbiter picks the first request after its last choice.
Arbitrate(x, ready) ==
  LET Distance(q) == (q - lastRead[x] - 1) % Cardinality(RxQueues(x))
  IN  IF ready = {} THEN None
      ELSE CHOOSE q \in ready : \A r \in ready : Distance(q) <= Distance(r)

\* A data chunk is stored without its contents, which matter only outside.
Kept(x, chunk) == IF Target(x) = RxFc(x) THEN chunk ELSE DataChunk(chunk.idx)

\* Mutant of EnqDeq: the chunk read stays in the queue.
EnqDeqKeeps(x, idx) ==
  buffer' = [buffer EXCEPT ![x] = [q \in RxQueues(x) |->
    IF Receiving(x) /\ Target(x) = q
    THEN Append(buffer[x][q], Kept(x, Arrived(x))) ELSE buffer[x][q]]]

EnqDeq(x, idx) ==
  buffer' = [buffer EXCEPT ![x] = [q \in RxQueues(x) |->
    LET rest == IF idx = q THEN Tail(buffer[x][q]) ELSE buffer[x][q]
    IN  IF Receiving(x) /\ Target(x) = q THEN Append(rest, Kept(x, Arrived(x))) ELSE rest]]

-----------------------------------------------------------------------------
(* startSendEmpty and finishSendEmpty: giving slots back.                  *)

\* Mutant of BatchReady: any free slot goes back at once.
BatchReadyAny(x, q) == free[x][q] > 0

\* Mutant of BatchReady: only a full buffer's worth goes back.
BatchReadyWhole(x, q) == free[x][q] >= FifoSize

BatchReady(x, q) == free[x][q] > ReturnThreshold

\* The rule reads sendSize and, whichever branch it takes, needs headerFIFO.
Scanning(x) == sendSize[x] = None /\ headerFIFO[x] < FifofDepth

\* startSendEmpty enqueues a header and a batch.
Batching(x) == Scanning(x) /\ BatchReady(x, idxRR[x])

Finishing(x) == sendSize[x] # None /\ Len(bodyFIFO[x]) < FifofDepth

\* Mutant of CountFree: the slots are sent but not claimed.
CountFreeUnclaimed(x, idx) ==
  free' = [free EXCEPT ![x] = [q \in RxQueues(x) |->
    (free[x][q] + (IF idx = q THEN 1 ELSE 0)) % CreditMod]]

\* A batch claims every free slot; the slot of a chunk read in the same cycle
\* is left for the next.
CountFree(x, idx) ==
  free' = [free EXCEPT ![x] = [q \in RxQueues(x) |->
    ((IF Batching(x) /\ idxRR[x] = q THEN 0 ELSE free[x][q])
     + (IF idx = q THEN 1 ELSE 0)) % CreditMod]]

\* One batch at a time.
ReturnCredits(x) ==
  /\ idxRR' = [idxRR EXCEPT ![x] =
       IF ~Scanning(x) THEN @ ELSE IF @ = RxFc(x) THEN 0 ELSE @ + 1]
  /\ sendSize' = [sendSize EXCEPT ![x] =
       IF Batching(x) THEN Credit(idxRR[x], free[x][idxRR[x]])
       ELSE IF Finishing(x) THEN None ELSE @]

IngressCycle(x, idx) ==
  /\ lastRead' = [lastRead EXCEPT ![x] = IF idx = None THEN @ ELSE idx]
  /\ CountReceived(x)
  /\ EnqDeq(x, idx)
  /\ CountFree(x, idx)
  /\ ReturnCredits(x)

IngressTypeOK ==
  /\ DOMAIN buffer = Side
  /\ \A x \in Side :
       /\ buffer[x] \in [RxQueues(x) -> Seq(Chunks)]
       /\ free[x] \in [RxQueues(x) -> 0..(CreditMod - 1)]
       /\ rxChunksRemaining[x] \in 0..Max({1, MaxChunks})
       /\ rxActiveQueue[x] \in RxQueues(x)
       /\ idxRR[x] \in RxQueues(x)
       /\ sendSize[x] \in Chunks \cup {None}
       /\ lastRead[x] \in RxQueues(x)

=============================================================================
