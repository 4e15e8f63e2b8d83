---------------------------- MODULE PointerBuffer ----------------------------
(***************************************************************************)
(* mkFlowControlSwitchIngressNonZero of the pointer switch, cycle by cycle:*)
(* one buffer for all channels.  Each channel is a linked list of slots:   *)
(* headPointers holds its first slot when that is known, tailPointers its  *)
(* last one, and the RAM pointers the slot after each.  A dequeue reads the*)
(* next pointer and the channel has its head a cycle later, while chunks   *)
(* keep arriving.  Slots come from a free list that is filled, one a cycle,*)
(* while the switch is already running.                                    *)
(*                                                                         *)
(* The sender spends a credit for each chunk and knows only their total;   *)
(* emptied slots go back to the free list at once, and their credits to the*)
(* sender in batches.                                                      *)
(***************************************************************************)
EXTENDS Integers, Sequences, FiniteSets, SequencesExt, FiniteSetsExt

CONSTANTS
  NoFifo,     \* n: channels
  FifoSize,   \* MULTIFPGA_FIFO_SIZES
  MinBuffer,  \* MINIMUM_CHANNEL_BUFFER
  MaxChunks,  \* chunks after a header
  Data,       \* what a chunk holds
  None        \* tagged Invalid, an empty FIFO

PointerBufferAssumption ==
  /\ NoFifo \in Nat \ {0}
  /\ FifoSize \in Nat \ {0}
  /\ MinBuffer \in Nat
  /\ NoFifo * MinBuffer <= FifoSize  \* the constant is an unsigned literal
  /\ MaxChunks < FifoSize

Fifos == 0..(NoFifo - 1)
Slots == 0..(FifoSize - 1)

VARIABLES
  freeList, freeListInit,      \* free slots, and the next one to be added first
  mem, pointers,               \* a chunk and the next slot, for each slot
  headPointers, tailPointers,  \* headPointers[f]: a FIFO of one slot
  creditsUsed, creditsFree,    \* slots a channel holds, and has emptied
  reqIdx, memRsp, pointersRsp, \* last cycle's dequeue and what was read for it
  requestChunksRemaining, requestActiveQueue,
  idxRR, sendSize,             \* the next channel to look at; a flow control packet
  totalCreditsUsed             \* the sender's count

storage == <<freeList, freeListInit, mem, pointers, headPointers, tailPointers>>
vars == <<storage, creditsUsed, creditsFree, reqIdx, memRsp, pointersRsp,
          requestChunksRemaining, requestActiveQueue, idxRR, sendSize, totalCreditsUsed>>

ReturnThreshold ==
  Min({FifoSize \div 2, FifoSize - NoFifo * MinBuffer})

\* The RAMs and tailPointers power up with arbitrary contents.
Init ==
  /\ freeList = <<>> /\ freeListInit = 0
  /\ mem = [s \in Slots |-> None]
  /\ pointers = [s \in Slots |-> 0]
  /\ headPointers = [f \in Fifos |-> None]
  /\ tailPointers = [f \in Fifos |-> 0]
  /\ creditsUsed = [f \in Fifos |-> 0]
  /\ creditsFree = [f \in Fifos |-> 0]
  /\ reqIdx = None /\ memRsp = None /\ pointersRsp = None
  /\ requestChunksRemaining = 0 /\ requestActiveQueue = 0
  /\ idxRR = 0 /\ sendSize = None
  /\ totalCreditsUsed = 0

-----------------------------------------------------------------------------
(* What a cycle does.  in is None or an arriving chunk [idx, numChunks,    *)
(* data]; deq is None or the channel that is read.                         *)

\* 1 when the optional index idx names channel f.
Hit(idx, f) == IF idx = f THEN 1 ELSE 0
Arriving(in, f) == IF in # None /\ in.idx = f THEN 1 ELSE 0

\* scan_requests and scan_params wait for a free slot.  A header is sent by a
\* sender with credits for its whole packet, and the rest of it follows.
Contract(in) ==
  in # None =>
    /\ freeList # <<>>
    /\ IF requestChunksRemaining = 0
       THEN totalCreditsUsed + in.numChunks + 1 <= FifoSize
       ELSE in.idx = requestActiveQueue /\ in.numChunks = 0

Framing(in) ==
  IF in = None
  THEN UNCHANGED <<requestChunksRemaining, requestActiveQueue>>
  ELSE /\ requestActiveQueue' = in.idx
       /\ requestChunksRemaining' =
            IF requestChunksRemaining = 0 THEN in.numChunks ELSE requestChunksRemaining - 1

\* The first chunk of an empty channel is its head.
IncomingHeaderUpdate(in, f) == in # None /\ in.idx = f /\ creditsUsed[f] = 0

\* updateHeadPointer: a channel that is empty now drops the pointer it read.
PointerTableHeaderUpdate(f) == reqIdx = f /\ creditsUsed[f] > 0

\* Mutant of AssignHeader: the pointer that was read is used in any case.
AssignHeaderAlways(in, f) ==
  IF headPointers[f] # None THEN headPointers[f]
  ELSE IF reqIdx = f THEN pointersRsp
  ELSE IF IncomingHeaderUpdate(in, f) THEN Head(freeList)
  ELSE None

\* headPointers[f] after this cycle's enq: the FIFO is a bypass FIFO, so the
\* rules that read it see this.
AssignHeader(in, f) ==
  IF headPointers[f] # None THEN headPointers[f]
  ELSE IF IncomingHeaderUpdate(in, f) THEN Head(freeList)
  ELSE IF PointerTableHeaderUpdate(f) THEN pointersRsp
  ELSE None

\* Mutant of MayDequeue: a head is enough.
MayDequeueHead(in, f) == AssignHeader(in, f) # None

\* write_response_newmsg1: a chunk that arrives in this cycle is not counted yet.
MayDequeue(in, f) == creditsUsed[f] > 0 /\ AssignHeader(in, f) # None

\* A chunk is linked behind the last one of its channel.
Link(in) ==
  IF in # None /\ creditsUsed[in.idx] > 0
  THEN [pointers EXCEPT ![tailPointers[in.idx]] = Head(freeList)]
  ELSE pointers

Store(in) ==
  /\ mem' = IF in = None THEN mem ELSE [mem EXCEPT ![Head(freeList)] = in.data]
  /\ pointers' = Link(in)
  /\ tailPointers' =
       IF in = None THEN tailPointers ELSE [tailPointers EXCEPT ![in.idx] = Head(freeList)]

\* Mutant of ReadPointer: the RAM of pointers has no bypass.
ReadPointerOld(in, slot) == pointers[slot]

\* mkBypassBRAMUnguarded: a read sees this cycle's write.
ReadPointer(in, slot) == Link(in)[slot]

\* makeReq
Request(in, deq) ==
  /\ reqIdx' = deq
  /\ headPointers' = [f \in Fifos |-> IF f = deq THEN None ELSE AssignHeader(in, f)]
  /\ IF deq = None
     THEN memRsp' = None /\ pointersRsp' = None
     ELSE /\ memRsp' = mem[AssignHeader(in, deq)]
          /\ pointersRsp' = ReadPointer(in, AssignHeader(in, deq))

\* Mutant of Recycle: initFreeList and makeReq fill the free list in one cycle,
\* and the slot that was read is lost.
RecycleInitFirst(in, deq) ==
  LET rest == IF in = None THEN freeList ELSE Tail(freeList)
  IN  IF freeListInit < FifoSize
      THEN freeList' = Append(rest, freeListInit) /\ freeListInit' = freeListInit + 1
      ELSE /\ freeList' = IF deq = None THEN rest ELSE Append(rest, AssignHeader(in, deq))
           /\ UNCHANGED freeListInit

\* freeList has one enq: initFreeList does not fire when makeReq does.
Recycle(in, deq) ==
  LET rest == IF in = None THEN freeList ELSE Tail(freeList)
  IN  CASE deq # None ->
             freeList' = Append(rest, AssignHeader(in, deq)) /\ UNCHANGED freeListInit
        [] deq = None /\ freeListInit < FifoSize ->
             freeList' = Append(rest, freeListInit) /\ freeListInit' = freeListInit + 1
        [] OTHER -> freeList' = rest /\ UNCHANGED freeListInit

CountUsed(in, deq) ==
  creditsUsed' = [f \in Fifos |-> creditsUsed[f] + Arriving(in, f) - Hit(deq, f)]

-----------------------------------------------------------------------------
(* Flow control: credits go back more eagerly when many are due            *)

CreditsFreeTotal == MapThenSumSet(LAMBDA f : creditsFree[f], Fifos)

TooFree(f) ==
  \/ creditsFree[f] > 0 /\ CreditsFreeTotal > ReturnThreshold
  \/ creditsFree[f] > ReturnThreshold \div 2

\* Mutant of CountFree: the batch that is sent hides a slot emptied meanwhile.
CountFreeReset(deq, sends) ==
  creditsFree' = [f \in Fifos |->
    IF sends /\ f = idxRR THEN 0 ELSE creditsFree[f] + Hit(deq, f)]

\* "In case someone else wants to incr": the batch is subtracted.
CountFree(deq, sends) ==
  creditsFree' = [f \in Fifos |->
    creditsFree[f] + Hit(deq, f) - (IF sends /\ f = idxRR THEN creditsFree[f] ELSE 0)]

\* startSendEmpty, one packet at a time; taken says that the sender gets it now.
SendEmpty(in, deq, taken) ==
  LET sends == sendSize = None /\ TooFree(idxRR)
  IN  /\ taken => sendSize # None
      /\ idxRR' = IF sendSize = None THEN (idxRR + 1) % NoFifo ELSE idxRR
      /\ CountFree(deq, sends)
      /\ sendSize' = IF sends THEN creditsFree[idxRR]
                     ELSE IF taken THEN None ELSE sendSize
      /\ totalCreditsUsed' =
           totalCreditsUsed - (IF taken THEN sendSize ELSE 0)
             + (IF in # None /\ requestChunksRemaining = 0 THEN in.numChunks + 1 ELSE 0)

Cycle(in, deq, taken) ==
  /\ Contract(in)
  /\ deq # None => MayDequeue(in, deq)
  /\ Framing(in) /\ Store(in) /\ Request(in, deq) /\ Recycle(in, deq)
  /\ CountUsed(in, deq)
  /\ SendEmpty(in, deq, taken)

Ins == {None} \cup [idx : Fifos, numChunks : 0..MaxChunks, data : Data]
Deqs == {None} \cup Fifos

Next == \E in \in Ins, deq \in Deqs, taken \in BOOLEAN : Cycle(in, deq, taken)

Spec == Init /\ [][Next]_vars

-----------------------------------------------------------------------------

\* The slots of channel f, first to last.
Chain(f) ==
  LET first == IF headPointers[f] # None THEN headPointers[f] ELSE pointersRsp
      chain[k \in 1..creditsUsed[f]] == IF k = 1 THEN first ELSE pointers[chain[k - 1]]
  IN  chain

AllChains == FoldFunction(\o, <<>>, [f \in Fifos |-> Chain(f)])

\* Every slot is free, in one place of one list, or still to be added to the free
\* list; a list ends where the next chunk will be linked, its head is known or
\* was read last cycle, and it is never set from two sides at once (lines 584-610).
ListsAreWhole ==
  /\ IsInjective(freeList \o AllChains)
  /\ ToSet(freeList \o AllChains) = 0..(freeListInit - 1)
  /\ \A f \in Fifos : creditsUsed[f] > 0 =>
       /\ headPointers[f] # None \/ reqIdx = f
       /\ Last(Chain(f)) = tailPointers[f]
       /\ ~(headPointers[f] # None /\ reqIdx = f)

\* doAssert: no credit is lost, and the sender's count covers every slot in use,
\* so a chunk it sends finds one.
CreditsAreWhole ==
  totalCreditsUsed =
    Len(AllChains) + CreditsFreeTotal + requestChunksRemaining
      + (IF sendSize = None THEN 0 ELSE sendSize)

MQ == INSTANCE MultiQueue WITH
  Size <- FifoSize,
  queue <- [f \in Fifos |-> [k \in DOMAIN Chain(f) |-> mem[Chain(f)[k]]]],
  response <- memRsp,
  free <- creditsFree,
  tokens <- [f \in Fifos |-> FifoSize - creditsUsed[f] - creditsFree[f]]

\* Through lists in one RAM whose heads are known late, each channel delivers what
\* came in, in order and once.
ImplementsMultiQueue == MQ!Spec

=============================================================================
