----------------------------- MODULE VLevelFIFO -----------------------------
(***************************************************************************)
(* mkBRAMVLevelFIFO, cycle by cycle: NoFifo ring buffers in one block RAM  *)
(* with one write port and one read port.  Nothing in it is guarded, so    *)
(* the user must hold a token to enq, see used > 0 to deq, and claim no    *)
(* more than free.  The counters he consults lag: usedReg counts an enq    *)
(* and freeReg a deq one cycle after the fact, while a deq lowers usedReg  *)
(* and a claim lowers freeReg at once.                                     *)
(*                                                                         *)
(* One step is one clock cycle.  The wires enqIdx, deqIdx and decrFreeIdx  *)
(* are the arguments of Cycle; None is a wire nobody drives.               *)
(***************************************************************************)
EXTENDS Integers, Sequences

CONSTANTS
  NoFifo,  \* no_fifo
  Size,    \* fifo_sz, a power of two: head and tail wrap at Size
  Data,    \* data_t
  None     \* tagged Invalid

ASSUME VLevelFIFOAssumption ==
  /\ NoFifo \in Nat \ {0}
  /\ Size \in Nat \ {0}
  /\ None \notin Nat

Fifos == 0..(NoFifo - 1)

VARIABLES
  head, tail,              \* the two register files
  ram,                     \* ugbram, one ring of Size words for each FIFO
  usedReg, freeReg,        \* the counters the user reads
  lastEnqIdx, lastDeqIdx,  \* last cycle's enq and deq, not counted yet
  readRsp,                 \* the RAM's response, valid for one cycle
  i, finishInit,           \* the initialization processor
  tokens                   \* the user: enqueue tokens he holds

vars == <<head, tail, ram, usedReg, freeReg, lastEnqIdx, lastDeqIdx, readRsp,
          i, finishInit, tokens>>

\* The counters are Bit#(TLog#(TAdd#(fifo_sz,1))) wide.
CounterMod == 2 * Size

\* 1 when the optional index idx names FIFO f.
Hit(idx, f) == IF idx = f THEN 1 ELSE 0

\* How many slots of f the optional claim takes.
Claimed(claim, f) == IF claim # None /\ claim.idx = f THEN claim.amnt ELSE 0

-----------------------------------------------------------------------------

\* The register files and the RAM power up with arbitrary contents.  The
\* parameter zeroFreeInit says whether the user starts with all the tokens.
Init ==
  /\ head \in [Fifos -> 0..(Size - 1)]
  /\ tail \in [Fifos -> 0..(Size - 1)]
  /\ ram = [f \in Fifos |-> [a \in 0..(Size - 1) |-> None]]
  /\ usedReg = [f \in Fifos |-> 0]
  /\ lastEnqIdx = None
  /\ lastDeqIdx = None
  /\ readRsp = None
  /\ i = 0
  /\ finishInit = FALSE
  /\ \E zeroFreeInit \in BOOLEAN :
       /\ freeReg = [f \in Fifos |-> IF zeroFreeInit THEN 0 ELSE Size]
       /\ tokens = [f \in Fifos |-> IF zeroFreeInit THEN Size ELSE 0]

\* Mutant of Initialization: it ends one FIFO early.
InitializationShort ==
  /\ ~finishInit
  /\ head' = [head EXCEPT ![i] = 0]
  /\ tail' = [tail EXCEPT ![i] = 0]
  /\ i' = (i + 1) % NoFifo
  /\ finishInit' = (i + 1 >= NoFifo - 1)
  /\ UNCHANGED <<ram, usedReg, freeReg, lastEnqIdx, lastDeqIdx, readRsp, tokens>>

\* One ring is reset per cycle; until all are, no method is ready.
Initialization ==
  /\ ~finishInit
  /\ head' = [head EXCEPT ![i] = 0]
  /\ tail' = [tail EXCEPT ![i] = 0]
  /\ i' = (i + 1) % NoFifo
  /\ finishInit' = (i = NoFifo - 1)
  /\ UNCHANGED <<ram, usedReg, freeReg, lastEnqIdx, lastDeqIdx, readRsp, tokens>>

ProcessEnq(enq) ==
  IF enq = None
  THEN /\ lastEnqIdx' = None
       /\ UNCHANGED <<tail, ram>>
  ELSE /\ tail' = [tail EXCEPT ![enq.idx] = (@ + 1) % Size]
       /\ ram' = [ram EXCEPT ![enq.idx][tail[enq.idx]] = enq.data]
       /\ lastEnqIdx' = enq.idx

\* Mutant of ProcessDeq: the read is addressed with the advanced head.
ProcessDeqAfterBump(deq) ==
  /\ lastDeqIdx' = deq
  /\ IF deq = None
     THEN readRsp' = None /\ UNCHANGED head
     ELSE /\ head' = [head EXCEPT ![deq] = (@ + 1) % Size]
          /\ readRsp' = ram[deq][(head[deq] + 1) % Size]

\* firstReq and deq of one FIFO: the read request uses the old head.
ProcessDeq(deq) ==
  /\ lastDeqIdx' = deq
  /\ IF deq = None
     THEN readRsp' = None /\ UNCHANGED head
     ELSE /\ head' = [head EXCEPT ![deq] = (@ + 1) % Size]
          /\ readRsp' = ram[deq][head[deq]]

\* updateUsedReg writes port 0 of the EHR and processDeq port 1, so a cycle
\* with both sees both.
UpdateUsed(deq) ==
  usedReg' = [f \in Fifos |->
    (usedReg[f] + Hit(lastEnqIdx, f) + CounterMod - Hit(deq, f)) % CounterMod]

\* Mutant of UpdateFree: a claim overwrites last cycle's deq.
UpdateFreeLosesDeq(claim) ==
  freeReg' = [f \in Fifos |->
    IF Claimed(claim, f) > 0
    THEN (freeReg[f] + CounterMod - Claimed(claim, f)) % CounterMod
    ELSE (freeReg[f] + Hit(lastDeqIdx, f)) % CounterMod]

\* Likewise updateFreeReg on port 0 and processDecrFree on port 1.
UpdateFree(claim) ==
  freeReg' = [f \in Fifos |->
    (freeReg[f] + Hit(lastDeqIdx, f) + CounterMod - Claimed(claim, f)) % CounterMod]

\* The user's side of the bargain, decided on the registers of this cycle.
Contract(enq, deq, claim) ==
  /\ enq # None => tokens[enq.idx] > 0
  /\ deq # None => usedReg[deq] > 0
  /\ claim # None => claim.amnt <= freeReg[claim.idx]

UserTokens(enq, claim) ==
  tokens' = [f \in Fifos |->
    tokens[f] + Claimed(claim, f) - (IF enq # None /\ enq.idx = f THEN 1 ELSE 0)]

Cycle(enq, deq, claim) ==
  /\ finishInit
  /\ Contract(enq, deq, claim)
  /\ ProcessEnq(enq)
  /\ ProcessDeq(deq)
  /\ UpdateUsed(deq)
  /\ UpdateFree(claim)
  /\ UserTokens(enq, claim)
  /\ UNCHANGED <<i, finishInit>>

Enqs == {None} \cup [idx : Fifos, data : Data]
Deqs == {None} \cup Fifos
Claims == {None} \cup [idx : Fifos, amnt : 1..Size]

Next ==
  \/ Initialization
  \/ \E enq \in Enqs, deq \in Deqs, claim \in Claims : Cycle(enq, deq, claim)

Spec == Init /\ [][Next]_vars

-----------------------------------------------------------------------------

TypeOK ==
  /\ head \in [Fifos -> 0..(Size - 1)]
  /\ tail \in [Fifos -> 0..(Size - 1)]
  /\ ram \in [Fifos -> [0..(Size - 1) -> Data \cup {None}]]
  /\ usedReg \in [Fifos -> 0..Size]
  /\ freeReg \in [Fifos -> 0..Size]
  /\ lastEnqIdx \in Deqs
  /\ lastDeqIdx \in Deqs
  /\ readRsp \in Data \cup {None}
  /\ i \in Fifos
  /\ finishInit \in BOOLEAN
  /\ tokens \in [Fifos -> 0..Size]

\* Words in ring f that were enqueued and not dequeued: usedReg counts the
\* newest one a cycle late.
Occupancy(f) == usedReg[f] + Hit(lastEnqIdx, f)

\* Slots of f that were dequeued and not claimed.
Unclaimed(f) == freeReg[f] + Hit(lastDeqIdx, f)

\* Every slot is in the user's hands, occupied or unclaimed, never two of
\* these, although the counters lag behind the operations (lines 137-150).
SlotConservation ==
  \A f \in Fifos : tokens[f] + Occupancy(f) + Unclaimed(f) = Size

\* The pointers enclose exactly the words the counters say are there, so an
\* enq never lands on a word that was not dequeued.
PointersAgree ==
  finishInit => \A f \in Fifos : (head[f] + Occupancy(f)) % Size = tail[f]

-----------------------------------------------------------------------------

\* The abstract queues, read off the RAM between head and tail.
Contents(f) ==
  [k \in 1..Occupancy(f) |-> ram[f][(head[f] + k - 1) % Size]]

MQ == INSTANCE MultiQueue WITH
  queue <- [f \in Fifos |-> Contents(f)],
  response <- readRsp,
  free <- [f \in Fifos |-> Unclaimed(f)]

\* Each FIFO delivers what was put into it, in order and once, through the
\* shared RAM and whatever operations coincide.
ImplementsMultiQueue == MQ!Spec

=============================================================================
