-------------------------- MODULE VLevelFIFOProofs --------------------------
(***************************************************************************)
(* Theorems about VLevelFIFO for every number of FIFOs, every size and     *)
(* every data type.  TypeOK and SlotConservation are inductive together:   *)
(* the counters stay in their range only because tokens, words and         *)
(* unclaimed slots add up to Size, and the sum is kept only because the    *)
(* counters do not wrap.                                                   *)
(***************************************************************************)
EXTENDS VLevelFIFO, CountingLemmas, SequenceTheorems, TLAPS

\* The optional index lastEnqIdx or deq hits a FIFO or not.
LEMMA HitType ==
  ASSUME NEW idx, NEW f PROVE Hit(idx, f) \in {0, 1}
BY DEF Hit

\* What a cycle's operations add to and take from one FIFO.
Enqueued(enq, f) == IF enq # None /\ enq.idx = f THEN 1 ELSE 0

\* Under the user's contract no counter wraps, so a cycle moves the counters
\* of a FIFO by exactly what its operations say.
LEMMA CycleCounts ==
  ASSUME TypeOK, SlotConservation,
         NEW enq \in Enqs, NEW deq \in Deqs, NEW claim \in Claims,
         Cycle(enq, deq, claim), NEW f \in Fifos
  PROVE  /\ usedReg'[f] = usedReg[f] + Hit(lastEnqIdx, f) - Hit(deq, f)
         /\ freeReg'[f] = freeReg[f] + Hit(lastDeqIdx, f) - Claimed(claim, f)
         /\ tokens'[f] = tokens[f] + Claimed(claim, f) - Enqueued(enq, f)
         /\ Hit(lastEnqIdx', f) = Enqueued(enq, f)
         /\ lastDeqIdx' = deq
         /\ usedReg'[f] \in 0..Size
         /\ freeReg'[f] \in 0..Size
         /\ tokens'[f] \in 0..Size
<1> DEFINE e == Hit(lastEnqIdx, f)
           d == Hit(deq, f)
           l == Hit(lastDeqIdx, f)
           c == Claimed(claim, f)
           n == Enqueued(enq, f)
<1>1. e \in {0, 1} /\ d \in {0, 1} /\ l \in {0, 1}
  BY HitType
<1>2. n \in {0, 1} /\ (n = 1 => tokens[f] > 0)
  BY DEF Enqueued, Cycle, Contract
<1>3. c \in Nat /\ c <= freeReg[f]
  <2>1. CASE claim = None
    BY <2>1, VLevelFIFOAssumption DEF Claimed, TypeOK
  <2>2. CASE claim \in [idx : Fifos, amnt : 1..Size]
    <3>1. claim.amnt \in 1..Size /\ (claim # None => claim.amnt <= freeReg[claim.idx])
      BY <2>2 DEF Cycle, Contract
    <3>2. QED
      BY <3>1, VLevelFIFOAssumption DEF Claimed, TypeOK
  <2>3. QED
    BY <2>1, <2>2 DEF Claims
<1>4. d = 1 => usedReg[f] > 0
  BY VLevelFIFOAssumption DEF Hit, Cycle, Contract, Fifos
<1>5. /\ usedReg[f] \in 0..Size /\ freeReg[f] \in 0..Size /\ tokens[f] \in 0..Size
      /\ tokens[f] + (usedReg[f] + e) + (freeReg[f] + l) = Size
  BY DEF TypeOK, SlotConservation, Occupancy, Unclaimed
<1>6. Size \in Nat \ {0} /\ CounterMod = 2 * Size
  BY VLevelFIFOAssumption DEF CounterMod
<1>7. usedReg'[f] = usedReg[f] + e - d
  <2>1. usedReg'[f] = (usedReg[f] + e + CounterMod - d) % CounterMod
    BY DEF Cycle, UpdateUsed
  <2>2. usedReg[f] + e - d \in 0..(CounterMod - 1)
    BY <1>1, <1>4, <1>5, <1>6
  <2>3. usedReg[f] + e + CounterMod - d = (usedReg[f] + e - d) + CounterMod
    BY <1>1, <1>5, <1>6
  <2> HIDE DEF e, d
  <2>4. QED
    BY <2>1, <2>2, <2>3, <1>6, ModAbove
<1>8. freeReg'[f] = freeReg[f] + l - c
  <2>1. freeReg'[f] = (freeReg[f] + l + CounterMod - c) % CounterMod
    BY DEF Cycle, UpdateFree
  <2>2. freeReg[f] + l - c \in 0..(CounterMod - 1)
    BY <1>1, <1>3, <1>5, <1>6
  <2>3. freeReg[f] + l + CounterMod - c = (freeReg[f] + l - c) + CounterMod
    BY <1>1, <1>3, <1>5, <1>6
  <2> HIDE DEF l, c
  <2>4. QED
    BY <2>1, <2>2, <2>3, <1>6, ModAbove
<1>9. tokens'[f] = tokens[f] + c - n
  BY DEF Cycle, UserTokens, Enqueued
<1>10. Hit(lastEnqIdx', f) = n
  BY VLevelFIFOAssumption DEF Cycle, ProcessEnq, Hit, Enqueued, Enqs, Fifos
<1>11. lastDeqIdx' = deq
  BY DEF Cycle, ProcessDeq
<1>12. QED
  BY <1>1, <1>2, <1>3, <1>4, <1>5, <1>6, <1>7, <1>8, <1>9, <1>10, <1>11

\* A cycle keeps every slot accounted for.
LEMMA SlotConservationStep ==
  ASSUME TypeOK, SlotConservation,
         NEW enq \in Enqs, NEW deq \in Deqs, NEW claim \in Claims,
         Cycle(enq, deq, claim)
  PROVE  SlotConservation'
<1> SUFFICES ASSUME NEW f \in Fifos
             PROVE  tokens'[f] + (usedReg'[f] + Hit(lastEnqIdx', f))
                      + (freeReg'[f] + Hit(lastDeqIdx', f)) = Size
  BY DEF SlotConservation, Occupancy, Unclaimed, Hit
<1>1. /\ usedReg'[f] = usedReg[f] + Hit(lastEnqIdx, f) - Hit(deq, f)
      /\ freeReg'[f] = freeReg[f] + Hit(lastDeqIdx, f) - Claimed(claim, f)
      /\ tokens'[f] = tokens[f] + Claimed(claim, f) - Enqueued(enq, f)
      /\ Hit(lastEnqIdx', f) = Enqueued(enq, f)
      /\ Hit(lastDeqIdx', f) = Hit(deq, f)
  BY CycleCounts
<1>2. tokens[f] + (usedReg[f] + Hit(lastEnqIdx, f))
        + (freeReg[f] + Hit(lastDeqIdx, f)) = Size
  BY DEF SlotConservation, Occupancy, Unclaimed
<1>3. /\ Hit(lastEnqIdx, f) \in {0, 1} /\ Hit(lastDeqIdx, f) \in {0, 1}
      /\ Hit(deq, f) \in {0, 1} /\ Enqueued(enq, f) \in {0, 1}
  BY HitType DEF Enqueued
<1>4. usedReg[f] \in Nat /\ freeReg[f] \in Nat /\ tokens[f] \in Nat
  BY VLevelFIFOAssumption DEF TypeOK
<1>5. Claimed(claim, f) \in Nat
  BY VLevelFIFOAssumption DEF Claimed, Claims
<1>6. QED
  BY <1>1, <1>2, <1>3, <1>4, <1>5, VLevelFIFOAssumption

\* A cycle keeps every register in its range.
LEMMA TypeOKStep ==
  ASSUME TypeOK, SlotConservation,
         NEW enq \in Enqs, NEW deq \in Deqs, NEW claim \in Claims,
         Cycle(enq, deq, claim)
  PROVE  TypeOK'
<1>1. \A f \in Fifos : /\ usedReg'[f] \in 0..Size
                       /\ freeReg'[f] \in 0..Size
                       /\ tokens'[f] \in 0..Size
  BY CycleCounts
<1>2. /\ usedReg' \in [Fifos -> 0..Size]
      /\ freeReg' \in [Fifos -> 0..Size]
      /\ tokens' \in [Fifos -> 0..Size]
  BY <1>1 DEF Cycle, UpdateUsed, UpdateFree, UserTokens
<1>3. \A x \in 0..(Size - 1) : (x + 1) % Size \in 0..(Size - 1)
  BY VLevelFIFOAssumption
<1>4. /\ tail' \in [Fifos -> 0..(Size - 1)]
      /\ ram' \in [Fifos -> [0..(Size - 1) -> Data \cup {None}]]
  <2>1. ProcessEnq(enq)
    BY DEF Cycle
  <2>2. /\ tail \in [Fifos -> 0..(Size - 1)]
        /\ ram \in [Fifos -> [0..(Size - 1) -> Data \cup {None}]]
    BY DEF TypeOK
  <2>3. CASE enq = None
    BY <2>1, <2>2, <2>3 DEF ProcessEnq
  <2>4. CASE enq # None
    <3>1. enq.idx \in Fifos /\ enq.data \in Data
      BY <2>4 DEF Enqs
    <3>2. tail[enq.idx] \in 0..(Size - 1)
      BY <2>2, <3>1
    <3>3. (tail[enq.idx] + 1) % Size \in 0..(Size - 1)
      BY <1>3, <3>2
    <3>4. tail' = [tail EXCEPT ![enq.idx] = (tail[enq.idx] + 1) % Size]
      BY <2>1, <2>4 DEF ProcessEnq
    <3>5. tail' \in [Fifos -> 0..(Size - 1)]
      BY <2>2, <3>3, <3>4
    <3>6. ram' = [ram EXCEPT ![enq.idx] =
                    [ram[enq.idx] EXCEPT ![tail[enq.idx]] = enq.data]]
      BY <2>1, <2>4 DEF ProcessEnq
    <3>7. ram' \in [Fifos -> [0..(Size - 1) -> Data \cup {None}]]
      BY <2>2, <3>1, <3>2, <3>6
    <3>8. QED
      BY <3>5, <3>7
  <2>5. QED
    BY <2>3, <2>4
<1>5. /\ head' \in [Fifos -> 0..(Size - 1)]
      /\ readRsp' \in Data \cup {None}
  <2>1. ProcessDeq(deq)
    BY DEF Cycle
  <2>2. /\ head \in [Fifos -> 0..(Size - 1)]
        /\ ram \in [Fifos -> [0..(Size - 1) -> Data \cup {None}]]
    BY DEF TypeOK
  <2>3. CASE deq = None
    BY <2>1, <2>2, <2>3 DEF ProcessDeq
  <2>4. CASE deq # None
    <3>1. deq \in Fifos
      BY <2>4 DEF Deqs
    <3>2. head[deq] \in 0..(Size - 1)
      BY <2>2, <3>1
    <3>3. ram[deq][head[deq]] \in Data \cup {None}
      BY <2>2, <3>1, <3>2
    <3>4. (head[deq] + 1) % Size \in 0..(Size - 1)
      BY <1>3, <3>2
    <3>5. /\ head' = [head EXCEPT ![deq] = (head[deq] + 1) % Size]
          /\ readRsp' = ram[deq][head[deq]]
      BY <2>1, <2>4 DEF ProcessDeq
    <3>6. QED
      BY <2>2, <3>3, <3>4, <3>5
  <2>5. QED
    BY <2>3, <2>4
<1>6. lastEnqIdx' \in Deqs /\ lastDeqIdx' \in Deqs
  BY DEF Cycle, ProcessEnq, ProcessDeq, Enqs, Deqs
<1>7. i' \in Fifos /\ finishInit' \in BOOLEAN
  BY DEF TypeOK, Cycle
<1>8. QED
  BY <1>2, <1>4, <1>5, <1>6, <1>7 DEF TypeOK

\* The inductive invariant: ranges and slot accounting, together.
IInv == TypeOK /\ SlotConservation

\* Ranges and slot accounting hold in every reachable state.
THEOREM IInvCorrect == Spec => []IInv
<1>1. Init => IInv
  <2> SUFFICES ASSUME Init PROVE IInv
    OBVIOUS
  <2>1. 0 \in Fifos /\ Size \in Nat
    BY VLevelFIFOAssumption DEF Fifos
  <2>2. TypeOK
    <3>1. \A z \in BOOLEAN : /\ (IF z THEN 0 ELSE Size) \in 0..Size
                             /\ (IF z THEN Size ELSE 0) \in 0..Size
      BY <2>1
    <3>2. freeReg \in [Fifos -> 0..Size] /\ tokens \in [Fifos -> 0..Size]
      BY <3>1 DEF Init
    <3>3. usedReg \in [Fifos -> 0..Size]
      BY <2>1 DEF Init
    <3>4. ram \in [Fifos -> [0..(Size - 1) -> Data \cup {None}]]
      BY DEF Init
    <3>5. QED
      BY <2>1, <3>2, <3>3, <3>4 DEF Init, TypeOK, Deqs
  <2>3. SlotConservation
    BY <2>1, VLevelFIFOAssumption
       DEF Init, SlotConservation, Occupancy, Unclaimed, Hit, Fifos
  <2>4. QED
    BY <2>2, <2>3 DEF IInv
<1>2. IInv /\ [Next]_vars => IInv'
  <2> SUFFICES ASSUME IInv, [Next]_vars PROVE IInv'
    OBVIOUS
  <2> USE DEF IInv
  <2>1. CASE Initialization
    <3>1. 0 \in 0..(Size - 1)
      BY VLevelFIFOAssumption
    <3>2. (i + 1) % NoFifo \in Fifos
      BY VLevelFIFOAssumption DEF Fifos, TypeOK
    <3>3. TypeOK'
      BY <2>1, <3>1, <3>2 DEF Initialization, TypeOK
    <3>4. SlotConservation'
      BY <2>1 DEF Initialization, SlotConservation, Occupancy, Unclaimed, Hit
    <3>5. QED
      BY <3>3, <3>4
  <2>2. ASSUME NEW enq \in Enqs, NEW deq \in Deqs, NEW claim \in Claims,
               Cycle(enq, deq, claim)
        PROVE  IInv'
    BY <2>2, TypeOKStep, SlotConservationStep
  <2>3. CASE UNCHANGED vars
    BY <2>3 DEF vars, TypeOK, SlotConservation, Occupancy, Unclaimed, Hit
  <2>4. QED
    BY <2>1, <2>2, <2>3 DEF Next
<1>3. QED
  BY <1>1, <1>2, PTL DEF Spec

\* Every register of mkBRAMVLevelFIFO keeps its range: no counter wraps.
THEOREM TypeCorrect == Spec => []TypeOK
<1>1. IInv => TypeOK
  BY DEF IInv
<1>2. QED
  BY <1>1, IInvCorrect, PTL

\* Tokens, words and unclaimed slots of a FIFO always add up to its size.
THEOREM SlotConservationCorrect == Spec => []SlotConservation
<1>1. IInv => SlotConservation
  BY DEF IInv
<1>2. QED
  BY <1>1, IInvCorrect, PTL

-----------------------------------------------------------------------------
(* The pointers.  They are trusted only after every ring was reset, so the *)
(* invariant follows the initialization: the rings below i are reset, and  *)
(* nothing was enqueued or dequeued yet.                                   *)

\* Moving head past d words that leave and tail past n that come keeps the
\* distance between them the number of words.
LEMMA PointerStep ==
  ASSUME NEW m \in Nat \ {0}, NEW h \in 0..(m - 1), NEW t \in 0..(m - 1),
         NEW occ \in 0..m, NEW n \in {0, 1}, NEW d \in {0, 1},
         occ - d + n \in 0..m, (h + occ) % m = t
  PROVE  (((h + d) % m) + (occ - d + n)) % m = (t + n) % m
<1>1. t = IF h + occ < m THEN h + occ ELSE h + occ - m
  BY ModOnce
<1> DEFINE y == h + d
           z == t + n
<1>2. y % m = IF y < m THEN y ELSE y - m
  <2>1. y \in 0..(2 * m - 1)
    OBVIOUS
  <2> HIDE DEF y
  <2>2. QED
    BY <2>1, ModOnce
<1>3. z % m = IF z < m THEN z ELSE z - m
  <2>1. z \in 0..(2 * m - 1)
    OBVIOUS
  <2> HIDE DEF z
  <2>2. QED
    BY <2>1, ModOnce
<1> DEFINE h1 == IF h + d < m THEN h + d ELSE h + d - m
           x == h1 + (occ - d + n)
<1>4. h1 \in 0..(m - 1) /\ x \in 0..(2 * m - 1)
  OBVIOUS
<1>5. x % m = IF x < m THEN x ELSE x - m
  <2> HIDE DEF x
  <2>1. QED
    BY <1>4, ModOnce
<1>6. QED
  BY <1>1, <1>2, <1>3, <1>4, <1>5

\* The rings below i are reset and nobody has used any of them.
Resetting ==
  ~finishInit =>
    \A f \in Fifos : /\ f < i => head[f] = 0 /\ tail[f] = 0
                     /\ Occupancy(f) = 0

\* The pointers are moved by the operations of the cycle.
LEMMA PointersMove ==
  ASSUME TypeOK, NEW enq \in Enqs, NEW deq \in Deqs, NEW claim \in Claims,
         Cycle(enq, deq, claim), NEW f \in Fifos
  PROVE  /\ head'[f] = (head[f] + Hit(deq, f)) % Size
         /\ tail'[f] = (tail[f] + Enqueued(enq, f)) % Size
<1>1. /\ head \in [Fifos -> 0..(Size - 1)] /\ head[f] \in 0..(Size - 1)
      /\ tail \in [Fifos -> 0..(Size - 1)] /\ tail[f] \in 0..(Size - 1)
  BY DEF TypeOK
<1>2. head[f] % Size = head[f] /\ tail[f] % Size = tail[f]
  BY <1>1, ModBelow, VLevelFIFOAssumption
<1>3. head[f] + 0 = head[f] /\ tail[f] + 0 = tail[f]
  BY <1>1
<1>4. head'[f] = (head[f] + Hit(deq, f)) % Size
  <2>1. ProcessDeq(deq) /\ None \notin Fifos
    BY VLevelFIFOAssumption DEF Cycle, Fifos
  <2>2. CASE deq = f
    BY <1>1, <2>1, <2>2 DEF ProcessDeq, Hit
  <2>3. CASE deq # f
    <3>1. head'[f] = head[f]
      BY <1>1, <2>1, <2>3 DEF ProcessDeq
    <3>2. QED
      BY <1>2, <1>3, <2>3, <3>1 DEF Hit
  <2>4. QED
    BY <2>2, <2>3
<1>5. tail'[f] = (tail[f] + Enqueued(enq, f)) % Size
  <2>1. ProcessEnq(enq)
    BY DEF Cycle
  <2>2. CASE enq # None /\ enq.idx = f
    BY <1>1, <2>1, <2>2 DEF ProcessEnq, Enqueued
  <2>3. CASE ~(enq # None /\ enq.idx = f)
    <3>1. tail'[f] = tail[f]
      BY <1>1, <2>1, <2>3 DEF ProcessEnq
    <3>2. QED
      BY <1>2, <1>3, <2>3, <3>1 DEF Enqueued
  <2>4. QED
    BY <2>2, <2>3
<1>6. QED
  BY <1>4, <1>5

\* Where head was and how many words there are say where tail is; a cycle keeps
\* it so.
LEMMA PointersAgreeStep ==
  ASSUME TypeOK, SlotConservation, PointersAgree,
         NEW enq \in Enqs, NEW deq \in Deqs, NEW claim \in Claims,
         Cycle(enq, deq, claim)
  PROVE  PointersAgree'
<1> SUFFICES ASSUME NEW f \in Fifos
             PROVE  (head'[f] + (usedReg'[f] + Hit(lastEnqIdx', f))) % Size = tail'[f]
  BY DEF PointersAgree, Occupancy, Hit
<1> DEFINE occ == usedReg[f] + Hit(lastEnqIdx, f)
           d == Hit(deq, f)
           n == Enqueued(enq, f)
<1>1. /\ usedReg'[f] = occ - d
      /\ Hit(lastEnqIdx', f) = n
  <2>1. /\ usedReg'[f] = usedReg[f] + Hit(lastEnqIdx, f) - Hit(deq, f)
        /\ Hit(lastEnqIdx', f) = Enqueued(enq, f)
    BY CycleCounts
  <2>2. usedReg[f] \in Nat /\ Hit(lastEnqIdx, f) \in {0, 1} /\ Hit(deq, f) \in {0, 1}
    BY VLevelFIFOAssumption, HitType DEF TypeOK
  <2>3. QED
    BY <2>1, <2>2
<1>2. (head[f] + occ) % Size = tail[f]
  BY DEF PointersAgree, Occupancy, Cycle
<1>3. head'[f] = (head[f] + d) % Size /\ tail'[f] = (tail[f] + n) % Size
  BY PointersMove
<1>4. d \in {0, 1} /\ n \in {0, 1} /\ Hit(lastEnqIdx, f) \in {0, 1}
  BY HitType DEF Enqueued
<1>5. /\ head[f] \in 0..(Size - 1) /\ tail[f] \in 0..(Size - 1)
      /\ Size \in Nat \ {0}
  BY VLevelFIFOAssumption DEF TypeOK
<1>6. occ \in 0..Size
  <2>1. /\ tokens[f] \in Nat /\ usedReg[f] \in Nat /\ freeReg[f] \in Nat
        /\ tokens[f] + occ + (freeReg[f] + Hit(lastDeqIdx, f)) = Size
    BY VLevelFIFOAssumption DEF TypeOK, SlotConservation, Occupancy, Unclaimed
  <2>2. Hit(lastDeqIdx, f) \in {0, 1}
    BY HitType
  <2>3. QED
    BY <1>4, <1>5, <2>1, <2>2
<1>7. occ - d + n \in 0..Size
  <2>1. SlotConservation' /\ TypeOK'
    BY SlotConservationStep, TypeOKStep
  <2>2. /\ tokens'[f] \in Nat /\ usedReg'[f] \in Nat /\ freeReg'[f] \in Nat
        /\ tokens'[f] + (usedReg'[f] + Hit(lastEnqIdx', f)) + (freeReg'[f] + Hit(lastDeqIdx', f)) = Size
    BY <2>1, VLevelFIFOAssumption DEF TypeOK, SlotConservation, Occupancy, Unclaimed, Hit
  <2>3. Hit(lastDeqIdx', f) \in {0, 1}
    BY HitType
  <2>4. QED
    BY <1>1, <1>4, <1>5, <1>6, <2>2, <2>3
<1>8. (((head[f] + d) % Size) + (occ - d + n)) % Size = (tail[f] + n) % Size
  <2> DEFINE h == head[f]
             t == tail[f]
  <2>1. h \in 0..(Size - 1) /\ t \in 0..(Size - 1) /\ (h + occ) % Size = t
    BY <1>2, <1>5
  <2>2. occ \in 0..Size /\ d \in {0, 1} /\ n \in {0, 1} /\ occ - d + n \in 0..Size
    BY <1>4, <1>6, <1>7
  <2>3. \A x, y \in 0..(Size - 1), o \in 0..Size, a, b \in {0, 1} :
          o - a + b \in 0..Size /\ (x + o) % Size = y
            => (((x + a) % Size) + (o - a + b)) % Size = (y + b) % Size
    BY <1>5, PointerStep
  <2> HIDE DEF occ, d, n, h, t
  <2>4. (((h + d) % Size) + (occ - d + n)) % Size = (t + n) % Size
    BY <2>1, <2>2, <2>3
  <2>5. QED
    BY <2>4 DEF h, t
<1>9. QED
  BY <1>1, <1>3, <1>8

\* What holds of the pointers while they are reset and after.
PInv == PointersAgree /\ Resetting

\* The rings are reset before they are used, and agree with the counters from
\* then on.
THEOREM PInvCorrect == Spec => []PInv
<1> USE DEF PInv
<1>1. Init => PInv
  <2> SUFFICES ASSUME Init PROVE PInv
    OBVIOUS
  <2>1. \A f \in Fifos : Occupancy(f) = 0 /\ ~(f < i)
    BY VLevelFIFOAssumption DEF Init, Occupancy, Hit, Fifos
  <2>2. QED
    BY <2>1 DEF Init, PointersAgree, Resetting
<1>2. IInv /\ PInv /\ [Next]_vars => PInv'
  <2> SUFFICES ASSUME IInv, PInv, [Next]_vars PROVE PInv'
    OBVIOUS
  <2>1. CASE Initialization
    <3>1. /\ head \in [Fifos -> 0..(Size - 1)] /\ tail \in [Fifos -> 0..(Size - 1)]
          /\ i \in Fifos
      BY DEF IInv, TypeOK
    <3>2. \A f \in Fifos : Occupancy(f) = 0 /\ Occupancy(f)' = 0
      BY <2>1 DEF Initialization, Resetting, Occupancy, Hit
    <3>3. \A f \in Fifos : f <= i => head'[f] = 0 /\ tail'[f] = 0
      BY <2>1, <3>1 DEF Initialization, Resetting, Fifos
    <3>4. PointersAgree'
      <4> SUFFICES ASSUME finishInit', NEW f \in Fifos
                   PROVE  (head'[f] + Occupancy(f)') % Size = tail'[f]
        BY DEF PointersAgree
      <4>1. f <= i
        <5>1. i = NoFifo - 1
          BY <2>1 DEF Initialization
        <5>2. QED
          BY <5>1, <3>1, VLevelFIFOAssumption DEF Fifos
      <4>2. 0 % Size = 0
        BY ModBelow, VLevelFIFOAssumption
      <4>3. QED
        BY <3>2, <3>3, <4>1, <4>2
    <3>5. Resetting'
      <4> SUFFICES ASSUME ~finishInit', NEW f \in Fifos
                   PROVE  /\ f < i' => head'[f] = 0 /\ tail'[f] = 0
                          /\ Occupancy(f)' = 0
        BY DEF Resetting
      <4>1. i' = i + 1
        <5>1. i + 1 \in 0..(NoFifo - 1) /\ i' = (i + 1) % NoFifo
          <6>1. i # NoFifo - 1 /\ i' = (i + 1) % NoFifo
            BY <2>1 DEF Initialization
          <6>2. QED
            BY <6>1, <3>1, VLevelFIFOAssumption DEF Fifos
        <5>2. QED
          BY <5>1, ModBelow, VLevelFIFOAssumption
      <4>2. f < i' => f <= i
        BY <3>1, <4>1, VLevelFIFOAssumption DEF Fifos
      <4>3. QED
        BY <3>2, <3>3, <4>2
    <3>6. QED
      BY <3>4, <3>5
  <2>2. ASSUME NEW enq \in Enqs, NEW deq \in Deqs, NEW claim \in Claims,
               Cycle(enq, deq, claim)
        PROVE  PInv'
    <3>1. PointersAgree'
      BY <2>2, PointersAgreeStep DEF IInv
    <3>2. Resetting'
      BY <2>2 DEF Resetting, Cycle
    <3>3. QED
      BY <3>1, <3>2
  <2>3. CASE UNCHANGED vars
    BY <2>3 DEF vars, PointersAgree, Resetting, Occupancy, Hit
  <2>4. QED
    BY <2>1, <2>2, <2>3 DEF Next
<1>3. QED
  BY <1>1, <1>2, IInvCorrect, PTL DEF Spec

\* An enqueue never lands on a word that was not dequeued: head and tail enclose
\* what the counters say, from whatever the registers powered up with.
THEOREM PointersAgreeCorrect == Spec => []PointersAgree
<1>1. PInv => PointersAgree
  BY DEF PInv
<1>2. QED
  BY <1>1, PInvCorrect, PTL

-----------------------------------------------------------------------------
(***************************************************************************)
(* The registers and the RAM of mkBRAMVLevelFIFO implement MultiQueue, for *)
(* every number of FIFOs, every size and every data type.  The queues are  *)
(* read off the RAM, so the heart of the proof is about rings: removing    *)
(* the word at the head is Tail, writing the word at the tail is Append,   *)
(* and the write meets none of the words that are there.                   *)
(***************************************************************************)

\* What a RAM word holds.
Words == Data \cup {None}

\* The n words of ring r from head h on.
Ring(r, h, n) == [k \in 1..n |-> r[(h + k - 1) % Size]]

\* q is the sequence of the n words of r from h on, with addresses in the ring.
AreWords(q, r, h, n) ==
  /\ q \in Seq(Words)
  /\ Len(q) = n
  /\ \A k \in 1..n : /\ (h + k - 1) % Size \in 0..(Size - 1)
                     /\ q[k] = r[(h + k - 1) % Size]

\* Words of a ring make a sequence.
LEMMA RingIsSeq ==
  ASSUME NEW r \in [0..(Size - 1) -> Words], NEW h \in 0..(Size - 1),
         NEW n \in 0..Size
  PROVE  AreWords(Ring(r, h, n), r, h, n)
<1>1. \A k \in 1..n : (h + k - 1) % Size \in 0..(Size - 1)
  BY VLevelFIFOAssumption
<1>2. [k \in 1..n |-> r[(h + k - 1) % Size]] \in [1..n -> Words]
  BY <1>1
<1>3. n \in Nat
  BY VLevelFIFOAssumption
<1> DEFINE s == [k \in 1..n |-> r[(h + k - 1) % Size]]
<1>4. \A k \in 1..n : s[k] = r[(h + k - 1) % Size]
  OBVIOUS
<1>5. s \in Seq(Words) /\ Len(s) = n
  <2>1. s \in [1..n -> Words]
    BY <1>2
  <2>2. DOMAIN s = 1..n
    OBVIOUS
  <2> HIDE DEF s
  <2>3. s \in Seq(Words)
    BY <1>3, <2>1
  <2>4. QED
    BY <1>3, <2>2, <2>3, LenProperties
<1>6. QED
  BY <1>1, <1>4, <1>5 DEF Ring, AreWords

\* Advancing the head first and counting on is counting on by one more.
LEMMA AddressShift ==
  ASSUME NEW h \in 0..(Size - 1), NEW j \in 0..(Size - 1)
  PROVE  (((h + 1) % Size) + j) % Size = (h + (j + 1)) % Size
<1> DEFINE y == h + 1
           a == IF y < Size THEN y ELSE y - Size
           x == a + j
           z == h + (j + 1)
<1>0. Size \in Nat \ {0}
  BY VLevelFIFOAssumption
<1>1. y % Size = a
  <2>1. y \in 0..(2 * Size - 1)
    BY <1>0
  <2> HIDE DEF y
  <2>2. QED
    BY <1>0, <2>1, ModOnce
<1>2. x \in 0..(2 * Size - 1) /\ z \in 0..(2 * Size - 1)
  BY <1>0
<1>3. /\ x % Size = IF x < Size THEN x ELSE x - Size
      /\ z % Size = IF z < Size THEN z ELSE z - Size
  <2> HIDE DEF x, z
  <2>1. QED
    BY <1>0, <1>2, ModOnce
<1>4. (IF x < Size THEN x ELSE x - Size) = (IF z < Size THEN z ELSE z - Size)
  BY <1>0
<1>5. QED
  BY <1>1, <1>3, <1>4

\* Two words less than a turn apart have different addresses.
LEMMA AddressesDiffer ==
  ASSUME NEW h \in 0..(Size - 1), NEW j \in 0..(Size - 1), NEW k \in 0..(Size - 1),
         j # k
  PROVE  (h + j) % Size # (h + k) % Size
<1> DEFINE x == h + j
           z == h + k
<1>0. Size \in Nat \ {0}
  BY VLevelFIFOAssumption
<1>2. x \in 0..(2 * Size - 1) /\ z \in 0..(2 * Size - 1)
  BY <1>0
<1>3. /\ x % Size = IF x < Size THEN x ELSE x - Size
      /\ z % Size = IF z < Size THEN z ELSE z - Size
  <2> HIDE DEF x, z
  <2>1. QED
    BY <1>0, <1>2, ModOnce
<1>4. (IF x < Size THEN x ELSE x - Size) # (IF z < Size THEN z ELSE z - Size)
  BY <1>0
<1>5. QED
  BY <1>3, <1>4

\* A dequeue returns the first word and leaves the others in their order.
LEMMA RingTail ==
  ASSUME NEW r \in [0..(Size - 1) -> Words], NEW h \in 0..(Size - 1),
         NEW n \in 1..Size
  PROVE  /\ Ring(r, h, n) # <<>>
         /\ Head(Ring(r, h, n)) = r[h]
         /\ Tail(Ring(r, h, n)) = Ring(r, (h + 1) % Size, n - 1)
<1> DEFINE s == Ring(r, h, n)
           t == Ring(r, (h + 1) % Size, n - 1)
<1>0. Size \in Nat \ {0} /\ (h + 1) % Size \in 0..(Size - 1) /\ n - 1 \in 0..Size
  BY VLevelFIFOAssumption
<1>1. AreWords(s, r, h, n)
  BY <1>0, RingIsSeq
<1>2. AreWords(t, r, (h + 1) % Size, n - 1)
  BY <1>0, RingIsSeq
<1> HIDE DEF s, t
<1> USE DEF AreWords
<1>3. s # <<>>
  BY <1>0, <1>1
<1>4. Head(s) = r[h]
  <2>1. h + 1 - 1 = h /\ h % Size = h
    BY <1>0, ModBelow
  <2>2. s[1] = r[h]
    BY <1>0, <1>1, <2>1
  <2>3. QED
    BY <1>1, <2>2
<1>5. Tail(s) = t
  <2>1. /\ Tail(s) \in Seq(Words) /\ Len(Tail(s)) = n - 1
        /\ \A k \in 1..(n - 1) : Tail(s)[k] = s[k + 1]
    BY <1>1, <1>3, HeadTailProperties
  <2>2. ASSUME NEW k \in 1..(n - 1) PROVE s[k + 1] = t[k]
    <3>1. k - 1 \in 0..(Size - 1) /\ k + 1 \in 1..n /\ (k + 1) - 1 = (k - 1) + 1
      BY <1>0
    <3>2. s[k + 1] = r[(h + ((k - 1) + 1)) % Size]
      BY <1>1, <3>1
    <3>3. t[k] = r[(((h + 1) % Size) + (k - 1)) % Size]
      BY <1>2
    <3>4. QED
      BY <3>1, <3>2, <3>3, AddressShift
  <2>3. QED
    BY <1>2, <2>1, <2>2, SeqEqual
<1>6. QED
  BY <1>3, <1>4, <1>5 DEF s, t

\* An enqueue into a ring with room adds its word at the end and touches no
\* other.
LEMMA RingAppend ==
  ASSUME NEW r \in [0..(Size - 1) -> Words], NEW h \in 0..(Size - 1),
         NEW n \in 0..(Size - 1), NEW v \in Words
  PROVE  Ring([r EXCEPT ![(h + n) % Size] = v], h, n + 1) = Append(Ring(r, h, n), v)
<1> DEFINE w == [r EXCEPT ![(h + n) % Size] = v]
           s == Ring(r, h, n)
           t == Ring(w, h, n + 1)
<1>0. Size \in Nat \ {0} /\ n + 1 \in 0..Size /\ n \in 0..Size
  BY VLevelFIFOAssumption
<1>1. /\ w \in [0..(Size - 1) -> Words]
      /\ w[(h + n) % Size] = v
      /\ \A a \in 0..(Size - 1) : a # (h + n) % Size => w[a] = r[a]
  <2>1. (h + n) % Size \in 0..(Size - 1)
    BY <1>0
  <2>2. QED
    BY <2>1
<1> HIDE DEF w
<1>2. AreWords(s, r, h, n)
  BY <1>0, RingIsSeq
<1>3. AreWords(t, w, h, n + 1)
  BY <1>0, <1>1, RingIsSeq
<1> HIDE DEF s, t
<1> USE DEF AreWords
<1>4. /\ Append(s, v) \in Seq(Words) /\ Len(Append(s, v)) = n + 1
      /\ \A k \in 1..n : Append(s, v)[k] = s[k]
      /\ Append(s, v)[n + 1] = v
  BY <1>2, AppendProperties
<1>5. ASSUME NEW k \in 1..(n + 1) PROVE t[k] = Append(s, v)[k]
  <2>1. t[k] = w[(h + (k - 1)) % Size]
    BY <1>3
  <2>2. CASE k = n + 1
    <3>1. k - 1 = n
      BY <1>0, <2>2
    <3>2. QED
      BY <1>1, <1>4, <2>1, <2>2, <3>1
  <2>3. CASE k # n + 1
    <3>1. k \in 1..n /\ k - 1 \in 0..(Size - 1) /\ k - 1 # n
      BY <1>0, <2>3
    <3>2. (h + (k - 1)) % Size # (h + n) % Size
      BY <3>1, AddressesDiffer
    <3>3. (h + (k - 1)) % Size \in 0..(Size - 1) /\ s[k] = r[(h + (k - 1)) % Size]
      BY <1>2, <3>1
    <3>4. QED
      BY <1>1, <1>4, <2>1, <3>1, <3>2, <3>3
  <2>4. QED
    BY <2>2, <2>3
<1>6. t = Append(s, v)
  BY <1>3, <1>4, <1>5, SeqEqual
<1>7. QED
  BY <1>6 DEF s, t, w

-----------------------------------------------------------------------------
(* The refinement.                                                         *)

\* The queue of f is the part of its ring the pointers and counters enclose.
LEMMA ContentsIsRing ==
  ASSUME NEW f
  PROVE  /\ Contents(f) = Ring(ram[f], head[f], Occupancy(f))
         /\ Contents(f)' = Ring(ram'[f], head'[f], Occupancy(f)')
BY DEF Contents, Ring

\* What a cycle does to the number of words of a ring, and that there is a word
\* to take and room for the one that comes.
LEMMA OccupancyStep ==
  ASSUME TypeOK, SlotConservation,
         NEW enq \in Enqs, NEW deq \in Deqs, NEW claim \in Claims,
         Cycle(enq, deq, claim), NEW f \in Fifos
  PROVE  /\ Occupancy(f) \in 0..Size
         /\ Occupancy(f)' = Occupancy(f) - Hit(deq, f) + Enqueued(enq, f)
         /\ Unclaimed(f)' = Unclaimed(f) + Hit(deq, f) - Claimed(claim, f)
         /\ deq = f => Occupancy(f) > 0
         /\ Enqueued(enq, f) = 1 => Occupancy(f) < Size
<1>1. /\ usedReg'[f] = usedReg[f] + Hit(lastEnqIdx, f) - Hit(deq, f)
      /\ freeReg'[f] = freeReg[f] + Hit(lastDeqIdx, f) - Claimed(claim, f)
      /\ Hit(lastEnqIdx', f) = Enqueued(enq, f)
      /\ lastDeqIdx' = deq
  BY CycleCounts
<1>2. /\ usedReg[f] \in Nat /\ freeReg[f] \in Nat /\ tokens[f] \in Nat
      /\ Size \in Nat \ {0}
  BY VLevelFIFOAssumption DEF TypeOK
<1>3. /\ Hit(lastEnqIdx, f) \in {0, 1} /\ Hit(lastDeqIdx, f) \in {0, 1}
      /\ Hit(deq, f) \in {0, 1} /\ Enqueued(enq, f) \in {0, 1}
  BY HitType DEF Enqueued
<1>4. Claimed(claim, f) \in Nat
  BY VLevelFIFOAssumption DEF Claimed, Claims
<1>5. tokens[f] + Occupancy(f) + Unclaimed(f) = Size
  BY DEF SlotConservation
<1>6. /\ deq = f => usedReg[f] > 0
      /\ Enqueued(enq, f) = 1 => tokens[f] > 0
  BY VLevelFIFOAssumption DEF Cycle, Contract, Enqueued, Fifos
<1>7. /\ Occupancy(f)' = usedReg'[f] + Hit(lastEnqIdx', f)
      /\ Unclaimed(f)' = freeReg'[f] + Hit(lastDeqIdx', f)
  BY DEF Occupancy, Unclaimed, Hit
<1>8. /\ Occupancy(f) = usedReg[f] + Hit(lastEnqIdx, f)
      /\ Unclaimed(f) = freeReg[f] + Hit(lastDeqIdx, f)
  BY DEF Occupancy, Unclaimed
<1>9. QED
  BY <1>1, <1>2, <1>3, <1>4, <1>5, <1>6, <1>7, <1>8

\* A cycle writes the word it enqueues at the tail of its ring, and no other.
LEMMA RamStep ==
  ASSUME TypeOK, NEW enq \in Enqs, NEW deq \in Deqs, NEW claim \in Claims,
         Cycle(enq, deq, claim), NEW f \in Fifos
  PROVE  /\ Enqueued(enq, f) = 1 => ram'[f] = [ram[f] EXCEPT ![tail[f]] = enq.data]
         /\ Enqueued(enq, f) = 0 => ram'[f] = ram[f]
<1>1. ProcessEnq(enq) /\ ram \in [Fifos -> [0..(Size - 1) -> Data \cup {None}]]
  BY DEF Cycle, TypeOK
<1>2. CASE enq = None
  BY <1>1, <1>2 DEF ProcessEnq, Enqueued
<1>3. CASE enq # None
  <2>1. enq.idx \in Fifos
    BY <1>3 DEF Enqs
  <2>2. ram' = [ram EXCEPT ![enq.idx] =
                  [ram[enq.idx] EXCEPT ![tail[enq.idx]] = enq.data]]
    BY <1>1, <1>3 DEF ProcessEnq
  <2>3. QED
    BY <1>1, <1>3, <2>1, <2>2 DEF Enqueued
<1>4. QED
  BY <1>2, <1>3

\* A cycle does to the queue of one FIFO what its operations say.
LEMMA ContentsStep ==
  ASSUME TypeOK, SlotConservation, PointersAgree,
         NEW enq \in Enqs, NEW deq \in Deqs, NEW claim \in Claims,
         Cycle(enq, deq, claim), NEW f \in Fifos
  PROVE  /\ deq = f => /\ Contents(f) # <<>>
                       /\ ram[f][head[f]] = Head(Contents(f))
         /\ Contents(f)' =
              LET rest == IF deq = f THEN Tail(Contents(f)) ELSE Contents(f)
              IN  IF enq # None /\ enq.idx = f THEN Append(rest, enq.data) ELSE rest
<1> DEFINE occ == Occupancy(f)
           left == occ - Hit(deq, f)
           h == (head[f] + Hit(deq, f)) % Size
           rest == IF deq = f THEN Tail(Contents(f)) ELSE Contents(f)
<1>1. /\ occ \in 0..Size
      /\ Occupancy(f)' = left + Enqueued(enq, f)
      /\ deq = f => occ > 0
      /\ Enqueued(enq, f) = 1 => occ < Size
  BY OccupancyStep
<1>2. /\ Size \in Nat \ {0}
      /\ head[f] \in 0..(Size - 1)
      /\ ram[f] \in [0..(Size - 1) -> Words]
  BY VLevelFIFOAssumption DEF TypeOK, Words
<1>3. /\ Hit(deq, f) = IF deq = f THEN 1 ELSE 0
      /\ Enqueued(enq, f) = IF enq # None /\ enq.idx = f THEN 1 ELSE 0
  BY DEF Hit, Enqueued
<1>4. Contents(f) = Ring(ram[f], head[f], occ)
  BY ContentsIsRing
<1>5. ASSUME deq = f
      PROVE  /\ Contents(f) # <<>>
             /\ ram[f][head[f]] = Head(Contents(f))
             /\ Tail(Contents(f)) = Ring(ram[f], (head[f] + 1) % Size, occ - 1)
  <2>1. occ \in 1..Size
    BY <1>1, <1>2, <1>5
  <2> HIDE DEF occ
  <2>2. head[f] \in 0..(Size - 1) /\ ram[f] \in [0..(Size - 1) -> Words]
    BY <1>2
  <2>3. /\ Ring(ram[f], head[f], occ) # <<>>
        /\ Head(Ring(ram[f], head[f], occ)) = ram[f][head[f]]
        /\ Tail(Ring(ram[f], head[f], occ)) = Ring(ram[f], (head[f] + 1) % Size, occ - 1)
    BY <2>1, <2>2, RingTail
  <2>4. QED
    BY <1>4, <2>3
<1>6. rest = Ring(ram[f], h, left)
  <2>1. CASE deq = f
    BY <1>3, <1>5, <2>1
  <2>2. CASE deq # f
    <3>1. head[f] + 0 = head[f] /\ occ - 0 = occ
      BY <1>1, <1>2
    <3>2. head[f] % Size = head[f]
      BY <1>2, ModBelow
    <3>3. QED
      BY <1>3, <1>4, <2>2, <3>1, <3>2
  <2>3. QED
    BY <2>1, <2>2
<1>7. h \in 0..(Size - 1) /\ left \in 0..Size
  BY <1>1, <1>2, <1>3
<1>8. (h + left) % Size = tail[f]
  <2>1. CASE deq = f
    <3>1. h = (head[f] + 1) % Size /\ left = occ - 1 /\ occ \in 1..Size
      BY <1>1, <1>2, <1>3, <2>1
    <3>2. (head[f] + occ) % Size = tail[f] /\ tail[f] \in 0..(Size - 1)
      BY DEF PointersAgree, Cycle, TypeOK
    <3> HIDE DEF h, left, occ
    <3> DEFINE j == occ - 1
    <3>3. j \in 0..(Size - 1) /\ j + 1 = occ /\ head[f] \in 0..(Size - 1)
      BY <1>2, <3>1
    <3> HIDE DEF j
    <3>4. (((head[f] + 1) % Size) + j) % Size = (head[f] + (j + 1)) % Size
      BY <3>3, AddressShift
    <3>5. h = (head[f] + 1) % Size /\ left = j
      BY <3>1 DEF j
    <3>6. QED
      BY <3>2, <3>3, <3>4, <3>5
  <2>2. CASE deq # f
    <3>1. head[f] + 0 = head[f] /\ occ - 0 = occ
      BY <1>1, <1>2
    <3>2. head[f] % Size = head[f]
      BY <1>2, ModBelow
    <3>3. (head[f] + occ) % Size = tail[f]
      BY DEF PointersAgree, Cycle
    <3>4. QED
      BY <1>3, <2>2, <3>1, <3>2, <3>3
  <2>3. QED
    BY <2>1, <2>2
<1>9. Contents(f)' = Ring(ram'[f], h, left + Enqueued(enq, f))
  <2>1. head'[f] = h
    BY PointersMove
  <2>2. Contents(f)' = Ring(ram'[f], head'[f], Occupancy(f)')
    BY ContentsIsRing
  <2>3. QED
    BY <1>1, <2>1, <2>2
<1>10. Contents(f)' = IF enq # None /\ enq.idx = f THEN Append(rest, enq.data) ELSE rest
  <2>1. CASE enq # None /\ enq.idx = f
    <3>1. enq.data \in Words
      BY <2>1 DEF Enqs, Words
    <3>2. left \in 0..(Size - 1) /\ Enqueued(enq, f) = 1
      BY <1>1, <1>2, <1>3, <1>7, <2>1
    <3>3. ram'[f] = [ram[f] EXCEPT ![(h + left) % Size] = enq.data]
      BY <1>8, <3>2, RamStep
    <3>4. h \in 0..(Size - 1) /\ ram[f] \in [0..(Size - 1) -> Words]
      BY <1>2, <1>7
    <3> HIDE DEF h, left, rest
    <3>5. Ring([ram[f] EXCEPT ![(h + left) % Size] = enq.data], h, left + 1)
            = Append(Ring(ram[f], h, left), enq.data)
      BY <3>1, <3>2, <3>4, RingAppend
    <3>6. QED
      BY <1>6, <1>9, <2>1, <3>2, <3>3, <3>5
  <2>2. CASE ~(enq # None /\ enq.idx = f)
    <3>0. Enqueued(enq, f) = 0
      BY <2>2 DEF Enqueued
    <3>1. ram'[f] = ram[f]
      BY <3>0, RamStep
    <3>2. left + 0 = left
      BY <1>7
    <3> HIDE DEF h, left, rest
    <3>3. QED
      BY <1>6, <1>9, <2>2, <3>0, <3>1, <3>2
  <2>3. QED
    BY <2>1, <2>2
<1>11. QED
  BY <1>5, <1>10

\* Without words there is nothing to tell two queues apart.
LEMMA EmptyContents ==
  ASSUME NEW f, Occupancy(f) = 0
  PROVE  Contents(f) = <<>>
<1>1. Contents(f) = [k \in 1..0 |-> ram[f][(head[f] + k - 1) % Size]]
  BY DEF Contents
<1>2. QED
  BY <1>1

\* A cycle of the registers is a step of the queues.
LEMMA CycleRefines ==
  ASSUME TypeOK, SlotConservation, PointersAgree,
         NEW enq \in Enqs, NEW deq \in Deqs, NEW claim \in Claims,
         Cycle(enq, deq, claim)
  PROVE  MQ!Step(enq, deq, claim)
<1>0. None \notin Fifos
  BY VLevelFIFOAssumption DEF Fifos
<1>1. enq # None => tokens[enq.idx] > 0
  BY DEF Cycle, Contract
<1>2. ASSUME deq # None
      PROVE  /\ [f \in Fifos |-> Contents(f)][deq] # <<>>
             /\ readRsp' = Head([f \in Fifos |-> Contents(f)][deq])
  <2>1. deq \in Fifos
    BY <1>2 DEF Deqs
  <2>2. readRsp' = ram[deq][head[deq]]
    BY <1>2 DEF Cycle, ProcessDeq
  <2>3. Contents(deq) # <<>> /\ ram[deq][head[deq]] = Head(Contents(deq))
    BY <2>1, ContentsStep
  <2>4. QED
    BY <2>1, <2>2, <2>3
<1>3. deq = None => readRsp' = None
  BY DEF Cycle, ProcessDeq
<1>4. ASSUME claim # None
      PROVE  claim.amnt <= [f \in Fifos |-> Unclaimed(f)][claim.idx]
  <2>1. claim.idx \in Fifos /\ claim.amnt \in 1..Size /\ claim.amnt <= freeReg[claim.idx]
    BY <1>4 DEF Claims, Cycle, Contract
  <2>2. /\ Unclaimed(claim.idx) = freeReg[claim.idx] + Hit(lastDeqIdx, claim.idx)
        /\ Hit(lastDeqIdx, claim.idx) \in {0, 1}
        /\ freeReg[claim.idx] \in Nat
    BY <2>1, HitType, VLevelFIFOAssumption DEF Unclaimed, TypeOK
  <2>3. claim.amnt <= Unclaimed(claim.idx)
    BY <2>1, <2>2, VLevelFIFOAssumption
  <2>4. QED
    BY <2>1, <2>3
<1>5. \A f \in Fifos :
        Contents(f)' =
          LET rest == IF deq = f THEN Tail(Contents(f)) ELSE Contents(f)
          IN  IF enq # None /\ enq.idx = f THEN Append(rest, enq.data) ELSE rest
  BY ContentsStep
<1>6. \A f \in Fifos :
        Unclaimed(f)' = Unclaimed(f) + (IF deq = f THEN 1 ELSE 0)
                          - (IF claim # None /\ claim.idx = f THEN claim.amnt ELSE 0)
  BY OccupancyStep DEF Hit, Claimed
<1>7. tokens' = [f \in Fifos |->
        tokens[f] + (IF claim # None /\ claim.idx = f THEN claim.amnt ELSE 0)
                  - (IF enq # None /\ enq.idx = f THEN 1 ELSE 0)]
  BY DEF Cycle, UserTokens, Claimed
<1>8. MQ!Fifos = Fifos
  BY DEF MQ!Fifos, Fifos
<1>9. QED
  BY <1>1, <1>2, <1>3, <1>4, <1>5, <1>6, <1>7, <1>8 DEF MQ!Step

\* Each FIFO delivers what was put into it, in order and once: the registers of
\* mkBRAMVLevelFIFO, its lagging counters and its one RAM implement MultiQueue.
THEOREM ImplementsMultiQueueCorrect == Spec => ImplementsMultiQueue
<1>0. MQ!Fifos = Fifos
  BY DEF MQ!Fifos, Fifos
<1>1. Init => MQ!Init
  <2> SUFFICES ASSUME Init PROVE MQ!Init
    OBVIOUS
  <2>1. \A f \in Fifos : Occupancy(f) = 0 /\ Unclaimed(f) = freeReg[f]
    BY VLevelFIFOAssumption DEF Init, Occupancy, Unclaimed, Hit, Fifos
  <2>2. \A f \in Fifos : Contents(f) = <<>>
    BY <2>1, EmptyContents
  <2>3. PICK zeroFreeInit \in BOOLEAN :
          /\ freeReg = [f \in Fifos |-> IF zeroFreeInit THEN 0 ELSE Size]
          /\ tokens = [f \in Fifos |-> IF zeroFreeInit THEN Size ELSE 0]
    BY DEF Init
  <2>4. [f \in Fifos |-> Unclaimed(f)] = freeReg
    BY <2>1, <2>3
  <2>5. \E full \in BOOLEAN :
          /\ [f \in Fifos |-> Unclaimed(f)] = [f \in Fifos |-> IF full THEN Size ELSE 0]
          /\ tokens = [f \in Fifos |-> IF full THEN 0 ELSE Size]
    <3>1. WITNESS (~zeroFreeInit) \in BOOLEAN
    <3>2. QED
      BY <2>3, <2>4
  <2>6. QED
    BY <1>0, <2>2, <2>5 DEF Init, MQ!Init
<1>2. IInv /\ PInv /\ [Next]_vars => [MQ!Next]_MQ!vars
  <2> SUFFICES ASSUME IInv, PInv, [Next]_vars PROVE [MQ!Next]_MQ!vars
    OBVIOUS
  <2>1. CASE Initialization
    <3>1. \A f \in Fifos : Occupancy(f) = 0 /\ Occupancy(f)' = 0
      BY <2>1 DEF PInv, Resetting, Initialization, Occupancy, Hit
    <3>2. \A f \in Fifos : Contents(f) = <<>> /\ Contents(f)' = <<>>
      <4>1. TAKE f \in Fifos
      <4>2. Contents(f) = <<>>
        BY <3>1, EmptyContents
      <4>3. Contents(f)' = [k \in 1..0 |-> ram'[f][(head'[f] + k - 1) % Size]]
        BY <3>1 DEF Contents
      <4>4. QED
        BY <4>2, <4>3
    <3>3. \A f \in Fifos : Unclaimed(f)' = Unclaimed(f)
      BY <2>1 DEF Initialization, Unclaimed, Hit
    <3>4. QED
      BY <2>1, <3>2, <3>3 DEF Initialization, MQ!vars
  <2>2. ASSUME NEW enq \in Enqs, NEW deq \in Deqs, NEW claim \in Claims,
               Cycle(enq, deq, claim)
        PROVE  MQ!Next
    <3>1. MQ!Step(enq, deq, claim)
      BY <2>2, CycleRefines DEF IInv, PInv
    <3>2. enq \in MQ!Enqs /\ deq \in MQ!Deqs /\ claim \in MQ!Claims
      BY <1>0, VLevelFIFOAssumption
         DEF MQ!Enqs, MQ!Deqs, MQ!Claims, MQ!Amounts, Enqs, Deqs, Claims
    <3>3. QED
      BY <3>1, <3>2 DEF MQ!Next
  <2>3. CASE UNCHANGED vars
    BY <2>3 DEF vars, MQ!vars, Contents, Occupancy, Unclaimed, Hit
  <2>4. QED
    BY <2>1, <2>2, <2>3 DEF Next
<1>3. QED
  BY <1>1, <1>2, IInvCorrect, PInvCorrect, PTL DEF Spec, ImplementsMultiQueue, MQ!Spec

=============================================================================
