------------------------ MODULE CreditProtocolProofs ------------------------
(***************************************************************************)
(* Theorems about CreditProtocol for every buffer size, threshold and      *)
(* packet size.                                                            *)
(*                                                                         *)
(* NoOverflow is not inductive: a refill could overflow the sender and a   *)
(* delivery the receiver if slots were counted twice.  Conservation rules  *)
(* that out and is inductive with TypeOK.  OneReturnInFlight needs in      *)
(* addition that every message carries a full batch (FullBatches), since   *)
(* two batches of more than Threshold do not fit in Capacity.              *)
(***************************************************************************)
EXTENDS CreditProtocol, TLAPS

\* The inductive invariant of the protocol.
IInv == TypeOK /\ Conservation /\ FullBatches

\* Every variable keeps its type: no counter ever goes below zero.
THEOREM TypeCorrect == Spec => []TypeOK
<1>1. Init => TypeOK
  BY CreditAssumption DEF Init, TypeOK
<1>2. TypeOK /\ [Next]_vars => TypeOK'
  <2> SUFFICES ASSUME TypeOK, [Next]_vars PROVE TypeOK'
    OBVIOUS
  <2>1. ASSUME NEW k \in Amounts, NEW n \in Amounts,
               NEW events \in SUBSET Events,
               Step(k, n, events)
        PROVE  TypeOK'
    BY <2>1, CreditAssumption
    DEF TypeOK, Step, May, MaySend, MayReturn, Free, On, Amounts
  <2>2. CASE UNCHANGED vars
    BY <2>2 DEF TypeOK, vars
  <2>3. QED
    BY <2>1, <2>2 DEF Next
<1>3. QED
  BY <1>1, <1>2, PTL DEF Spec

\* Slots only change place: the total stays Capacity.
LEMMA ConservationStep ==
  ASSUME TypeOK, Conservation, [Next]_vars
  PROVE  Conservation'
<1>1. ASSUME NEW k \in Amounts, NEW n \in Amounts,
             NEW events \in SUBSET Events,
             Step(k, n, events)
      PROVE  Conservation'
  BY <1>1, CreditAssumption DEF TypeOK, Conservation, Step, Free, On, Amounts
<1>2. CASE UNCHANGED vars
  BY <1>2 DEF Conservation, vars
<1>3. QED
  BY <1>1, <1>2 DEF Next

\* Only a return puts credits on their way, and only a full batch.
LEMMA FullBatchesStep ==
  ASSUME TypeOK, FullBatches, [Next]_vars
  PROVE  FullBatches'
<1>1. ASSUME NEW k \in Amounts, NEW n \in Amounts,
             NEW events \in SUBSET Events,
             Step(k, n, events)
      PROVE  FullBatches'
  BY <1>1, CreditAssumption
  DEF TypeOK, FullBatches, Step, May, MayReturn, On
<1>2. CASE UNCHANGED vars
  BY <1>2 DEF FullBatches, vars
<1>3. QED
  BY <1>1, <1>2 DEF Next

\* The inductive invariant holds of every behaviour.
THEOREM IInvCorrect == Spec => []IInv
<1>1. Init => IInv
  BY CreditAssumption DEF Init, IInv, TypeOK, Conservation, FullBatches
<1>2. IInv /\ [Next]_vars /\ TypeOK' => IInv'
  BY ConservationStep, FullBatchesStep DEF IInv
<1>3. QED
  BY <1>1, <1>2, TypeCorrect, PTL DEF Spec

\* Every slot of the receiver's buffer is accounted for exactly once: no
\* credit is lost or invented by a send, a delivery, a return or a refill.
THEOREM ConservationCorrect == Spec => []Conservation
<1>1. IInv => Conservation
  BY DEF IInv
<1>2. QED
  BY <1>1, IInvCorrect, PTL

\* The receiver's buffer never overflows and neither do the credits.
THEOREM NoOverflowCorrect == Spec => []NoOverflow
<1>1. IInv => NoOverflow
  BY CreditAssumption DEF IInv, TypeOK, Conservation, NoOverflow
<1>2. QED
  BY <1>1, IInvCorrect, PTL

\* The channel has at most one flow control message on its way.
THEOREM OneReturnInFlightCorrect == Spec => []OneReturnInFlight
<1>1. IInv => OneReturnInFlight
  BY CreditAssumption
  DEF IInv, TypeOK, Conservation, FullBatches, OneReturnInFlight
<1>2. QED
  BY <1>1, IInvCorrect, PTL

\* When every packet fits in the slots a return may leave unreturned, a sender
\* that cannot start a packet is owed credits that are on their way.
THEOREM NeverWedgedCorrect ==
  ASSUME MaxPacket + 1 <= Capacity - Threshold
  PROVE  Spec => []NeverWedged
<1>1. IInv => NeverWedged
  BY CreditAssumption DEF IInv, TypeOK, Conservation, NeverWedged
<1>2. QED
  BY <1>1, IInvCorrect, PTL

\* When no packet is larger than the threshold, a refill always leaves room
\* for a packet of any size.
THEOREM RefillUnblocksCorrect ==
  ASSUME MaxPacket <= Threshold
  PROVE  Spec => RefillUnblocks
<1>1. ASSUME IInv, [Next]_vars, credits' > credits
      PROVE  credits' >= MaxPacket + 1
  <2>1. credits \in Nat /\ returning \in Nat
    BY <1>1 DEF IInv, TypeOK
  <2>2. PICK k \in Amounts, n \in Amounts, events \in SUBSET Events :
          Step(k, n, events)
    BY <1>1, <2>1 DEF Next, vars
  <2>3. "refill" \in events
    BY <1>1, <2>1, <2>2, CreditAssumption DEF Step, On, Amounts
  <2>4. k = 0 /\ returning > 0 /\ credits' = credits + returning
    BY <2>1, <2>2, <2>3 DEF Step, May, MaySend, On
  <2>5. returning > Threshold
    BY <1>1, <2>4 DEF IInv, FullBatches
  <2>6. QED
    BY <2>1, <2>4, <2>5, CreditAssumption
<1>2. IInv /\ [Next]_vars
        => [credits' > credits => credits' >= MaxPacket + 1]_vars
  BY <1>1
<1>3. QED
  BY <1>2, IInvCorrect, PTL DEF Spec, RefillUnblocks

=============================================================================
