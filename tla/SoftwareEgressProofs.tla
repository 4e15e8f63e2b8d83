------------------------ MODULE SoftwareEgressProofs ------------------------
(***************************************************************************)
(* Software that sends, with its own buffer at the other end, then with a  *)
(* part of a pointer switch's; and the software at the receiving end of a  *)
(* pointer switch, which is here because it counts in the same way.  For   *)
(* every size of buffer, message and counter, and every set of channels.   *)
(*                                                                         *)
(* One thread that sends keeps the credit protocol and never sleeps through*)
(* its credits.  Owed is what the sender has by right: the slots of the far*)
(* buffer that are not used up.  The invariant says what the counter shows *)
(* instead while an attempt is being taken back: the same less what the    *)
(* attempt wants, one turn higher if that is below zero.                   *)
(***************************************************************************)
EXTENDS SoftwareEgress, CountingLemmas, TLAPS

Owed == FifoSize - (inFlight + stored + freed + returning)

Counted ==
  /\ pc \in [Thread -> {"idle", "spin", "restore", "lock", "check", "take", "wait"}]
  /\ need \in [Thread -> 0..(MaxPacket + 1)]
  /\ flowcontrolCredits \in 0..(CounterMod - 1)
  /\ inFlight \in Nat /\ stored \in Nat /\ freed \in Nat /\ returning \in Nat
  /\ Owed \in 0..FifoSize

\* What the counter shows while thread t is where it is.
Exact ==
  \A t \in Thread :
    flowcontrolCredits =
      IF pc[t] # "restore" THEN Owed
      ELSE IF Owed >= need[t] THEN Owed - need[t] ELSE Owed + CounterMod - need[t]

\* Between its test and its subtraction nobody takes a thread's credits.
Afforded == \A t \in Thread : pc[t] = "take" => Owed >= need[t]

\* A sleeper whose credits are there is about to be notified.
Woken == \A t \in Thread : pc[t] = "wait" /\ Owed >= need[t] => pendingNotify

IInv == Counted /\ Exact /\ Afforded /\ Woken

\* The hypotheses: constants as in the model, and messages that a counter can
\* count.
OneSender(t) ==
  /\ SoftwareEgressAssumption
  /\ MaxPacket + 1 <= CounterMod
  /\ Thread = {t}

\* Subtracting on an unsigned counter: exact if there is enough, one turn too
\* high if not.
LEMMA Subtract ==
  ASSUME NEW m \in Nat \ {0}, NEW x \in 0..(m - 1), NEW n \in 0..m
  PROVE  (x + (m - n)) % m = IF x >= n THEN x - n ELSE x + m - n
<1> DEFINE y == x + (m - n)
<1>1. y \in 0..(2 * m - 1)
  OBVIOUS
<1>2. y % m = IF y < m THEN y ELSE y - m
  <2> HIDE DEF y
  <2>1. QED
    BY <1>1, ModOnce
<1>3. QED
  BY <1>2

\* What failed attempts have subtracted: that of the one thread, if it has not
\* added it back.
LEMMA DebtOfOne ==
  ASSUME NEW t, Thread = {t}, need[t] \in Nat
  PROVE  Debt = IF pc[t] = "restore" THEN need[t] ELSE 0
<1> DEFINE owed == [u \in Thread |-> IF pc[u] = "restore" THEN need[u] ELSE 0]
<1>1. /\ IsFiniteSet(Thread) /\ owed \in [Thread -> Nat] /\ t \in Thread
      /\ \A u \in Thread \ {t} : owed[u] = 0
  BY FS_Singleton
<1>2. SumOf(owed) = owed[t]
  BY <1>1, SumOfOne
<1>3. QED
  BY <1>1, <1>2 DEF Debt

-----------------------------------------------------------------------------
(* One lemma per operation.                                                *)

\* An attempt takes the credits that are there, or leaves the counter short.
LEMMA GrabStep ==
  ASSUME NEW t, OneSender(t), IInv, Grab(t)
  PROVE  /\ IInv'
         /\ \/ UNCHANGED <<inFlight, stored, freed, returning>>
            \/ need[t] <= Owed /\ inFlight' = inFlight + need[t]
               /\ UNCHANGED <<stored, freed, returning>>
<1> USE DEF OneSender, SoftwareEgressAssumption
<1>1. /\ pc[t] = "spin" /\ pc' \in [Thread -> {"idle", "restore"}]
      /\ UNCHANGED <<need, stored, freed, returning, pendingNotify>>
  BY DEF Grab, Goto, Acquired, IInv, Counted, farSide
<1>2. /\ flowcontrolCredits \in 0..(CounterMod - 1) /\ need[t] \in 0..CounterMod
      /\ CounterMod \in Nat \ {0} /\ need[t] \in Nat
  BY DEF IInv, Counted
<1>3. flowcontrolCredits' = IF flowcontrolCredits >= need[t]
                            THEN flowcontrolCredits - need[t]
                            ELSE flowcontrolCredits + CounterMod - need[t]
  BY <1>2, Subtract DEF Grab, FetchAndAdd
<1>4. flowcontrolCredits = Owed /\ Owed \in 0..FifoSize
  BY <1>1 DEF IInv, Exact, Counted
<1>5. /\ inFlight \in Nat /\ stored \in Nat /\ freed \in Nat /\ returning \in Nat
  BY DEF IInv, Counted
<1>6. CASE flowcontrolCredits < need[t]
  <2>1. pc'[t] = "restore" /\ inFlight' = inFlight
    BY <1>6 DEF Grab, Goto, IInv, Counted, farSide
  <2>2. Owed' = Owed
    BY <1>1, <2>1 DEF Owed
  <2>3. flowcontrolCredits' \in 0..(CounterMod - 1)
    BY <1>2, <1>3, <1>6
  <2>4. Counted' /\ Exact' /\ Afforded' /\ Woken'
    BY <1>1, <1>2, <1>3, <1>4, <1>6, <2>1, <2>2, <2>3 DEF IInv, Counted, Exact, Afforded, Woken
  <2>5. QED
    BY <1>1, <2>1, <2>4 DEF IInv
<1>7. CASE ~(flowcontrolCredits < need[t])
  <2>1. pc'[t] = "idle" /\ inFlight' = inFlight + need[t]
    BY <1>7 DEF Grab, Goto, Acquired, IInv, Counted
  <2>2. Owed' = Owed - need[t]
    BY <1>1, <1>2, <1>4, <1>5, <2>1 DEF Owed
  <2>3. flowcontrolCredits' \in 0..(CounterMod - 1) /\ Owed' \in 0..FifoSize
        /\ need[t] <= Owed
    BY <1>2, <1>3, <1>4, <1>7, <2>2
  <2>4. Counted' /\ Exact' /\ Afforded' /\ Woken'
    BY <1>1, <1>2, <1>3, <1>4, <1>5, <1>7, <2>1, <2>2, <2>3
       DEF IInv, Counted, Exact, Afforded, Woken
  <2>5. QED
    BY <1>1, <2>1, <2>3, <2>4 DEF IInv
<1>8. QED
  BY <1>6, <1>7

\* Giving back what was short makes the counter exact again.
LEMMA RestoreStep ==
  ASSUME NEW t, OneSender(t), IInv, Restore(t)
  PROVE  IInv' /\ UNCHANGED <<inFlight, stored, freed, returning>>
<1> USE DEF OneSender, SoftwareEgressAssumption
<1>1. /\ pc[t] = "restore" /\ pc' \in [Thread -> {"spin", "lock"}]
      /\ UNCHANGED <<need, inFlight, stored, freed, returning, pendingNotify>>
  BY DEF Restore, Goto, IInv, Counted, farSide
<1>2. /\ need[t] \in 0..CounterMod /\ CounterMod \in Nat \ {0}
      /\ FifoSize \in Nat /\ CounterMod > 2 * FifoSize /\ Owed \in 0..FifoSize
  BY DEF IInv, Counted
<1>3. flowcontrolCredits = IF Owed >= need[t] THEN Owed - need[t]
                           ELSE Owed + CounterMod - need[t]
  BY <1>1 DEF IInv, Exact
<1>4. flowcontrolCredits' = Owed
  <2> DEFINE y == flowcontrolCredits + need[t]
  <2>1. y = Owed \/ y = Owed + CounterMod
    BY <1>2, <1>3
  <2>2. Owed \in 0..(CounterMod - 1)
    BY <1>2
  <2>3. flowcontrolCredits' = y % CounterMod
    BY DEF Restore, FetchAndAdd
  <2> HIDE DEF y
  <2>4. QED
    BY <1>2, <2>1, <2>2, <2>3, ModBelow, ModAbove
<1>5. Owed' = Owed
  BY <1>1 DEF Owed
<1>6. Counted' /\ Exact' /\ Afforded' /\ Woken'
  BY <1>1, <1>2, <1>4, <1>5 DEF IInv, Counted, Exact, Afforded, Woken
<1>7. QED
  BY <1>1, <1>6 DEF IInv

\* A thread that has seen enough takes it, and there still is enough.
LEMMA TakeStep ==
  ASSUME NEW t, OneSender(t), IInv, Take(t)
  PROVE  /\ IInv'
         /\ need[t] <= Owed /\ inFlight' = inFlight + need[t]
         /\ UNCHANGED <<stored, freed, returning>>
<1> USE DEF OneSender, SoftwareEgressAssumption
<1>1. /\ pc[t] = "take" /\ pc' \in [Thread -> {"idle"}]
      /\ inFlight' = inFlight + need[t]
      /\ UNCHANGED <<need, stored, freed, returning, pendingNotify>>
  BY DEF Take, Goto, Acquired, IInv, Counted
<1>2. /\ flowcontrolCredits \in 0..(CounterMod - 1) /\ need[t] \in 0..CounterMod
      /\ CounterMod \in Nat \ {0} /\ need[t] \in Nat
      /\ inFlight \in Nat /\ stored \in Nat /\ freed \in Nat /\ returning \in Nat
  BY DEF IInv, Counted
<1>3. flowcontrolCredits = Owed /\ Owed \in 0..FifoSize /\ Owed >= need[t]
  BY <1>1 DEF IInv, Exact, Counted, Afforded
<1>4. flowcontrolCredits' = Owed - need[t]
  <2>1. flowcontrolCredits' = IF flowcontrolCredits >= need[t]
                              THEN flowcontrolCredits - need[t]
                              ELSE flowcontrolCredits + CounterMod - need[t]
    BY <1>2, Subtract DEF Take, FetchAndAdd
  <2>2. QED
    BY <1>3, <2>1
<1>5. Owed' = Owed - need[t]
  BY <1>1, <1>2, <1>3 DEF Owed
<1>6. Counted' /\ Exact' /\ Afforded' /\ Woken'
  BY <1>1, <1>2, <1>3, <1>4, <1>5 DEF IInv, Counted, Exact, Afforded, Woken
<1>7. QED
  BY <1>1, <1>3, <1>6 DEF IInv

\* Steps that touch neither the counter nor the far side: calls, the critical
\* section's entry and test, and wakeups.  The test sends a thread to sleep only
\* when its credits are not there, and the notification wakes all sleepers.
LEMMA WaitingStep ==
  ASSUME NEW t, OneSender(t), IInv,
         \/ \E credits \in 1..(MaxPacket + 1) : Call(t, credits)
         \/ Lock(t) \/ Check(t) \/ SpuriousWakeup(t) \/ NotifyAll
  PROVE  IInv' /\ UNCHANGED <<inFlight, stored, freed, returning>>
<1> USE DEF OneSender, SoftwareEgressAssumption
<1>1. UNCHANGED <<flowcontrolCredits, inFlight, stored, freed, returning>>
  BY DEF Call, Lock, Check, SpuriousWakeup, NotifyAll, farSide
<1>2. Owed' = Owed /\ Owed \in 0..FifoSize
  BY <1>1 DEF Owed, IInv, Counted
<1>3. ASSUME NEW credits \in 1..(MaxPacket + 1), Call(t, credits) PROVE IInv'
  BY <1>1, <1>2, <1>3 DEF Call, Goto, IInv, Counted, Exact, Afforded, Woken
<1>4. CASE Lock(t)
  BY <1>1, <1>2, <1>4 DEF Lock, Goto, IInv, Counted, Exact, Afforded, Woken
<1>5. CASE Check(t)
  <2>1. flowcontrolCredits = Owed
    BY <1>5 DEF Check, IInv, Exact
  <2>2. CASE flowcontrolCredits < need[t]
    <3>1. pc' = [pc EXCEPT ![t] = "wait"] /\ UNCHANGED <<need, pendingNotify>>
      BY <1>5, <2>2 DEF Check, Goto
    <3>2. ~(Owed >= need[t])
      BY <1>2, <2>1, <2>2 DEF IInv, Counted
    <3>3. QED
      BY <1>1, <1>2, <1>5, <2>1, <3>1, <3>2 DEF Check, IInv, Counted, Exact, Afforded, Woken
  <2>3. CASE ~(flowcontrolCredits < need[t])
    <3>1. pc' = [pc EXCEPT ![t] = "take"] /\ UNCHANGED <<need, pendingNotify>>
      BY <1>5, <2>3 DEF Check, Goto
    <3>2. Owed >= need[t]
      BY <1>2, <2>1, <2>3 DEF IInv, Counted
    <3>3. QED
      BY <1>1, <1>2, <1>5, <2>1, <3>1, <3>2 DEF Check, IInv, Counted, Exact, Afforded, Woken
  <2>4. QED
    BY <2>2, <2>3
<1>6. CASE SpuriousWakeup(t)
  BY <1>1, <1>2, <1>6 DEF SpuriousWakeup, Goto, IInv, Counted, Exact, Afforded, Woken
<1>7. CASE NotifyAll
  BY <1>1, <1>2, <1>7 DEF NotifyAll, IInv, Counted, Exact, Afforded, Woken
<1>8. QED
  BY <1>1, <1>3, <1>4, <1>5, <1>6, <1>7

\* Credits that come back never turn the counter past its end, even while an
\* attempt has made it short; whoever sleeps is going to be notified.
LEMMA AddCreditsStep ==
  ASSUME NEW t, OneSender(t), IInv, AddCredits
  PROVE  /\ IInv'
         /\ returning > 0 /\ returning' = 0
         /\ Owed' = Owed + returning
         /\ UNCHANGED <<inFlight, stored, freed>>
<1> USE DEF OneSender, SoftwareEgressAssumption
<1>1. /\ returning > 0 /\ returning' = 0 /\ pendingNotify' = TRUE
      /\ UNCHANGED <<pc, need, inFlight, stored, freed>>
  BY DEF AddCredits
<1>2. /\ need[t] \in 0..CounterMod /\ CounterMod \in Nat \ {0}
      /\ FifoSize \in Nat /\ CounterMod > 2 * FifoSize /\ Owed \in 0..FifoSize
      /\ inFlight \in Nat /\ stored \in Nat /\ freed \in Nat /\ returning \in Nat
      /\ flowcontrolCredits \in 0..(CounterMod - 1)
  BY DEF IInv, Counted
<1>3. Owed' = Owed + returning /\ Owed' \in 0..FifoSize
  BY <1>1, <1>2 DEF Owed
<1>4. flowcontrolCredits = IF pc[t] # "restore" THEN Owed
                           ELSE IF Owed >= need[t] THEN Owed - need[t]
                           ELSE Owed + CounterMod - need[t]
  BY DEF IInv, Exact
<1>5. flowcontrolCredits' = IF pc[t] # "restore" THEN Owed'
                            ELSE IF Owed' >= need[t] THEN Owed' - need[t]
                            ELSE Owed' + CounterMod - need[t]
  <2> DEFINE y == flowcontrolCredits + returning
             z == IF pc[t] # "restore" THEN Owed'
                  ELSE IF Owed' >= need[t] THEN Owed' - need[t]
                  ELSE Owed' + CounterMod - need[t]
  <2>1. z \in 0..(CounterMod - 1)
    BY <1>2, <1>3
  <2>2. y = z \/ y = z + CounterMod
    BY <1>2, <1>3, <1>4
  <2>3. flowcontrolCredits' = y % CounterMod
    BY DEF AddCredits, FetchAndAdd
  <2> HIDE DEF y, z
  <2>4. y % CounterMod = z
    BY <1>2, <2>1, <2>2, ModBelow, ModAbove
  <2>5. QED
    BY <2>3, <2>4 DEF z
<1>6. flowcontrolCredits' \in 0..(CounterMod - 1)
  BY <1>2, <1>3, <1>5
<1>7. Counted' /\ Exact' /\ Afforded' /\ Woken'
  BY <1>1, <1>2, <1>3, <1>5, <1>6 DEF IInv, Counted, Exact, Afforded, Woken
<1>8. QED
  BY <1>1, <1>3, <1>7 DEF IInv

\* The far side moves slots from one place to the next.
LEMMA FarSideStep ==
  ASSUME NEW t, OneSender(t), IInv, Deliver \/ Consume \/ Return
  PROVE  IInv' /\ Owed' = Owed
<1> USE DEF OneSender, SoftwareEgressAssumption
<1>1. UNCHANGED <<flowcontrolCredits, pc, need, pendingNotify>>
  BY DEF Deliver, Consume, Return, software
<1>2. inFlight \in Nat /\ stored \in Nat /\ freed \in Nat /\ returning \in Nat
      /\ Owed \in 0..FifoSize
  BY DEF IInv, Counted
<1>3. /\ inFlight' \in Nat /\ stored' \in Nat /\ freed' \in Nat /\ returning' \in Nat
      /\ inFlight' + stored' + freed' + returning' = inFlight + stored + freed + returning
  BY <1>2 DEF Deliver, Consume, Return
<1>4. Owed' = Owed
  BY <1>2, <1>3 DEF Owed
<1>5. QED
  BY <1>1, <1>2, <1>3, <1>4 DEF IInv, Counted, Exact, Afforded, Woken

\* It holds initially.
LEMMA IInvInit ==
  ASSUME NEW t, OneSender(t), Init
  PROVE  IInv
<1> USE DEF OneSender, SoftwareEgressAssumption
<1>1. Owed = FifoSize
  BY DEF Init, Owed
<1>2. QED
  BY <1>1 DEF Init, IInv, Counted, Exact, Afforded, Woken

\* Every step keeps the invariant.
LEMMA IInvStep ==
  ASSUME NEW t, OneSender(t), IInv, [Next]_vars
  PROVE  IInv'
<1>1. CASE \E u \in Thread :
             \/ \E credits \in 1..(MaxPacket + 1) : Call(u, credits)
             \/ Continue(u)
             \/ SpuriousWakeup(u)
  <2>1. \/ \E credits \in 1..(MaxPacket + 1) : Call(t, credits)
        \/ Grab(t) \/ Restore(t) \/ Lock(t) \/ Check(t) \/ Take(t)
        \/ SpuriousWakeup(t)
    BY <1>1 DEF Continue, OneSender
  <2>2. QED
    BY <2>1, GrabStep, RestoreStep, TakeStep, WaitingStep
<1>2. CASE AddCredits \/ NotifyAll \/ Deliver \/ Consume \/ Return
  BY <1>2, AddCreditsStep, WaitingStep, FarSideStep
<1>3. CASE UNCHANGED vars
  BY <1>3 DEF vars, farSide, IInv, Counted, Exact, Afforded, Woken, Owed
<1>4. QED
  BY <1>1, <1>2, <1>3 DEF Next

\* The invariant holds of every behaviour of one sender.
LEMMA IInvCorrect ==
  ASSUME NEW t, OneSender(t)
  PROVE  Spec => []IInv
<1>1. Init => IInv
  BY IInvInit
<1>2. IInv /\ [Next]_vars => IInv'
  BY IInvStep
<1>3. QED
  BY <1>1, <1>2, PTL DEF Spec

\* What the model calls the credits held is what the sender is owed.
HeldIsOwed == CreditsHeld = Owed

\* It is so: one attempt at most is being taken back.
LEMMA HeldIsOwedFollows ==
  ASSUME NEW t, OneSender(t), IInv
  PROVE  HeldIsOwed
<1> USE DEF OneSender, SoftwareEgressAssumption
<1>1. /\ need[t] \in Nat /\ need[t] <= CounterMod /\ CounterMod \in Nat \ {0}
      /\ CounterMod > 2 * FifoSize /\ FifoSize \in Nat /\ Owed \in 0..FifoSize
  BY DEF IInv, Counted
<1>2. flowcontrolCredits = IF pc[t] # "restore" THEN Owed
                           ELSE IF Owed >= need[t] THEN Owed - need[t]
                           ELSE Owed + CounterMod - need[t]
  BY DEF IInv, Exact
<1>3. Debt = IF pc[t] = "restore" THEN need[t] ELSE 0
  BY <1>1, DebtOfOne
<1> DEFINE y == flowcontrolCredits + Debt
<1>4. y = Owed \/ y = Owed + CounterMod
  BY <1>1, <1>2, <1>3
<1>5. Owed \in 0..(CounterMod - 1)
  BY <1>1
<1> HIDE DEF y
<1>6. y % CounterMod = Owed
  BY <1>1, <1>4, <1>5, ModBelow, ModAbove
<1>7. QED
  BY <1>6 DEF HeldIsOwed, CreditsHeld, y

\* No notification falls between a thread's test and its sleep: a thread that
\* sleeps although its credits are there is about to be notified, although
\* freeCredits adds the credits outside the critical section.
THEOREM NoLostWakeupCorrect ==
  ASSUME NEW t, OneSender(t)
  PROVE  Spec => []NoLostWakeup
<1>1. IInv => HeldIsOwed
  BY HeldIsOwedFollows
<1>2. IInv /\ HeldIsOwed => NoLostWakeup
  BY DEF IInv, Woken, HeldIsOwed, NoLostWakeup
<1>3. QED
  BY <1>1, <1>2, IInvCorrect, PTL

-----------------------------------------------------------------------------
(***************************************************************************)
(* Any number of threads, which together may spend what is not there: even *)
(* so every credit that an attempt subtracts is added back or spent, and   *)
(* what the counter, the attempts and the far side hold is the buffer, up  *)
(* to whole turns of the counter.                                          *)
(***************************************************************************)

\* What the attempts that are being taken back have subtracted.
Owing == [t \in Thread |-> IF pc[t] = "restore" THEN need[t] ELSE 0]

Elsewhere == Debt + inFlight + stored + freed + returning

\* An attempt is made only while there are retries left.
Trying == \A t \in Thread : pc[t] \in {"spin", "restore"} => retries[t] < Retries

CountInv ==
  /\ TypeOK /\ Trying
  /\ (flowcontrolCredits + Elsewhere) % CounterMod = FifoSize

\* What is added up are numbers, and adding up the reduced count of the protocol
\* is adding up the counter.
LEMMA ElsewhereType ==
  ASSUME SoftwareEgressAssumption, TypeOK
  PROVE  /\ Debt = SumOf(Owing) /\ Owing \in [Thread -> Nat] /\ Debt \in Nat
         /\ Elsewhere \in Nat /\ flowcontrolCredits \in Nat
         /\ CounterMod \in Nat \ {0} /\ IsFiniteSet(Thread)
<1>1. Owing \in [Thread -> Nat] /\ IsFiniteSet(Thread)
  BY DEF Owing, TypeOK, SoftwareEgressAssumption
<1>2. Debt = SumOf(Owing) /\ Debt \in Nat
  BY <1>1, SumType DEF Debt, Owing
<1>3. CounterMod \in Nat \ {0} /\ flowcontrolCredits \in Nat
  BY DEF TypeOK, SoftwareEgressAssumption
<1>4. QED
  BY <1>1, <1>2, <1>3 DEF Elsewhere, TypeOK

\* What the counter shows and what attempts owe it add up to the credits held, in
\* the numbers that the counter has room for.
LEMMA CountsSay ==
  ASSUME SoftwareEgressAssumption, CountInv
  PROVE  TypeOK /\ CreditConservation
<1> DEFINE rest == inFlight + stored + freed + returning
           y == flowcontrolCredits + Debt
<1>1. y \in Int /\ rest \in Int /\ y + rest = flowcontrolCredits + Elsewhere
      /\ CounterMod \in Nat \ {0}
  BY ElsewhereType DEF CountInv, TypeOK, Elsewhere
<1>2. CreditsHeld = y % CounterMod
  BY DEF CreditsHeld
<1>3. CreditConservation <=> (CreditsHeld + rest) % CounterMod = FifoSize
  <2>1. CreditsHeld \in Int /\ inFlight \in Nat /\ stored \in Nat /\ freed \in Nat
        /\ returning \in Nat
    BY <1>1, <1>2, ModOfPart DEF CountInv, TypeOK
  <2>2. CreditsHeld + inFlight + stored + freed + returning = CreditsHeld + rest
    BY <2>1
  <2>3. QED
    BY <2>2 DEF CreditConservation
<1> HIDE DEF rest, y
<1>4. ((y % CounterMod) + rest) % CounterMod = (y + rest) % CounterMod
  BY <1>1, ModOfPart
<1>5. QED
  BY <1>1, <1>2, <1>3, <1>4 DEF CountInv

\* A step that adds n to the counter and takes as much, up to one turn of the
\* counter, from elsewhere.
LEMMA CountMoves ==
  ASSUME SoftwareEgressAssumption, CountInv, NEW n \in Int, FetchAndAdd(n),
         Elsewhere' \in Int,
         Elsewhere' = Elsewhere - n \/ Elsewhere' = Elsewhere - n + CounterMod
  PROVE  /\ flowcontrolCredits' \in 0..(CounterMod - 1)
         /\ (flowcontrolCredits' + Elsewhere') % CounterMod = FifoSize
<1>1. /\ flowcontrolCredits \in Nat /\ Elsewhere \in Nat /\ CounterMod \in Nat \ {0}
      /\ (flowcontrolCredits + Elsewhere) % CounterMod = FifoSize
  BY ElsewhereType DEF CountInv
<1> DEFINE y == flowcontrolCredits + n
           x == flowcontrolCredits + Elsewhere
           after == Elsewhere'
<1>2. flowcontrolCredits' = y % CounterMod /\ x % CounterMod = FifoSize
  BY <1>1 DEF FetchAndAdd
<1>3. after \in Int /\ (after = Elsewhere - n \/ after = Elsewhere - n + CounterMod)
  OBVIOUS
<1> HIDE DEF after
<1>4. y \in Int /\ x \in Int /\ (y + after = x \/ y + after = x + CounterMod)
  BY <1>1, <1>3
<1> HIDE DEF y, x
<1>5. /\ flowcontrolCredits' \in 0..(CounterMod - 1)
      /\ (flowcontrolCredits' + after) % CounterMod = (y + after) % CounterMod
  BY <1>1, <1>2, <1>3, <1>4, ModOfPart
<1>6. (y + after) % CounterMod = x % CounterMod
  BY <1>1, <1>4, ModTurn
<1>7. QED
  BY <1>2, <1>5, <1>6 DEF after

\* What the attempts have subtracted changes with the thread that takes the step.
LEMMA DebtChange ==
  ASSUME SoftwareEgressAssumption, TypeOK, NEW t \in Thread,
         pc' \in [Thread -> {"idle", "spin", "restore", "lock", "check", "take", "wait"}],
         need' \in [Thread -> 0..(MaxPacket + 1)],
         \A u \in Thread \ {t} : (pc'[u] = "restore" <=> pc[u] = "restore") /\ need'[u] = need[u]
  PROVE  /\ Debt' \in Nat /\ Debt \in Nat
         /\ Debt' = Debt - (IF pc[t] = "restore" THEN need[t] ELSE 0)
                         + (IF pc'[t] = "restore" THEN need'[t] ELSE 0)
<1> DEFINE after == [u \in Thread |-> IF pc'[u] = "restore" THEN need'[u] ELSE 0]
<1>1. /\ Owing \in [Thread -> Nat] /\ Debt = SumOf(Owing) /\ IsFiniteSet(Thread)
      /\ Debt \in Nat
  BY ElsewhereType
<1>2. after \in [Thread -> Nat] /\ Debt' = SumOf(after)
  BY DEF SoftwareEgressAssumption, Debt
<1>3. \A u \in Thread \ {t} : after[u] = Owing[u]
  BY DEF Owing
<1>4. SumOf(after) = SumOf(Owing) - Owing[t] + after[t]
  BY <1>1, <1>2, <1>3, SumOfChange
<1>5. SumOf(after) \in Nat
  BY <1>1, <1>2, SumType
<1>6. Owing[t] = (IF pc[t] = "restore" THEN need[t] ELSE 0)
      /\ after[t] = (IF pc'[t] = "restore" THEN need'[t] ELSE 0)
  BY DEF Owing
<1>7. QED
  BY <1>1, <1>2, <1>4, <1>5, <1>6

\* The steps of acquireCredits that touch the counter.
LEMMA CountingStep ==
  ASSUME SoftwareEgressAssumption, CountInv, NEW t \in Thread,
         Grab(t) \/ Restore(t) \/ Take(t)
  PROVE  CountInv'
<1>1. /\ pc \in [Thread -> {"idle", "spin", "restore", "lock", "check", "take", "wait"}]
      /\ need \in [Thread -> 0..(MaxPacket + 1)] /\ retries \in [Thread -> 0..Retries]
      /\ holder \in Thread \cup {NoThread} /\ pendingNotify \in BOOLEAN
      /\ inFlight \in Nat /\ stored \in Nat /\ freed \in Nat /\ returning \in Nat
  BY DEF CountInv, TypeOK
<1>2. /\ Debt \in Nat /\ Elsewhere \in Nat /\ flowcontrolCredits \in Nat
      /\ CounterMod \in Nat \ {0} /\ Retries \in Nat \ {0}
      /\ need[t] \in Nat /\ retries[t] \in Nat
  BY <1>1, ElsewhereType DEF CountInv, SoftwareEgressAssumption
<1>3. Elsewhere = Debt + inFlight + stored + freed + returning
      /\ Elsewhere' = Debt' + inFlight' + stored' + freed' + returning'
  BY DEF Elsewhere
<1>4. CASE Grab(t)
  <2>1. PICK label \in {"idle", "restore"} :
          /\ pc' = [pc EXCEPT ![t] = label]
          /\ inFlight' = IF label = "idle" THEN inFlight + need[t] ELSE inFlight
    BY <1>4 DEF Grab, Goto, Acquired, farSide
  <2>2. /\ pc[t] = "spin" /\ FetchAndAdd(CounterMod - need[t])
        /\ UNCHANGED <<need, retries, holder, pendingNotify, stored, freed, returning>>
    BY <1>4 DEF Grab, Acquired, farSide
  <2>3. /\ pc' \in [Thread -> {"idle", "spin", "restore", "lock", "check", "take", "wait"}]
        /\ need' \in [Thread -> 0..(MaxPacket + 1)] /\ pc'[t] = label
        /\ \A u \in Thread \ {t} : pc'[u] = pc[u] /\ need'[u] = need[u]
    BY <1>1, <2>1, <2>2
  <2>4. Debt' \in Nat /\ Debt' = IF label = "restore" THEN Debt + need[t] ELSE Debt
    <3>1. Debt' \in Nat /\ Debt' = Debt - (IF pc[t] = "restore" THEN need[t] ELSE 0)
                                        + (IF pc'[t] = "restore" THEN need'[t] ELSE 0)
      BY <2>3, DebtChange DEF CountInv
    <3>2. QED
      BY <1>2, <2>2, <2>3, <3>1
  <2>5. CounterMod - need[t] \in Int /\ Elsewhere' \in Int
        /\ Elsewhere' = Elsewhere - (CounterMod - need[t]) + CounterMod
    BY <1>1, <1>2, <1>3, <2>1, <2>2, <2>4
  <2>6. /\ flowcontrolCredits' \in 0..(CounterMod - 1)
        /\ (flowcontrolCredits' + Elsewhere') % CounterMod = FifoSize
    BY <2>2, <2>5, CountMoves
  <2>7. inFlight' \in Nat
    BY <1>1, <1>2, <2>1
  <2>8. TypeOK'
    BY <1>1, <2>2, <2>3, <2>6, <2>7 DEF TypeOK
  <2>9. Trying'
    BY <2>2, <2>3 DEF CountInv, Trying
  <2>10. QED
    BY <2>6, <2>8, <2>9 DEF CountInv
<1>5. CASE Restore(t)
  <2>1. PICK label \in {"spin", "lock"} :
          /\ pc' = [pc EXCEPT ![t] = label]
          /\ label = "spin" => retries'[t] < Retries
    BY <1>5 DEF Restore, Goto
  <2>2. /\ pc[t] = "restore" /\ FetchAndAdd(need[t])
        /\ retries' = [retries EXCEPT ![t] = @ + 1]
        /\ UNCHANGED <<need, holder, pendingNotify, inFlight, stored, freed, returning>>
    BY <1>5 DEF Restore, farSide
  <2>3. /\ pc' \in [Thread -> {"idle", "spin", "restore", "lock", "check", "take", "wait"}]
        /\ need' \in [Thread -> 0..(MaxPacket + 1)] /\ pc'[t] = label
        /\ \A u \in Thread \ {t} : pc'[u] = pc[u] /\ need'[u] = need[u]
    BY <1>1, <2>1, <2>2
  <2>4. Debt' \in Nat /\ Debt' = Debt - need[t]
    <3>1. Debt' \in Nat /\ Debt' = Debt - (IF pc[t] = "restore" THEN need[t] ELSE 0)
                                        + (IF pc'[t] = "restore" THEN need'[t] ELSE 0)
      BY <2>3, DebtChange DEF CountInv
    <3>2. QED
      BY <1>2, <2>1, <2>2, <2>3, <3>1
  <2>5. need[t] \in Int /\ Elsewhere' \in Int /\ Elsewhere' = Elsewhere - need[t]
    BY <1>1, <1>2, <1>3, <2>2, <2>4
  <2>6. /\ flowcontrolCredits' \in 0..(CounterMod - 1)
        /\ (flowcontrolCredits' + Elsewhere') % CounterMod = FifoSize
    BY <2>2, <2>5, CountMoves
  <2>7. retries[t] < Retries
    BY <2>2 DEF CountInv, Trying
  <2>8. retries' \in [Thread -> 0..Retries]
    BY <1>1, <1>2, <2>2, <2>7
  <2>9. TypeOK'
    BY <1>1, <2>2, <2>3, <2>6, <2>8 DEF TypeOK
  <2>10. Trying'
    BY <1>1, <2>1, <2>2, <2>3 DEF CountInv, Trying
  <2>11. QED
    BY <2>6, <2>9, <2>10 DEF CountInv
<1>6. CASE Take(t)
  <2>1. /\ pc[t] = "take" /\ FetchAndAdd(CounterMod - need[t])
        /\ pc' = [pc EXCEPT ![t] = "idle"] /\ inFlight' = inFlight + need[t]
        /\ holder' = NoThread
        /\ UNCHANGED <<need, retries, pendingNotify, stored, freed, returning>>
    BY <1>6 DEF Take, Goto, Acquired
  <2>2. /\ pc' \in [Thread -> {"idle", "spin", "restore", "lock", "check", "take", "wait"}]
        /\ need' \in [Thread -> 0..(MaxPacket + 1)] /\ pc'[t] = "idle"
        /\ \A u \in Thread \ {t} : pc'[u] = pc[u] /\ need'[u] = need[u]
    BY <1>1, <2>1
  <2>3. Debt' \in Nat /\ Debt' = Debt
    <3>1. Debt' \in Nat /\ Debt' = Debt - (IF pc[t] = "restore" THEN need[t] ELSE 0)
                                        + (IF pc'[t] = "restore" THEN need'[t] ELSE 0)
      BY <2>2, DebtChange DEF CountInv
    <3>2. QED
      BY <1>2, <2>1, <2>2, <3>1
  <2>4. CounterMod - need[t] \in Int /\ Elsewhere' \in Int
        /\ Elsewhere' = Elsewhere - (CounterMod - need[t]) + CounterMod
    BY <1>1, <1>2, <1>3, <2>1, <2>3
  <2>5. /\ flowcontrolCredits' \in 0..(CounterMod - 1)
        /\ (flowcontrolCredits' + Elsewhere') % CounterMod = FifoSize
    BY <2>1, <2>4, CountMoves
  <2>6. inFlight' \in Nat
    BY <1>1, <1>2, <2>1
  <2>7. TypeOK'
    BY <1>1, <2>1, <2>2, <2>5, <2>6 DEF TypeOK
  <2>8. Trying'
    BY <2>1, <2>2 DEF CountInv, Trying
  <2>9. QED
    BY <2>5, <2>7, <2>8 DEF CountInv
<1>7. QED
  BY <1>4, <1>5, <1>6

\* Calls, tests and wakeups leave the counter, and the attempts being taken back,
\* alone.
LEMMA IdlingStep ==
  ASSUME SoftwareEgressAssumption, CountInv, NEW t \in Thread,
         \/ \E credits \in 1..(MaxPacket + 1) : Call(t, credits)
         \/ Lock(t) \/ Check(t) \/ SpuriousWakeup(t)
  PROVE  CountInv'
<1>1. /\ pc \in [Thread -> {"idle", "spin", "restore", "lock", "check", "take", "wait"}]
      /\ need \in [Thread -> 0..(MaxPacket + 1)] /\ retries \in [Thread -> 0..Retries]
      /\ holder \in Thread \cup {NoThread} /\ pendingNotify \in BOOLEAN
      /\ inFlight \in Nat /\ stored \in Nat /\ freed \in Nat /\ returning \in Nat
      /\ flowcontrolCredits \in 0..(CounterMod - 1) /\ Trying
      /\ (flowcontrolCredits + Elsewhere) % CounterMod = FifoSize
      /\ Retries \in Nat \ {0}
  BY DEF CountInv, TypeOK, SoftwareEgressAssumption
<1>2. PICK label \in {"spin", "lock", "check", "take", "wait"} :
        /\ pc' = [pc EXCEPT ![t] = label] /\ pc[t] # "restore"
        /\ label = "spin" => \E credits \in 1..(MaxPacket + 1) : Call(t, credits)
  BY DEF Call, Lock, Check, SpuriousWakeup, Goto
<1>3. /\ UNCHANGED <<flowcontrolCredits, pendingNotify, inFlight, stored, freed, returning>>
      /\ holder' \in Thread \cup {NoThread}
  BY <1>1 DEF Call, Lock, Check, SpuriousWakeup, farSide
<1>4. /\ need' \in [Thread -> 0..(MaxPacket + 1)] /\ retries' \in [Thread -> 0..Retries]
      /\ \A u \in Thread \ {t} : need'[u] = need[u] /\ retries'[u] = retries[u]
      /\ label = "spin" => retries'[t] < Retries
  <2>1. CASE \E credits \in 1..(MaxPacket + 1) : Call(t, credits)
    <3>1. PICK credits \in 1..(MaxPacket + 1) : need' = [need EXCEPT ![t] = credits]
      BY <2>1 DEF Call
    <3>2. retries' = [retries EXCEPT ![t] = 0]
      BY <2>1 DEF Call
    <3>3. credits \in 0..(MaxPacket + 1) /\ 0 \in 0..Retries /\ 0 < Retries
      BY <1>1 DEF SoftwareEgressAssumption
    <3>4. QED
      BY <1>1, <3>1, <3>2, <3>3
  <2>2. CASE Lock(t) \/ Check(t) \/ SpuriousWakeup(t)
    <3>1. UNCHANGED <<need, retries>> /\ label # "spin"
      <4>1. pc'[t] # "spin"
        BY <1>1, <2>2 DEF Lock, Check, SpuriousWakeup, Goto
      <4>2. QED
        BY <1>1, <1>2, <2>2, <4>1 DEF Lock, Check, SpuriousWakeup
    <3>2. QED
      BY <1>1, <3>1
  <2>3. QED
    BY <2>1, <2>2
<1>5. /\ pc' \in [Thread -> {"idle", "spin", "restore", "lock", "check", "take", "wait"}]
      /\ pc'[t] = label /\ label # "restore"
      /\ \A u \in Thread \ {t} : pc'[u] = pc[u]
  BY <1>1, <1>2
<1>6. Debt' \in Nat /\ Debt \in Nat /\ Debt' = Debt
  <2>1. Debt' \in Nat /\ Debt \in Nat
        /\ Debt' = Debt - (IF pc[t] = "restore" THEN need[t] ELSE 0)
                        + (IF pc'[t] = "restore" THEN need'[t] ELSE 0)
    BY <1>4, <1>5, DebtChange DEF CountInv
  <2>2. QED
    BY <1>2, <1>5, <2>1
<1>7. (flowcontrolCredits' + Elsewhere') % CounterMod = FifoSize
  BY <1>1, <1>3, <1>6 DEF Elsewhere
<1>8. TypeOK'
  BY <1>1, <1>3, <1>4, <1>5 DEF TypeOK
<1>9. Trying'
  BY <1>1, <1>4, <1>5 DEF Trying
<1>10. QED
  BY <1>7, <1>8, <1>9 DEF CountInv

\* Credits that come back, the notification and the far side.
LEMMA ReturningStep ==
  ASSUME SoftwareEgressAssumption, CountInv,
         AddCredits \/ NotifyAll \/ Deliver \/ Consume \/ Return
  PROVE  CountInv'
<1>1. /\ pc \in [Thread -> {"idle", "spin", "restore", "lock", "check", "take", "wait"}]
      /\ need \in [Thread -> 0..(MaxPacket + 1)] /\ retries \in [Thread -> 0..Retries]
      /\ holder \in Thread \cup {NoThread} /\ pendingNotify \in BOOLEAN
      /\ inFlight \in Nat /\ stored \in Nat /\ freed \in Nat /\ returning \in Nat
      /\ flowcontrolCredits \in 0..(CounterMod - 1)
      /\ (flowcontrolCredits + Elsewhere) % CounterMod = FifoSize
      /\ CounterMod \in Nat \ {0} /\ Debt \in Nat /\ Elsewhere \in Nat
  BY ElsewhereType DEF CountInv, TypeOK
<1>2. /\ pc' \in [Thread -> {"idle", "spin", "restore", "lock", "check", "take", "wait"}]
      /\ \A u \in Thread : pc'[u] = pc[u] \/ (pc[u] = "wait" /\ pc'[u] = "lock")
      /\ UNCHANGED <<need, retries, holder>>
  <2>1. CASE AddCredits
    BY <1>1, <2>1 DEF AddCredits
  <2>2. CASE NotifyAll
    BY <1>1, <2>2 DEF NotifyAll
  <2>3. CASE Deliver \/ Consume \/ Return
    BY <1>1, <2>3 DEF Deliver, Consume, Return, software
  <2>4. QED
    BY <2>1, <2>2, <2>3
<1>3. pendingNotify' \in BOOLEAN
  <2>1. CASE AddCredits
    BY <2>1, Zenon DEF AddCredits
  <2>2. CASE NotifyAll
    BY <2>2, Zenon DEF NotifyAll
  <2>3. CASE Deliver \/ Consume \/ Return
    <3>1. pendingNotify' = pendingNotify
      BY <2>3 DEF Deliver, Consume, Return, software
    <3>2. QED
      BY <1>1, <3>1
  <2>4. QED
    BY <2>1, <2>2, <2>3
<1>4. Debt' = Debt
  <2>1. [u \in Thread |-> IF pc'[u] = "restore" THEN need'[u] ELSE 0]
          = [u \in Thread |-> IF pc[u] = "restore" THEN need[u] ELSE 0]
    BY <1>2
  <2>2. QED
    BY <2>1 DEF Debt
<1>5. Trying'
  BY <1>2 DEF CountInv, Trying
<1>6. Elsewhere = Debt + inFlight + stored + freed + returning
      /\ Elsewhere' = Debt' + inFlight' + stored' + freed' + returning'
  BY DEF Elsewhere
<1>7. CASE AddCredits
  <2>1. /\ FetchAndAdd(returning) /\ returning' = 0
        /\ UNCHANGED <<inFlight, stored, freed>>
    BY <1>7 DEF AddCredits
  <2>2. returning \in Int /\ Elsewhere' \in Int /\ Elsewhere' = Elsewhere - returning
    BY <1>1, <1>4, <1>6, <2>1
  <2>3. /\ flowcontrolCredits' \in 0..(CounterMod - 1)
        /\ (flowcontrolCredits' + Elsewhere') % CounterMod = FifoSize
    BY <2>1, <2>2, CountMoves
  <2>4. TypeOK'
    BY <1>1, <1>2, <1>3, <2>1, <2>3 DEF TypeOK
  <2>5. QED
    BY <1>5, <2>3, <2>4 DEF CountInv
<1>8. CASE NotifyAll \/ Deliver \/ Consume \/ Return
  <2>1. /\ flowcontrolCredits' = flowcontrolCredits
        /\ inFlight' \in Nat /\ stored' \in Nat /\ freed' \in Nat /\ returning' \in Nat
        /\ inFlight' + stored' + freed' + returning' = inFlight + stored + freed + returning
    BY <1>1, <1>8 DEF NotifyAll, Deliver, Consume, Return, software, farSide
  <2>2. Elsewhere' = Elsewhere
    <3>1. Elsewhere = Debt + (inFlight + stored + freed + returning)
          /\ Elsewhere' = Debt' + (inFlight' + stored' + freed' + returning')
      BY <1>1, <1>4, <1>6, <2>1
    <3>2. QED
      BY <1>4, <2>1, <3>1
  <2>3. TypeOK'
    BY <1>1, <1>2, <1>3, <2>1 DEF TypeOK
  <2>4. QED
    BY <1>1, <1>5, <2>1, <2>2, <2>3 DEF CountInv
<1>9. QED
  BY <1>7, <1>8

\* Initially the counter holds all.
LEMMA CountInit ==
  ASSUME SoftwareEgressAssumption, Init
  PROVE  CountInv
<1>1. TypeOK /\ Trying
  <2>1. /\ FifoSize \in 0..(CounterMod - 1) /\ 0 \in 0..(MaxPacket + 1) /\ 0 \in 0..Retries
        /\ 0 < Retries
    BY DEF SoftwareEgressAssumption
  <2>2. pendingNotify \in BOOLEAN
    BY Zenon DEF Init
  <2>3. QED
    BY <2>1, <2>2 DEF Init, TypeOK, Trying
<1>2. Debt = 0
  <2>1. \A t \in Thread : Owing[t] = 0
    BY DEF Init, Owing
  <2>2. QED
    BY <1>1, <2>1, ElsewhereType, SumOfZero
<1>3. flowcontrolCredits + Elsewhere = FifoSize
  BY <1>2 DEF Init, Elsewhere, SoftwareEgressAssumption
<1>4. FifoSize % CounterMod = FifoSize
  <2>1. FifoSize \in 0..(CounterMod - 1) /\ CounterMod \in Nat \ {0}
    BY DEF SoftwareEgressAssumption
  <2>2. QED
    BY <2>1, ModBelow
<1>5. QED
  BY <1>1, <1>3, <1>4 DEF CountInv

\* No step loses a credit or invents one.
LEMMA CountStep ==
  ASSUME SoftwareEgressAssumption, CountInv, [Next]_vars
  PROVE  CountInv'
<1>1. CASE UNCHANGED vars
  BY <1>1 DEF vars, farSide, CountInv, TypeOK, Trying, Elsewhere, Debt
<1>2. QED
  BY <1>1, CountingStep, IdlingStep, ReturningStep DEF Next, Continue

\* However many threads send, and even when they overrun the far buffer together,
\* the state stays well formed and no attempt, failed or not, loses a credit or
\* invents one (flowcontrol-egress.h).
THEOREM CreditConservationCorrect ==
  ASSUME SoftwareEgressAssumption
  PROVE  Spec => [](TypeOK /\ CreditConservation)
<1>1. Init => CountInv
  BY CountInit
<1>2. CountInv /\ [Next]_vars => CountInv'
  BY CountStep
<1>3. CountInv => TypeOK /\ CreditConservation
  BY CountsSay
<1>4. QED
  BY <1>1, <1>2, <1>3, PTL DEF Spec

-----------------------------------------------------------------------------
(* The refinement: what the credits of the protocol are is CreditsHeld.    *)

\* A message that pays for its chunks is a packet that starts.
LEMMA SpendRefines ==
  ASSUME NEW t, OneSender(t), IInv, HeldIsOwed, HeldIsOwed',
         need[t] <= Owed, inFlight' = inFlight + need[t],
         UNCHANGED <<stored, freed, returning>>
  PROVE  Protocol!Next
<1> USE DEF OneSender, SoftwareEgressAssumption
<1>1. /\ need[t] \in 0..(MaxPacket + 1) /\ need[t] \in Nat /\ Owed \in Nat
      /\ inFlight \in Nat /\ stored \in Nat /\ freed \in Nat /\ returning \in Nat
      /\ FifoSize \in Nat
  BY DEF IInv, Counted
<1>2. Owed' = Owed - need[t]
  BY <1>1 DEF Owed
<1>3. Protocol!Step(need[t], 0, {})
  BY <1>1, <1>2 DEF HeldIsOwed, Protocol!Step, Protocol!May, Protocol!MaySend,
     Protocol!MayReturn, Protocol!Free, Protocol!On
<1>4. need[t] \in Protocol!Amounts /\ 0 \in Protocol!Amounts
  BY <1>1 DEF Protocol!Amounts
<1>5. QED
  BY <1>3, <1>4 DEF Protocol!Next

\* Credits that freeCredits adds are a refill.
LEMMA RefillRefines ==
  ASSUME NEW t, OneSender(t), IInv, HeldIsOwed, HeldIsOwed', AddCredits
  PROVE  Protocol!Next
<1> USE DEF OneSender, SoftwareEgressAssumption
<1>1. /\ Owed \in Nat
      /\ inFlight \in Nat /\ stored \in Nat /\ freed \in Nat /\ returning \in Nat
  BY DEF IInv, Counted
<1>2. /\ returning > 0 /\ returning' = 0 /\ Owed' = Owed + returning
      /\ UNCHANGED <<inFlight, stored, freed>>
  BY AddCreditsStep
<1>3. Protocol!Step(0, 0, {"refill"})
  BY <1>1, <1>2 DEF HeldIsOwed, Protocol!Step, Protocol!May, Protocol!MaySend,
     Protocol!MayReturn, Protocol!Free, Protocol!On
<1>4. 0 \in Protocol!Amounts /\ {"refill"} \in SUBSET Protocol!Events
  BY DEF Protocol!Amounts, Protocol!Events
<1>5. QED
  BY <1>3, <1>4 DEF Protocol!Next

\* The far side is the protocol's own.
LEMMA FarSideRefines ==
  ASSUME NEW t, OneSender(t), IInv, HeldIsOwed, HeldIsOwed',
         Deliver \/ Consume \/ Return
  PROVE  Protocol!Next
<1> USE DEF OneSender, SoftwareEgressAssumption
<1>1. /\ Owed \in Nat
      /\ inFlight \in Nat /\ stored \in Nat /\ freed \in Nat /\ returning \in Nat
  BY DEF IInv, Counted
<1>2. CreditsHeld' = CreditsHeld /\ CreditsHeld \in Nat
  BY <1>1, FarSideStep DEF HeldIsOwed
<1>3. /\ 0 \in Protocol!Amounts /\ 1 \in Protocol!Amounts
      /\ {"deliver"} \in SUBSET Protocol!Events /\ {"return"} \in SUBSET Protocol!Events
      /\ {} \in SUBSET Protocol!Events
  BY DEF Protocol!Amounts, Protocol!Events
<1>4. CASE Deliver
  <2>1. Protocol!Step(0, 0, {"deliver"})
    BY <1>1, <1>2, <1>4 DEF Deliver, Protocol!Step, Protocol!May, Protocol!MaySend,
       Protocol!MayReturn, Protocol!Free, Protocol!On
  <2>2. QED
    BY <1>3, <2>1 DEF Protocol!Next
<1>5. CASE Consume
  <2>1. Protocol!Step(0, 1, {})
    BY <1>1, <1>2, <1>5 DEF Consume, Protocol!Step, Protocol!May, Protocol!MaySend,
       Protocol!MayReturn, Protocol!Free, Protocol!On
  <2>2. QED
    BY <1>3, <2>1 DEF Protocol!Next
<1>6. CASE Return
  <2>1. Protocol!Step(0, 0, {"return"})
    BY <1>1, <1>2, <1>6 DEF Return, Protocol!Step, Protocol!May, Protocol!MaySend,
       Protocol!MayReturn, Protocol!Free, Protocol!On
  <2>2. QED
    BY <1>3, <2>1 DEF Protocol!Next
<1>7. QED
  BY <1>4, <1>5, <1>6

\* Initially the sender holds all credits.
LEMMA InitRefines ==
  ASSUME NEW t, OneSender(t), Init
  PROVE  Protocol!Init
<1>1. HeldIsOwed
  BY IInvInit, HeldIsOwedFollows
<1>2. QED
  BY <1>1 DEF Init, HeldIsOwed, Owed, Protocol!Init, OneSender, SoftwareEgressAssumption

\* Every step is one of the protocol, or none.
LEMMA StepRefines ==
  ASSUME NEW t, OneSender(t), IInv, HeldIsOwed, HeldIsOwed', [Next]_vars
  PROVE  Protocol!Next \/ UNCHANGED Protocol!vars
<1>1. ASSUME UNCHANGED <<inFlight, stored, freed, returning>>
      PROVE  UNCHANGED Protocol!vars
  BY <1>1 DEF HeldIsOwed, Owed, Protocol!vars
<1>2. CASE Grab(t)
  BY <1>1, <1>2, GrabStep, SpendRefines
<1>3. CASE Take(t)
  BY <1>3, TakeStep, SpendRefines
<1>4. CASE Restore(t)
  BY <1>1, <1>4, RestoreStep
<1>5. CASE \/ \E credits \in 1..(MaxPacket + 1) : Call(t, credits)
           \/ Lock(t) \/ Check(t) \/ SpuriousWakeup(t) \/ NotifyAll
  BY <1>1, <1>5, WaitingStep
<1>6. CASE AddCredits
  BY <1>6, RefillRefines
<1>7. CASE Deliver \/ Consume \/ Return
  BY <1>7, FarSideRefines
<1>8. CASE UNCHANGED vars
  BY <1>1, <1>8 DEF vars, farSide
<1>9. QED
  BY <1>2, <1>3, <1>4, <1>5, <1>6, <1>7, <1>8 DEF Next, Continue, OneSender

\* A thread that spins, takes back what it could not afford, sleeps and wakes
\* does to the far side exactly what the credit protocol allows: every step is one
\* of the protocol, or none.
THEOREM ImplementsCreditProtocolCorrect ==
  ASSUME NEW t, OneSender(t)
  PROVE  Spec => ImplementsCreditProtocol
<1>1. IInv => HeldIsOwed
  BY HeldIsOwedFollows
<1>2. Init => Protocol!Init
  BY InitRefines
<1>3. IInv /\ HeldIsOwed /\ HeldIsOwed' /\ [Next]_vars => [Protocol!Next]_Protocol!vars
  BY StepRefines
<1>4. QED
  BY <1>1, <1>2, <1>3, IInvCorrect, PTL
     DEF Spec, ImplementsCreditProtocol, Protocol!Spec

-----------------------------------------------------------------------------
\* The second sender: the channels of a link to a pointer switch.
CONSTANTS Channel, FC, OutFifoSize, OutMinBuffer, MaxMessage, MaxReturns

VARIABLES outTotal, outCredits, outPc, outNeed, outAborted, outUnread, outFreed,
          outReturning

Out == INSTANCE PointerEgress WITH
  FifoSize <- OutFifoSize, MinBuffer <- OutMinBuffer, totalCredits <- outTotal,
  flowcontrolCredits <- outCredits, pc <- outPc, need <- outNeed, aborted <- outAborted,
  outstanding <- outUnread, freed <- outFreed, returning <- outReturning

-----------------------------------------------------------------------------
(***************************************************************************)
(* Senders that share the buffer of a pointer switch, for every finite set *)
(* of channels and all sizes.                                              *)
(*                                                                         *)
(* A channel that looks at its own part only may go over the shared region *)
(* by what of its part it did not use.  The invariant counts just that:    *)
(* the total is within the region and the used pieces of all parts.        *)
(***************************************************************************)

OutMessage == [channel : Channel, credits : Nat]

OutNumbers ==
  /\ outTotal \in Nat /\ outCredits \in [Channel -> Nat]
  /\ outUnread \in [Channel -> Nat] /\ outFreed \in [Channel -> Nat]
  /\ outReturning \in Seq(OutMessage)

OutPlaces ==
  /\ outPc \in [Channel -> {"idle", "wait", "woken"}]
  /\ outNeed \in [Channel -> 0..MaxMessage]

\* What of its own part a channel uses.
Used(credits) ==
  [c \in Channel |-> IF credits[c] <= OutMinBuffer THEN credits[c] ELSE OutMinBuffer]

OutShared == outTotal <= Out!Region + SumOf(Used(outCredits))

OutCounts == OutNumbers /\ Out!CreditConservation /\ OutShared

OutInv == OutCounts /\ OutPlaces /\ Out!NoLostWakeup

\* The hypotheses: constants as in the model, parts that fit in the buffer.
OutSizes ==
  /\ Out!PointerEgressAssumption
  /\ Cardinality(Channel) * OutMinBuffer <= OutFifoSize

\* The credits of a queue of messages that are for channel c.
For(q, c) == [k \in DOMAIN q |-> IF q[k].channel = c THEN q[k].credits ELSE 0]

\* They are a queue of numbers, which gets longer and shorter with the other one.
LEMMA ForType ==
  ASSUME NEW q \in Seq(OutMessage), NEW c
  PROVE  For(q, c) \in Seq(Nat) /\ Len(For(q, c)) = Len(q) /\ SumOf(For(q, c)) \in Nat
<1>1. /\ DOMAIN q = 1..Len(q) /\ Len(q) \in Nat
      /\ \A k \in 1..Len(q) : q[k] \in OutMessage
  BY LenProperties, ElementOfSeq
<1>2. For(q, c) \in [1..Len(q) -> Nat]
  BY <1>1 DEF For, OutMessage
<1>3. For(q, c) \in Seq(Nat) /\ Len(For(q, c)) = Len(q)
  BY <1>1, <1>2
<1>4. QED
  BY <1>3, QueueSumType

\* A message adds its credits to those of its channel.
LEMMA ForAppend ==
  ASSUME NEW q \in Seq(OutMessage), NEW m \in OutMessage, NEW c
  PROVE  /\ Append(q, m) \in Seq(OutMessage)
         /\ SumOf(For(Append(q, m), c)) =
              SumOf(For(q, c)) + (IF m.channel = c THEN m.credits ELSE 0)
<1> DEFINE n == IF m.channel = c THEN m.credits ELSE 0
           r == Append(q, m)
<1>1. /\ r \in Seq(OutMessage) /\ Len(r) = Len(q) + 1 /\ Len(q) \in Nat
      /\ DOMAIN r = 1..(Len(q) + 1) /\ DOMAIN q = 1..Len(q)
      /\ \A k \in 1..Len(q) : r[k] = q[k]
      /\ r[Len(q) + 1] = m
  BY LenProperties, AppendProperties
<1>2. n \in Nat
  BY DEF OutMessage
<1>3. For(q, c) \in Seq(Nat) /\ Len(For(q, c)) = Len(q)
  BY ForType
<1> DEFINE u == Append(For(q, c), n)
<1>4. /\ u \in Seq(Nat) /\ Len(u) = Len(q) + 1 /\ DOMAIN u = 1..(Len(q) + 1)
      /\ \A k \in 1..Len(q) : u[k] = For(q, c)[k]
      /\ u[Len(q) + 1] = n
  BY <1>1, <1>2, <1>3, LenProperties, AppendProperties
<1>5. \A k \in 1..(Len(q) + 1) : For(r, c)[k] = u[k]
  <2>1. TAKE k \in 1..(Len(q) + 1)
  <2>2. For(r, c)[k] = IF r[k].channel = c THEN r[k].credits ELSE 0
    BY <1>1, <2>1 DEF For
  <2>3. CASE k \in 1..Len(q)
    <3>1. For(q, c)[k] = IF q[k].channel = c THEN q[k].credits ELSE 0
      BY <1>1, <2>3 DEF For
    <3>2. QED
      BY <1>1, <1>4, <2>2, <2>3, <3>1
  <2>4. CASE k = Len(q) + 1
    BY <1>1, <1>4, <2>2, <2>4
  <2>5. k \in 1..Len(q) \/ k = Len(q) + 1
    <3>1. Len(q) \in Nat
      BY <1>1
    <3>2. QED
      BY <2>1, <3>1
  <2>6. QED
    BY <2>3, <2>4, <2>5
<1>6. For(r, c) = u
  <2>1. DOMAIN For(r, c) = DOMAIN u
    BY <1>1, <1>4 DEF For
  <2> HIDE DEF r, u
  <2>2. For(r, c) = [k \in DOMAIN For(r, c) |-> For(r, c)[k]]
    BY DEF For
  <2>3. u = [k \in DOMAIN u |-> u[k]]
    BY <1>4
  <2>4. QED
    BY <1>4, <1>5, <2>1, <2>2, <2>3
<1>7. SumOf(u) = SumOf(For(q, c)) + n
  BY <1>2, <1>3, SumOfAppend
<1>8. QED
  BY <1>1, <1>6, <1>7

\* The first message takes its credits with it.
LEMMA ForTail ==
  ASSUME NEW q \in Seq(OutMessage), q # <<>>, NEW c
  PROVE  /\ Tail(q) \in Seq(OutMessage) /\ Head(q) \in OutMessage
         /\ SumOf(For(q, c)) = SumOf(For(Tail(q), c))
              + (IF Head(q).channel = c THEN Head(q).credits ELSE 0)
<1> DEFINE n == IF Head(q).channel = c THEN Head(q).credits ELSE 0
           r == Tail(q)
           u == For(q, c)
<1>1. /\ r \in Seq(OutMessage) /\ Len(r) = Len(q) - 1 /\ Len(q) \in Nat \ {0}
      /\ DOMAIN r = 1..(Len(q) - 1) /\ DOMAIN q = 1..Len(q)
      /\ \A k \in 1..(Len(q) - 1) : r[k] = q[k + 1]
      /\ Head(q) = q[1] /\ Head(q) \in OutMessage
  BY LenProperties, HeadTailProperties, EmptySeq
<1>2. u \in Seq(Nat) /\ Len(u) = Len(q) /\ u # <<>>
  BY <1>1, ForType, EmptySeq
<1>3. /\ Tail(u) \in [1..(Len(q) - 1) -> Nat] /\ DOMAIN Tail(u) = 1..(Len(q) - 1)
      /\ \A k \in 1..(Len(q) - 1) : Tail(u)[k] = u[k + 1]
      /\ Head(u) = u[1]
  <2>1. Tail(u) \in Seq(Nat) /\ Len(Tail(u)) = Len(q) - 1
    BY <1>2, HeadTailProperties
  <2>2. Tail(u) \in [1..(Len(q) - 1) -> Nat]
    BY <2>1, LenProperties
  <2>3. QED
    BY <1>1, <1>2, <2>2, LenProperties, HeadTailProperties
<1>4. \A k \in 1..Len(q) : u[k] = IF q[k].channel = c THEN q[k].credits ELSE 0
  BY <1>1 DEF For
<1>5. \A k \in 1..(Len(q) - 1) : For(r, c)[k] = Tail(u)[k]
  <2>1. TAKE k \in 1..(Len(q) - 1)
  <2>2. For(r, c)[k] = IF r[k].channel = c THEN r[k].credits ELSE 0
    BY <1>1, <2>1 DEF For
  <2>3. k + 1 \in 1..Len(q)
    BY <1>1, <2>1
  <2>4. QED
    BY <1>1, <1>3, <1>4, <2>1, <2>2, <2>3
<1>6. Head(u) = n
  BY <1>1, <1>3, <1>4
<1>7. For(r, c) = Tail(u)
  <2>1. DOMAIN For(r, c) = DOMAIN Tail(u)
    BY <1>1, <1>3 DEF For
  <2> HIDE DEF r, u
  <2>2. For(r, c) = [k \in DOMAIN For(r, c) |-> For(r, c)[k]]
    BY DEF For
  <2>3. Tail(u) = [k \in DOMAIN Tail(u) |-> Tail(u)[k]]
    BY <1>3
  <2>4. QED
    BY <1>3, <1>5, <2>1, <2>2, <2>3
<1>8. SumOf(u) = SumOf(Tail(u)) + Head(u)
  BY <1>2, SumOfTail
<1>9. QED
  BY <1>1, <1>6, <1>7, <1>8

\* The instance counts as this module does.
LEMMA OutTerms ==
  /\ \A S : Out!IsFiniteSet(S) = IsFiniteSet(S)
  /\ \A S : Out!Cardinality(S) = Cardinality(S)
  /\ \A f : Out!SumOf(f) = SumOf(f)
<1>1. \A S : Out!IsFiniteSet(S) = IsFiniteSet(S)
  BY DEF Out!IsFiniteSet, IsFiniteSet
<1>2. \A S : Out!Cardinality(S) = Cardinality(S)
  BY DEF Out!Cardinality, Cardinality
<1>3. \A f : Out!Units(f) = Units(f)
  BY DEF Out!Units, Units
<1>4. \A f : Out!SumOf(f) = SumOf(f)
  BY <1>2, <1>3 DEF Out!SumOf, SumOf
<1>5. QED
  BY <1>1, <1>2, <1>4

\* The constants, in the terms of this module.
LEMMA OutConstants ==
  ASSUME Out!PointerEgressAssumption
  PROVE  /\ IsFiniteSet(Channel) /\ Cardinality(Channel) \in Nat /\ FC \in Channel
         /\ OutFifoSize \in Nat /\ OutMinBuffer \in Nat
         /\ MaxMessage \in Nat /\ MaxReturns \in Nat
         /\ Out!Region = OutFifoSize - Cardinality(Channel) * OutMinBuffer
         /\ Out!Region \in Int
<1>1. IsFiniteSet(Channel) /\ Cardinality(Channel) \in Nat
  BY OutTerms, FS_CardinalityType DEF Out!PointerEgressAssumption
<1>2. Out!Region = OutFifoSize - Cardinality(Channel) * OutMinBuffer
  BY OutTerms DEF Out!Region
<1>3. QED
  BY <1>1, <1>2 DEF Out!PointerEgressAssumption

\* What the counts say, in the terms of this module.
LEMMA OutConserves ==
  Out!CreditConservation <=>
    /\ outTotal = SumOf(outCredits)
    /\ \A c \in Channel :
         outCredits[c] = outUnread[c] + outFreed[c] + SumOf(For(outReturning, c))
<1>1. \A c : Out!Returning(c) = SumOf(For(outReturning, c))
  BY OutTerms DEF Out!Returning, For
<1>2. QED
  BY <1>1, OutTerms DEF Out!CreditConservation

\* And after a step.
LEMMA OutConservesNext ==
  Out!CreditConservation' <=>
    /\ outTotal' = SumOf(outCredits')
    /\ \A c \in Channel :
         outCredits'[c] = outUnread'[c] + outFreed'[c] + SumOf(For(outReturning', c))
<1>1. \A c : Out!Returning(c)' = SumOf(For(outReturning', c))
  BY OutTerms DEF Out!Returning, For
<1>2. QED
  BY <1>1, OutTerms DEF Out!CreditConservation

\* A change of one channel changes what is used of its own part only.
LEMMA UsedChange ==
  ASSUME IsFiniteSet(Channel), OutMinBuffer \in Nat, NEW c \in Channel,
         NEW f \in [Channel -> Nat], NEW g \in [Channel -> Nat],
         \A x \in Channel \ {c} : g[x] = f[x]
  PROVE  /\ SumOf(Used(f)) \in Nat /\ SumOf(Used(g)) \in Nat
         /\ f[c] <= g[c] => SumOf(Used(f)) <= SumOf(Used(g))
         /\ f[c] <= g[c] /\ g[c] <= OutMinBuffer
              => SumOf(Used(g)) = SumOf(Used(f)) - f[c] + g[c]
         /\ g[c] <= f[c] => SumOf(Used(f)) - f[c] + g[c] <= SumOf(Used(g))
<1>1. /\ Used(f) \in [Channel -> Nat] /\ Used(g) \in [Channel -> Nat]
      /\ \A x \in Channel \ {c} : Used(g)[x] = Used(f)[x]
      /\ Used(f)[c] = IF f[c] <= OutMinBuffer THEN f[c] ELSE OutMinBuffer
      /\ Used(g)[c] = IF g[c] <= OutMinBuffer THEN g[c] ELSE OutMinBuffer
  BY DEF Used
<1>2. SumOf(Used(f)) \in Nat /\ SumOf(Used(g)) \in Nat
  BY <1>1, SumType
<1>3. SumOf(Used(g)) = SumOf(Used(f)) - Used(f)[c] + Used(g)[c]
  BY <1>1, SumOfChange
<1>4. f[c] \in Nat /\ g[c] \in Nat
  OBVIOUS
<1>5. QED
  BY <1>1, <1>2, <1>3, <1>4

\* Credits that are spent stay within the region and the used parts: the message
\* fits in the region, or in what is left of its channel's own part.
LEMMA SpendKeeps ==
  ASSUME Out!PointerEgressAssumption, OutCounts, NEW c \in Channel, NEW n \in Nat,
         Out!Spend(c, n),
         outTotal + n <= Out!Region \/ outCredits[c] + n <= OutMinBuffer
  PROVE  OutCounts'
<1>0. /\ IsFiniteSet(Channel) /\ OutMinBuffer \in Nat /\ Out!Region \in Int
  BY OutConstants
<1>1. /\ outTotal \in Nat /\ outCredits \in [Channel -> Nat]
      /\ outUnread \in [Channel -> Nat] /\ outFreed \in [Channel -> Nat]
      /\ outReturning \in Seq(OutMessage)
  BY DEF OutCounts, OutNumbers
<1>2. /\ outTotal' = outTotal + n
      /\ outCredits' \in [Channel -> Nat] /\ outCredits'[c] = outCredits[c] + n
      /\ outUnread' \in [Channel -> Nat] /\ outUnread'[c] = outUnread[c] + n
      /\ \A x \in Channel \ {c} : outCredits'[x] = outCredits[x]
      /\ \A x \in Channel \ {c} : outUnread'[x] = outUnread[x]
      /\ outFreed' = outFreed /\ outReturning' = outReturning
  BY <1>1 DEF Out!Spend
<1>3. OutNumbers'
  BY <1>1, <1>2 DEF OutNumbers
<1>a. /\ IsFiniteSet(Channel) /\ OutMinBuffer \in Nat
      /\ outCredits \in [Channel -> Nat] /\ outCredits' \in [Channel -> Nat]
      /\ \A x \in Channel \ {c} : outCredits'[x] = outCredits[x]
  BY <1>0, <1>1, <1>2
<1>4. SumOf(outCredits') = SumOf(outCredits) - outCredits[c] + outCredits'[c]
  BY <1>a, SumOfChange
<1>5. /\ outTotal = SumOf(outCredits)
      /\ \A x \in Channel :
           outCredits[x] = outUnread[x] + outFreed[x] + SumOf(For(outReturning, x))
  BY OutConserves DEF OutCounts
<1>6. \A x \in Channel : SumOf(For(outReturning, x)) \in Nat
  BY <1>1, ForType
<1>7. Out!CreditConservation'
  <2>1. outTotal' = SumOf(outCredits')
    BY <1>1, <1>2, <1>4, <1>5
  <2>2. ASSUME NEW x \in Channel
        PROVE  outCredits'[x] = outUnread'[x] + outFreed[x] + SumOf(For(outReturning, x))
    <3>1. /\ outCredits[x] = outUnread[x] + outFreed[x] + SumOf(For(outReturning, x))
          /\ outUnread[x] \in Nat /\ outFreed[x] \in Nat
          /\ SumOf(For(outReturning, x)) \in Nat
      BY <1>1, <1>5, <1>6
    <3>2. CASE x = c
      BY <1>2, <3>1, <3>2
    <3>3. CASE x # c
      BY <1>2, <3>1, <3>3
    <3>4. QED
      BY <3>2, <3>3
  <2>3. outTotal' = SumOf(outCredits') /\ \A x \in Channel :
          outCredits'[x] = outUnread'[x] + outFreed'[x] + SumOf(For(outReturning', x))
    BY <1>2, <2>1, <2>2
  <2>4. QED
    BY <2>3, OutConservesNext
<1>8. OutShared'
  <2>1. outTotal <= Out!Region + SumOf(Used(outCredits))
    BY DEF OutCounts, OutShared
  <2>2. /\ SumOf(Used(outCredits)) \in Nat /\ SumOf(Used(outCredits')) \in Nat
        /\ outCredits[c] <= outCredits'[c]
             => SumOf(Used(outCredits)) <= SumOf(Used(outCredits'))
        /\ outCredits[c] <= outCredits'[c] /\ outCredits'[c] <= OutMinBuffer
             => SumOf(Used(outCredits')) = SumOf(Used(outCredits)) - outCredits[c] + outCredits'[c]
    BY <1>a, UsedChange
  <2>3. /\ outCredits[c] \in Nat /\ outCredits'[c] = outCredits[c] + n
        /\ outTotal' = outTotal + n /\ outTotal \in Nat
    BY <1>1, <1>2
  <2>4. CASE outTotal + n <= Out!Region
    BY <1>0, <2>2, <2>3, <2>4 DEF OutShared
  <2>5. CASE outCredits[c] + n <= OutMinBuffer
    BY <1>0, <2>1, <2>2, <2>3, <2>5 DEF OutShared
  <2>6. QED
    BY <2>4, <2>5
<1>9. QED
  BY <1>3, <1>7, <1>8 DEF OutCounts

\* Credits that come back leave both counts and the queue; what they free of the
\* channel's own part is no more than they are.
LEMMA FreeKeeps ==
  ASSUME Out!PointerEgressAssumption, OutCounts, Out!FreeCredits
  PROVE  OutCounts'
<1>1. /\ IsFiniteSet(Channel) /\ OutMinBuffer \in Nat /\ Out!Region \in Int
      /\ outTotal \in Nat /\ outCredits \in [Channel -> Nat]
      /\ outUnread \in [Channel -> Nat] /\ outFreed \in [Channel -> Nat]
      /\ outReturning \in Seq(OutMessage) /\ outReturning # <<>>
  BY OutConstants DEF OutCounts, OutNumbers, Out!FreeCredits
<1> DEFINE c == Head(outReturning).channel
           n == Head(outReturning).credits
<1>2. /\ Tail(outReturning) \in Seq(OutMessage)
      /\ \A x : SumOf(For(outReturning, x)) =
           SumOf(For(Tail(outReturning), x)) + (IF c = x THEN n ELSE 0)
      /\ Head(outReturning) \in OutMessage
  BY <1>1, ForTail
<1>3. c \in Channel /\ n \in Nat
  BY <1>2 DEF OutMessage
<1>4. /\ outTotal' = outTotal - n
      /\ outCredits' = [outCredits EXCEPT ![c] = @ - n]
      /\ outReturning' = Tail(outReturning)
      /\ outUnread' = outUnread /\ outFreed' = outFreed
  BY DEF Out!FreeCredits, Out!Remaining
<1>5. \A x : SumOf(For(outReturning, x)) \in Nat /\ SumOf(For(Tail(outReturning), x)) \in Nat
  BY <1>1, <1>2, ForType
<1> HIDE DEF c, n
<1>6. /\ outTotal = SumOf(outCredits)
      /\ \A x \in Channel :
           outCredits[x] = outUnread[x] + outFreed[x] + SumOf(For(outReturning, x))
  BY OutConserves DEF OutCounts
<1>7. outCredits[c] \in Nat /\ n <= outCredits[c]
  <2>1. /\ outCredits[c] = outUnread[c] + outFreed[c] + SumOf(For(outReturning, c))
        /\ SumOf(For(outReturning, c)) = SumOf(For(Tail(outReturning), c)) + n
        /\ outUnread[c] \in Nat /\ outFreed[c] \in Nat /\ outCredits[c] \in Nat
        /\ SumOf(For(Tail(outReturning), c)) \in Nat
    BY <1>1, <1>2, <1>3, <1>5, <1>6
  <2>2. QED
    BY <1>3, <2>1
<1>8. outCredits[c] <= outTotal
  BY <1>1, <1>3, <1>6, SumAtLeast
<1>9. /\ outCredits' \in [Channel -> Nat] /\ outCredits'[c] = outCredits[c] - n
      /\ \A x \in Channel \ {c} : outCredits'[x] = outCredits[x]
  BY <1>1, <1>3, <1>4, <1>7
<1>10. OutNumbers'
  BY <1>1, <1>2, <1>3, <1>4, <1>7, <1>8, <1>9 DEF OutNumbers
<1>11. SumOf(outCredits') = SumOf(outCredits) - outCredits[c] + outCredits'[c]
  <2> DEFINE old == outCredits
             new == outCredits'
  <2>1. /\ IsFiniteSet(Channel) /\ c \in Channel
        /\ old \in [Channel -> Nat] /\ new \in [Channel -> Nat]
        /\ \A x \in Channel \ {c} : new[x] = old[x]
    BY <1>1, <1>3, <1>9
  <2> HIDE DEF old, new
  <2>2. SumOf(new) = SumOf(old) - old[c] + new[c]
    BY <2>1, SumOfChange
  <2>3. QED
    BY <2>2 DEF old, new
<1>12. Out!CreditConservation'
  <2>1. outTotal' = SumOf(outCredits')
    BY <1>1, <1>3, <1>4, <1>6, <1>7, <1>9, <1>11
  <2>2. ASSUME NEW x \in Channel
        PROVE  outCredits'[x] = outUnread[x] + outFreed[x] + SumOf(For(Tail(outReturning), x))
    <3>1. /\ outCredits[x] = outUnread[x] + outFreed[x] + SumOf(For(outReturning, x))
          /\ outUnread[x] \in Nat /\ outFreed[x] \in Nat
          /\ SumOf(For(Tail(outReturning), x)) \in Nat
          /\ SumOf(For(outReturning, x)) =
               SumOf(For(Tail(outReturning), x)) + (IF c = x THEN n ELSE 0)
      BY <1>1, <1>2, <1>5, <1>6
    <3>2. CASE x = c
      BY <1>3, <1>9, <3>1, <3>2
    <3>3. CASE x # c
      BY <1>9, <3>1, <3>3
    <3>4. QED
      BY <3>2, <3>3
  <2>3. outTotal' = SumOf(outCredits') /\ \A x \in Channel :
          outCredits'[x] = outUnread'[x] + outFreed'[x] + SumOf(For(outReturning', x))
    BY <1>4, <2>1, <2>2
  <2>4. QED
    BY <2>3, OutConservesNext
<1>13. OutShared'
  <2>1. outTotal <= Out!Region + SumOf(Used(outCredits))
    BY DEF OutCounts, OutShared
  <2>2. /\ SumOf(Used(outCredits)) \in Nat /\ SumOf(Used(outCredits')) \in Nat
        /\ outCredits'[c] <= outCredits[c] =>
             SumOf(Used(outCredits)) - outCredits[c] + outCredits'[c] <= SumOf(Used(outCredits'))
    BY <1>1, <1>3, <1>9, UsedChange
  <2>3. /\ outCredits'[c] = outCredits[c] - n /\ outTotal' = outTotal - n
        /\ n \in Nat /\ outTotal \in Nat /\ outCredits[c] \in Nat /\ Out!Region \in Int
    BY <1>1, <1>3, <1>4, <1>7, <1>9
  <2>4. outTotal' <= Out!Region + SumOf(Used(outCredits'))
    BY <2>1, <2>2, <2>3
  <2>5. QED
    BY <2>4 DEF OutShared, Out!Region
<1>14. QED
  BY <1>10, <1>12, <1>13 DEF OutCounts

\* The far side moves what was sent on, and neither count.
LEMMA FarKeeps ==
  ASSUME Out!PointerEgressAssumption, OutCounts, NEW c \in Channel,
         Out!Consume(c) \/ Out!Return(c)
  PROVE  OutCounts' /\ UNCHANGED <<outTotal, outCredits, outPc, outNeed, outAborted>>
<1>1. /\ outTotal \in Nat /\ outCredits \in [Channel -> Nat]
      /\ outUnread \in [Channel -> Nat] /\ outFreed \in [Channel -> Nat]
      /\ outReturning \in Seq(OutMessage)
  BY DEF OutCounts, OutNumbers
<1>2. UNCHANGED <<outTotal, outCredits, outPc, outNeed, outAborted>>
  BY DEF Out!Consume, Out!Return, Out!software
<1>3. /\ outTotal = SumOf(outCredits)
      /\ \A x \in Channel :
           outCredits[x] = outUnread[x] + outFreed[x] + SumOf(For(outReturning, x))
  BY OutConserves DEF OutCounts
<1>4. OutNumbers' /\ \A x \in Channel :
        outUnread'[x] + outFreed'[x] + SumOf(For(outReturning', x))
          = outUnread[x] + outFreed[x] + SumOf(For(outReturning, x))
  <2>1. CASE Out!Consume(c)
    <3>1. /\ outUnread' \in [Channel -> Nat] /\ outFreed' \in [Channel -> Nat]
          /\ outUnread'[c] + outFreed'[c] = outUnread[c] + outFreed[c]
          /\ \A x \in Channel \ {c} : outUnread'[x] = outUnread[x] /\ outFreed'[x] = outFreed[x]
          /\ outReturning' = outReturning
      BY <1>1, <2>1 DEF Out!Consume
    <3>2. QED
      BY <1>1, <1>2, <3>1 DEF OutNumbers
  <2>2. CASE Out!Return(c)
    <3> DEFINE m == [channel |-> c, credits |-> outFreed[c]]
    <3>1. /\ outReturning' = Append(outReturning, m)
          /\ outFreed' \in [Channel -> Nat] /\ outFreed'[c] = 0
          /\ \A x \in Channel \ {c} : outFreed'[x] = outFreed[x]
          /\ outUnread' = outUnread
      BY <1>1, <2>2 DEF Out!Return
    <3>2. m \in OutMessage /\ m.channel = c /\ m.credits = outFreed[c] /\ outFreed[c] \in Nat
      BY <1>1 DEF OutMessage
    <3> HIDE DEF m
    <3>3. /\ Append(outReturning, m) \in Seq(OutMessage)
          /\ \A x : SumOf(For(Append(outReturning, m), x)) =
               SumOf(For(outReturning, x)) + (IF m.channel = x THEN m.credits ELSE 0)
      BY <1>1, <3>2, ForAppend
    <3>4. OutNumbers'
      BY <1>1, <1>2, <3>1, <3>3 DEF OutNumbers
    <3>5. ASSUME NEW x \in Channel
          PROVE  outUnread'[x] + outFreed'[x] + SumOf(For(outReturning', x))
                   = outUnread[x] + outFreed[x] + SumOf(For(outReturning, x))
      <4>1. /\ outUnread[x] \in Nat /\ outFreed[x] \in Nat
            /\ SumOf(For(outReturning, x)) \in Nat
            /\ SumOf(For(outReturning', x)) =
                 SumOf(For(outReturning, x)) + (IF c = x THEN outFreed[c] ELSE 0)
        BY <1>1, <3>1, <3>2, <3>3, ForType
      <4>2. CASE x = c
        BY <3>1, <4>1, <4>2
      <4>3. CASE x # c
        BY <3>1, <4>1, <4>3
      <4>4. QED
        BY <4>2, <4>3
    <3>6. QED
      BY <3>4, <3>5
  <2>3. QED
    BY <2>1, <2>2
<1>5. Out!CreditConservation'
  BY <1>2, <1>3, <1>4, OutConservesNext
<1>6. OutShared'
  BY <1>2 DEF OutCounts, OutShared, Out!Region
<1>7. QED
  BY <1>2, <1>4, <1>5, <1>6 DEF OutCounts

\* Spending makes it only truer that others must wait.
LEMMA SpendLeavesWaiting ==
  ASSUME Out!PointerEgressAssumption, OutInv, NEW c \in Channel, NEW n \in Nat,
         Out!Spend(c, n), NEW x \in Channel, outPc[x] = "wait", ~outAborted,
         outNeed'[x] = outNeed[x]
  PROVE  Out!MustWait(x, outNeed[x])'
<1>1. /\ outTotal \in Nat /\ outCredits \in [Channel -> Nat] /\ outNeed[x] \in Nat
      /\ Out!Region \in Int /\ OutMinBuffer \in Nat
  BY OutConstants DEF OutInv, OutCounts, OutNumbers, OutPlaces
<1>2. outTotal + outNeed[x] > Out!Region /\ outCredits[x] + outNeed[x] > OutMinBuffer
  BY DEF OutInv, Out!NoLostWakeup, Out!MustWait
<1>3. /\ outTotal' = outTotal + n
      /\ outCredits'[x] = outCredits[x] \/ outCredits'[x] = outCredits[x] + n
  BY <1>1 DEF Out!Spend
<1>4. outTotal' + outNeed[x] > Out!Region /\ outCredits'[x] + outNeed[x] > OutMinBuffer
  <2>1. outCredits[x] \in Nat
    BY <1>1
  <2>2. QED
    BY <1>1, <1>2, <1>3, <2>1
<1>5. QED
  BY <1>4 DEF Out!MustWait, Out!Region

\* A pass through acquireCredits.
LEMMA EnterStep ==
  ASSUME Out!PointerEgressAssumption, OutInv, ~outAborted, NEW c \in Channel,
         NEW n \in 0..MaxMessage, Out!Enter(c, n)
  PROVE  OutInv'
<1>1. /\ outTotal \in Nat /\ outCredits \in [Channel -> Nat]
      /\ outPc \in [Channel -> {"idle", "wait", "woken"}]
      /\ outNeed \in [Channel -> 0..MaxMessage]
      /\ Out!Region \in Int /\ OutMinBuffer \in Nat /\ MaxMessage \in Nat
  BY OutConstants DEF OutInv, OutCounts, OutNumbers, OutPlaces
<1>2. CASE Out!MustWait(c, n)
  <2>1. /\ outPc' = [outPc EXCEPT ![c] = "wait"] /\ outNeed' = [outNeed EXCEPT ![c] = n]
        /\ UNCHANGED <<outTotal, outCredits, outAborted, outUnread, outFreed, outReturning>>
    BY <1>2 DEF Out!Enter, Out!farSide
  <2>2. OutCounts'
    BY <2>1, OutConserves, OutConservesNext
       DEF OutInv, OutCounts, OutNumbers, OutShared, Out!Region
  <2>3. OutPlaces'
    BY <1>1, <2>1 DEF OutPlaces
  <2>4. ASSUME NEW x \in Channel, outPc'[x] = "wait"
        PROVE  Out!MustWait(x, outNeed'[x])
    <3>1. CASE x = c
      BY <1>1, <1>2, <2>1, <3>1
    <3>2. CASE x # c
      BY <1>1, <2>1, <2>4, <3>2 DEF OutInv, Out!NoLostWakeup
    <3>3. QED
      BY <3>1, <3>2
  <2>5. Out!NoLostWakeup'
    BY <2>1, <2>4 DEF Out!NoLostWakeup, Out!MustWait, Out!Region
  <2>6. QED
    BY <2>2, <2>3, <2>5 DEF OutInv
<1>3. CASE ~Out!MustWait(c, n)
  <2>1. /\ outPc' = [outPc EXCEPT ![c] = "idle"] /\ outNeed' = [outNeed EXCEPT ![c] = 0]
        /\ Out!Spend(c, n)
    BY <1>3 DEF Out!Enter
  <2>2. n \in Nat /\ (outTotal + n <= Out!Region \/ outCredits[c] + n <= OutMinBuffer)
    <3>1. n \in Nat /\ outCredits[c] \in Nat
      BY <1>1
    <3>2. QED
      BY <1>1, <1>3, <3>1 DEF Out!MustWait
  <2>3. OutCounts'
    BY <2>1, <2>2, SpendKeeps DEF OutInv
  <2>4. OutPlaces'
    BY <1>1, <2>1 DEF OutPlaces
  <2>5. ASSUME NEW x \in Channel, outPc'[x] = "wait"
        PROVE  Out!MustWait(x, outNeed[x])' /\ outNeed'[x] = outNeed[x]
    <3>1. x # c /\ outPc[x] = "wait" /\ outNeed'[x] = outNeed[x]
      BY <1>1, <2>1, <2>5
    <3>2. QED
      BY <2>1, <2>2, <3>1, SpendLeavesWaiting
  <2>6. Out!NoLostWakeup'
    BY <2>5 DEF Out!NoLostWakeup, Out!MustWait
  <2>7. QED
    BY <2>3, <2>4, <2>6 DEF OutInv
<1>4. QED
  BY <1>2, <1>3

\* The invariant is kept by every step.
LEMMA OutInvStep ==
  ASSUME Out!PointerEgressAssumption, OutInv, [Out!Next]_(Out!vars)
  PROVE  OutInv'
<1>1. /\ outPc \in [Channel -> {"idle", "wait", "woken"}]
      /\ outNeed \in [Channel -> 0..MaxMessage]
      /\ MaxMessage \in Nat /\ FC \in Channel
      /\ outCredits \in [Channel -> Nat]
  BY OutConstants DEF OutInv, OutCounts, OutNumbers, OutPlaces
<1>2. ASSUME NEW c \in Channel, NEW n \in 1..MaxMessage, Out!AcquireCredits(c, n)
      PROVE  OutInv'
  BY <1>1, <1>2, EnterStep DEF Out!AcquireCredits
<1>3. ASSUME NEW c \in Channel, Out!Wake(c) PROVE OutInv'
  BY <1>1, <1>3, EnterStep DEF Out!Wake
<1>4. ASSUME NEW c \in Channel, Out!Consume(c) \/ Out!Return(c) PROVE OutInv'
  <2>1. OutCounts' /\ UNCHANGED <<outTotal, outCredits, outPc, outNeed, outAborted>>
    BY <1>4, FarKeeps DEF OutInv
  <2>2. QED
    BY <2>1 DEF OutInv, OutPlaces, Out!NoLostWakeup, Out!MustWait, Out!Region
<1>5. CASE Out!AcquireCreditsFC
  <2>1. /\ Out!Spend(FC, 2) /\ outCredits[FC] + 2 <= OutMinBuffer /\ ~outAborted
        /\ UNCHANGED <<outPc, outNeed>>
    BY <1>5 DEF Out!AcquireCreditsFC
  <2>2. OutCounts'
    BY <1>1, <2>1, SpendKeeps DEF OutInv
  <2>3. ASSUME NEW x \in Channel, outPc'[x] = "wait"
        PROVE  Out!MustWait(x, outNeed[x])' /\ outNeed'[x] = outNeed[x]
    BY <1>1, <2>1, <2>3, SpendLeavesWaiting
  <2>4. Out!NoLostWakeup'
    BY <2>3 DEF Out!NoLostWakeup, Out!MustWait
  <2>5. QED
    BY <2>1, <2>2, <2>4 DEF OutInv, OutPlaces
<1>6. CASE Out!FreeCredits
  <2>1. OutCounts'
    BY <1>6, FreeKeeps DEF OutInv
  <2>2. /\ outPc' = IF outAborted' THEN outPc ELSE Out!Notified
        /\ outNeed' = outNeed
    BY <1>6 DEF Out!FreeCredits
  <2>3. /\ Out!Notified \in [Channel -> {"idle", "wait", "woken"}]
        /\ \A x \in Channel : Out!Notified[x] # "wait"
    BY <1>1 DEF Out!Notified
  <2>4. OutPlaces'
    BY <1>1, <2>2, <2>3 DEF OutPlaces
  <2>5. Out!NoLostWakeup'
    BY <2>2, <2>3 DEF Out!NoLostWakeup
  <2>6. QED
    BY <2>1, <2>4, <2>5 DEF OutInv
<1>7. CASE UNCHANGED Out!vars
  BY <1>7, OutConserves, OutConservesNext
     DEF Out!vars, Out!software, Out!farSide, OutInv, OutCounts, OutNumbers, OutShared,
         OutPlaces, Out!NoLostWakeup, Out!MustWait, Out!Region
<1>8. QED
  BY <1>2, <1>3, <1>4, <1>5, <1>6, <1>7 DEF Out!Next

\* At the start nothing is out.
LEMMA OutInvInit ==
  ASSUME OutSizes, Out!Init
  PROVE  OutInv
<1>1. /\ IsFiniteSet(Channel) /\ OutMinBuffer \in Nat /\ Out!Region \in Nat
      /\ MaxMessage \in Nat
  <2>1. /\ Cardinality(Channel) * OutMinBuffer <= OutFifoSize
        /\ Cardinality(Channel) \in Nat /\ OutMinBuffer \in Nat /\ OutFifoSize \in Nat
        /\ Out!Region = OutFifoSize - Cardinality(Channel) * OutMinBuffer
    BY OutConstants DEF OutSizes
  <2>2. OutFifoSize - Cardinality(Channel) * OutMinBuffer \in Nat
    <3>1. Cardinality(Channel) * OutMinBuffer \in Nat
      BY <2>1
    <3>2. QED
      BY <2>1, <3>1
  <2>3. QED
    BY <2>1, <2>2, OutConstants DEF OutSizes
<1>2. /\ outTotal = 0 /\ outCredits = [c \in Channel |-> 0]
      /\ outUnread = [c \in Channel |-> 0] /\ outFreed = [c \in Channel |-> 0]
      /\ outPc = [c \in Channel |-> "idle"] /\ outNeed = [c \in Channel |-> 0]
      /\ outReturning = <<>>
  BY DEF Out!Init
<1>3. OutNumbers /\ OutPlaces
  BY <1>1, <1>2 DEF OutNumbers, OutPlaces
<1>4. SumOf(outCredits) = 0
  BY <1>1, <1>2, SumOfZero
<1>5. \A c : SumOf(For(outReturning, c)) = 0
  <2>1. \A c : For(outReturning, c) = <<>>
    BY <1>2 DEF For
  <2>2. QED
    BY <2>1, SumOfEmpty
<1>6. Out!CreditConservation
  BY <1>2, <1>4, <1>5, OutConserves
<1>7. OutShared
  <2>1. Used(outCredits) \in [Channel -> Nat]
    BY <1>1, <1>3 DEF Used, OutNumbers
  <2>2. SumOf(Used(outCredits)) \in Nat
    BY <1>1, <2>1, SumType
  <2>3. QED
    BY <1>1, <1>2, <2>2 DEF OutShared
<1>8. Out!NoLostWakeup
  BY <1>2 DEF Out!NoLostWakeup
<1>9. QED
  BY <1>3, <1>6, <1>7, <1>8 DEF OutInv, OutCounts

\* What the invariant says of the buffer: the region and all parts together are
\* no more than it has.
LEMMA OutInvHolds ==
  ASSUME OutSizes, OutInv
  PROVE  Out!SharedBufferHolds
<1>1. /\ IsFiniteSet(Channel) /\ Cardinality(Channel) \in Nat
      /\ OutMinBuffer \in Nat /\ OutFifoSize \in Nat
      /\ Out!Region = OutFifoSize - Cardinality(Channel) * OutMinBuffer
      /\ outCredits \in [Channel -> Nat] /\ outUnread \in [Channel -> Nat]
      /\ outFreed \in [Channel -> Nat] /\ outReturning \in Seq(OutMessage)
  BY OutConstants DEF OutSizes, OutInv, OutCounts, OutNumbers
<1>2. outTotal = SumOf(outCredits) /\ outTotal \in Nat
      /\ \A c \in Channel :
           outCredits[c] = outUnread[c] + outFreed[c] + SumOf(For(outReturning, c))
  BY OutConserves DEF OutInv, OutCounts, OutNumbers
<1>3. \A c \in Channel : outUnread[c] <= outCredits[c]
  <2>1. TAKE c \in Channel
  <2>2. /\ outCredits[c] = outUnread[c] + outFreed[c] + SumOf(For(outReturning, c))
        /\ outUnread[c] \in Nat /\ outFreed[c] \in Nat
        /\ SumOf(For(outReturning, c)) \in Nat
    BY <1>1, <1>2, ForType
  <2>3. QED
    BY <2>2
<1>4. SumOf(outUnread) <= SumOf(outCredits) /\ SumOf(outUnread) \in Nat
  BY <1>1, <1>3, SumMonotone, SumType
<1>5. SumOf(Used(outCredits)) <= Cardinality(Channel) * OutMinBuffer
  <2>1. Used(outCredits) \in [Channel -> 0..OutMinBuffer]
    BY <1>1 DEF Used
  <2>2. QED
    BY <1>1, <2>1, SumBounded
<1>6. SumOf(Used(outCredits)) \in Nat
  <2>1. Used(outCredits) \in [Channel -> Nat]
    BY <1>1 DEF Used
  <2>2. QED
    BY <1>1, <2>1, SumType
<1>7. outTotal <= OutFifoSize
  <2>1. outTotal <= OutFifoSize - Cardinality(Channel) * OutMinBuffer + SumOf(Used(outCredits))
    BY <1>1 DEF OutInv, OutCounts, OutShared
  <2>2. Cardinality(Channel) * OutMinBuffer \in Nat
    BY <1>1
  <2>3. QED
    BY <1>1, <1>2, <1>5, <1>6, <2>1, <2>2
<1>8. SumOf(outUnread) <= OutFifoSize
  BY <1>1, <1>2, <1>4, <1>7
<1>9. QED
  BY <1>8, OutTerms DEF Out!SharedBufferHolds

\* The threshold of the far side: the smaller of half the buffer and the region.
LEMMA OutThreshold ==
  ASSUME OutSizes
  PROVE  Out!ReturnThreshold \in Nat /\ Out!ReturnThreshold <= Out!Region
<1>1. OutFifoSize \div 2 \in Nat /\ Out!Region \in Nat
  <2>1. /\ Cardinality(Channel) * OutMinBuffer <= OutFifoSize
        /\ Cardinality(Channel) \in Nat /\ OutMinBuffer \in Nat /\ OutFifoSize \in Nat
        /\ Out!Region = OutFifoSize - Cardinality(Channel) * OutMinBuffer
    BY OutConstants DEF OutSizes
  <2>2. Cardinality(Channel) * OutMinBuffer \in Nat
    BY <2>1
  <2>3. QED
    BY <2>1, <2>2
<1> DEFINE S == {OutFifoSize \div 2, Out!Region}
           least == CHOOSE x \in S : \A y \in S : x <= y
<1>2. \E x \in S : \A y \in S : x <= y
  <2>1. CASE OutFifoSize \div 2 <= Out!Region
    BY <1>1, <2>1
  <2>2. CASE Out!Region <= OutFifoSize \div 2
    BY <1>1, <2>2
  <2>3. QED
    BY <1>1, <2>1, <2>2
<1>3. least \in S /\ \A y \in S : least <= y
  BY <1>2
<1>4. Out!ReturnThreshold = least
  BY DEF Out!ReturnThreshold, Out!Min
<1>5. QED
  BY <1>1, <1>3, <1>4

\* Messages that fit between the threshold and the region, or between half of the
\* threshold and the channel's own part.
OutFits ==
  \/ MaxMessage <= Out!Region - Out!ReturnThreshold
  \/ Out!ReturnThreshold \div 2 + MaxMessage <= OutMinBuffer

\* When all is read and what is due has come back, a sleeper's message fits.
LEMMA OutNeverWedged ==
  ASSUME OutSizes, OutFits, OutInv
  PROVE  Out!NeverWedged
<1> SUFFICES ASSUME Out!Quiet, ~outAborted, NEW c \in Channel, outPc[c] = "wait"
             PROVE  FALSE
  BY DEF Out!NeverWedged
<1>1. /\ IsFiniteSet(Channel) /\ OutMinBuffer \in Nat /\ Out!Region \in Int
      /\ MaxMessage \in Nat
      /\ outTotal \in Nat /\ outCredits \in [Channel -> Nat]
      /\ outFreed \in [Channel -> Nat] /\ outNeed[c] \in 0..MaxMessage
      /\ Out!ReturnThreshold \in Nat
  BY OutConstants, OutThreshold DEF OutSizes, OutInv, OutCounts, OutNumbers, OutPlaces
<1>2. outTotal + outNeed[c] > Out!Region /\ outCredits[c] + outNeed[c] > OutMinBuffer
  BY DEF OutInv, Out!NoLostWakeup, Out!MustWait
<1>3. /\ outReturning = <<>>
      /\ \A x \in Channel :
           /\ outUnread[x] = 0
           /\ outFreed[x] > 0 => ~(SumOf(outFreed) > Out!ReturnThreshold)
           /\ ~(outFreed[x] > Out!ReturnThreshold \div 2)
  BY OutTerms DEF Out!Quiet, Out!TooFree
<1>4. /\ outTotal = SumOf(outCredits)
      /\ \A x \in Channel :
           outCredits[x] = outUnread[x] + outFreed[x] + SumOf(For(outReturning, x))
  BY OutConserves DEF OutInv, OutCounts
<1>5. \A x : SumOf(For(outReturning, x)) = 0
  <2>1. \A x : For(outReturning, x) = <<>>
    BY <1>3 DEF For
  <2>2. QED
    BY <2>1, SumOfEmpty
<1>6. \A x \in Channel : outCredits[x] = outFreed[x]
  BY <1>1, <1>3, <1>4, <1>5
<1>7. outTotal = SumOf(outFreed)
  BY <1>1, <1>4, <1>6
<1>8. SumOf(outFreed) <= Out!ReturnThreshold
  <2>1. CASE \E x \in Channel : outFreed[x] > 0
    BY <1>1, <1>3, <1>7, <2>1
  <2>2. CASE \A x \in Channel : outFreed[x] = 0
    BY <1>1, <2>2, SumOfZero
  <2>3. QED
    BY <1>1, <2>1, <2>2
<1>9. outCredits[c] <= Out!ReturnThreshold \div 2 /\ outCredits[c] \in Nat
      /\ Out!ReturnThreshold \div 2 \in Nat
  BY <1>1, <1>3, <1>6
<1>10. CASE MaxMessage <= Out!Region - Out!ReturnThreshold
  BY <1>1, <1>2, <1>7, <1>8, <1>10
<1>11. CASE Out!ReturnThreshold \div 2 + MaxMessage <= OutMinBuffer
  BY <1>1, <1>2, <1>9, <1>11
<1>12. QED
  BY <1>10, <1>11 DEF OutFits

\* The invariant holds of every behaviour of the senders.
LEMMA OutInvCorrect ==
  ASSUME OutSizes
  PROVE  Out!Spec => []OutInv
<1>1. Out!Init => OutInv
  BY OutInvInit
<1>2. OutInv /\ [Out!Next]_(Out!vars) => OutInv'
  BY OutInvStep DEF OutSizes
<1>3. QED
  BY <1>1, <1>2, PTL DEF Out!Spec

\* Whatever the senders and the far side interleave, the count of a channel is
\* what of its chunks is not yet returned, and the shared count is the sum of all
\* channels' (acquireCredits and freeCredits of pointer-egress.cpp).
THEOREM OutCreditConservation ==
  ASSUME OutSizes
  PROVE  Out!Spec => []Out!CreditConservation
<1>1. OutInv => Out!CreditConservation
  BY DEF OutInv, OutCounts
<1>2. QED
  BY <1>1, OutInvCorrect, PTL

\* Senders that each look at their own part and the shared region only, and flow
\* control that looks at its own part only, never send more than the buffer of the
\* pointer switch holds.
THEOREM OutSharedBufferHolds ==
  ASSUME OutSizes
  PROVE  Out!Spec => []Out!SharedBufferHolds
<1>1. OutInv => Out!SharedBufferHolds
  BY OutInvHolds
<1>2. QED
  BY <1>1, OutInvCorrect, PTL

\* No thread sleeps although there is room for its message: notify_all under the
\* mutex wakes all who might have some.
THEOREM OutNoLostWakeup ==
  ASSUME OutSizes
  PROVE  Out!Spec => []Out!NoLostWakeup
<1>1. OutInv => Out!NoLostWakeup
  BY DEF OutInv
<1>2. QED
  BY <1>1, OutInvCorrect, PTL

\* With messages that fit, no thread is left asleep once the far side has read all
\* and returned what is due.
THEOREM OutNeverWedgedCorrect ==
  ASSUME OutSizes, OutFits
  PROVE  Out!Spec => []Out!NeverWedged
<1>1. OutInv => Out!NeverWedged
  BY OutNeverWedged
<1>2. QED
  BY <1>1, OutInvCorrect, PTL

-----------------------------------------------------------------------------
\* The receiver: the channels of a link from a pointer switch.
CONSTANTS InChannel, InFC, InFifoSize, InMinBuffer, MaxChunks

VARIABLES inCredits, inTotal, inPc, inChunks, inAborted, bufferAvailable,
          totalCreditsUsed, unread, inReturning

In == INSTANCE PointerIngress WITH
  Channel <- InChannel, FC <- InFC, FifoSize <- InFifoSize, MinBuffer <- InMinBuffer,
  flowcontrolCredits <- inCredits, totalCredits <- inTotal, pc <- inPc,
  chunks <- inChunks, aborted <- inAborted, flowcontrolQ <- inReturning

-----------------------------------------------------------------------------
(***************************************************************************)
(* Threads that return the credits of a buffer they share without a lock,  *)
(* for every finite set of channels and all sizes.                         *)
(*                                                                         *)
(* InShare is what of the shared count is a channel's, InHeld what of the  *)
(* egress's count is with it: each step moves one number of one channel.   *)
(* InOld is the argument about the threshold: there is a moment, the last  *)
(* test that failed, at which the shares made no more than the threshold,  *)
(* and a channel that has added to its share since then still has its own  *)
(* test ahead, or has passed it.                                           *)
(***************************************************************************)

InLabels == {"idle", "acquire", "regional", "assert", "test", "store", "free", "push"}

InTypes ==
  /\ inTotal \in Nat /\ totalCreditsUsed \in Nat
  /\ inCredits \in [InChannel -> Nat] /\ unread \in [InChannel -> Nat]
  /\ inChunks \in [InChannel -> Nat] /\ inPc \in [InChannel -> InLabels]
  /\ inReturning \in Seq(Nat)

\* What a thread has in its hands where it is.
InHands ==
  \A c \in InChannel :
    /\ inPc[c] \in {"acquire", "regional"} => inChunks[c] \in 1..(MaxChunks + 1)
    /\ inPc[c] = "regional" => inChunks[c] <= inCredits[c]
    /\ inPc[c] \in {"assert", "test"} => inCredits[c] > 0
    /\ inPc[c] \in {"free", "push"} => inCredits[c] = 0

\* What of the shared count is the channel's.
InShare ==
  [c \in InChannel |->
     IF inPc[c] = "regional" THEN inCredits[c] - inChunks[c]
     ELSE IF inPc[c] = "free" THEN inChunks[c] ELSE inCredits[c]]

\* What of the egress's count is with the channel, its messages on their way apart.
InHeld ==
  [c \in InChannel |->
     unread[c] + inCredits[c] +
       (IF inPc[c] \in {"acquire", "free", "push"} THEN inChunks[c] ELSE 0)]

InSums ==
  /\ inTotal = SumOf(InShare)
  /\ totalCreditsUsed = SumOf(InHeld) + SumOf(inReturning)

\* Whose test is still to come, or was passed and not acted upon.
InLate(c) == inPc[c] \in {"assert", "test", "store", "free"}

InCovers(old) ==
  /\ SumOf(old) <= In!ReturnThreshold
  /\ \A c \in InChannel :
       IF InLate(c) THEN InShare[c] <= old[c] + MaxChunks + 1 ELSE InShare[c] = old[c]

InOld == \E old \in [InChannel -> Nat] : InCovers(old)

InInv == InTypes /\ InHands /\ InSums /\ InOld

\* The hypotheses: constants as in the model; and a message of every channel fits
\* in what the threshold leaves of the buffer.
InRoom ==
  Cardinality(InChannel) * (MaxChunks + 1) <= InFifoSize - In!ReturnThreshold

\* The instance counts as this module does.
LEMMA InTerms ==
  /\ \A S : In!IsFiniteSet(S) = IsFiniteSet(S)
  /\ \A S : In!Cardinality(S) = Cardinality(S)
  /\ \A f : In!SumOf(f) = SumOf(f)
<1>1. \A S : In!IsFiniteSet(S) = IsFiniteSet(S)
  BY DEF In!IsFiniteSet, IsFiniteSet
<1>2. \A S : In!Cardinality(S) = Cardinality(S)
  BY DEF In!Cardinality, Cardinality
<1>3. \A f : In!Units(f) = Units(f)
  BY DEF In!Units, Units
<1>4. \A f : In!SumOf(f) = SumOf(f)
  BY <1>2, <1>3 DEF In!SumOf, SumOf
<1>5. QED
  BY <1>1, <1>2, <1>4

\* The constants, in the terms of this module: a threshold below the region is half
\* of the buffer.
LEMMA InConstants ==
  ASSUME In!PointerIngressAssumption
  PROVE  /\ IsFiniteSet(InChannel) /\ Cardinality(InChannel) \in Nat /\ InFC \in InChannel
         /\ InFifoSize \in Nat /\ MaxChunks \in Nat
         /\ In!Region \in Int /\ In!ReturnThreshold \in Nat
         /\ In!ReturnThreshold < In!Region - MaxChunks - 1
<1>1. IsFiniteSet(InChannel) /\ Cardinality(InChannel) \in Nat
  BY InTerms, FS_CardinalityType DEF In!PointerIngressAssumption
<1>2. InFifoSize \in Nat /\ InMinBuffer \in Nat /\ MaxChunks \in Nat
  BY DEF In!PointerIngressAssumption
<1>3. In!Region \in Int
  BY <1>1, <1>2, InTerms DEF In!Region
<1> DEFINE half == InFifoSize \div 2
           S == {half, In!Region}
           least == CHOOSE x \in S : \A y \in S : x <= y
<1>4. half \in Nat
  BY <1>2
<1> HIDE DEF half
<1>5. \E x \in S : \A y \in S : x <= y
  <2>1. CASE half <= In!Region
    BY <1>3, <1>4, <2>1
  <2>2. CASE In!Region <= half
    BY <1>3, <1>4, <2>2
  <2>3. QED
    BY <1>3, <1>4, <2>1, <2>2
<1>6. least \in S
  BY <1>5
<1>7. In!ReturnThreshold = least
  BY DEF In!ReturnThreshold, In!Min, half
<1>8. In!ReturnThreshold < In!Region - MaxChunks - 1
  BY DEF In!PointerIngressAssumption
<1>9. In!ReturnThreshold = half
  BY <1>2, <1>3, <1>6, <1>7, <1>8
<1>10. QED
  BY <1>1, <1>2, <1>3, <1>4, <1>8, <1>9 DEF In!PointerIngressAssumption

\* Shares and holdings are never below zero.
LEMMA InParts ==
  ASSUME InTypes, InHands
  PROVE  InShare \in [InChannel -> Nat] /\ InHeld \in [InChannel -> Nat]
<1>1. ASSUME NEW x \in InChannel PROVE InShare[x] \in Nat /\ InHeld[x] \in Nat
  <2>1. /\ inCredits[x] \in Nat /\ inChunks[x] \in Nat /\ unread[x] \in Nat
        /\ inPc[x] = "regional" => inChunks[x] <= inCredits[x]
    BY DEF InTypes, InHands
  <2>2. QED
    BY <2>1 DEF InShare, InHeld
<1>2. QED
  BY <1>1 DEF InShare, InHeld

\* A step of one channel changes its own part of both sums.
LEMMA InFrame ==
  ASSUME IsFiniteSet(InChannel), InTypes, InHands, InTypes', InHands',
         NEW c \in InChannel,
         \A x \in InChannel \ {c} :
           /\ inPc'[x] = inPc[x] /\ inCredits'[x] = inCredits[x]
           /\ inChunks'[x] = inChunks[x] /\ unread'[x] = unread[x]
  PROVE  /\ InShare \in [InChannel -> Nat] /\ InShare' \in [InChannel -> Nat]
         /\ \A x \in InChannel \ {c} : InShare'[x] = InShare[x]
         /\ SumOf(InShare') = SumOf(InShare) - InShare[c] + InShare'[c]
         /\ SumOf(InHeld') = SumOf(InHeld) - InHeld[c] + InHeld'[c]
         /\ InHeld[c] \in Nat /\ InHeld'[c] \in Nat
         /\ SumOf(InShare) \in Nat /\ SumOf(InHeld) \in Nat
<1>1. InShare \in [InChannel -> Nat] /\ InHeld \in [InChannel -> Nat]
  BY InParts
<1>2. InShare' \in [InChannel -> Nat] /\ InHeld' \in [InChannel -> Nat]
  <2>1. ASSUME NEW x \in InChannel PROVE InShare'[x] \in Nat /\ InHeld'[x] \in Nat
    <3>1. /\ inCredits'[x] \in Nat /\ inChunks'[x] \in Nat /\ unread'[x] \in Nat
          /\ inPc'[x] = "regional" => inChunks'[x] <= inCredits'[x]
      BY DEF InTypes, InHands
    <3>2. QED
      BY <3>1 DEF InShare, InHeld
  <2>2. QED
    BY <2>1 DEF InShare, InHeld
<1>3. /\ \A x \in InChannel \ {c} : InShare'[x] = InShare[x]
      /\ \A x \in InChannel \ {c} : InHeld'[x] = InHeld[x]
  BY DEF InShare, InHeld
<1>4. SumOf(InShare') = SumOf(InShare) - InShare[c] + InShare'[c]
  BY <1>1, <1>2, <1>3, SumOfChange
<1>5. SumOf(InHeld') = SumOf(InHeld) - InHeld[c] + InHeld'[c]
  BY <1>1, <1>2, <1>3, SumOfChange
<1>6. SumOf(InShare) \in Nat /\ SumOf(InHeld) \in Nat
  BY <1>1, SumType
<1>7. QED
  BY <1>1, <1>2, <1>3, <1>4, <1>5, <1>6

\* The other channels are left alone.
InAlone(c) ==
  \A x \in InChannel \ {c} :
    /\ inPc'[x] = inPc[x] /\ inCredits'[x] = inCredits[x]
    /\ inChunks'[x] = inChunks[x] /\ unread'[x] = unread[x]

\* The atomic operations between the test and the message, and before the shared
\* count, move credits within a channel.
LEMMA InMoveWithin ==
  ASSUME InTypes, InHands, MaxChunks \in Nat, NEW c \in InChannel,
         \/ In!Handle(c) \/ In!AcquireLocal(c) \/ In!CheckTotal(c)
         \/ In!Test(c) \/ In!FetchAndStore(c)
  PROVE  /\ InTypes' /\ InHands' /\ InAlone(c)
         /\ InShare'[c] = InShare[c] /\ InHeld'[c] = InHeld[c]
         /\ UNCHANGED <<inTotal, totalCreditsUsed, inReturning>>
<1> USE DEF InAlone, In!At, In!Goto, In!Hold, In!farSide
<1>1. /\ inTotal \in Nat /\ totalCreditsUsed \in Nat
      /\ inCredits \in [InChannel -> Nat] /\ unread \in [InChannel -> Nat]
      /\ inChunks \in [InChannel -> Nat] /\ inPc \in [InChannel -> InLabels]
      /\ inReturning \in Seq(Nat)
  BY DEF InTypes
<1>2. CASE In!Handle(c)
  <2>1. PICK n \in 1..(MaxChunks + 1) :
          /\ n <= unread[c] /\ unread' = [unread EXCEPT ![c] = @ - n]
          /\ inChunks' = [inChunks EXCEPT ![c] = n]
    BY <1>2 DEF In!Handle
  <2>2. /\ inPc[c] = "idle" /\ inPc' = [inPc EXCEPT ![c] = "acquire"]
        /\ UNCHANGED <<inCredits, inTotal, totalCreditsUsed, inReturning>>
    BY <1>2 DEF In!Handle
  <2>3. /\ unread'[c] = unread[c] - n /\ unread' \in [InChannel -> Nat]
        /\ inChunks'[c] = n /\ inChunks' \in [InChannel -> Nat]
        /\ inPc'[c] = "acquire" /\ inPc' \in [InChannel -> InLabels]
        /\ unread[c] \in Nat /\ inCredits[c] \in Nat
    BY <1>1, <2>1, <2>2 DEF InLabels
  <2>4. InAlone(c)
    BY <1>1, <2>1, <2>2
  <2>5. InTypes' /\ InHands'
    BY <1>1, <2>1, <2>2, <2>3, <2>4 DEF InTypes, InHands
  <2>6. InShare'[c] = InShare[c] /\ InHeld'[c] = InHeld[c]
    BY <2>2, <2>3 DEF InShare, InHeld
  <2>7. QED
    BY <2>2, <2>4, <2>5, <2>6
<1>3. CASE In!AcquireLocal(c)
  <2>1. /\ inPc[c] = "acquire" /\ inPc' = [inPc EXCEPT ![c] = "regional"]
        /\ inCredits' = [inCredits EXCEPT ![c] = @ + inChunks[c]]
        /\ UNCHANGED <<inChunks, unread, inTotal, totalCreditsUsed, inReturning>>
    BY <1>3 DEF In!AcquireLocal
  <2>2. inChunks[c] \in 1..(MaxChunks + 1) /\ inCredits[c] \in Nat /\ unread[c] \in Nat
    BY <1>1, <2>1 DEF InHands
  <2>3. /\ inCredits'[c] = inCredits[c] + inChunks[c] /\ inCredits' \in [InChannel -> Nat]
        /\ inPc'[c] = "regional" /\ inPc' \in [InChannel -> InLabels]
    BY <1>1, <2>1, <2>2 DEF InLabels
  <2>4. InAlone(c)
    BY <1>1, <2>1
  <2>5. InTypes' /\ InHands'
    BY <1>1, <2>1, <2>2, <2>3, <2>4 DEF InTypes, InHands
  <2>6. InShare'[c] = InShare[c] /\ InHeld'[c] = InHeld[c]
    BY <2>1, <2>2, <2>3 DEF InShare, InHeld
  <2>7. QED
    BY <2>1, <2>4, <2>5, <2>6
<1>4. CASE In!CheckTotal(c) \/ In!Test(c)
  <2>1. /\ inPc[c] \in {"assert", "test"}
        /\ \E l \in {"test", "store", "idle"} : inPc' = [inPc EXCEPT ![c] = l]
        /\ UNCHANGED <<inCredits, inChunks, unread, inTotal, totalCreditsUsed, inReturning>>
    BY <1>4 DEF In!CheckTotal, In!Test
  <2>2. inCredits[c] > 0
    BY <2>1 DEF InHands
  <2>3. inPc'[c] \in {"test", "store", "idle"} /\ inPc' \in [InChannel -> InLabels]
    BY <1>1, <2>1 DEF InLabels
  <2>4. InAlone(c)
    BY <1>1, <2>1
  <2>5. InTypes' /\ InHands'
    BY <1>1, <2>1, <2>2, <2>3, <2>4 DEF InTypes, InHands
  <2>6. InShare'[c] = InShare[c] /\ InHeld'[c] = InHeld[c]
    BY <2>1, <2>3 DEF InShare, InHeld
  <2>7. QED
    BY <2>1, <2>4, <2>5, <2>6
<1>5. CASE In!FetchAndStore(c)
  <2>1. /\ inPc[c] = "store" /\ inPc' = [inPc EXCEPT ![c] = "free"]
        /\ inChunks' = [inChunks EXCEPT ![c] = inCredits[c]]
        /\ inCredits' = [inCredits EXCEPT ![c] = 0]
        /\ UNCHANGED <<unread, inTotal, totalCreditsUsed, inReturning>>
    BY <1>5 DEF In!FetchAndStore
  <2>2. /\ inCredits'[c] = 0 /\ inCredits' \in [InChannel -> Nat]
        /\ inChunks'[c] = inCredits[c] /\ inChunks' \in [InChannel -> Nat]
        /\ inPc'[c] = "free" /\ inPc' \in [InChannel -> InLabels]
        /\ inCredits[c] \in Nat /\ unread[c] \in Nat
    BY <1>1, <2>1 DEF InLabels
  <2>3. InAlone(c)
    BY <1>1, <2>1
  <2>4. InTypes' /\ InHands'
    BY <1>1, <2>1, <2>2, <2>3 DEF InTypes, InHands
  <2>5. InShare'[c] = InShare[c] /\ InHeld'[c] = InHeld[c]
    BY <2>1, <2>2 DEF InShare, InHeld
  <2>6. QED
    BY <2>1, <2>3, <2>4, <2>5
<1>6. QED
  BY <1>2, <1>3, <1>4, <1>5

\* What one channel has is within the shared count.
LEMMA InShareWithin ==
  ASSUME IsFiniteSet(InChannel), InTypes, InHands, inTotal = SumOf(InShare),
         NEW c \in InChannel
  PROVE  InShare[c] <= inTotal
<1>1. InShare \in [InChannel -> Nat]
  BY InParts
<1>2. QED
  BY <1>1, SumAtLeast

\* The operations on the shared count add to a share and take it away.
LEMMA InMoveRegional ==
  ASSUME IsFiniteSet(InChannel), InTypes, InHands, inTotal = SumOf(InShare),
         MaxChunks \in Nat, NEW c \in InChannel,
         In!AcquireRegionalCredits(c) \/ In!FreeRegionalCredits(c)
  PROVE  /\ InTypes' /\ InHands' /\ InAlone(c)
         /\ inTotal' = inTotal - InShare[c] + InShare'[c] /\ InHeld'[c] = InHeld[c]
         /\ InShare'[c] <= InShare[c] + MaxChunks + 1
         /\ inPc[c] = "free" => InShare'[c] = 0
         /\ UNCHANGED <<totalCreditsUsed, inReturning>>
<1> USE DEF InAlone, In!At, In!Goto, In!Hold, In!farSide
<1>1. /\ inTotal \in Nat /\ totalCreditsUsed \in Nat
      /\ inCredits \in [InChannel -> Nat] /\ unread \in [InChannel -> Nat]
      /\ inChunks \in [InChannel -> Nat] /\ inPc \in [InChannel -> InLabels]
      /\ inReturning \in Seq(Nat)
  BY DEF InTypes
<1>2. CASE In!AcquireRegionalCredits(c)
  <2>1. /\ inPc[c] = "regional" /\ inPc' = [inPc EXCEPT ![c] = "assert"]
        /\ inTotal' = inTotal + inChunks[c] /\ inChunks' = [inChunks EXCEPT ![c] = 0]
        /\ UNCHANGED <<inCredits, unread, totalCreditsUsed, inReturning>>
    BY <1>2 DEF In!AcquireRegionalCredits
  <2>2. /\ inChunks[c] \in 1..(MaxChunks + 1) /\ inCredits[c] \in Nat
        /\ inChunks[c] <= inCredits[c] /\ unread[c] \in Nat
    BY <1>1, <2>1 DEF InHands
  <2>3. /\ inChunks'[c] = 0 /\ inChunks' \in [InChannel -> Nat]
        /\ inPc'[c] = "assert" /\ inPc' \in [InChannel -> InLabels]
    BY <1>1, <2>1 DEF InLabels
  <2>4. InAlone(c)
    BY <1>1, <2>1
  <2>5. InTypes' /\ InHands'
    BY <1>1, <2>1, <2>2, <2>3, <2>4 DEF InTypes, InHands
  <2>6. /\ InShare[c] = inCredits[c] - inChunks[c] /\ InShare'[c] = inCredits[c]
        /\ InHeld'[c] = InHeld[c]
    BY <2>1, <2>2, <2>3 DEF InShare, InHeld
  <2>7. QED
    BY <1>1, <2>1, <2>2, <2>4, <2>5, <2>6
<1>3. CASE In!FreeRegionalCredits(c)
  <2>1. /\ inPc[c] = "free" /\ inPc' = [inPc EXCEPT ![c] = "push"]
        /\ inTotal' = inTotal - inChunks[c]
        /\ UNCHANGED <<inChunks, inCredits, unread, totalCreditsUsed, inReturning>>
    BY <1>3 DEF In!FreeRegionalCredits
  <2>2. inChunks[c] \in Nat /\ inCredits[c] = 0 /\ unread[c] \in Nat
    BY <1>1, <2>1 DEF InHands
  <2>3. inPc'[c] = "push" /\ inPc' \in [InChannel -> InLabels]
    BY <1>1, <2>1 DEF InLabels
  <2>4. InAlone(c)
    BY <1>1, <2>1
  <2>5. /\ InShare[c] = inChunks[c] /\ InShare'[c] = 0
        /\ InHeld'[c] = InHeld[c]
    BY <2>1, <2>2, <2>3 DEF InShare, InHeld
  <2>6. inChunks[c] <= inTotal
    BY <2>5, InShareWithin
  <2>7. InTypes' /\ InHands'
    BY <1>1, <2>1, <2>2, <2>3, <2>4, <2>6 DEF InTypes, InHands
  <2>8. QED
    BY <1>1, <2>1, <2>2, <2>4, <2>5, <2>7
<1>4. QED
  BY <1>2, <1>3

\* The message takes what the thread has in its hands.
LEMMA InMovePush ==
  ASSUME InTypes, InHands, NEW c \in InChannel, In!Push(c)
  PROVE  /\ InTypes' /\ InHands' /\ InAlone(c)
         /\ InShare'[c] = InShare[c] /\ inTotal' = inTotal
         /\ InHeld'[c] = InHeld[c] - inChunks[c] /\ inChunks[c] \in Nat
         /\ inReturning' = Append(inReturning, inChunks[c])
         /\ totalCreditsUsed' = totalCreditsUsed
<1> USE DEF InAlone, In!At, In!Goto, In!Hold
<1>1. /\ inTotal \in Nat /\ totalCreditsUsed \in Nat
      /\ inCredits \in [InChannel -> Nat] /\ unread \in [InChannel -> Nat]
      /\ inChunks \in [InChannel -> Nat] /\ inPc \in [InChannel -> InLabels]
      /\ inReturning \in Seq(Nat)
  BY DEF InTypes
<1>2. /\ inPc[c] = "push" /\ inPc' = [inPc EXCEPT ![c] = "idle"]
      /\ inReturning' = Append(inReturning, inChunks[c])
      /\ inChunks' = [inChunks EXCEPT ![c] = 0]
      /\ UNCHANGED <<inCredits, unread, inTotal, totalCreditsUsed>>
  BY DEF In!Push
<1>3. /\ inChunks'[c] = 0 /\ inChunks' \in [InChannel -> Nat]
      /\ inPc'[c] = "idle" /\ inPc' \in [InChannel -> InLabels]
      /\ inChunks[c] \in Nat /\ inCredits[c] \in Nat /\ unread[c] \in Nat
  BY <1>1, <1>2 DEF InLabels
<1>4. inReturning' \in Seq(Nat)
  BY <1>1, <1>2, <1>3, AppendProperties
<1>5. InAlone(c)
  BY <1>1, <1>2
<1>6. InTypes' /\ InHands'
  BY <1>1, <1>2, <1>3, <1>4, <1>5 DEF InTypes, InHands
<1>7. InShare'[c] = InShare[c] /\ InHeld'[c] = InHeld[c] - inChunks[c]
  BY <1>2, <1>3 DEF InShare, InHeld
<1>8. QED
  BY <1>2, <1>3, <1>5, <1>6, <1>7

\* No step of a thread loses a credit.
LEMMA InSumsStep ==
  ASSUME In!PointerIngressAssumption, InTypes, InHands, InSums, NEW c \in InChannel,
         In!Handle(c) \/ In!Continue(c)
  PROVE  /\ InTypes' /\ InHands' /\ InSums'
         /\ InShare \in [InChannel -> Nat] /\ InShare' \in [InChannel -> Nat]
         /\ \A x \in InChannel \ {c} : InShare'[x] = InShare[x] /\ inPc'[x] = inPc[x]
<1>1. /\ IsFiniteSet(InChannel) /\ MaxChunks \in Nat
      /\ inTotal = SumOf(InShare)
      /\ totalCreditsUsed = SumOf(InHeld) + SumOf(inReturning)
      /\ inReturning \in Seq(Nat)
  BY InConstants DEF InSums, InTypes
<1>2. SumOf(inReturning) \in Nat
  BY <1>1, QueueSumType
<1>3. /\ InTypes' /\ InHands' /\ InAlone(c)
      /\ inTotal' = inTotal - InShare[c] + InShare'[c]
      /\ totalCreditsUsed' = totalCreditsUsed
      /\ \/ InHeld'[c] = InHeld[c] /\ inReturning' = inReturning
         \/ /\ InHeld'[c] = InHeld[c] - inChunks[c] /\ inChunks[c] \in Nat
            /\ inReturning' = Append(inReturning, inChunks[c])
  <2>1. CASE \/ In!Handle(c) \/ In!AcquireLocal(c) \/ In!CheckTotal(c)
             \/ In!Test(c) \/ In!FetchAndStore(c)
    <3>1. /\ InTypes' /\ InHands' /\ InAlone(c)
          /\ InShare'[c] = InShare[c] /\ InHeld'[c] = InHeld[c]
          /\ UNCHANGED <<inTotal, totalCreditsUsed, inReturning>>
      BY <1>1, <2>1, InMoveWithin
    <3>2. InShare[c] \in Nat /\ inTotal \in Nat
      BY <1>1, <3>1, InFrame DEF InAlone, InTypes
    <3>3. QED
      BY <3>1, <3>2
  <2>2. CASE In!AcquireRegionalCredits(c) \/ In!FreeRegionalCredits(c)
    BY <1>1, <2>2, InMoveRegional
  <2>3. CASE In!Push(c)
    <3>1. /\ InTypes' /\ InHands' /\ InAlone(c)
          /\ InShare'[c] = InShare[c] /\ inTotal' = inTotal
          /\ InHeld'[c] = InHeld[c] - inChunks[c] /\ inChunks[c] \in Nat
          /\ inReturning' = Append(inReturning, inChunks[c])
          /\ totalCreditsUsed' = totalCreditsUsed
      BY <2>3, InMovePush
    <3>2. InShare[c] \in Nat /\ inTotal \in Nat
      BY <1>1, <3>1, InFrame DEF InAlone, InTypes
    <3>3. QED
      BY <3>1, <3>2
  <2>4. QED
    BY <2>1, <2>2, <2>3 DEF In!Continue
<1>4. /\ InShare \in [InChannel -> Nat] /\ InShare' \in [InChannel -> Nat]
      /\ \A x \in InChannel \ {c} : InShare'[x] = InShare[x]
      /\ SumOf(InShare') = SumOf(InShare) - InShare[c] + InShare'[c]
      /\ SumOf(InHeld') = SumOf(InHeld) - InHeld[c] + InHeld'[c]
      /\ InHeld[c] \in Nat /\ SumOf(InHeld) \in Nat
  BY <1>1, <1>3, InFrame DEF InAlone
<1>5. SumOf(InHeld') + SumOf(inReturning') = SumOf(InHeld) + SumOf(inReturning)
  <2>1. CASE InHeld'[c] = InHeld[c] /\ inReturning' = inReturning
    BY <1>2, <1>4, <2>1
  <2>2. CASE /\ InHeld'[c] = InHeld[c] - inChunks[c] /\ inChunks[c] \in Nat
             /\ inReturning' = Append(inReturning, inChunks[c])
    <3>1. SumOf(inReturning') = SumOf(inReturning) + inChunks[c]
      BY <1>1, <2>2, SumOfAppend
    <3>2. QED
      BY <1>2, <1>4, <2>2, <3>1
  <2>3. QED
    BY <1>3, <2>1, <2>2
<1>6. InSums'
  BY <1>1, <1>3, <1>4, <1>5 DEF InSums
<1>7. QED
  BY <1>3, <1>4, <1>6 DEF InAlone

\* The egress: what it sends is unread, what it is given back was on its way.
LEMMA InFarStep ==
  ASSUME In!PointerIngressAssumption, InTypes, InHands, InSums,
         In!SendFC \/ In!Refill \/ \E c \in InChannel : In!Send(c)
  PROVE  /\ InTypes' /\ InHands' /\ InSums' /\ InShare' = InShare
         /\ UNCHANGED <<inPc, inTotal, inAborted>>
<1>1. /\ IsFiniteSet(InChannel) /\ MaxChunks \in Nat /\ InFC \in InChannel
      /\ inTotal = SumOf(InShare)
      /\ totalCreditsUsed = SumOf(InHeld) + SumOf(inReturning)
      /\ inTotal \in Nat /\ totalCreditsUsed \in Nat
      /\ inCredits \in [InChannel -> Nat] /\ unread \in [InChannel -> Nat]
      /\ inChunks \in [InChannel -> Nat] /\ inPc \in [InChannel -> InLabels]
      /\ inReturning \in Seq(Nat)
  BY InConstants DEF InSums, InTypes
<1>2. UNCHANGED <<inCredits, inTotal, inPc, inChunks, inAborted>>
  BY DEF In!SendFC, In!Send, In!Spend, In!Refill, In!software
<1>3. InHands'
  BY <1>2 DEF InHands
<1>4. InShare' = InShare
  BY <1>2 DEF InShare
<1>5. CASE In!Refill
  <2>1. /\ inReturning # <<>> /\ totalCreditsUsed' = totalCreditsUsed - Head(inReturning)
        /\ inReturning' = Tail(inReturning) /\ unread' = unread
    BY <1>5 DEF In!Refill
  <2>2. /\ Head(inReturning) \in Nat /\ Tail(inReturning) \in Seq(Nat)
        /\ SumOf(Tail(inReturning)) \in Nat
        /\ SumOf(inReturning) = SumOf(Tail(inReturning)) + Head(inReturning)
    BY <1>1, <2>1, SumOfTail
  <2>3. InHeld' = InHeld
    BY <1>2, <2>1 DEF InHeld
  <2>4. SumOf(InHeld) \in Nat
    BY <1>1, InParts, SumType
  <2>5. /\ totalCreditsUsed' \in Nat
        /\ totalCreditsUsed' = SumOf(InHeld') + SumOf(inReturning')
    <3>1. /\ totalCreditsUsed' = SumOf(InHeld) + SumOf(Tail(inReturning))
          /\ totalCreditsUsed' \in Nat
      <4> DEFINE h == SumOf(InHeld)
                 q == SumOf(Tail(inReturning))
                 n == Head(inReturning)
      <4>1. /\ h \in Nat /\ q \in Nat /\ n \in Nat
            /\ totalCreditsUsed = h + (q + n) /\ totalCreditsUsed' = totalCreditsUsed - n
        BY <1>1, <2>1, <2>2, <2>4
      <4> HIDE DEF h, q, n
      <4>2. totalCreditsUsed' = h + q /\ totalCreditsUsed' \in Nat
        BY <4>1
      <4>3. QED
        BY <4>2 DEF h, q
    <3>2. SumOf(InHeld') = SumOf(InHeld)
      BY <2>3
    <3>3. QED
      BY <2>1, <3>1, <3>2
  <2>6. InTypes'
    BY <1>1, <1>2, <2>1, <2>2, <2>5 DEF InTypes
  <2>7. InSums'
    BY <1>1, <1>2, <1>4, <2>5 DEF InSums
  <2>8. QED
    BY <1>2, <1>3, <1>4, <2>6, <2>7
<1>6. ASSUME NEW c \in InChannel, NEW n \in Nat, In!Spend(c, n)
      PROVE  InTypes' /\ InSums'
  <2>1. /\ totalCreditsUsed' = totalCreditsUsed + n
        /\ unread' = [unread EXCEPT ![c] = @ + n]
        /\ inReturning' = inReturning
    BY <1>6 DEF In!Spend
  <2>2. /\ unread' \in [InChannel -> Nat] /\ unread'[c] = unread[c] + n
        /\ \A x \in InChannel \ {c} : unread'[x] = unread[x]
    <3> DEFINE k == unread[c] + n
    <3>1. unread \in [InChannel -> Nat] /\ unread' = [unread EXCEPT ![c] = k]
      BY <1>1, <2>1
    <3>2. k \in Nat
      BY <1>1, <1>6
    <3> HIDE DEF k
    <3>3. unread' \in [InChannel -> Nat] /\ unread'[c] = k
          /\ \A x \in InChannel \ {c} : unread'[x] = unread[x]
      BY <3>1, <3>2
    <3>4. QED
      BY <3>3 DEF k
  <2>3. InTypes'
    <3>1. totalCreditsUsed' \in Nat
      <4>1. totalCreditsUsed \in Nat
        BY <1>1 DEF InTypes
      <4>2. QED
        BY <2>1, <4>1
    <3>2. QED
      BY <1>1, <1>2, <2>1, <2>2, <3>1 DEF InTypes
  <2>4. /\ SumOf(InHeld') = SumOf(InHeld) - InHeld[c] + InHeld'[c]
        /\ InHeld[c] \in Nat /\ SumOf(InHeld) \in Nat
    BY <1>1, <1>2, <1>3, <2>2, <2>3, InFrame
  <2>5. InHeld'[c] = InHeld[c] + n
    <3>1. unread[c] \in Nat /\ inCredits[c] \in Nat /\ inChunks[c] \in Nat
      BY <1>1
    <3>2. QED
      BY <1>2, <2>2, <3>1 DEF InHeld
  <2>6. SumOf(inReturning) \in Nat
    BY <1>1, QueueSumType
  <2>7. totalCreditsUsed' = SumOf(InHeld') + SumOf(inReturning')
    <3>1. SumOf(InHeld') = SumOf(InHeld) + n
      BY <2>4, <2>5
    <3>2. SumOf(inReturning') = SumOf(inReturning)
      BY <2>1
    <3>3. QED
      BY <1>1, <2>1, <2>4, <2>6, <3>1, <3>2
  <2>8. InSums'
    BY <1>1, <1>2, <1>4, <2>7 DEF InSums
  <2>9. QED
    BY <2>3, <2>8
<1>7. CASE In!SendFC \/ \E c \in InChannel : In!Send(c)
  <2>1. PICK c \in InChannel, n \in Nat : In!Spend(c, n)
    BY <1>1, <1>7 DEF In!SendFC, In!Send
  <2>2. QED
    BY <1>2, <1>3, <1>4, <1>6, <2>1
<1>8. QED
  BY <1>5, <1>7

\* Who has not tested yet may hold a message more than when the last test failed;
\* a test that fails now covers all.
LEMMA InOldStep ==
  ASSUME In!PointerIngressAssumption, InInv, NEW c \in InChannel,
         In!Handle(c) \/ In!Continue(c)
  PROVE  InOld'
<1>1. /\ IsFiniteSet(InChannel) /\ MaxChunks \in Nat /\ In!ReturnThreshold \in Nat
      /\ inTotal = SumOf(InShare) /\ inPc \in [InChannel -> InLabels]
  BY InConstants DEF InInv, InSums, InTypes
<1>2. /\ InShare \in [InChannel -> Nat] /\ InShare' \in [InChannel -> Nat]
      /\ InTypes /\ InHands
      /\ \A x \in InChannel \ {c} : InShare'[x] = InShare[x] /\ inPc'[x] = inPc[x]
  BY InSumsStep DEF InInv
<1>3. PICK old \in [InChannel -> Nat] : InCovers(old)
  BY DEF InInv, InOld
<1>4. /\ SumOf(old) <= In!ReturnThreshold
      /\ \A x \in InChannel :
           IF InLate(x) THEN InShare[x] <= old[x] + MaxChunks + 1 ELSE InShare[x] = old[x]
  BY <1>3 DEF InCovers
<1>5. \A x \in InChannel \ {c} :
        IF InLate(x)' THEN InShare'[x] <= old[x] + MaxChunks + 1 ELSE InShare'[x] = old[x]
  BY <1>2, <1>4 DEF InLate
<1>6. ASSUME IF InLate(c)' THEN InShare'[c] <= old[c] + MaxChunks + 1 ELSE InShare'[c] = old[c]
      PROVE  InOld'
  <2>1. \A x \in InChannel :
          IF InLate(x)' THEN InShare'[x] <= old[x] + MaxChunks + 1 ELSE InShare'[x] = old[x]
    BY <1>5, <1>6
  <2>2. InCovers(old)'
    BY <1>4, <2>1 DEF InCovers, In!ReturnThreshold, In!Region
  <2>3. QED
    BY <2>2 DEF InOld
<1>7. CASE In!Handle(c) \/ In!AcquireLocal(c) \/ In!Push(c) \/ In!CheckTotal(c)
           \/ In!FetchAndStore(c)
  <2>1. InShare'[c] = InShare[c]
    BY <1>1, <1>2, <1>7, InMoveWithin, InMovePush
  <2>2. InLate(c)' <=> InLate(c)
    BY <1>1, <1>7 DEF InLate, In!Handle, In!AcquireLocal, In!Push, In!CheckTotal,
       In!FetchAndStore, In!At, In!Goto
  <2>3. QED
    BY <1>4, <1>6, <2>1, <2>2
<1>8. CASE In!AcquireRegionalCredits(c)
  <2>1. InShare'[c] <= InShare[c] + MaxChunks + 1
    BY <1>1, <1>2, <1>8, InMoveRegional
  <2>2. InLate(c)' /\ ~InLate(c)
    BY <1>1, <1>8 DEF InLate, In!AcquireRegionalCredits, In!At, In!Goto
  <2>3. QED
    BY <1>4, <1>6, <2>1, <2>2
<1>9. CASE In!Test(c)
  <2>1. InShare'[c] = InShare[c] /\ inTotal' = inTotal /\ InShare' = InShare
    <3>1. InShare'[c] = InShare[c] /\ inTotal' = inTotal
      BY <1>1, <1>2, <1>9, InMoveWithin
    <3>2. InShare' = InShare
      BY <1>2, <3>1
    <3>3. QED
      BY <3>1, <3>2
  <2>2. inPc[c] = "test" /\ inPc' = [inPc EXCEPT ![c] = IF In!MustReturn(c) THEN "store" ELSE "idle"]
    BY <1>9 DEF In!Test, In!At, In!Goto
  <2>3. CASE In!MustReturn(c)
    <3>1. InLate(c) /\ InLate(c)'
      BY <1>1, <2>2, <2>3 DEF InLate
    <3>2. QED
      BY <1>4, <1>6, <2>1, <3>1
  <2>4. CASE ~In!MustReturn(c)
    <3>1. inCredits[c] > 0
      BY <1>2, <2>2 DEF InHands
    <3>2. SumOf(InShare) <= In!ReturnThreshold
      <4>1. inTotal \in Nat
        BY <1>2 DEF InTypes
      <4>2. QED
        BY <1>1, <2>4, <3>1, <4>1 DEF In!MustReturn
    <3>3. \A x \in InChannel : InShare[x] \in Nat /\ InShare[x] <= InShare[x] + MaxChunks + 1
      BY <1>1, <1>2
    <3>4. PICK now \in [InChannel -> Nat] : now = InShare
      BY <1>2
    <3>5. \A x \in InChannel :
            IF InLate(x)' THEN InShare'[x] <= now[x] + MaxChunks + 1 ELSE InShare'[x] = now[x]
      BY <2>1, <3>3, <3>4
    <3>6. InCovers(now)'
      BY <3>2, <3>4, <3>5 DEF InCovers, In!ReturnThreshold, In!Region
    <3>7. QED
      BY <3>6 DEF InOld
  <2>5. QED
    BY <2>3, <2>4
<1>10. CASE In!FreeRegionalCredits(c)
  <2>1. inPc[c] = "free" /\ inPc' = [inPc EXCEPT ![c] = "push"]
    BY <1>10 DEF In!FreeRegionalCredits, In!At, In!Goto
  <2>2. InShare'[c] = 0
    BY <1>1, <1>2, <1>10, <2>1, InMoveRegional
  <2> DEFINE less == [old EXCEPT ![c] = 0]
  <2>3. /\ less \in [InChannel -> Nat] /\ less[c] = 0
        /\ \A x \in InChannel \ {c} : less[x] = old[x]
        /\ \A x \in InChannel : less[x] <= old[x]
    OBVIOUS
  <2> HIDE DEF less
  <2>4. SumOf(less) <= SumOf(old) /\ SumOf(less) \in Nat /\ SumOf(old) \in Nat
    BY <1>1, <2>3, SumMonotone, SumType
  <2>5. SumOf(less) <= In!ReturnThreshold
    BY <1>1, <1>4, <2>4
  <2>6. ~InLate(c)'
    BY <1>1, <2>1 DEF InLate
  <2>7. \A x \in InChannel :
          IF InLate(x)' THEN InShare'[x] <= less[x] + MaxChunks + 1 ELSE InShare'[x] = less[x]
    BY <1>5, <2>2, <2>3, <2>6
  <2>8. InCovers(less)'
    BY <2>5, <2>7 DEF InCovers, In!ReturnThreshold, In!Region
  <2>9. QED
    BY <2>3, <2>8 DEF InOld
<1>11. QED
  BY <1>7, <1>8, <1>9, <1>10 DEF In!Continue

\* The invariant is kept by every step.
LEMMA InInvStep ==
  ASSUME In!PointerIngressAssumption, InInv, [In!Next]_(In!vars)
  PROVE  InInv'
<1>1. ASSUME NEW c \in InChannel, In!Handle(c) \/ In!Continue(c) PROVE InInv'
  BY <1>1, InSumsStep, InOldStep DEF InInv
<1>2. CASE In!SendFC \/ In!Refill \/ \E c \in InChannel : In!Send(c)
  <2>1. /\ InTypes' /\ InHands' /\ InSums' /\ InShare' = InShare
        /\ UNCHANGED <<inPc, inTotal, inAborted>>
    BY <1>2, InFarStep DEF InInv
  <2>2. PICK old \in [InChannel -> Nat] : InCovers(old)
    BY DEF InInv, InOld
  <2>3. InCovers(old)'
    BY <2>1, <2>2 DEF InCovers, InLate, In!ReturnThreshold, In!Region
  <2>4. QED
    BY <2>1, <2>3 DEF InInv, InOld
<1>3. CASE UNCHANGED In!vars
  <2>1. UNCHANGED <<inCredits, inTotal, inPc, inChunks, totalCreditsUsed, unread, inReturning>>
    BY <1>3 DEF In!vars, In!software, In!farSide
  <2>2. InTypes' /\ InHands'
    BY <2>1 DEF InInv, InTypes, InHands
  <2>3. InShare' = InShare /\ InHeld' = InHeld
    BY <2>1 DEF InShare, InHeld
  <2>4. InSums'
    BY <2>1, <2>3 DEF InInv, InSums
  <2>5. PICK old \in [InChannel -> Nat] : InCovers(old)
    BY DEF InInv, InOld
  <2>6. InCovers(old)'
    BY <2>1, <2>3, <2>5 DEF InCovers, InLate, In!ReturnThreshold, In!Region
  <2>7. QED
    BY <2>2, <2>4, <2>6 DEF InInv, InOld
<1>4. QED
  BY <1>1, <1>2, <1>3 DEF In!Next

\* At the start no credit is out.
LEMMA InInvInit ==
  ASSUME In!PointerIngressAssumption, In!Init
  PROVE  InInv
<1>1. IsFiniteSet(InChannel) /\ In!ReturnThreshold \in Nat
  BY InConstants
<1>2. /\ inCredits = [c \in InChannel |-> 0] /\ inTotal = 0
      /\ inPc = [c \in InChannel |-> "idle"] /\ inChunks = [c \in InChannel |-> 0]
      /\ totalCreditsUsed = 0 /\ unread = [c \in InChannel |-> 0] /\ inReturning = <<>>
  BY DEF In!Init
<1>3. InTypes /\ InHands
  BY <1>2 DEF InTypes, InHands, InLabels
<1>4. InShare \in [InChannel -> Nat] /\ InHeld \in [InChannel -> Nat]
  BY <1>3, InParts
<1>5. \A c \in InChannel : InShare[c] = 0 /\ InHeld[c] = 0
  BY <1>2 DEF InShare, InHeld
<1>6. SumOf(InShare) = 0 /\ SumOf(InHeld) = 0
  BY <1>1, <1>4, <1>5, SumOfZero
<1>7. SumOf(inReturning) = 0
  BY <1>2, SumOfEmpty
<1>8. InSums
  BY <1>2, <1>6, <1>7 DEF InSums
<1>9. \A c \in InChannel : ~InLate(c)
  BY <1>2 DEF InLate
<1>10. InCovers(InShare)
  BY <1>1, <1>6, <1>9 DEF InCovers
<1>11. QED
  BY <1>3, <1>4, <1>8, <1>10 DEF InInv, InOld

\* The sums of the model are those of the invariant: what is in the threads' hands
\* is apart from what is counted.
LEMMA InConserves ==
  ASSUME In!PointerIngressAssumption, InInv
  PROVE  In!CreditConservation
<1>1. /\ IsFiniteSet(InChannel)
      /\ inTotal = SumOf(InShare)
      /\ totalCreditsUsed = SumOf(InHeld) + SumOf(inReturning)
      /\ inCredits \in [InChannel -> Nat] /\ unread \in [InChannel -> Nat]
      /\ inChunks \in [InChannel -> Nat]
      /\ InShare \in [InChannel -> Nat] /\ InHeld \in [InChannel -> Nat]
      /\ \A c \in InChannel : inPc[c] = "free" => inCredits[c] = 0
  BY InConstants, InParts DEF InInv, InSums, InTypes, InHands
<1> DEFINE away == [c \in InChannel |->
                      IF inPc[c] \in {"acquire", "free", "push"} THEN inChunks[c] ELSE 0]
           added == [c \in InChannel |-> IF inPc[c] \in {"regional"} THEN inChunks[c] ELSE 0]
           taken == [c \in InChannel |-> IF inPc[c] \in {"free"} THEN inChunks[c] ELSE 0]
           both == [c \in InChannel |-> unread[c] + inCredits[c]]
           whole == [c \in InChannel |-> inCredits[c] + taken[c]]
<1>2. /\ away \in [InChannel -> Nat] /\ added \in [InChannel -> Nat]
      /\ taken \in [InChannel -> Nat] /\ both \in [InChannel -> Nat]
      /\ whole \in [InChannel -> Nat]
  BY <1>1
<1>3. /\ \A c \in InChannel : both[c] = unread[c] + inCredits[c]
      /\ \A c \in InChannel : InHeld[c] = both[c] + away[c]
      /\ \A c \in InChannel : whole[c] = inCredits[c] + taken[c]
  BY <1>1 DEF InHeld
<1>4. \A c \in InChannel : whole[c] = InShare[c] + added[c]
  <2>1. TAKE c \in InChannel
  <2>2. inCredits[c] \in Nat /\ inChunks[c] \in Nat
    BY <1>1
  <2>3. CASE inPc[c] = "regional"
    BY <1>1, <2>2, <2>3 DEF InShare
  <2>4. CASE inPc[c] = "free"
    BY <1>1, <2>2, <2>4 DEF InShare
  <2>5. CASE inPc[c] \notin {"regional", "free"}
    BY <1>1, <2>2, <2>5 DEF InShare
  <2>6. QED
    BY <2>3, <2>4, <2>5
<1> HIDE DEF both, whole
<1> HIDE DEF away, added, taken
<1>5. SumOf(InHeld) = SumOf(unread) + SumOf(inCredits) + SumOf(away)
  <2>1. SumOf(both) = SumOf(unread) + SumOf(inCredits)
    BY <1>1, <1>2, <1>3, SumOfBoth
  <2>2. SumOf(InHeld) = SumOf(both) + SumOf(away)
    BY <1>1, <1>2, <1>3, SumOfBoth
  <2>3. QED
    BY <2>1, <2>2
<1>6. SumOf(InShare) + SumOf(added) = SumOf(inCredits) + SumOf(taken)
  <2>1. SumOf(whole) = SumOf(inCredits) + SumOf(taken)
    BY <1>1, <1>2, <1>3, SumOfBoth
  <2>2. SumOf(whole) = SumOf(InShare) + SumOf(added)
    BY <1>1, <1>2, <1>4, SumOfBoth
  <2>3. QED
    BY <2>1, <2>2
<1>7. totalCreditsUsed = SumOf(unread) + SumOf(inCredits) + SumOf(away) + SumOf(inReturning)
  BY <1>1, <1>5
<1>8. inTotal + SumOf(added) = SumOf(inCredits) + SumOf(taken)
  BY <1>1, <1>6
<1>9. QED
  BY <1>7, <1>8, InTerms DEF In!CreditConservation, away, added, taken

\* The shared count never passes the size of the buffer: each channel has added a
\* message at most since the threshold was not passed.
LEMMA InTotalFits ==
  ASSUME In!PointerIngressAssumption, InRoom, InInv
  PROVE  inTotal <= InFifoSize
<1>1. /\ IsFiniteSet(InChannel) /\ Cardinality(InChannel) \in Nat
      /\ InFifoSize \in Nat /\ MaxChunks \in Nat /\ In!ReturnThreshold \in Nat
      /\ inTotal = SumOf(InShare) /\ InShare \in [InChannel -> Nat]
  BY InConstants, InParts DEF InInv, InSums
<1>2. PICK old \in [InChannel -> Nat] : InCovers(old)
  BY DEF InInv, InOld
<1> DEFINE more == [c \in InChannel |-> MaxChunks + 1]
           most == [c \in InChannel |-> old[c] + more[c]]
<1>3. /\ more \in [InChannel -> Nat] /\ more \in [InChannel -> 0..(MaxChunks + 1)]
      /\ most \in [InChannel -> Nat]
      /\ \A c \in InChannel : most[c] = old[c] + more[c]
      /\ \A c \in InChannel : more[c] = MaxChunks + 1
  BY <1>1
<1> HIDE DEF more, most
<1>4. \A c \in InChannel : InShare[c] <= most[c]
  <2>1. TAKE c \in InChannel
  <2>2. /\ IF InLate(c) THEN InShare[c] <= old[c] + MaxChunks + 1 ELSE InShare[c] = old[c]
        /\ old[c] \in Nat /\ InShare[c] \in Nat /\ most[c] = old[c] + (MaxChunks + 1)
    BY <1>1, <1>2, <1>3 DEF InCovers
  <2>3. QED
    BY <1>1, <2>2
<1>5. SumOf(InShare) <= SumOf(most)
  BY <1>1, <1>3, <1>4, SumMonotone
<1>6. SumOf(most) = SumOf(old) + SumOf(more)
  BY <1>1, <1>3, SumOfBoth
<1>7. SumOf(more) <= Cardinality(InChannel) * (MaxChunks + 1)
  <2>1. MaxChunks + 1 \in Nat
    BY <1>1
  <2>2. QED
    BY <1>1, <1>3, <2>1, SumBounded
<1>8. SumOf(old) <= In!ReturnThreshold
  BY <1>2 DEF InCovers
<1>9. SumOf(old) \in Nat /\ SumOf(more) \in Nat /\ SumOf(InShare) \in Nat
  BY <1>1, <1>3, SumType
<1> DEFINE all == Cardinality(InChannel) * (MaxChunks + 1)
<1>10. all \in Nat /\ all <= InFifoSize - In!ReturnThreshold /\ SumOf(more) <= all
  BY <1>1, <1>7 DEF InRoom
<1> HIDE DEF all
<1>11. QED
  BY <1>1, <1>5, <1>6, <1>8, <1>9, <1>10

\* Once all is handled no more is kept than the threshold.
LEMMA InQuietKeepsLittle ==
  ASSUME In!PointerIngressAssumption, InInv, inReturning = <<>>,
         \A c \in InChannel : unread[c] = 0 /\ inPc[c] = "idle"
  PROVE  totalCreditsUsed <= In!ReturnThreshold /\ In!CreditsHigh
<1>1. /\ IsFiniteSet(InChannel) /\ MaxChunks \in Nat /\ In!ReturnThreshold \in Nat
      /\ In!Region \in Int /\ In!ReturnThreshold < In!Region - MaxChunks - 1
      /\ totalCreditsUsed = SumOf(InHeld) + SumOf(inReturning)
      /\ InHeld \in [InChannel -> Nat] /\ inCredits \in [InChannel -> Nat]
  BY InConstants, InParts DEF InInv, InSums, InTypes
<1>2. PICK old \in [InChannel -> Nat] : InCovers(old)
  BY DEF InInv, InOld
<1>3. \A c \in InChannel : InHeld[c] = old[c]
  <2>1. TAKE c \in InChannel
  <2>2. InShare[c] = old[c] /\ inCredits[c] \in Nat
    BY <1>1, <1>2 DEF InCovers, InLate
  <2>3. QED
    BY <2>2 DEF InShare, InHeld
<1>4. InHeld = old
  BY <1>1, <1>3
<1>5. SumOf(inReturning) = 0 /\ SumOf(old) \in Nat
  BY <1>1, SumOfEmpty, SumType
<1>6. totalCreditsUsed <= In!ReturnThreshold /\ totalCreditsUsed \in Nat
  BY <1>1, <1>2, <1>4, <1>5 DEF InCovers
<1>7. QED
  BY <1>1, <1>6 DEF In!CreditsHigh

\* No step fails the assertion of line 110.
LEMMA InAssertHolds ==
  ASSUME In!PointerIngressAssumption, InRoom, InInv, ~inAborted, [In!Next]_(In!vars)
  PROVE  ~inAborted'
<1>1. CASE \E c \in InChannel : In!CheckTotal(c)
  <2>1. inTotal <= InFifoSize /\ InFifoSize \in Nat /\ inTotal \in Nat
    BY InTotalFits, InConstants DEF InInv, InTypes
  <2>2. ~(inTotal > InFifoSize)
    BY <2>1
  <2>3. QED
    BY <1>1, <2>2, Zenon DEF In!CheckTotal
<1>2. CASE \/ \E c \in InChannel :
                \/ In!Handle(c) \/ In!AcquireLocal(c) \/ In!AcquireRegionalCredits(c)
                \/ In!Test(c) \/ In!FetchAndStore(c) \/ In!FreeRegionalCredits(c)
                \/ In!Push(c)
           \/ UNCHANGED In!vars
  BY <1>2 DEF In!Handle, In!AcquireLocal, In!AcquireRegionalCredits, In!Test,
     In!FetchAndStore, In!FreeRegionalCredits, In!Push, In!vars, In!software
<1>3. CASE In!SendFC \/ In!Refill \/ \E c \in InChannel : In!Send(c)
  BY <1>3, InFarStep DEF InInv
<1>4. QED
  BY <1>1, <1>2, <1>3 DEF In!Next, In!Continue

\* The invariant holds of every behaviour of the threads.
LEMMA InInvCorrect ==
  ASSUME In!PointerIngressAssumption
  PROVE  In!Spec => []InInv
<1>1. In!Init => InInv
  BY InInvInit
<1>2. InInv /\ [In!Next]_(In!vars) => InInv'
  BY InInvStep
<1>3. QED
  BY <1>1, <1>2, PTL DEF In!Spec

\* However the threads interleave their atomic operations, every credit the egress
\* spent is in one place, and the two counts differ by what threads have in hand.
THEOREM InCreditConservation ==
  ASSUME In!PointerIngressAssumption
  PROVE  In!Spec => []In!CreditConservation
<1>1. InInv => In!CreditConservation
  BY InConserves
<1>2. QED
  BY <1>1, InInvCorrect, PTL

\* Threads that each test the shared count after adding to it do not all leave it
\* to another: once all is handled the egress can start its largest packet, and
\* the assertion on the shared count never fails.
THEOREM InNeverWedged ==
  ASSUME In!PointerIngressAssumption, InRoom
  PROVE  In!Spec => []In!NeverWedged
<1>1. In!Init => ~inAborted
  BY DEF In!Init
<1>2. InInv /\ ~inAborted /\ [In!Next]_(In!vars) => ~inAborted'
  BY InAssertHolds
<1>3. InInv /\ ~inAborted => In!NeverWedged
  BY InQuietKeepsLittle DEF In!NeverWedged
<1>4. QED
  BY <1>1, <1>2, <1>3, InInvCorrect, PTL DEF In!Spec

=============================================================================
