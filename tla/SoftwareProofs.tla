--------------------------- MODULE SoftwareProofs ---------------------------
(***************************************************************************)
(* Software that receives, for any number of threads and any sizes; then   *)
(* the whole of MCSoftware, in which the software's parts are put together *)
(* with the sizes of the runs.                                             *)
(*                                                                         *)
(* SomeoneReturns is inductive once the counter is known to be a number    *)
(* and pc a function: the thread that brings the count above the threshold *)
(* has its test still ahead, the test can only send it on to the store,    *)
(* and the store leaves nothing behind.                                    *)
(***************************************************************************)
EXTENDS MCSoftware, CountingLemmas

\* The part of the type invariant the argument needs.
Counted ==
  /\ flowcontrolCredits \in Nat
  /\ chunks \in [Thread -> Nat]
  /\ pc \in [Thread -> {"idle", "acquire", "test", "store", "push"}]

IInv == Counted /\ SomeoneReturns

\* A step of one thread keeps the invariant.
LEMMA ThreadStep ==
  ASSUME IInv, NEW t \in Thread, Handle(t) \/ Continue(t)
  PROVE  IInv'
<1> USE SoftwareIngressAssumption DEF IInv, Counted, SomeoneReturns, Goto
<1>1. CASE Handle(t)
  <2>1. PICK n \in 1..(MaxPacket + 1) : chunks' = [chunks EXCEPT ![t] = n]
    BY <1>1 DEF Handle
  <2>2. Counted'
    BY <1>1, <2>1 DEF Handle
  <2>3. SomeoneReturns'
    BY <1>1 DEF Handle
  <2>4. QED
    BY <2>2, <2>3
<1>2. CASE AcquireCredits(t)
  BY <1>2 DEF AcquireCredits
<1>3. CASE Test(t)
  BY <1>3 DEF Test
<1>4. CASE FetchAndStore(t)
  <2>1. flowcontrolCredits' = 0 /\ 0 <= ReturnThreshold
    BY <1>4 DEF FetchAndStore, ReturnThreshold
  <2>2. QED
    BY <1>4, <2>1 DEF FetchAndStore, ReturnThreshold
<1>5. CASE Push(t)
  BY <1>5 DEF Push
<1>6. QED
  BY <1>1, <1>2, <1>3, <1>4, <1>5 DEF Continue

\* The far side and stuttering leave everything the invariant is about alone.
LEMMA OtherStep ==
  ASSUME IInv, Send \/ Deliver \/ Refill \/ UNCHANGED vars
  PROVE  IInv'
<1>1. UNCHANGED software
  BY DEF Send, Deliver, Refill, vars
<1>2. QED
  BY <1>1 DEF IInv, Counted, SomeoneReturns, software

\* As long as there are enough credits to return, some thread is on its way to
\* return them: whatever the threads interleave, none relies on another that
\* has already tested and left.
THEOREM SomeoneReturnsCorrect == Spec => []SomeoneReturns
<1>1. Init => IInv
  BY SoftwareIngressAssumption
  DEF Init, IInv, Counted, SomeoneReturns, ReturnThreshold
<1>2. IInv /\ [Next]_vars => IInv'
  BY ThreadStep, OtherStep DEF Next
<1>3. IInv => SomeoneReturns
  BY DEF IInv
<1>4. QED
  BY <1>1, <1>2, <1>3, PTL DEF Spec

-----------------------------------------------------------------------------
(***************************************************************************)
(* Every credit is returned once, for any number of threads.               *)
(*                                                                         *)
(* Each step moves credits between two of the places that the conservation *)
(* adds up.  Two of those places are the hands of the threads, of which    *)
(* the invariant says when they are empty: without that, being handed a    *)
(* message or taking the count could drop what was in them.                *)
(***************************************************************************)

Hands ==
  \A t \in Thread :
    /\ pc[t] # "acquire" => chunks[t] = 0
    /\ pc[t] # "push" => creditsToReturn[t] = 0

CountInv == TypeOK /\ CreditConservation /\ Hands

\* What the conservation adds up are numbers.
LEMMA PlacesAreNumbers ==
  ASSUME TypeOK
  PROVE  /\ IsFiniteSet(Thread) /\ FifoSize \in Nat /\ MaxPacket \in Nat
         /\ ReturnThreshold \in Nat
         /\ credits \in Nat /\ inFlight \in Nat /\ stored \in Nat
         /\ flowcontrolCredits \in Nat
         /\ chunks \in [Thread -> Nat] /\ creditsToReturn \in [Thread -> Nat]
         /\ SumOf(chunks) \in Nat /\ SumOf(creditsToReturn) \in Nat
         /\ SumOf(flowcontrolQ) \in Nat
<1>1. chunks \in [Thread -> Nat] /\ creditsToReturn \in [Thread -> Nat]
  BY SoftwareIngressAssumption DEF TypeOK
<1>2. SumOf(chunks) \in Nat /\ SumOf(creditsToReturn) \in Nat
  BY <1>1, SumType, SoftwareIngressAssumption
<1>3. SumOf(flowcontrolQ) \in Nat
  BY QueueSumType DEF TypeOK
<1>4. QED
  BY <1>1, <1>2, <1>3, SoftwareIngressAssumption DEF TypeOK, ReturnThreshold

\* The conservation with the sums spelt out, before and after a step.
LEMMA ConservationSays ==
  /\ CreditConservation <=>
       credits + inFlight + stored + SumOf(chunks) + flowcontrolCredits
         + (SumOf(creditsToReturn) + SumOf(flowcontrolQ)) = FifoSize
  /\ CreditConservation' <=>
       credits' + inFlight' + stored' + SumOf(chunks') + flowcontrolCredits'
         + (SumOf(creditsToReturn') + SumOf(flowcontrolQ')) = FifoSize
BY DEF CreditConservation, Returning

\* A thread moves the credits of its message to the count, those of the count
\* to its other hand, and from there into a message to the switch.
LEMMA ThreadConserves ==
  ASSUME CountInv, NEW t \in Thread, Handle(t) \/ Continue(t)
  PROVE  CountInv'
<1>1. /\ IsFiniteSet(Thread) /\ FifoSize \in Nat /\ MaxPacket \in Nat
      /\ ReturnThreshold \in Nat
      /\ credits \in Nat /\ inFlight \in Nat /\ stored \in Nat
      /\ flowcontrolCredits \in Nat
      /\ chunks \in [Thread -> Nat] /\ creditsToReturn \in [Thread -> Nat]
      /\ SumOf(chunks) \in Nat /\ SumOf(creditsToReturn) \in Nat
      /\ SumOf(flowcontrolQ) \in Nat
  BY PlacesAreNumbers DEF CountInv
<1>2. /\ chunks \in [Thread -> 0..(MaxPacket + 1)]
      /\ pc \in [Thread -> {"idle", "acquire", "test", "store", "push"}]
      /\ flowcontrolQ \in Seq(Nat) /\ finish \in BOOLEAN
  BY DEF CountInv, TypeOK
<1>3. credits + inFlight + stored + SumOf(chunks) + flowcontrolCredits
        + (SumOf(creditsToReturn) + SumOf(flowcontrolQ)) = FifoSize
  BY ConservationSays DEF CountInv
<1>4. ASSUME NEW n \in Nat, chunks' = [chunks EXCEPT ![t] = n]
      PROVE  chunks' \in [Thread -> Nat]
             /\ SumOf(chunks') = SumOf(chunks) - chunks[t] + n
  <2>1. chunks' \in [Thread -> Nat] /\ chunks'[t] = n
        /\ \A u \in Thread \ {t} : chunks'[u] = chunks[u]
    BY <1>1, <1>4
  <2>2. QED
    BY <1>1, <2>1, SumOfChange
<1>5. ASSUME NEW n \in Nat, creditsToReturn' = [creditsToReturn EXCEPT ![t] = n]
      PROVE  creditsToReturn' \in [Thread -> Nat]
             /\ SumOf(creditsToReturn') = SumOf(creditsToReturn) - creditsToReturn[t] + n
  <2>1. creditsToReturn' \in [Thread -> Nat] /\ creditsToReturn'[t] = n
        /\ \A u \in Thread \ {t} : creditsToReturn'[u] = creditsToReturn[u]
    BY <1>1, <1>5
  <2>2. QED
    BY <1>1, <2>1, SumOfChange
<1>6. chunks[t] \in Nat /\ creditsToReturn[t] \in Nat
  BY <1>1
<1>7. CASE Handle(t)
  <2>1. PICK n \in 1..(MaxPacket + 1) :
          /\ n <= stored /\ stored' = stored - n
          /\ chunks' = [chunks EXCEPT ![t] = n]
    BY <1>7 DEF Handle
  <2>2. pc[t] = "idle" /\ pc' = [pc EXCEPT ![t] = "acquire"]
        /\ UNCHANGED <<credits, inFlight, flowcontrolCredits, creditsToReturn,
                       flowcontrolQ, finish>>
    BY <1>7 DEF Handle, Goto
  <2>3. chunks[t] = 0 /\ n \in Nat /\ n \in 0..(MaxPacket + 1) /\ stored' \in Nat
    BY <1>1, <2>1, <2>2 DEF CountInv, Hands
  <2>4. SumOf(chunks') = SumOf(chunks) + n
    <3>1. SumOf(chunks') = SumOf(chunks) - chunks[t] + n
      BY <1>4, <2>1, <2>3
    <3>2. QED
      BY <1>1, <2>3, <3>1
  <2>5. CreditConservation'
    BY <1>1, <1>3, <2>1, <2>2, <2>3, <2>4, ConservationSays
  <2>6. TypeOK'
    BY <1>1, <1>2, <2>1, <2>2, <2>3 DEF TypeOK
  <2>7. Hands'
    BY <1>2, <2>1, <2>2 DEF CountInv, Hands
  <2>8. QED
    BY <2>5, <2>6, <2>7 DEF CountInv
<1>8. CASE AcquireCredits(t)
  <2>1. /\ pc[t] = "acquire" /\ pc' = [pc EXCEPT ![t] = "test"]
        /\ flowcontrolCredits' = flowcontrolCredits + chunks[t]
        /\ chunks' = [chunks EXCEPT ![t] = 0]
        /\ UNCHANGED <<credits, inFlight, stored, creditsToReturn, flowcontrolQ, finish>>
    BY <1>8 DEF AcquireCredits, Goto
  <2>2. SumOf(chunks') = SumOf(chunks) - chunks[t]
    <3>1. SumOf(chunks') = SumOf(chunks) - chunks[t] + 0
      BY <1>4, <2>1
    <3>2. QED
      BY <1>1, <1>6, <3>1
  <2>3. CreditConservation'
    BY <1>1, <1>3, <1>6, <2>1, <2>2, ConservationSays
  <2>4. 0 \in 0..(MaxPacket + 1) /\ flowcontrolCredits' \in Nat
    BY <1>1, <1>6, <2>1
  <2>5. TypeOK'
    BY <1>1, <1>2, <2>1, <2>4 DEF TypeOK
  <2>6. Hands'
    BY <1>1, <1>2, <2>1 DEF CountInv, Hands
  <2>7. QED
    BY <2>3, <2>5, <2>6 DEF CountInv
<1>9. CASE Test(t)
  <2>1. PICK label \in {"store", "idle"} : pc' = [pc EXCEPT ![t] = label]
    BY <1>9 DEF Test, Goto
  <2>2. /\ pc[t] = "test"
        /\ UNCHANGED <<credits, inFlight, stored, chunks, flowcontrolCredits,
                       creditsToReturn, flowcontrolQ, finish>>
    BY <1>9 DEF Test
  <2>3. CreditConservation'
    BY <1>3, <2>2, ConservationSays
  <2>4. TypeOK'
    BY <1>1, <1>2, <2>1, <2>2 DEF TypeOK
  <2>5. Hands'
    BY <1>2, <2>1, <2>2 DEF CountInv, Hands
  <2>6. QED
    BY <2>3, <2>4, <2>5 DEF CountInv
<1>10. CASE FetchAndStore(t)
  <2>1. /\ pc[t] = "store" /\ pc' = [pc EXCEPT ![t] = "push"]
        /\ creditsToReturn' = [creditsToReturn EXCEPT ![t] = flowcontrolCredits]
        /\ flowcontrolCredits' = 0
        /\ UNCHANGED <<credits, inFlight, stored, chunks, flowcontrolQ, finish>>
    BY <1>10 DEF FetchAndStore, Goto
  <2>2. creditsToReturn[t] = 0
    BY <2>1 DEF CountInv, Hands
  <2>3. SumOf(creditsToReturn') = SumOf(creditsToReturn) + flowcontrolCredits
    <3>1. SumOf(creditsToReturn') = SumOf(creditsToReturn) - creditsToReturn[t]
            + flowcontrolCredits
      BY <1>1, <1>5, <2>1
    <3>2. QED
      BY <1>1, <2>2, <3>1
  <2>4. CreditConservation'
    BY <1>1, <1>3, <2>1, <2>3, ConservationSays
  <2>5. TypeOK'
    BY <1>1, <1>2, <2>1 DEF TypeOK
  <2>6. Hands'
    BY <1>1, <1>2, <2>1 DEF CountInv, Hands
  <2>7. QED
    BY <2>4, <2>5, <2>6 DEF CountInv
<1>11. CASE Push(t)
  <2>1. /\ pc[t] = "push" /\ pc' = [pc EXCEPT ![t] = "idle"]
        /\ flowcontrolQ' = Append(flowcontrolQ, creditsToReturn[t])
        /\ creditsToReturn' = [creditsToReturn EXCEPT ![t] = 0]
        /\ UNCHANGED <<credits, inFlight, stored, chunks, flowcontrolCredits, finish>>
    BY <1>11 DEF Push, Goto
  <2>2. flowcontrolQ' \in Seq(Nat)
        /\ SumOf(flowcontrolQ') = SumOf(flowcontrolQ) + creditsToReturn[t]
    BY <1>2, <1>6, <2>1, SumOfAppend
  <2>3. SumOf(creditsToReturn') = SumOf(creditsToReturn) - creditsToReturn[t]
    <3>1. SumOf(creditsToReturn') = SumOf(creditsToReturn) - creditsToReturn[t] + 0
      BY <1>5, <2>1
    <3>2. QED
      BY <1>1, <1>6, <3>1
  <2>4. CreditConservation'
    BY <1>1, <1>3, <1>6, <2>1, <2>2, <2>3, ConservationSays
  <2>5. TypeOK'
    BY <1>1, <1>2, <2>1, <2>2 DEF TypeOK
  <2>6. Hands'
    BY <1>1, <1>2, <2>1 DEF CountInv, Hands
  <2>7. QED
    BY <2>4, <2>5, <2>6 DEF CountInv
<1>12. QED
  BY <1>7, <1>8, <1>9, <1>10, <1>11 DEF Continue

\* So do the switch and the link: sending, delivering, and taking a message of
\* credits from the queue.
LEMMA FarConserves ==
  ASSUME CountInv, Send \/ Deliver \/ Refill
  PROVE  CountInv'
<1>1. /\ FifoSize \in Nat /\ MaxPacket \in Nat
      /\ credits \in Nat /\ inFlight \in Nat /\ stored \in Nat
      /\ flowcontrolCredits \in Nat
      /\ SumOf(chunks) \in Nat /\ SumOf(creditsToReturn) \in Nat
      /\ SumOf(flowcontrolQ) \in Nat
  BY PlacesAreNumbers DEF CountInv
<1>2. credits + inFlight + stored + SumOf(chunks) + flowcontrolCredits
        + (SumOf(creditsToReturn) + SumOf(flowcontrolQ)) = FifoSize
  BY ConservationSays DEF CountInv
<1>3. Hands'
  <2>1. UNCHANGED <<pc, chunks, creditsToReturn>>
    BY DEF Send, Deliver, Refill, software
  <2>2. QED
    BY <2>1 DEF CountInv, Hands
<1>4. CASE Send \/ Deliver
  <2>1. UNCHANGED <<software, flowcontrolQ, finish>>
    BY <1>4 DEF Send, Deliver
  <2>2. /\ credits' \in Nat /\ inFlight' \in Nat /\ stored' \in Nat
        /\ credits' + inFlight' + stored' = credits + inFlight + stored
    BY <1>1, <1>4 DEF Send, Deliver
  <2>3. CreditConservation'
    BY <1>1, <1>2, <2>1, <2>2, ConservationSays DEF software
  <2>4. TypeOK'
    BY <2>1, <2>2 DEF CountInv, TypeOK, software
  <2>5. QED
    BY <1>3, <2>3, <2>4 DEF CountInv
<1>5. CASE Refill
  <2>1. /\ flowcontrolQ # <<>>
        /\ credits' = credits + Head(flowcontrolQ)
        /\ flowcontrolQ' = Tail(flowcontrolQ)
        /\ UNCHANGED <<inFlight, stored, software>>
    BY <1>5 DEF Refill
  <2>2. flowcontrolQ \in Seq(Nat)
    BY DEF CountInv, TypeOK
  <2>3. /\ Head(flowcontrolQ) \in Nat /\ flowcontrolQ' \in Seq(Nat)
        /\ SumOf(flowcontrolQ') \in Nat
        /\ SumOf(flowcontrolQ) = SumOf(flowcontrolQ') + Head(flowcontrolQ)
    BY <2>1, <2>2, SumOfTail
  <2>4. /\ credits' = credits + Head(flowcontrolQ)
        /\ inFlight' = inFlight /\ stored' = stored
        /\ flowcontrolCredits' = flowcontrolCredits
        /\ SumOf(chunks') = SumOf(chunks)
        /\ SumOf(creditsToReturn') = SumOf(creditsToReturn)
    BY <2>1 DEF software
  <2>5. credits' + inFlight' + stored' + SumOf(chunks') + flowcontrolCredits'
          + (SumOf(creditsToReturn') + SumOf(flowcontrolQ')) = FifoSize
    <3> DEFINE h == Head(flowcontrolQ)
               rest == SumOf(flowcontrolQ')
    <3>1. h \in Nat /\ rest \in Nat /\ SumOf(flowcontrolQ) = rest + h
          /\ credits' = credits + h
      BY <2>3, <2>4
    <3> HIDE DEF h, rest
    <3>2. credits' + inFlight' + stored' + SumOf(chunks') + flowcontrolCredits'
            + (SumOf(creditsToReturn') + rest) = FifoSize
      BY <1>1, <1>2, <2>4, <3>1
    <3>3. QED
      BY <3>2 DEF rest
  <2>6. CreditConservation'
    BY <2>5, ConservationSays
  <2>7. finish' \in BOOLEAN
    BY <1>5 DEF Refill
  <2>8. TypeOK'
    <3>1. credits' \in Nat /\ inFlight' \in Nat /\ stored' \in Nat
      BY <1>1, <2>3, <2>4
    <3>2. UNCHANGED software
      BY <2>1
    <3>3. QED
      BY <1>1, <2>3, <2>7, <3>1, <3>2 DEF CountInv, TypeOK, software
  <2>9. QED
    BY <1>3, <2>6, <2>8 DEF CountInv
<1>6. QED
  BY <1>4, <1>5

\* Initially all credits are with the switch.
LEMMA CountInit ==
  ASSUME Init
  PROVE  CountInv
<1>1. IsFiniteSet(Thread) /\ FifoSize \in Nat \ {0} /\ MaxPacket \in Nat
  BY SoftwareIngressAssumption
<1>2. /\ chunks \in [Thread -> Nat] /\ creditsToReturn \in [Thread -> Nat]
      /\ \A t \in Thread : chunks[t] = 0 /\ creditsToReturn[t] = 0
      /\ pc \in [Thread -> {"idle", "acquire", "test", "store", "push"}]
      /\ flowcontrolQ = <<>> /\ finish = FALSE /\ credits = FifoSize
      /\ inFlight = 0 /\ stored = 0 /\ flowcontrolCredits = 0
  BY DEF Init
<1>3. SumOf(chunks) = 0 /\ SumOf(creditsToReturn) = 0 /\ SumOf(flowcontrolQ) = 0
  BY <1>1, <1>2, SumOfZero, SumOfEmpty
<1>4. CreditConservation
  BY <1>1, <1>2, <1>3, ConservationSays
<1>5. TypeOK
  <2>1. flowcontrolQ \in Seq(Nat)
    BY <1>2
  <2>2. chunks \in [Thread -> 0..(MaxPacket + 1)]
    BY <1>1, <1>2
  <2>3. credits \in Nat /\ inFlight \in Nat /\ stored \in Nat /\ flowcontrolCredits \in Nat
    BY <1>1, <1>2
  <2>4. finish \in BOOLEAN
    BY <1>2, Zenon
  <2>5. QED
    BY <1>2, <2>1, <2>2, <2>3, <2>4 DEF TypeOK
<1>6. Hands
  BY <1>2 DEF Hands
<1>7. QED
  BY <1>4, <1>5, <1>6 DEF CountInv

\* No step loses or repeats a credit.
LEMMA CountStep ==
  ASSUME CountInv, [Next]_vars
  PROVE  CountInv'
<1>1. CASE UNCHANGED vars
  BY <1>1 DEF vars, software, CountInv, TypeOK, CreditConservation, Returning, Hands
<1>2. QED
  BY <1>1, ThreadConserves, FarConserves DEF Next

\* Whatever any number of threads interleave, the state stays well formed and
\* every credit is in one place: this is what is true of the comment "thread safe
\* under idempotence" (flowcontrol-ingress.h).
THEOREM CreditConservationCorrect == Spec => [](TypeOK /\ CreditConservation)
<1>1. Init => CountInv
  BY CountInit
<1>2. CountInv /\ [Next]_vars => CountInv'
  BY CountStep
<1>3. CountInv => TypeOK /\ CreditConservation
  BY DEF CountInv
<1>4. QED
  BY <1>1, <1>2, <1>3, PTL DEF Spec

-----------------------------------------------------------------------------
(***************************************************************************)
(* One thread that receives, for every size of buffer and message: the     *)
(* software keeps the credit protocol, and the egress switch that gets its *)
(* flow control messages is never stopped by one.                          *)
(*                                                                         *)
(* The invariant counts the credits in each place, and says that a batch   *)
(* is above the threshold from the test on until it is with the sender.    *)
(* Two such batches do not fit in the buffer, so at most one message is on *)
(* its way, which is why sums over the queue of messages are sums of one.  *)
(***************************************************************************)

\* The credits on their way in the queue q of at most one message.
Carried(q) == IF q = <<>> THEN 0 ELSE q[1]

\* What each place holds while t is the only thread.
Amounts(t) ==
  /\ credits \in Nat /\ inFlight \in Nat /\ stored \in Nat
  /\ flowcontrolCredits \in Nat
  /\ chunks \in [Thread -> 0..(MaxPacket + 1)]
  /\ creditsToReturn \in [Thread -> Nat]
  /\ pc \in [Thread -> {"idle", "acquire", "test", "store", "push"}]
  /\ flowcontrolQ \in Seq(Nat) /\ Len(flowcontrolQ) <= 1

Balance(t) ==
  credits + inFlight + stored + chunks[t] + flowcontrolCredits
    + creditsToReturn[t] + Carried(flowcontrolQ) = FifoSize

\* A batch is above the threshold wherever it is, and where the thread is says
\* what it has in its hands.
Batches(t) ==
  /\ pc[t] = "store" => flowcontrolCredits > ReturnThreshold
  /\ creditsToReturn[t] = 0 \/ creditsToReturn[t] > ReturnThreshold
  /\ pc[t] = "push" <=> creditsToReturn[t] > 0
  /\ pc[t] # "acquire" => chunks[t] = 0
  /\ flowcontrolQ # <<>> => flowcontrolQ[1] > ReturnThreshold

OneInv(t) == Amounts(t) /\ Balance(t) /\ Batches(t)

\* The sum over a queue of at most one message is what that message carries.
LEMMA SumOfFew ==
  ASSUME NEW q \in Seq(Nat), Len(q) <= 1
  PROVE  SumOf(q) = Carried(q) /\ Carried(q) \in Nat
<1>1. CASE q = <<>>
  BY <1>1, SumOfEmpty DEF Carried
<1>2. CASE q # <<>>
  <2>1. Len(q) \in Nat \ {0}
    <3> DEFINE N == Nat
    <3>1. q \in Seq(N)
      OBVIOUS
    <3> HIDE DEF N
    <3>2. QED
      BY <1>2, <3>1, EmptySeq
  <2>2. Len(q) = 1 /\ Head(q) = q[1]
    <3>1. Len(q) = 1
      <4> DEFINE n == Len(q)
      <4>1. n \in Nat \ {0} /\ n <= 1
        BY <2>1
      <4> HIDE DEF n
      <4>2. n = 1
        BY <4>1
      <4>3. QED
        BY <4>2 DEF n
    <3>2. Head(q) = q[1]
      OBVIOUS
    <3>3. QED
      BY <3>1, <3>2
  <2>3. /\ Head(q) \in Nat /\ SumOf(q) = SumOf(Tail(q)) + Head(q)
        /\ Tail(q) \in Seq(Nat)
    BY <1>2, SumOfTail
  <2>4. Len(Tail(q)) = 0
    BY <1>2, <2>2, HeadTailProperties
  <2>5. Tail(q) = <<>>
    BY <2>3, <2>4, EmptySeq
  <2>6. SumOf(Tail(q)) = 0
    BY <2>5, SumOfEmpty
  <2>7. QED
    BY <1>2, <2>2, <2>3, <2>6 DEF Carried
<1>3. QED
  BY <1>1, <1>2

\* The other threads have nothing in their hands.
Alone(t) ==
  \A u \in Thread \ {t} : pc[u] = "idle" /\ chunks[u] = 0 /\ creditsToReturn[u] = 0

\* They have none because they are never handed a message.
OnlyRuns(t) == \A u \in Thread \ {t} : pc[u] = "idle"

-----------------------------------------------------------------------------
(* One lemma per operation.                                                *)

\* What the arithmetic of a step needs of the state before it.
LEMMA AmountsCount ==
  ASSUME NEW t \in Thread, OneInv(t)
  PROVE  /\ credits \in Nat /\ inFlight \in Nat /\ stored \in Nat
         /\ flowcontrolCredits \in Nat /\ chunks[t] \in 0..(MaxPacket + 1)
         /\ creditsToReturn[t] \in Nat /\ Carried(flowcontrolQ) \in Nat
         /\ FifoSize \in Nat /\ MaxPacket \in Nat
         /\ ReturnThreshold \in Nat /\ FifoSize <= 2 * ReturnThreshold + 1
<1>1. Carried(flowcontrolQ) \in Nat
  <2>1. CASE flowcontrolQ = <<>>
    BY <2>1 DEF Carried
  <2>2. CASE flowcontrolQ # <<>>
    <3>1. 1 \in 1..Len(flowcontrolQ)
      BY <2>2, EmptySeq DEF OneInv, Amounts
    <3>2. QED
      BY <2>2, <3>1, ElementOfSeq DEF Carried, OneInv, Amounts
  <2>3. QED
    BY <2>1, <2>2
<1>2. QED
  BY <1>1, SoftwareIngressAssumption DEF OneInv, Amounts, ReturnThreshold

\* The steps of the thread that leave the messages alone.
LEMMA OneThreadStep ==
  ASSUME NEW t \in Thread, OneInv(t),
         Handle(t) \/ AcquireCredits(t) \/ Test(t) \/ FetchAndStore(t)
  PROVE  OneInv(t)'
<1> USE DEF OneInv, Amounts, Balance, Batches, Goto
<1>1. /\ credits \in Nat /\ inFlight \in Nat /\ stored \in Nat
      /\ flowcontrolCredits \in Nat /\ chunks[t] \in 0..(MaxPacket + 1)
      /\ creditsToReturn[t] \in Nat /\ Carried(flowcontrolQ) \in Nat
      /\ FifoSize \in Nat /\ MaxPacket \in Nat /\ ReturnThreshold \in Nat
  BY AmountsCount
<1>2. CASE Handle(t)
  <2>1. PICK n \in 1..(MaxPacket + 1) :
          /\ n <= stored /\ stored' = stored - n
          /\ chunks' = [chunks EXCEPT ![t] = n]
    BY <1>2 DEF Handle
  <2>2. pc[t] = "idle" /\ chunks[t] = 0 /\ pc' = [pc EXCEPT ![t] = "acquire"]
        /\ UNCHANGED <<credits, inFlight, flowcontrolCredits, creditsToReturn, flowcontrolQ>>
    BY <1>2 DEF Handle
  <2>3. QED
    BY <1>1, <2>1, <2>2
<1>3. CASE AcquireCredits(t)
  <2>1. /\ pc[t] = "acquire" /\ pc' = [pc EXCEPT ![t] = "test"]
        /\ flowcontrolCredits' = flowcontrolCredits + chunks[t]
        /\ chunks' = [chunks EXCEPT ![t] = 0]
        /\ UNCHANGED <<credits, inFlight, stored, creditsToReturn, flowcontrolQ>>
    BY <1>3 DEF AcquireCredits
  <2>2. chunks'[t] = 0 /\ 0 \in 0..(MaxPacket + 1)
    BY <1>1, <2>1
  <2>3. flowcontrolCredits' \in Nat
    BY <1>1, <2>1
  <2>4. Balance(t)
    OBVIOUS
  <2>5. Balance(t)'
    BY <1>1, <2>1, <2>2, <2>4
  <2>6. Amounts(t)'
    BY <2>1, <2>2, <2>3
  <2>7. Batches(t)'
    BY <2>1, <2>2
  <2>8. QED
    BY <2>5, <2>6, <2>7
<1>4. CASE Test(t)
  <2>1. /\ pc[t] = "test"
        /\ pc' = [pc EXCEPT ![t] = IF flowcontrolCredits > ReturnThreshold
                                   THEN "store" ELSE "idle"]
        /\ UNCHANGED <<credits, inFlight, stored, chunks, flowcontrolCredits,
                       creditsToReturn, flowcontrolQ>>
    BY <1>4 DEF Test
  <2>2. QED
    BY <1>1, <2>1
<1>5. CASE FetchAndStore(t)
  <2>1. /\ pc[t] = "store" /\ pc' = [pc EXCEPT ![t] = "push"]
        /\ creditsToReturn' = [creditsToReturn EXCEPT ![t] = flowcontrolCredits]
        /\ flowcontrolCredits' = 0
        /\ UNCHANGED <<credits, inFlight, stored, chunks, flowcontrolQ>>
    BY <1>5 DEF FetchAndStore
  <2>2. creditsToReturn[t] = 0 /\ flowcontrolCredits > ReturnThreshold
    BY <1>1, <2>1
  <2>3. QED
    BY <1>1, <2>1, <2>2
<1>6. QED
  BY <1>2, <1>3, <1>4, <1>5

\* While a batch is in the thread's hands no message is on its way.
LEMMA NoSecondBatch ==
  ASSUME NEW t \in Thread, OneInv(t), creditsToReturn[t] > 0
  PROVE  flowcontrolQ = <<>>
<1>1. SUFFICES ASSUME flowcontrolQ # <<>> PROVE FALSE
  OBVIOUS
<1>2. creditsToReturn[t] > ReturnThreshold /\ Carried(flowcontrolQ) > ReturnThreshold
  BY <1>1, AmountsCount DEF OneInv, Batches, Carried
<1>3. QED
  BY <1>2, AmountsCount DEF OneInv, Balance

\* The message goes into an empty queue.
LEMMA PushStep ==
  ASSUME NEW t \in Thread, OneInv(t), Push(t)
  PROVE  /\ OneInv(t)'
         /\ UNCHANGED <<credits, inFlight, stored, chunks, flowcontrolCredits>>
         /\ creditsToReturn'[t] + Carried(flowcontrolQ')
              = creditsToReturn[t] + Carried(flowcontrolQ)
<1>1. /\ pc[t] = "push" /\ pc' = [pc EXCEPT ![t] = "idle"]
      /\ flowcontrolQ' = Append(flowcontrolQ, creditsToReturn[t])
      /\ creditsToReturn' = [creditsToReturn EXCEPT ![t] = 0]
      /\ UNCHANGED <<credits, inFlight, stored, chunks, flowcontrolCredits>>
  BY DEF Push, Goto
<1>2. creditsToReturn[t] > ReturnThreshold /\ creditsToReturn[t] > 0
  BY <1>1, AmountsCount DEF OneInv, Batches
<1>3. flowcontrolQ = <<>>
  BY <1>2, NoSecondBatch
<1>4. /\ flowcontrolQ' = <<creditsToReturn[t]>> /\ flowcontrolQ' # <<>>
      /\ flowcontrolQ' \in Seq(Nat) /\ Len(flowcontrolQ') = 1
      /\ flowcontrolQ'[1] = creditsToReturn[t]
  <2>1. creditsToReturn[t] \in Nat
    BY AmountsCount
  <2>2. flowcontrolQ' = <<creditsToReturn[t]>>
    BY <1>1, <1>3
  <2>3. QED
    BY <2>1, <2>2
<1>5. Carried(flowcontrolQ') = creditsToReturn[t] /\ Carried(flowcontrolQ) = 0
  BY <1>3, <1>4 DEF Carried
<1>6. creditsToReturn'[t] = 0
  BY <1>1 DEF OneInv, Amounts
<1>7. Amounts(t)' /\ Batches(t)'
  BY <1>1, <1>2, <1>4, <1>6 DEF OneInv, Amounts, Batches
<1>8. Balance(t)'
  BY <1>1, <1>5, <1>6, AmountsCount, SMTT(30) DEF OneInv, Balance
<1>9. QED
  BY <1>1, <1>5, <1>6, <1>7, <1>8, AmountsCount DEF OneInv

\* The switch sends and the link delivers.
LEMMA FarStep ==
  ASSUME NEW t \in Thread, OneInv(t), Send \/ Deliver
  PROVE  OneInv(t)'
<1>1. UNCHANGED <<chunks, flowcontrolCredits, pc, creditsToReturn, flowcontrolQ>>
  BY DEF Send, Deliver, software
<1>2. /\ credits' \in Nat /\ inFlight' \in Nat /\ stored' \in Nat
      /\ credits' + inFlight' + stored' = credits + inFlight + stored
  BY AmountsCount DEF Send, Deliver
<1>3. QED
  BY <1>1, <1>2, AmountsCount DEF OneInv, Amounts, Balance, Batches

\* A refill gives the switch one batch, which leaves the queue empty.
LEMMA RefillStep ==
  ASSUME NEW t \in Thread, OneInv(t), Refill
  PROVE  /\ OneInv(t)'
         /\ flowcontrolQ # <<>> /\ flowcontrolQ' = <<>>
         /\ Carried(flowcontrolQ) > ReturnThreshold
         /\ credits' = credits + Carried(flowcontrolQ)
         /\ finish' = (finish \/ credits' < MaxPacket \/ credits' > FifoSize)
         /\ UNCHANGED <<inFlight, stored, software>>
<1>1. /\ flowcontrolQ # <<>>
      /\ credits' = credits + Head(flowcontrolQ)
      /\ flowcontrolQ' = Tail(flowcontrolQ)
      /\ UNCHANGED <<inFlight, stored, software>>
  BY DEF Refill
<1>2. /\ flowcontrolQ \in Seq(Nat) /\ Len(flowcontrolQ) <= 1
      /\ Head(flowcontrolQ) = Carried(flowcontrolQ)
  BY <1>1 DEF OneInv, Amounts, Carried
<1>3. flowcontrolQ' = <<>>
  <2>1. flowcontrolQ' \in Seq(Nat) /\ Len(flowcontrolQ') = Len(flowcontrolQ) - 1
    BY <1>1, <1>2, HeadTailProperties
  <2>2. Len(flowcontrolQ') \notin Nat \ {0}
    BY <1>2, <2>1, LenProperties
  <2>3. QED
    BY <2>1, <2>2, EmptySeq
<1>4. Carried(flowcontrolQ) > ReturnThreshold /\ Carried(flowcontrolQ') = 0
  BY <1>1, <1>3 DEF OneInv, Batches, Carried
<1>5. flowcontrolQ' \in Seq(Nat) /\ Len(flowcontrolQ') <= 1
  BY <1>3
<1>6. Amounts(t)' /\ Batches(t)'
  BY <1>1, <1>2, <1>3, <1>5, AmountsCount DEF OneInv, Amounts, Batches, software
<1>7. Balance(t)'
  <2>1. /\ credits' = credits + Carried(flowcontrolQ) /\ Carried(flowcontrolQ') = 0
        /\ UNCHANGED <<inFlight, stored, chunks, flowcontrolCredits, creditsToReturn>>
    BY <1>1, <1>2, <1>4 DEF software
  <2>2. Balance(t)
    BY DEF OneInv
  <2>3. QED
    BY <2>1, <2>2, AmountsCount DEF Balance
<1>8. finish' = (finish \/ credits' < MaxPacket \/ credits' > FifoSize)
  BY DEF Refill
<1>9. QED
  BY <1>1, <1>2, <1>3, <1>4, <1>6, <1>7, <1>8 DEF OneInv

\* Initially nobody has anything in hand.
LEMMA OneInit ==
  ASSUME NEW t \in Thread, Init
  PROVE  OneInv(t) /\ Alone(t) /\ NeverFinishes
BY SoftwareIngressAssumption, EmptySeq
   DEF Init, OneInv, Amounts, Balance, Batches, Carried, Alone, NeverFinishes

\* A step of the thread itself leaves the others as they are, and a step that
\* another thread could take, the handing over of a message, is no step of a
\* behaviour in which only one runs.
LEMMA AloneStep ==
  ASSUME NEW t \in Thread, OneInv(t), Alone(t), [Next]_vars, OnlyRuns(t)'
  PROVE  /\ Alone(t)'
         /\ \/ Handle(t) \/ Continue(t)
            \/ Send \/ Deliver \/ Refill \/ UNCHANGED vars
<1> USE DEF OneInv, Amounts, Alone, OnlyRuns
<1>1. ASSUME NEW u \in Thread, Handle(u) \/ Continue(u)
      PROVE  u = t
  <2> SUFFICES ASSUME u # t PROVE FALSE
    OBVIOUS
  <2>1. pc[u] = "idle" /\ pc'[u] = "idle"
    OBVIOUS
  <2>2. pc' = [pc EXCEPT ![u] = "acquire"]
    BY <1>1, <2>1 DEF Continue, AcquireCredits, Test, FetchAndStore, Push, Handle, Goto
  <2>3. QED
    BY <2>1, <2>2
<1>2. \/ Handle(t) \/ Continue(t) \/ Send \/ Deliver \/ Refill \/ UNCHANGED vars
  BY <1>1 DEF Next
<1>3. CASE Handle(t) \/ Continue(t)
  <2>1. ASSUME NEW u \in Thread \ {t}
        PROVE  pc'[u] = pc[u] /\ chunks'[u] = chunks[u]
               /\ creditsToReturn'[u] = creditsToReturn[u]
    BY <1>3 DEF Handle, Continue, AcquireCredits, Test, FetchAndStore, Push, Goto
  <2>2. QED
    BY <1>2, <2>1
<1>4. CASE Send \/ Deliver \/ Refill \/ UNCHANGED vars
  BY <1>2, <1>4 DEF Send, Deliver, Refill, vars, software
<1>5. QED
  BY <1>2, <1>3, <1>4

\* Every step keeps the invariant.
LEMMA OneStep ==
  ASSUME NEW t \in Thread, OneInv(t), Alone(t), [Next]_vars, OnlyRuns(t)'
  PROVE  OneInv(t)' /\ Alone(t)'
<1>1. /\ Alone(t)'
      /\ \/ Handle(t) \/ Continue(t)
         \/ Send \/ Deliver \/ Refill \/ UNCHANGED vars
  BY AloneStep
<1>2. CASE Handle(t) \/ AcquireCredits(t) \/ Test(t) \/ FetchAndStore(t)
  BY <1>1, <1>2, OneThreadStep
<1>3. CASE Push(t)
  BY <1>1, <1>3, PushStep
<1>4. CASE Send \/ Deliver
  BY <1>1, <1>4, FarStep
<1>5. CASE Refill
  BY <1>1, <1>5, RefillStep
<1>6. CASE UNCHANGED vars
  BY <1>1, <1>6 DEF vars, software, OneInv, Amounts, Balance, Batches
<1>7. QED
  BY <1>1, <1>2, <1>3, <1>4, <1>5, <1>6 DEF Continue

\* The sums of the model are those of the invariant.
SumsAgree(t) ==
  /\ SumOf(chunks) = chunks[t]
  /\ Returning = creditsToReturn[t] + Carried(flowcontrolQ)

\* When all that is in hand is in one thread's, and one message on its way.
LEMMA SumsOfOne ==
  ASSUME NEW t \in Thread,
         NEW c \in [Thread -> Nat], \A u \in Thread \ {t} : c[u] = 0,
         NEW r \in [Thread -> Nat], \A u \in Thread \ {t} : r[u] = 0,
         NEW q \in Seq(Nat), Len(q) <= 1
  PROVE  SumOf(c) = c[t] /\ SumOf(r) + SumOf(q) = r[t] + Carried(q)
<1>1. IsFiniteSet(Thread)
  BY SoftwareIngressAssumption
<1>2. SumOf(c) = c[t]
  BY <1>1, SumOfOne
<1>3. SumOf(r) = r[t]
  BY <1>1, SumOfOne
<1>4. SumOf(q) = Carried(q)
  BY SumOfFew
<1>5. QED
  BY <1>2, <1>3, <1>4

\* A sum over threads of which one has something is what that one has.
LEMMA SumsAgreeFollows ==
  ASSUME NEW t \in Thread, OneInv(t), Alone(t)
  PROVE  SumsAgree(t)
<1>1. chunks \in [Thread -> Nat] /\ creditsToReturn \in [Thread -> Nat]
  BY SoftwareIngressAssumption DEF OneInv, Amounts
<1>2. \A u \in Thread \ {t} : chunks[u] = 0 /\ creditsToReturn[u] = 0
  BY DEF Alone
<1>3. flowcontrolQ \in Seq(Nat) /\ Len(flowcontrolQ) <= 1
  BY DEF OneInv, Amounts
<1>4. /\ SumOf(chunks) = chunks[t]
      /\ SumOf(creditsToReturn) + SumOf(flowcontrolQ) = creditsToReturn[t] + Carried(flowcontrolQ)
  BY <1>1, <1>2, <1>3, SumsOfOne
<1>5. QED
  BY <1>4 DEF SumsAgree, Returning

\* The same of the state after a step.
LEMMA SumsAgreeNext ==
  ASSUME NEW t \in Thread, OneInv(t)', Alone(t)'
  PROVE  SumsAgree(t)'
<1>1. chunks' \in [Thread -> Nat] /\ creditsToReturn' \in [Thread -> Nat]
  BY SoftwareIngressAssumption DEF OneInv, Amounts
<1>2. \A u \in Thread \ {t} : chunks'[u] = 0 /\ creditsToReturn'[u] = 0
  BY DEF Alone
<1>3. flowcontrolQ' \in Seq(Nat) /\ Len(flowcontrolQ') <= 1
  BY DEF OneInv, Amounts
<1>4. /\ SumOf(chunks') = chunks'[t]
      /\ SumOf(creditsToReturn') + SumOf(flowcontrolQ') = creditsToReturn'[t] + Carried(flowcontrolQ')
  BY <1>1, <1>2, <1>3, SumsOfOne
<1>5. QED
  BY <1>4 DEF SumsAgree, Returning

\* No message that the only thread returned makes the switch finish.
LEMMA NeverFinishesStep ==
  ASSUME NEW t \in Thread, OneInv(t), Alone(t), NeverFinishes,
         [Next]_vars, OnlyRuns(t)', MaxPacket <= ReturnThreshold + 1
  PROVE  NeverFinishes'
<1>1. CASE Refill
  <2>1. /\ OneInv(t)'
        /\ Carried(flowcontrolQ) > ReturnThreshold
        /\ credits' = credits + Carried(flowcontrolQ)
        /\ finish' = (finish \/ credits' < MaxPacket \/ credits' > FifoSize)
    BY <1>1, RefillStep
  <2>2. ~(credits' < MaxPacket)
    BY <2>1, AmountsCount
  <2>3. ~(credits' > FifoSize)
    <3>1. credits + inFlight + stored + chunks[t] + flowcontrolCredits
            + creditsToReturn[t] + Carried(flowcontrolQ) = FifoSize
      BY DEF OneInv, Balance
    <3>2. credits + Carried(flowcontrolQ) <= FifoSize
      BY <3>1, AmountsCount
    <3>3. credits' <= FifoSize /\ credits' \in Nat /\ FifoSize \in Nat
      BY <2>1, <3>2, AmountsCount
    <3>4. QED
      BY <3>3
  <2>4. QED
    BY <2>1, <2>2, <2>3 DEF NeverFinishes
<1>2. CASE \/ \E u \in Thread : Handle(u) \/ Continue(u)
           \/ Send \/ Deliver \/ UNCHANGED vars
  <2>1. finish' = finish
    BY <1>2 DEF Handle, Continue, AcquireCredits, Test, FetchAndStore, Push, Send,
       Deliver, vars
  <2>2. QED
    BY <2>1 DEF NeverFinishes
<1>3. QED
  BY <1>1, <1>2 DEF Next

\* No flow control message of a single receiving thread reaches the $finish of
\* scan_responses, as long as the largest packet is no larger than a batch.
THEOREM NeverFinishesCorrect ==
  ASSUME NEW t \in Thread, MaxPacket <= ReturnThreshold + 1
  PROVE  Spec /\ []OnlyRuns(t) => []NeverFinishes
<1>1. Init => OneInv(t) /\ Alone(t) /\ NeverFinishes
  BY OneInit
<1>2. OneInv(t) /\ Alone(t) /\ NeverFinishes /\ [Next]_vars /\ OnlyRuns(t)'
        => OneInv(t)' /\ Alone(t)' /\ NeverFinishes'
  BY OneStep, NeverFinishesStep
<1>3. QED
  BY <1>1, <1>2, PTL DEF Spec

-----------------------------------------------------------------------------
(* The refinement: a message in the thread's hands counts as stored, and a *)
(* batch it has taken as returning.                                        *)

\* Steps of the thread: handing over a message and pushing the batch change
\* nothing, counting frees slots, taking the count is the return.
LEMMA ThreadRefines ==
  ASSUME NEW t \in Thread, OneInv(t), SumsAgree(t), SumsAgree(t)',
         Handle(t) \/ Continue(t)
  PROVE  Protocol!Next \/ UNCHANGED Protocol!vars
<1> USE DEF SumsAgree
<1>1. /\ credits \in Nat /\ inFlight \in Nat /\ stored \in Nat
      /\ flowcontrolCredits \in Nat /\ chunks[t] \in 0..(MaxPacket + 1)
      /\ creditsToReturn[t] \in Nat /\ Carried(flowcontrolQ) \in Nat
      /\ MaxPacket \in Nat /\ ReturnThreshold \in Nat
  BY AmountsCount
<1>2. /\ chunks \in [Thread -> 0..(MaxPacket + 1)]
      /\ creditsToReturn \in [Thread -> Nat]
  BY DEF OneInv, Amounts
<1>3. CASE Handle(t)
  <2>1. PICK n \in 1..(MaxPacket + 1) :
          /\ stored' = stored - n /\ chunks' = [chunks EXCEPT ![t] = n]
    BY <1>3 DEF Handle
  <2>2. chunks[t] = 0
        /\ UNCHANGED <<credits, inFlight, flowcontrolCredits, creditsToReturn, flowcontrolQ>>
    BY <1>3 DEF Handle, OneInv, Batches
  <2>3. stored' + SumOf(chunks)' = stored + SumOf(chunks) /\ Returning' = Returning
    BY <1>1, <1>2, <2>1, <2>2
  <2>4. QED
    BY <2>2, <2>3 DEF Protocol!vars
<1>4. CASE AcquireCredits(t)
  <2>1. /\ flowcontrolCredits' = flowcontrolCredits + chunks[t]
        /\ chunks'[t] = 0
        /\ UNCHANGED <<credits, inFlight, stored, creditsToReturn, flowcontrolQ>>
    BY <1>2, <1>4 DEF AcquireCredits
  <2>2. Returning' = Returning /\ SumOf(chunks)' = 0 /\ SumOf(chunks) = chunks[t]
    BY <2>1
  <2>3. Protocol!Step(0, chunks[t], {})
    BY <1>1, <2>1, <2>2 DEF Protocol!Step, Protocol!May, Protocol!MaySend,
       Protocol!MayReturn, Protocol!Free, Protocol!On
  <2>4. 0 \in Protocol!Amounts /\ chunks[t] \in Protocol!Amounts
    BY <1>1 DEF Protocol!Amounts
  <2>5. QED
    BY <2>3, <2>4 DEF Protocol!Next
<1>5. CASE Test(t)
  <2>1. UNCHANGED <<credits, inFlight, stored, chunks, flowcontrolCredits,
                    creditsToReturn, flowcontrolQ>>
    BY <1>5 DEF Test
  <2>2. Returning' = Returning /\ SumOf(chunks)' = SumOf(chunks)
    BY <2>1
  <2>3. QED
    BY <2>1, <2>2 DEF Protocol!vars
<1>6. CASE FetchAndStore(t)
  <2>1. /\ pc[t] = "store"
        /\ creditsToReturn'[t] = flowcontrolCredits /\ flowcontrolCredits' = 0
        /\ UNCHANGED <<credits, inFlight, stored, chunks, flowcontrolQ>>
    BY <1>2, <1>6 DEF FetchAndStore
  <2>2. creditsToReturn[t] = 0 /\ flowcontrolCredits > ReturnThreshold
    BY <1>1, <2>1 DEF OneInv, Batches
  <2>3. /\ Returning' = Returning + flowcontrolCredits
        /\ SumOf(chunks)' = SumOf(chunks) /\ SumOf(chunks) \in Nat
        /\ Returning \in Nat
    BY <1>1, <2>1, <2>2
  <2>4. Protocol!Step(0, 0, {"return"})
    BY <1>1, <2>1, <2>2, <2>3 DEF Protocol!Step, Protocol!May, Protocol!MaySend,
       Protocol!MayReturn, Protocol!Free, Protocol!On
  <2>5. 0 \in Protocol!Amounts /\ {"return"} \in SUBSET Protocol!Events
    BY <1>1 DEF Protocol!Amounts, Protocol!Events
  <2>6. QED
    BY <2>4, <2>5 DEF Protocol!Next
<1>7. CASE Push(t)
  <2>1. /\ UNCHANGED <<credits, inFlight, stored, chunks, flowcontrolCredits>>
        /\ creditsToReturn'[t] + Carried(flowcontrolQ')
             = creditsToReturn[t] + Carried(flowcontrolQ)
    BY <1>7, PushStep
  <2>2. Returning' = Returning /\ SumOf(chunks)' = SumOf(chunks)
    BY <2>1
  <2>3. QED
    BY <2>1, <2>2 DEF Protocol!vars
<1>8. QED
  BY <1>3, <1>4, <1>5, <1>6, <1>7 DEF Continue

\* Steps of the switch and the link.
LEMMA FarRefines ==
  ASSUME NEW t \in Thread, OneInv(t), SumsAgree(t), SumsAgree(t)',
         Send \/ Deliver \/ Refill
  PROVE  Protocol!Next
<1> USE DEF SumsAgree
<1>1. /\ credits \in Nat /\ inFlight \in Nat /\ stored \in Nat
      /\ flowcontrolCredits \in Nat /\ chunks[t] \in 0..(MaxPacket + 1)
      /\ creditsToReturn[t] \in Nat /\ Carried(flowcontrolQ) \in Nat
      /\ MaxPacket \in Nat /\ ReturnThreshold \in Nat
  BY AmountsCount
<1>2. /\ 0 \in Protocol!Amounts
      /\ {"deliver"} \in SUBSET Protocol!Events /\ {"refill"} \in SUBSET Protocol!Events
      /\ {} \in SUBSET Protocol!Events
  BY <1>1 DEF Protocol!Amounts, Protocol!Events
<1>3. SumOf(chunks) \in Nat /\ Returning \in Nat
  BY <1>1
<1>4. CASE Send
  <2>1. PICK k \in 1..(MaxPacket + 1) : credits' = credits - k /\ inFlight' = inFlight + k
    BY <1>4 DEF Send
  <2>2. credits >= MaxPacket + 1 /\ UNCHANGED <<stored, software, flowcontrolQ>>
    BY <1>4 DEF Send
  <2>3. SumOf(chunks)' = SumOf(chunks) /\ Returning' = Returning
        /\ flowcontrolCredits' = flowcontrolCredits /\ stored' = stored
    BY <2>2 DEF software
  <2>4. Protocol!Step(k, 0, {})
    BY <1>1, <1>3, <2>1, <2>2, <2>3 DEF Protocol!Step, Protocol!May, Protocol!MaySend,
       Protocol!MayReturn, Protocol!Free, Protocol!On
  <2>5. k \in Protocol!Amounts
    BY <1>1 DEF Protocol!Amounts
  <2>6. QED
    BY <1>2, <2>4, <2>5 DEF Protocol!Next
<1>5. CASE Deliver
  <2>1. SumOf(chunks)' = SumOf(chunks) /\ Returning' = Returning
        /\ flowcontrolCredits' = flowcontrolCredits
    BY <1>5 DEF Deliver, software
  <2>2. Protocol!Step(0, 0, {"deliver"})
    BY <1>1, <1>3, <1>5, <2>1 DEF Deliver, Protocol!Step, Protocol!May,
       Protocol!MaySend, Protocol!MayReturn, Protocol!Free, Protocol!On
  <2>3. QED
    BY <1>2, <2>2 DEF Protocol!Next
<1>6. CASE Refill
  <2>1. /\ flowcontrolQ # <<>> /\ flowcontrolQ' = <<>>
        /\ Carried(flowcontrolQ) > ReturnThreshold
        /\ credits' = credits + Carried(flowcontrolQ)
        /\ UNCHANGED <<inFlight, stored, software>>
    BY <1>6, RefillStep
  <2>2. creditsToReturn[t] = 0
    BY <1>1, <2>1, NoSecondBatch
  <2>3. Carried(flowcontrolQ') = 0
    BY <2>1 DEF Carried
  <2>4. /\ SumOf(chunks)' = SumOf(chunks) /\ Returning = Carried(flowcontrolQ)
        /\ Returning' = 0 /\ Returning > 0
        /\ flowcontrolCredits' = flowcontrolCredits /\ stored' = stored
    BY <1>1, <2>1, <2>2, <2>3 DEF software
  <2>5. /\ credits' = credits + Returning /\ inFlight' = inFlight
        /\ stored' + SumOf(chunks)' = stored + SumOf(chunks)
    BY <2>1, <2>4
  <2> HIDE DEF SumsAgree
  <2>6. Protocol!Step(0, 0, {"refill"})
    BY <1>1, <1>3, <2>4, <2>5 DEF Protocol!Step, Protocol!May, Protocol!MaySend,
       Protocol!MayReturn, Protocol!Free, Protocol!On
  <2>7. QED
    BY <1>2, <2>6 DEF Protocol!Next
<1>7. QED
  BY <1>4, <1>5, <1>6

\* Nothing is on its way at first.
LEMMA InitRefines ==
  ASSUME NEW t \in Thread, Init
  PROVE  Protocol!Init
<1>1. OneInv(t) /\ Alone(t)
  BY OneInit
<1>2. SumsAgree(t)
  BY <1>1, SumsAgreeFollows
<1>3. QED
  BY <1>2, SoftwareIngressAssumption DEF Init, SumsAgree, Carried, Protocol!Init

\* Every step of the only thread that runs, or of the far side, is one of the
\* protocol or none.
LEMMA StepRefines ==
  ASSUME NEW t \in Thread, OneInv(t), Alone(t), OneInv(t)', Alone(t)',
         [Next]_vars, OnlyRuns(t)'
  PROVE  [Protocol!Next]_Protocol!vars
<1>1. SumsAgree(t)
  BY SumsAgreeFollows
<1>2. SumsAgree(t)'
  BY SumsAgreeNext
<1>3. \/ Handle(t) \/ Continue(t) \/ Send \/ Deliver \/ Refill \/ UNCHANGED vars
  BY AloneStep
<1>4. CASE Handle(t) \/ Continue(t)
  BY <1>1, <1>2, <1>4, ThreadRefines
<1>5. CASE Send \/ Deliver \/ Refill
  BY <1>1, <1>2, <1>5, FarRefines
<1>6. CASE UNCHANGED vars
  <2>1. SumOf(chunks)' = SumOf(chunks) /\ Returning' = Returning
    BY <1>6 DEF vars, software, Returning
  <2>2. QED
    BY <1>6, <2>1 DEF vars, software, Protocol!vars
<1>7. QED
  BY <1>3, <1>4, <1>5, <1>6

\* A single receiving thread, atomic operation by atomic operation, does nothing
\* that the switch at the other end of the channel does not rely on.
THEOREM ImplementsCreditProtocolCorrect ==
  ASSUME NEW t \in Thread
  PROVE  Spec /\ []OnlyRuns(t) => ImplementsCreditProtocol
<1>1. Init => OneInv(t) /\ Alone(t) /\ Protocol!Init
  BY OneInit, InitRefines
<1>2. OneInv(t) /\ Alone(t) /\ [Next]_vars /\ OnlyRuns(t)' => OneInv(t)' /\ Alone(t)'
  BY OneStep
<1>3. OneInv(t) /\ Alone(t) /\ OneInv(t)' /\ Alone(t)' /\ [Next]_vars /\ OnlyRuns(t)'
        => [Protocol!Next]_Protocol!vars
  BY StepRefines
<1>4. QED
  BY <1>1, <1>2, <1>3, PTL DEF Spec, ImplementsCreditProtocol, Protocol!Spec

-----------------------------------------------------------------------------
(***************************************************************************)
(* The parts together.  Each is one of those that theorems are about here, *)
(* in SoftwareEgressProofs and in ServiceProofs, with sizes of its own; a  *)
(* step moves one of them and leaves the others as they are, so that the   *)
(* invariants of all hold together.                                        *)
(***************************************************************************)

\* The theorems about the sender and the pointer switch, with the sizes of the runs.
Sent == INSTANCE SoftwareEgressProofs WITH
  Thread <- Senders, Retries <- 2, CounterMod <- 64,
  flowcontrolCredits <- sendCredits, pc <- sendPc, inFlight <- sent, stored <- farStored,
  Channel <- {c1, c2, fc}, FC <- fc, OutFifoSize <- 11, OutMinBuffer <- 3,
  MaxMessage <- 2, MaxReturns <- 1,
  InChannel <- {c1, fc}, InFC <- fc, InFifoSize <- 9, InMinBuffer <- 1, MaxChunks <- 1

\* The instance that the runs check and the one that the lemmas are about are the
\* same specification.
LEMMA SenderIs ==
  /\ Egress!SoftwareEgressAssumption => Sent!SoftwareEgressAssumption
  /\ Egress!Init => Sent!Init
BY DEF Egress!SoftwareEgressAssumption, Sent!SoftwareEgressAssumption, Egress!Init, Sent!Init,
  Egress!IsFiniteSet, Sent!IsFiniteSet

\* So are their steps.
LEMMA SenderNext == 
  Egress!Next => Sent!Next
<1>1. \A t : Egress!Grab(t) => Sent!Grab(t)
  BY DEF Egress!Grab, Sent!Grab, Egress!FetchAndAdd, Sent!FetchAndAdd, Egress!Goto, Sent!Goto,
    Egress!Acquired, Sent!Acquired, Egress!farSide, Sent!farSide
<1>2. \A t : Egress!Restore(t) => Sent!Restore(t)
  BY DEF Egress!Restore, Sent!Restore, Egress!FetchAndAdd, Sent!FetchAndAdd, Egress!Goto,
       Sent!Goto,
    Egress!farSide, Sent!farSide
<1>3. \A t : Egress!Lock(t) \/ Egress!Check(t) => Sent!Lock(t) \/ Sent!Check(t)
  BY DEF Egress!Lock, Sent!Lock, Egress!Check, Sent!Check, Egress!Goto, Sent!Goto,
    Egress!farSide, Sent!farSide
<1>4. \A t : Egress!Take(t) => Sent!Take(t)
  BY DEF Egress!Take, Sent!Take, Egress!FetchAndAdd, Sent!FetchAndAdd, Egress!Goto, Sent!Goto,
    Egress!Acquired, Sent!Acquired
<1>5. \A t, n : Egress!Call(t, n) => Sent!Call(t, n)
  BY DEF Egress!Call, Sent!Call, Egress!Goto, Sent!Goto, Egress!farSide, Sent!farSide
<1>6. \A t : Egress!SpuriousWakeup(t) => Sent!SpuriousWakeup(t)
  BY DEF Egress!SpuriousWakeup, Sent!SpuriousWakeup, Egress!Goto, Sent!Goto, Egress!farSide,
       Sent!farSide
<1>7. Egress!AddCredits \/ Egress!NotifyAll => Sent!AddCredits \/ Sent!NotifyAll
  BY DEF Egress!AddCredits, Sent!AddCredits, Egress!FetchAndAdd, Sent!FetchAndAdd,
   Egress!NotifyAll, Sent!NotifyAll, Egress!farSide, Sent!farSide
<1>8. Egress!Deliver \/ Egress!Consume \/ Egress!Return => Sent!Deliver \/ Sent!Consume
         \/ Sent!Return
  BY DEF Egress!Deliver, Sent!Deliver, Egress!Consume, Sent!Consume, Egress!Return, Sent!Return,
    Egress!software, Sent!software, Egress!ReturnThreshold, Sent!ReturnThreshold
<1>9. QED
  BY <1>1, <1>2, <1>3, <1>4, <1>5, <1>6, <1>7, <1>8 DEF Egress!Next, Sent!Next,
       Egress!Continue, Sent!Continue

\* The same for senders to a pointer switch,
LEMMA PointerOutIs ==
  /\ PointerOut!PointerEgressAssumption => Sent!Out!PointerEgressAssumption
  /\ PointerOut!Init => Sent!Out!Init
BY DEF PointerOut!PointerEgressAssumption, Sent!Out!PointerEgressAssumption, PointerOut!Init,
     Sent!Out!Init,
  PointerOut!IsFiniteSet, Sent!Out!IsFiniteSet

\* in each of their operations,
LEMMA PointerOutNext ==
  PointerOut!Next => Sent!Out!Next
<1>1. \A c, n : PointerOut!MustWait(c, n) = Sent!Out!MustWait(c, n)
  BY DEF PointerOut!MustWait, Sent!Out!MustWait, PointerOut!Region, Sent!Out!Region,
    PointerOut!Cardinality, Sent!Out!Cardinality
<1>2. \A c, n : PointerOut!Enter(c, n) => Sent!Out!Enter(c, n)
  BY <1>1 DEF PointerOut!Enter, Sent!Out!Enter, PointerOut!Spend, Sent!Out!Spend,
       PointerOut!farSide, Sent!Out!farSide
<1>3. \A c, n : PointerOut!AcquireCredits(c, n) => Sent!Out!AcquireCredits(c, n)
  BY <1>2 DEF PointerOut!AcquireCredits, Sent!Out!AcquireCredits
<1>4. \A c : PointerOut!Wake(c) => Sent!Out!Wake(c)
  BY <1>2 DEF PointerOut!Wake, Sent!Out!Wake
<1>5. PointerOut!AcquireCreditsFC => Sent!Out!AcquireCreditsFC
  BY DEF PointerOut!AcquireCreditsFC, Sent!Out!AcquireCreditsFC, PointerOut!Spend, Sent!Out!Spend
<1>6. PointerOut!FreeCredits => Sent!Out!FreeCredits
  BY DEF PointerOut!FreeCredits, Sent!Out!FreeCredits, PointerOut!Remaining, Sent!Out!Remaining,
    PointerOut!Notified, Sent!Out!Notified
<1>7. \A c : PointerOut!Consume(c) => Sent!Out!Consume(c)
  BY DEF PointerOut!Consume, Sent!Out!Consume, PointerOut!software, Sent!Out!software
<1>8. \A c : PointerOut!Return(c) => Sent!Out!Return(c)
  BY DEF PointerOut!Return, Sent!Out!Return, PointerOut!software, Sent!Out!software,
    PointerOut!TooFree, Sent!Out!TooFree, PointerOut!ReturnThreshold, Sent!Out!ReturnThreshold,
    PointerOut!Region, Sent!Out!Region, PointerOut!Min, Sent!Out!Min,
    PointerOut!Cardinality, Sent!Out!Cardinality, PointerOut!SumOf, Sent!Out!SumOf,
      PointerOut!Units, Sent!Out!Units
<1>9. QED
  BY <1>3, <1>4, <1>5, <1>6, <1>7, <1>8 DEF PointerOut!Next, Sent!Out!Next

\* for the threads that receive from one,
LEMMA PointerInIs ==
  /\ PointerIn!PointerIngressAssumption => Sent!In!PointerIngressAssumption
  /\ PointerIn!Init => Sent!In!Init
BY DEF PointerIn!PointerIngressAssumption, Sent!In!PointerIngressAssumption, PointerIn!Init,
     Sent!In!Init,
  PointerIn!IsFiniteSet, Sent!In!IsFiniteSet, PointerIn!ReturnThreshold, Sent!In!ReturnThreshold,
  PointerIn!Region, Sent!In!Region, PointerIn!Min, Sent!In!Min,
  PointerIn!Cardinality, Sent!In!Cardinality

\* in each of theirs,
LEMMA PointerInNext ==
  PointerIn!Next => Sent!In!Next
<1> USE DEF PointerIn!At, Sent!In!At, PointerIn!Goto, Sent!In!Goto, PointerIn!Hold, Sent!In!Hold,
            PointerIn!farSide, Sent!In!farSide
<1>1. \A c : PointerIn!Handle(c) => Sent!In!Handle(c)
  BY DEF PointerIn!Handle, Sent!In!Handle
<1>2. \A c : PointerIn!AcquireLocal(c) \/ PointerIn!AcquireRegionalCredits(c)
         \/ PointerIn!CheckTotal(c)
             => Sent!In!AcquireLocal(c) \/ Sent!In!AcquireRegionalCredits(c)
                \/ Sent!In!CheckTotal(c)
  BY DEF PointerIn!AcquireLocal, Sent!In!AcquireLocal, PointerIn!AcquireRegionalCredits, 
   Sent!In!AcquireRegionalCredits, PointerIn!CheckTotal, Sent!In!CheckTotal
<1>3. \A c : PointerIn!Test(c) => Sent!In!Test(c)
  <2>1. PointerIn!ReturnThreshold = Sent!In!ReturnThreshold
    BY DEF PointerIn!ReturnThreshold, Sent!In!ReturnThreshold,
      PointerIn!Region, Sent!In!Region, PointerIn!Min, Sent!In!Min,
      PointerIn!Cardinality, Sent!In!Cardinality
  <2>2. QED
    BY <2>1 DEF PointerIn!Test, Sent!In!Test, PointerIn!MustReturn, Sent!In!MustReturn
<1>4. \A c : PointerIn!FetchAndStore(c) \/ PointerIn!FreeRegionalCredits(c) \/ PointerIn!Push(c)
             => Sent!In!FetchAndStore(c) \/ Sent!In!FreeRegionalCredits(c) \/ Sent!In!Push(c)
  BY DEF PointerIn!FetchAndStore, Sent!In!FetchAndStore, PointerIn!FreeRegionalCredits, 
   Sent!In!FreeRegionalCredits, PointerIn!Push, Sent!In!Push
<1>5. \A c : PointerIn!Send(c) => Sent!In!Send(c)
  BY DEF PointerIn!Send, Sent!In!Send, PointerIn!Spend, Sent!In!Spend, PointerIn!CreditsHigh,
       Sent!In!CreditsHigh,
    PointerIn!Region, Sent!In!Region, PointerIn!Cardinality, Sent!In!Cardinality,
      PointerIn!software, Sent!In!software
<1>6. PointerIn!SendFC \/ PointerIn!Refill => Sent!In!SendFC \/ Sent!In!Refill
  BY DEF PointerIn!SendFC, Sent!In!SendFC, PointerIn!Refill, Sent!In!Refill, PointerIn!Spend,
       Sent!In!Spend,
     PointerIn!software, Sent!In!software
<1>7. QED
  BY <1>1, <1>2, <1>3, <1>4, <1>5, <1>6
     DEF PointerIn!Next, Sent!In!Next, PointerIn!Continue, Sent!In!Continue

\* Those about the server and the pipes, and with its sizes those about the client.
Served == INSTANCE ServiceProofs WITH
  Service <- {1, 2}, Worker <- Thread, MaxRequests <- 2, MaxChunks <- 1, None <- NoThread,
  pc <- workerPc, Caller <- Thread, MaxPending <- 2,
  Line <- Lines, MaxOpen <- 3, Retries <- 2, MaxWords <- 1, retries <- openRetries

Asked == INSTANCE ServiceProofs WITH
  Service <- {1, 2}, Worker <- Thread, MaxRequests <- 2, MaxChunks <- 2, None <- NoThread,
  pc <- workerPc, Caller <- Thread, MaxPending <- 2,
  Line <- Lines, MaxOpen <- 3, Retries <- 2, MaxWords <- 1, retries <- openRetries

\* for the server,
LEMMA ServerIs ==
  /\ Server!RRRServerAssumption => Served!RRRServerAssumption
  /\ Server!Init => Served!Init
BY DEF Server!RRRServerAssumption, Served!RRRServerAssumption, Server!Init, Served!Init,
       Server!IsFiniteSet, Served!IsFiniteSet

\* its steps,
LEMMA ServerNext == Server!Next => Served!Next
<1> USE DEF Server!Goto, Served!Goto, Server!assembly, Served!assembly
<1>1. \A s : Server!PushHeader(s) \/ Server!PushChunk(s) => Served!PushHeader(s)
         \/ Served!PushChunk(s)
  BY DEF Server!PushHeader, Served!PushHeader, Server!PushChunk, Served!PushChunk,
         Server!Complete, Served!Complete
<1>2. \A w : Server!Run(w) \/ Server!Lock(w) => Served!Run(w) \/ Served!Lock(w)
  BY DEF Server!Run, Served!Run, Server!Lock, Served!Lock
<1>3. \A w : Server!Pop(w) \/ Server!Request(w) => Served!Pop(w) \/ Served!Request(w)
  BY DEF Server!Pop, Served!Pop, Server!Request, Served!Request
<1>4. \A w : Server!Respond(w) \/ Server!Unlock(w) => Served!Respond(w) \/ Served!Unlock(w)
  BY DEF Server!Respond, Served!Respond, Server!Unlock, Served!Unlock
<1>5. Server!Uninit => Served!Uninit
  BY DEF Server!Uninit, Served!Uninit
<1>6. QED
  BY <1>1, <1>2, <1>3, <1>4, <1>5 DEF Server!Next, Served!Next, Server!Continue, Served!Continue

\* the client
LEMMA ClientIs ==
  /\ Client!RRRClientAssumption => Asked!Client!RRRClientAssumption
  /\ Client!Init => Asked!Client!Init
BY DEF Client!RRRClientAssumption, Asked!Client!RRRClientAssumption, Client!Init,
     Asked!Client!Init

\* and its steps.
LEMMA ClientNext == Client!Next => Asked!Client!Next
<1> USE DEF Client!Goto, Asked!Client!Goto
<1>1. \A c : Client!Call(c) \/ Client!Lock(c) => Asked!Client!Call(c) \/ Asked!Client!Lock(c)
  BY DEF Client!Call, Asked!Client!Call, Client!Lock, Asked!Client!Lock
<1>2. \A c : Client!Push(c) \/ Client!MakeRequestNoResponse(c)
         => Asked!Client!Push(c) \/ Asked!Client!MakeRequestNoResponse(c)
  BY DEF Client!Push, Asked!Client!Push, Client!PushRequest, Asked!Client!PushRequest,
         Client!MakeRequestNoResponse, Asked!Client!MakeRequestNoResponse
<1>3. \A c : Client!PopHeader(c) \/ Client!PopChunk(c) => Asked!Client!PopHeader(c)
         \/ Asked!Client!PopChunk(c)
  BY DEF Client!PopHeader, Asked!Client!PopHeader, Client!PopChunk, Asked!Client!PopChunk
<1>4. \A c : Client!Unlock(c) => Asked!Client!Unlock(c)
  BY DEF Client!Unlock, Asked!Client!Unlock
<1>5. Client!Serve \/ Client!SendChunk => Asked!Client!Serve \/ Asked!Client!SendChunk
  BY DEF Client!Serve, Asked!Client!Serve, Client!SendChunk, Asked!Client!SendChunk
<1>6. QED
  BY <1>1, <1>2, <1>3, <1>4, <1>5 DEF Client!Next, Asked!Client!Next, Client!Continue,
       Asked!Client!Continue

\* The pipes have the same devices, entries and words in both,
LEMMA PipesAre ==
  /\ Pipes!Process = Served!Pipes!Process /\ Pipes!Device = Served!Pipes!Device
  /\ Pipes!Entries = Served!Pipes!Entries /\ Pipes!CommBlock = Served!Pipes!CommBlock
  /\ \A l : Pipes!Source(l) = Served!Pipes!Source(l) /\ Pipes!Sink(l) = Served!Pipes!Sink(l)
  /\ \A l, n : Pipes!Word(l, n) = Served!Pipes!Word(l, n) /\ Pipes!Sync(l) = Served!Pipes!Sync(l)
  /\ \A p : Pipes!Devices(p) = Served!Pipes!Devices(p)
  /\ Pipes!Numbered = Served!Pipes!Numbered
BY DEF Pipes!Process, Served!Pipes!Process, Pipes!Device, Served!Pipes!Device,
  Pipes!Entries, Served!Pipes!Entries, Pipes!CommBlock, Served!Pipes!CommBlock,
  Pipes!Source, Served!Pipes!Source, Pipes!Sink, Served!Pipes!Sink,
  Pipes!Word, Served!Pipes!Word, Pipes!Sync, Served!Pipes!Sync,
  Pipes!Devices, Served!Pipes!Devices, Pipes!Numbered, Served!Pipes!Numbered

\* begin in the same way
LEMMA PipesBegin ==
  /\ Pipes!UnixDeviceAssumption => Served!Pipes!UnixDeviceAssumption
  /\ Pipes!Init => Served!Pipes!Init
<1>1. Pipes!UnixDeviceAssumption => Served!Pipes!UnixDeviceAssumption
  BY PipesAre DEF Pipes!UnixDeviceAssumption, Served!Pipes!UnixDeviceAssumption,
    Pipes!IsFiniteSet, Served!Pipes!IsFiniteSet, Pipes!Cardinality, Served!Pipes!Cardinality
<1>2. Pipes!Init => Served!Pipes!Init
  BY PipesAre DEF Pipes!Init, Served!Pipes!Init
<1>3. QED
  BY <1>1, <1>2

\* and do the same.
LEMMA PipesNext == Pipes!Next => Served!Pipes!Next
<1> USE DEF Pipes!table, Served!Pipes!table
<1>1. \A d : Pipes!CommInit(d) => Served!Pipes!CommInit(d)
  BY PipesAre DEF Pipes!CommInit, Served!Pipes!CommInit
<1>2. \A d : Pipes!CommOpen(d) => Served!Pipes!CommOpen(d)
  BY PipesAre DEF Pipes!CommOpen, Served!Pipes!CommOpen
<1>3. \A d : Pipes!Valid(d) = Served!Pipes!Valid(d)
  BY PipesAre DEF Pipes!Valid, Served!Pipes!Valid
<1>4. \A l : Pipes!CommWrite(l) => Served!Pipes!CommWrite(l)
  BY <1>3, PipesAre DEF Pipes!CommWrite, Served!Pipes!CommWrite
<1>5. \A l : Pipes!CommRead(l) => Served!Pipes!CommRead(l)
  BY <1>3, PipesAre DEF Pipes!CommRead, Served!Pipes!CommRead
<1>6. \A l : Pipes!Mkfifo(l) \/ Pipes!OpenFails(l) \/ Pipes!Open(l)
             => Served!Pipes!Mkfifo(l) \/ Served!Pipes!OpenFails(l) \/ Served!Pipes!Open(l)
  BY DEF Pipes!Mkfifo, Served!Pipes!Mkfifo, Pipes!OpenFails, Served!Pipes!OpenFails,
    Pipes!Open, Served!Pipes!Open
<1>7. \A l, b : Pipes!SendBlock(l, b) => Served!Pipes!SendBlock(l, b)
  BY DEF Pipes!SendBlock, Served!Pipes!SendBlock, Pipes!ReaderOpen, Served!Pipes!ReaderOpen
<1>8. \A l : Pipes!SendSync(l) => Served!Pipes!SendSync(l)
  BY <1>7, PipesAre DEF Pipes!SendSync, Served!Pipes!SendSync
<1>9. \A l : Pipes!Write(l) => Served!Pipes!Write(l)
  BY <1>7, PipesAre DEF Pipes!Write, Served!Pipes!Write, Pipes!ReaderOpen, Served!Pipes!ReaderOpen
<1>10. \A l : Pipes!ReadSync(l) \/ Pipes!ReadEnds(l) => Served!Pipes!ReadSync(l)
          \/ Served!Pipes!ReadEnds(l)
  BY DEF Pipes!ReadSync, Served!Pipes!ReadSync, Pipes!ReadEnds, Served!Pipes!ReadEnds,
    Pipes!WriterOpen, Served!Pipes!WriterOpen
<1>11. \A l : Pipes!Read(l) => Served!Pipes!Read(l)
  BY PipesAre DEF Pipes!Read, Served!Pipes!Read
<1>12. \A p : Pipes!Exit(p) => Served!Pipes!Exit(p)
  BY DEF Pipes!Exit, Served!Pipes!Exit
<1>13. \A l : Pipes!Continue(l) => Served!Pipes!Continue(l)
  BY <1>6, <1>8, <1>9, <1>10, <1>11 DEF Pipes!Continue, Served!Pipes!Continue
<1>14. QED
  BY <1>1, <1>2, <1>4, <1>5, <1>12, <1>13, PipesAre DEF Pipes!Next, Served!Pipes!Next

-----------------------------------------------------------------------------

\* The constants of the run "software": one thread sends, and a message of the
\* receiver is no larger than what makes it return credits.
Sizes ==
  /\ Senders = {t1} /\ Thread = {t1, t2} /\ t1 # t2
  /\ MaxPacket + 1 <= 64 /\ MaxPacket <= ReturnThreshold + 1
  /\ c1 # c2 /\ c1 # fc /\ c2 # fc

\* The single receiver.
ReceiverInv == OneInv(t1) /\ Alone(t1) /\ NeverFinishes

\* The invariants of all parts together.
EndsInv ==
  /\ Sent!IInv /\ Sent!CountInv
  /\ CountInv /\ (end = "receiver" => ReceiverInv)
  /\ Sent!OutInv
  /\ Sent!InInv /\ ~inAborted
  /\ Served!IInv /\ Served!Called
  /\ Asked!ClientIInv
  /\ Served!PipesInv

\* The sizes of the runs are such as the theorems about the parts ask for.
LEMMA SizesFit ==
  ASSUME Sizes
  PROVE  /\ Sent!OneSender(t1)
         /\ Sent!OutSizes /\ Sent!OutFits
         /\ Sent!In!PointerIngressAssumption /\ Sent!InRoom
         /\ Served!RRRServerAssumption /\ Asked!Client!RRRClientAssumption
         /\ Served!OneEntrySpare
<1>1. Sent!OneSender(t1)
  BY EndsAssumption, SenderIs DEF Sizes, Sent!OneSender
<1>2. Sent!Out!PointerEgressAssumption /\ Sent!In!PointerIngressAssumption
  BY EndsAssumption, PointerOutIs, PointerInIs
<1>3. Served!RRRServerAssumption /\ Asked!Client!RRRClientAssumption
  BY EndsAssumption, ServerIs, ClientIs
<1>4. Cardinality({c1, c2, fc}) = 3 /\ Cardinality({c1, fc}) = 2
  <2>1. IsFiniteSet({}) /\ Cardinality({}) = 0
    BY FS_EmptySet
  <2>2. IsFiniteSet({fc}) /\ Cardinality({fc}) = 1
    BY <2>1, FS_AddElement
  <2>3. IsFiniteSet({fc} \cup {c1}) /\ Cardinality({fc} \cup {c1}) = 2
    BY <2>2, FS_AddElement DEF Sizes
  <2>4. Cardinality(({fc} \cup {c1}) \cup {c2}) = 3
    BY <2>3, FS_AddElement DEF Sizes
  <2>5. ({fc} \cup {c1}) \cup {c2} = {c1, c2, fc} /\ {fc} \cup {c1} = {c1, fc}
    OBVIOUS
  <2>6. QED
    BY <2>3, <2>4, <2>5
<1>5. /\ Sent!Cardinality({c1, c2, fc}) = 3 /\ Sent!Out!Cardinality({c1, c2, fc}) = 3
      /\ Sent!Cardinality({c1, fc}) = 2 /\ Sent!In!Cardinality({c1, fc}) = 2
  BY <1>4 DEF Cardinality, Sent!Cardinality, Sent!Out!Cardinality, Sent!In!Cardinality
<1>6. Sent!OutSizes
  BY <1>2, <1>5 DEF Sent!OutSizes
<1>7. Sent!OutFits
  <2>1. Sent!Out!Region = 2
    BY <1>5 DEF Sent!Out!Region
  <2>2. Sent!Out!ReturnThreshold \in Nat /\ Sent!Out!ReturnThreshold <= 2
    BY <1>6, <2>1, Sent!OutThreshold
  <2>3. QED
    BY <2>2 DEF Sent!OutFits
<1>8. Sent!InRoom
  <2>1. /\ Sent!In!ReturnThreshold \in Nat
        /\ Sent!In!ReturnThreshold < Sent!In!Region - 1 - 1
    BY <1>2, Sent!InConstants
  <2>2. Sent!In!Region = 7
    BY <1>5 DEF Sent!In!Region
  <2>3. Sent!In!ReturnThreshold <= 4
    BY <2>1, <2>2
  <2>4. QED
    BY <1>5, <2>1, <2>3 DEF Sent!InRoom
<1>9. Served!OneEntrySpare
  <2>1. Served!Pipes!UnixDeviceAssumption
    BY EndsAssumption, PipesBegin
  <2>2. Cardinality({<<1, 1>>, <<1, 2>>}) = 2 /\ Cardinality({<<2, 1>>, <<2, 2>>}) = 2
    <3>1. ASSUME NEW x, NEW y, x # y
          PROVE  Cardinality({x, y}) = 2
      <4>1. IsFiniteSet({x}) /\ Cardinality({x}) = 1 /\ y \notin {x}
        BY <3>1, FS_Singleton
      <4>2. Cardinality({x} \cup {y}) = 2
        BY <4>1, FS_AddElement
      <4>3. {x} \cup {y} = {x, y}
        OBVIOUS
      <4>4. QED
        BY <4>2, <4>3
    <3>2. <<1, 1>> # <<1, 2>> /\ <<2, 1>> # <<2, 2>>
      OBVIOUS
    <3>3. QED
      BY <3>1, <3>2
  <2> DEFINE first == [from |-> 1, to |-> 2, link |-> 1]
             second == [from |-> 1, to |-> 2, link |-> 2]
  <2>3. /\ first \in Lines /\ first.from = 1 /\ first.to = 2 /\ first.link = 1
        /\ second \in Lines /\ second.from = 1 /\ second.to = 2 /\ second.link = 2
        /\ \A l \in Lines : l.from = 1 /\ l.to = 2 /\ l.link \in {1, 2}
    BY DEF Lines
  <2> HIDE DEF first, second
  <2>8. Served!Pipes!Process = {1, 2}
    <3>1. \A p : p \in Served!Pipes!Process <=> \E l \in Lines : p = l.from \/ p = l.to
      BY DEF Served!Pipes!Process
    <3>2. QED
      BY <2>3, <3>1
  <2>4. \A d : d \in Served!Pipes!Device <=> d \in {<<1, 1>>, <<1, 2>>, <<2, 1>>, <<2, 2>>}
    <3>1. \A d : d \in Served!Pipes!Device
                   <=> \E l \in Lines : d = <<l.from, l.link>> \/ d = <<l.to, l.link>>
      BY DEF Served!Pipes!Device
    <3>2. QED
      BY <2>3, <3>1
  <2>5. /\ Served!Pipes!Devices(1) = {<<1, 1>>, <<1, 2>>}
        /\ Served!Pipes!Devices(2) = {<<2, 1>>, <<2, 2>>}
    BY <2>4 DEF Served!Pipes!Devices
  <2>6. \A p \in Served!Pipes!Process : Cardinality(Served!Pipes!Devices(p)) < 3
    BY <2>2, <2>8, <2>5
  <2>7. QED
    BY <2>1, <2>6 DEF Served!OneEntrySpare, Served!Cardinality, Cardinality
<1>10. QED
  BY <1>1, <1>2, <1>3, <1>6, <1>7, <1>8, <1>9

\* All parts begin in their invariant.
LEMMA EndsInit ==
  ASSUME Sizes, EndInit
  PROVE  EndsInv
<1>1. Sent!IInv /\ Sent!CountInv
  BY SizesFit, SenderIs, Sent!IInvInit, Sent!CountInit DEF EndInit, Sent!OneSender
<1>2. CountInv /\ ReceiverInv
  BY CountInit, OneInit DEF EndInit, ReceiverInv, Sizes
<1>3. Sent!OutInv /\ Sent!InInv
  BY SizesFit, PointerOutIs, PointerInIs, Sent!OutInvInit, Sent!InInvInit DEF EndInit
<1>4. ~inAborted
  BY DEF EndInit, PointerIn!Init
<1>5. Served!IInv /\ Served!Called
  BY SizesFit, ServerIs, Served!InitServer, Served!InitCalled DEF EndInit
<1>6. Asked!ClientIInv
  BY SizesFit, ClientIs, Asked!InitClient DEF EndInit
<1>7. Served!PipesInv
  BY SizesFit, PipesBegin, Served!PipesInit DEF EndInit, Served!OneEntrySpare
<1>8. QED
  BY <1>1, <1>2, <1>3, <1>4, <1>5, <1>6, <1>7 DEF EndsInv

\* Every step is a step of each part, or leaves it alone.
LEMMA EndsMove ==
  ASSUME [EndNext]_allVars
  PROVE  /\ [Sent!Next]_(Sent!vars)
         /\ [Next]_vars
         /\ [Sent!Out!Next]_(Sent!Out!vars)
         /\ [Sent!In!Next]_(Sent!In!vars)
         /\ [Served!Next]_(Served!vars)
         /\ [Asked!Client!Next]_(Asked!Client!vars)
         /\ [Served!Pipes!Next]_(Served!Pipes!vars)
         /\ end' = end
         /\ end = "receiver" => UNCHANGED vars \/ pc'[t2] = "idle"
<1> USE DEF Sent!vars, Sent!farSide, Sent!Out!vars, Sent!Out!software, Sent!Out!farSide,
            Sent!In!vars, Sent!In!software, Sent!In!farSide, Served!vars, Served!assembly,
            Asked!Client!vars, sender, pointerSender, pointerReceiver, server, client,
            Served!Pipes!vars, Served!Pipes!table, pipes
<1>1. CASE UNCHANGED allVars
  BY <1>1 DEF allVars
<1>2. CASE Sending(Egress!Next)
  BY <1>2, SenderNext DEF Sending
<1>3. CASE Receiving(Next)
  BY <1>3 DEF Receiving
<1>4. CASE PointerSending(PointerOut!Next)
  BY <1>4, PointerOutNext DEF PointerSending
<1>5. CASE PointerReceiving(PointerIn!Next)
  BY <1>5, PointerInNext DEF PointerReceiving
<1>6. CASE Serving(Server!Next)
  BY <1>6, ServerNext DEF Serving
<1>7. CASE Calling(Client!Next)
  BY <1>7, ClientNext DEF Calling
<1>8. CASE Piping(Pipes!Next)
  BY <1>8, PipesNext DEF Piping
<1>9. QED
  BY <1>1, <1>2, <1>3, <1>4, <1>5, <1>6, <1>7, <1>8 DEF EndNext

\* They keep it, the one that moves and those that do not.
LEMMA EndsStep ==
  ASSUME Sizes, EndsInv, [EndNext]_allVars
  PROVE  EndsInv'
<1>1. (Sent!IInv /\ Sent!CountInv)'
  BY SizesFit, EndsMove, Sent!IInvStep, Sent!CountStep DEF EndsInv, Sent!OneSender
<1>2. CountInv'
  BY EndsMove, CountStep DEF EndsInv
<1>3. ASSUME end' = "receiver"
      PROVE  ReceiverInv'
  <2>1. ReceiverInv /\ t1 \in Thread /\ MaxPacket <= ReturnThreshold + 1
    BY <1>3, EndsMove DEF EndsInv, Sizes
  <2>2. OnlyRuns(t1)'
    <3>1. CASE UNCHANGED vars
      BY <2>1, <3>1 DEF vars, software, ReceiverInv, Alone, OnlyRuns
    <3>2. CASE pc'[t2] = "idle"
      BY <3>2 DEF OnlyRuns, Sizes
    <3>3. QED
      BY <1>3, <3>1, <3>2, EndsMove
  <2>3. QED
    BY <2>1, <2>2, EndsMove, OneStep, NeverFinishesStep DEF ReceiverInv
<1>4. (Sent!OutInv /\ Sent!InInv)'
  BY SizesFit, EndsMove, Sent!OutInvStep, Sent!InInvStep DEF EndsInv, Sent!OutSizes
<1>5. ~inAborted'
  BY SizesFit, EndsMove, Sent!InAssertHolds DEF EndsInv
<1>6. (Served!IInv /\ Served!Called)'
  BY SizesFit, EndsMove, Served!ServerStep, Served!CalledStep DEF EndsInv
<1>7. (Asked!ClientIInv)'
  BY SizesFit, EndsMove, Asked!ClientStep DEF EndsInv
<1>8. Served!PipesInv'
  BY SizesFit, EndsMove, Served!PipesStep DEF EndsInv
<1>9. QED
  BY <1>1, <1>2, <1>3, <1>4, <1>5, <1>6, <1>7, <1>8 DEF EndsInv

-----------------------------------------------------------------------------

\* So it always holds.
LEMMA EndsKeep ==
  ASSUME Sizes
  PROVE  EndSpec => []EndsInv
<1>1. EndInit => EndsInv
  BY EndsInit
<1>2. EndsInv /\ [EndNext]_allVars => EndsInv'
  BY EndsStep
<1>3. QED
  BY <1>1, <1>2, PTL DEF EndSpec

\* What the runs check of the sender follows,
LEMMA SenderSays ==
  ASSUME Sizes, EndsInv
  PROVE  /\ Egress!TypeOK /\ Egress!CreditConservation /\ Egress!NoLostWakeup
         /\ Sent!HeldIsOwed /\ Egress!CreditsHeld = Sent!CreditsHeld
<1>1. Sent!IInv /\ Sent!CountInv /\ Sent!OneSender(t1)
  BY SizesFit DEF EndsInv
<1>2. Sent!SoftwareEgressAssumption
  BY <1>1 DEF Sent!OneSender
<1>3. Sent!TypeOK /\ Sent!CreditConservation /\ Sent!HeldIsOwed
  BY <1>1, <1>2, Sent!CountsSay, Sent!HeldIsOwedFollows
<1>4. Egress!CreditsHeld = Sent!CreditsHeld
  BY DEF Egress!CreditsHeld, Sent!CreditsHeld, Egress!Debt, Sent!Debt,
    Egress!SumOf, Sent!SumOf, Egress!Units, Sent!Units, Egress!Cardinality, Sent!Cardinality
<1>5. Egress!TypeOK
  BY <1>3 DEF Egress!TypeOK, Sent!TypeOK
<1>6. Egress!CreditConservation
  BY <1>3, <1>4 DEF Egress!CreditConservation, Sent!CreditConservation
<1>7. Egress!NoLostWakeup
  BY <1>1, <1>3, <1>4 DEF Egress!NoLostWakeup, Sent!IInv, Sent!Woken, Sent!HeldIsOwed
<1>8. QED
  BY <1>3, <1>4, <1>5, <1>6, <1>7

\* of senders to a pointer switch,
LEMMA PointerSenderSays ==
  ASSUME Sizes, EndsInv
  PROVE  /\ PointerOut!CreditConservation /\ PointerOut!SharedBufferHolds
         /\ PointerOut!NoLostWakeup /\ PointerOut!NeverWedged
<1>1. Sent!OutInv /\ Sent!OutSizes /\ Sent!OutFits
  BY SizesFit DEF EndsInv
<1>2. /\ Sent!Out!CreditConservation /\ Sent!Out!SharedBufferHolds
      /\ Sent!Out!NoLostWakeup /\ Sent!Out!NeverWedged
  <2>1. Sent!Out!SharedBufferHolds /\ Sent!Out!NeverWedged /\ Sent!Out!NoLostWakeup
    BY <1>1, Sent!OutInvHolds, Sent!OutNeverWedged DEF Sent!OutInv
  <2>2. Sent!Out!CreditConservation
    BY <1>1 DEF Sent!OutInv, Sent!OutCounts
  <2>3. QED
    BY <2>1, <2>2
<1>3. \A f : PointerOut!SumOf(f) = Sent!Out!SumOf(f)
  BY DEF PointerOut!SumOf, Sent!Out!SumOf, PointerOut!Units, Sent!Out!Units,
    PointerOut!Cardinality, Sent!Out!Cardinality
<1>4. PointerOut!Region = Sent!Out!Region
  BY DEF PointerOut!Region, Sent!Out!Region, PointerOut!Cardinality, Sent!Out!Cardinality
<1>5. PointerOut!ReturnThreshold = Sent!Out!ReturnThreshold
  BY <1>4 DEF PointerOut!ReturnThreshold, Sent!Out!ReturnThreshold, PointerOut!Min, Sent!Out!Min
<1>6. PointerOut!CreditConservation
  BY <1>2, <1>3 DEF PointerOut!CreditConservation, Sent!Out!CreditConservation,
    PointerOut!Returning, Sent!Out!Returning
<1>7. PointerOut!SharedBufferHolds
  BY <1>2, <1>3 DEF PointerOut!SharedBufferHolds, Sent!Out!SharedBufferHolds
<1>8. PointerOut!NoLostWakeup
  BY <1>2, <1>4 DEF PointerOut!NoLostWakeup, Sent!Out!NoLostWakeup, PointerOut!MustWait,
       Sent!Out!MustWait
<1>9. PointerOut!NeverWedged
  BY <1>2, <1>3, <1>5 DEF PointerOut!NeverWedged, Sent!Out!NeverWedged, PointerOut!Quiet,
    Sent!Out!Quiet, PointerOut!TooFree, Sent!Out!TooFree
<1>10. QED
  BY <1>6, <1>7, <1>8, <1>9

\* of threads that receive from one
LEMMA PointerReceiverSays ==
  ASSUME Sizes, EndsInv
  PROVE  PointerIn!CreditConservation /\ PointerIn!NeverWedged
<1>1. Sent!InInv /\ Sent!In!PointerIngressAssumption /\ ~inAborted
  BY SizesFit DEF EndsInv
<1>2. Sent!In!CreditConservation
  BY <1>1, Sent!InConserves
<1>3. PointerIn!CreditConservation
  BY <1>2 DEF PointerIn!CreditConservation, Sent!In!CreditConservation,
    PointerIn!SumOf, Sent!In!SumOf, PointerIn!Units, Sent!In!Units,
    PointerIn!Cardinality, Sent!In!Cardinality
<1>4. PointerIn!Region = Sent!In!Region
  BY DEF PointerIn!Region, Sent!In!Region, PointerIn!Cardinality, Sent!In!Cardinality
<1>5. PointerIn!ReturnThreshold = Sent!In!ReturnThreshold
  BY <1>4 DEF PointerIn!ReturnThreshold, Sent!In!ReturnThreshold, PointerIn!Min, Sent!In!Min
<1>6. ASSUME inReturning = <<>>, \A c \in {c1, fc} : unread[c] = 0 /\ inPc[c] = "idle"
      PROVE  totalCreditsUsed <= PointerIn!ReturnThreshold /\ PointerIn!CreditsHigh
  <2>1. totalCreditsUsed <= Sent!In!ReturnThreshold /\ Sent!In!CreditsHigh
    BY <1>1, <1>6, Sent!InQuietKeepsLittle
  <2>2. QED
    BY <1>4, <1>5, <2>1 DEF Sent!In!CreditsHigh, PointerIn!CreditsHigh
<1>7. QED
  BY <1>1, <1>3, <1>6 DEF PointerIn!NeverWedged

\* and of services.
LEMMA ServiceSays ==
  ASSUME Sizes, EndsInv
  PROVE  /\ Server!RequestsKeepOrder /\ Server!EveryCallHasItsRequest
         /\ Client!ResponsesFindTheirCaller
<1>1. Served!RequestsKeepOrder /\ Served!EveryCallHasItsRequest
         /\ Asked!Client!ResponsesFindTheirCaller
  BY SizesFit, Served!IInvGivesOrder, Served!CalledGivesCalls,
       Asked!ClientIInvGivesResponses DEF EndsInv
<1>2. Server!RequestsKeepOrder
  BY <1>1 DEF Server!RequestsKeepOrder, Served!RequestsKeepOrder, Server!Cardinality,
       Served!Cardinality
<1>3. Server!EveryCallHasItsRequest
  BY <1>1 DEF Server!EveryCallHasItsRequest, Served!EveryCallHasItsRequest, Server!Waiting,
       Served!Waiting,
     Server!Cardinality, Served!Cardinality
<1>4. Client!ResponsesFindTheirCaller
  BY <1>1 DEF Client!ResponsesFindTheirCaller, Asked!Client!ResponsesFindTheirCaller
<1>5. QED
  BY <1>2, <1>3, <1>4

\* No credit of a sender, a receiver or a pointer switch is lost or returned twice,
\* and the switch that gets them back does not stop, in any step of any part.
THEOREM NoCreditIsLostCorrect ==
  ASSUME Sizes
  PROVE  EndSpec => []NoCreditIsLost
<1>1. EndsInv => NoCreditIsLost
  <2> SUFFICES ASSUME EndsInv PROVE NoCreditIsLost
    OBVIOUS
  <2>1. TypeOK /\ CreditConservation /\ (end = "receiver" => NeverFinishes)
    BY DEF EndsInv, CountInv, ReceiverInv
  <2>2. QED
    BY <2>1, SenderSays, PointerSenderSays, PointerReceiverSays DEF NoCreditIsLost
<1>2. QED
  BY <1>1, EndsKeep, PTL

\* Nobody sleeps although the credits are there, and nothing is left to wait for
\* once all is read and what is due has come back.
THEOREM NoLostWakeupCorrect ==
  ASSUME Sizes
  PROVE  EndSpec => []NoLostWakeup
<1>1. EndsInv => NoLostWakeup
  BY SenderSays, PointerSenderSays, PointerReceiverSays DEF NoLostWakeup
<1>2. QED
  BY <1>1, EndsKeep, PTL

\* Requests are carried out and answered in order, each call finds its own, and a
\* thread that asks the hardware gets the whole of its response.
THEOREM RequestsKeepOrderCorrect ==
  ASSUME Sizes
  PROVE  EndSpec => []RequestsKeepOrder
<1>1. EndsInv => RequestsKeepOrder
  BY ServiceSays DEF RequestsKeepOrder
<1>2. QED
  BY <1>1, EndsKeep, PTL

\* Words come out of the pipes in order and once, for both links.
THEOREM WordsKeepOrderCorrect ==
  ASSUME Sizes
  PROVE  EndSpec => []WordsKeepOrder
<1>1. EndsInv => Pipes!WordsKeepOrder
  <2>1. EndsInv => Served!Pipes!WordsKeepOrder
    BY SizesFit, Served!PipesInvGivesOrder DEF EndsInv, Served!OneEntrySpare
  <2>2. Served!Pipes!WordsKeepOrder => Pipes!WordsKeepOrder
    BY PipesAre DEF Pipes!WordsKeepOrder, Served!Pipes!WordsKeepOrder, Pipes!Queued,
         Served!Pipes!Queued,
      Pipes!Piped, Served!Pipes!Piped
  <2>3. QED
    BY <2>1, <2>2
<1>2. EndsInv => WordsKeepOrder
  BY <1>1 DEF WordsKeepOrder
<1>3. QED
  BY <1>2, EndsKeep, PTL

\* The sender's steps are those of the protocol, as the runs instantiate it.
LEMMA SenderRefines ==
  ASSUME Sizes
  PROVE  /\ EndInit => Egress!Protocol!Init
         /\ EndsInv /\ Sent!HeldIsOwed' /\ [EndNext]_allVars
              => [Egress!Protocol!Next]_(Egress!Protocol!vars)
<1>1. Egress!CreditsHeld = Sent!CreditsHeld
  BY DEF Egress!CreditsHeld, Sent!CreditsHeld, Egress!Debt, Sent!Debt,
    Egress!SumOf, Sent!SumOf, Egress!Units, Sent!Units, Egress!Cardinality, Sent!Cardinality
<1>2. (Egress!CreditsHeld)' = (Sent!CreditsHeld)'
  BY DEF Egress!CreditsHeld, Sent!CreditsHeld, Egress!Debt, Sent!Debt,
    Egress!SumOf, Sent!SumOf, Egress!Units, Sent!Units, Egress!Cardinality, Sent!Cardinality
<1>3. Egress!ReturnThreshold = Sent!ReturnThreshold
  BY DEF Egress!ReturnThreshold, Sent!ReturnThreshold
<1>4. ASSUME EndInit
      PROVE  Egress!Protocol!Init
  <2>1. Sent!Protocol!Init
    BY <1>4, SizesFit, SenderIs, Sent!InitRefines DEF EndInit
  <2>2. QED
    BY <1>1, <2>1 DEF Egress!Protocol!Init, Sent!Protocol!Init
<1>5. ASSUME EndsInv, Sent!HeldIsOwed', [EndNext]_allVars
      PROVE  [Egress!Protocol!Next]_(Egress!Protocol!vars)
  <2>1. Sent!HeldIsOwed /\ Sent!IInv /\ Sent!OneSender(t1) /\ [Sent!Next]_(Sent!vars)
    BY <1>5, SenderSays, SizesFit, EndsMove DEF EndsInv
  <2>3. Sent!Protocol!Next \/ UNCHANGED Sent!Protocol!vars
    BY <1>5, <2>1, Sent!StepRefines
  <2>4. Sent!Protocol!vars = Egress!Protocol!vars
           /\ (Sent!Protocol!vars)' = (Egress!Protocol!vars)'
    BY <1>1, <1>2 DEF Egress!Protocol!vars, Sent!Protocol!vars
  <2>5. Sent!Protocol!Next => Egress!Protocol!Next
    BY <1>1, <1>2, <1>3 DEF Egress!Protocol!Next, Sent!Protocol!Next, Egress!Protocol!Step,
         Sent!Protocol!Step,
      Egress!Protocol!May, Sent!Protocol!May, Egress!Protocol!MaySend, Sent!Protocol!MaySend,
      Egress!Protocol!MayReturn, Sent!Protocol!MayReturn, Egress!Protocol!Free,
        Sent!Protocol!Free,
      Egress!Protocol!On, Sent!Protocol!On, Egress!Protocol!Amounts, Sent!Protocol!Amounts,
      Egress!Protocol!Events, Sent!Protocol!Events
  <2>6. QED
    BY <2>3, <2>4, <2>5
<1>6. QED
  BY <1>4, <1>5

\* The sender with one thread and the receiver with one keep the protocol that the
\* switches rely on, and no message exceeds what is left of a shared buffer.
THEOREM SoftwareKeepsProtocolCorrect ==
  ASSUME Sizes
  PROVE  EndSpec => SoftwareKeepsProtocol
<1>1. EndInit => Egress!Protocol!Init /\ Protocol!Init
  <2>1. EndInit => Protocol!Init
    BY InitRefines DEF EndInit, Sizes
  <2>2. QED
    BY <2>1, SenderRefines
<1>2. EndsInv /\ Sent!HeldIsOwed' /\ [EndNext]_allVars
        => [end = "sender" => [Egress!Protocol!Next]_(Egress!Protocol!vars)]_sender
  BY SenderRefines
<1>3. EndsInv /\ EndsInv' /\ [EndNext]_allVars
        => [end = "receiver" => [Protocol!Next]_(Protocol!vars)]_vars
  <2> SUFFICES ASSUME EndsInv, EndsInv', [EndNext]_allVars, end = "receiver", ~UNCHANGED vars
               PROVE  [Protocol!Next]_(Protocol!vars)
    OBVIOUS
  <2>1. end' = "receiver" /\ [Next]_vars /\ pc'[t2] = "idle"
    BY EndsMove
  <2>2. OneInv(t1) /\ Alone(t1) /\ (OneInv(t1) /\ Alone(t1))' /\ OnlyRuns(t1)' /\ t1 \in Thread
    BY <2>1 DEF EndsInv, ReceiverInv, OnlyRuns, Sizes
  <2>3. QED
    BY <2>1, <2>2, StepRefines
<1>4. EndsInv => (end = "pointer sender" => PointerOut!SharedBufferHolds)
  BY PointerSenderSays
<1>5. EndsInv => Sent!HeldIsOwed
  BY SenderSays
<1>6. QED
  BY <1>1, <1>2, <1>3, <1>4, <1>5, EndsKeep, PTL DEF EndSpec, SoftwareKeepsProtocol

=============================================================================
