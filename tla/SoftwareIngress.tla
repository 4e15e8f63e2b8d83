---------------------------- MODULE SoftwareIngress --------------------------
(***************************************************************************)
(* Flow control of a channel that software receives on:                    *)
(* FLOWCONTROL_LI_CHANNEL_IN_CLASS.  A thread that has finished with a     *)
(* message calls acquireCredits with its chunks and then freeCredits, which*)
(* sends the credits back once there are more than half a buffer of them.  *)
(* The count is an atomic UINT32 without a lock, "thread safe under        *)
(* idempotence".                                                           *)
(*                                                                         *)
(* Each atomic operation is a step.  The far side is an egress switch,     *)
(* known here by what it does to its credits: a packet may start when they *)
(* cover the largest one and its header, and each flow control message is  *)
(* added to them and must then cover the largest one (scan_responses).     *)
(***************************************************************************)
EXTENDS Integers, Sequences, FiniteSets, Sums

CONSTANTS
  Thread,     \* the threads that process messages of this channel
  FifoSize,   \* MULTIFPGA_FIFO_SIZES
  MaxPacket   \* maxPacketSize of the egress queue: chunks after the header

ASSUME SoftwareIngressAssumption ==
  /\ IsFiniteSet(Thread)
  /\ FifoSize \in Nat \ {0}
  /\ MaxPacket \in Nat

VARIABLES
  credits,             \* the egress: portCredits of the channel
  inFlight,            \* chunks sent and not received
  stored,              \* chunks received and not handed to a thread
  chunks,              \* chunks[t]: length of the message t has in hand
  flowcontrolCredits,
  pc,                  \* pc[t]: where thread t is
  creditsToReturn,     \* creditsToReturn[t]
  flowcontrolQ,        \* flow control messages on their way, as credit counts
  finish               \* the egress reached a $finish

software == <<chunks, flowcontrolCredits, pc, creditsToReturn>>
vars == <<credits, inFlight, stored, software, flowcontrolQ, finish>>

ReturnThreshold == FifoSize \div 2

Init ==
  /\ credits = FifoSize
  /\ inFlight = 0
  /\ stored = 0
  /\ chunks = [t \in Thread |-> 0]
  /\ flowcontrolCredits = 0
  /\ pc = [t \in Thread |-> "idle"]
  /\ creditsToReturn = [t \in Thread |-> 0]
  /\ flowcontrolQ = <<>>
  /\ finish = FALSE

-----------------------------------------------------------------------------

Goto(t, label) == pc' = [pc EXCEPT ![t] = label]

\* A thread is handed a message.  Where one ends and the next begins is left
\* open: any number of chunks up to a whole packet may be a message.
Handle(t) ==
  /\ pc[t] = "idle"
  /\ \E n \in 1..(MaxPacket + 1) :
       /\ n <= stored
       /\ stored' = stored - n
       /\ chunks' = [chunks EXCEPT ![t] = n]
  /\ Goto(t, "acquire")
  /\ UNCHANGED <<credits, inFlight, flowcontrolCredits, creditsToReturn,
                 flowcontrolQ, finish>>

AcquireCredits(t) ==
  /\ pc[t] = "acquire"
  /\ flowcontrolCredits' = flowcontrolCredits + chunks[t]
  /\ chunks' = [chunks EXCEPT ![t] = 0]
  /\ Goto(t, "test")
  /\ UNCHANGED <<credits, inFlight, stored, creditsToReturn, flowcontrolQ, finish>>

\* Mutant of Test: any credits are returned.
TestAnyCredits(t) ==
  /\ pc[t] = "test"
  /\ Goto(t, IF flowcontrolCredits > 0 THEN "store" ELSE "idle")
  /\ UNCHANGED <<credits, inFlight, stored, chunks, flowcontrolCredits,
                 creditsToReturn, flowcontrolQ, finish>>

\* Mutant of Test: the threshold is one too high.
TestLate(t) ==
  /\ pc[t] = "test"
  /\ Goto(t, IF flowcontrolCredits > ReturnThreshold + 1 THEN "store" ELSE "idle")
  /\ UNCHANGED <<credits, inFlight, stored, chunks, flowcontrolCredits,
                 creditsToReturn, flowcontrolQ, finish>>

\* freeCredits: is there enough to return?
Test(t) ==
  /\ pc[t] = "test"
  /\ Goto(t, IF flowcontrolCredits > ReturnThreshold THEN "store" ELSE "idle")
  /\ UNCHANGED <<credits, inFlight, stored, chunks, flowcontrolCredits,
                 creditsToReturn, flowcontrolQ, finish>>

\* Mutant of FetchAndStore: the count is read and not reset.
FetchOnly(t) ==
  /\ pc[t] = "store"
  /\ creditsToReturn' = [creditsToReturn EXCEPT ![t] = flowcontrolCredits]
  /\ flowcontrolCredits' = flowcontrolCredits
  /\ Goto(t, "push")
  /\ UNCHANGED <<credits, inFlight, stored, chunks, flowcontrolQ, finish>>

\* flowcontrolCredits.fetch_and_store(0).
FetchAndStore(t) ==
  /\ pc[t] = "store"
  /\ creditsToReturn' = [creditsToReturn EXCEPT ![t] = flowcontrolCredits]
  /\ flowcontrolCredits' = 0
  /\ Goto(t, "push")
  /\ UNCHANGED <<credits, inFlight, stored, chunks, flowcontrolQ, finish>>

Push(t) ==
  /\ pc[t] = "push"
  /\ flowcontrolQ' = Append(flowcontrolQ, creditsToReturn[t])
  /\ creditsToReturn' = [creditsToReturn EXCEPT ![t] = 0]
  /\ Goto(t, "idle")
  /\ UNCHANGED <<credits, inFlight, stored, chunks, flowcontrolCredits, finish>>

-----------------------------------------------------------------------------
(* Outside: the egress switch at the other end of the channel.             *)

Send ==
  /\ credits >= MaxPacket + 1
  /\ \E k \in 1..(MaxPacket + 1) :
       /\ credits' = credits - k
       /\ inFlight' = inFlight + k
  /\ UNCHANGED <<stored, software, flowcontrolQ, finish>>

Deliver ==
  /\ inFlight > 0
  /\ inFlight' = inFlight - 1
  /\ stored' = stored + 1
  /\ UNCHANGED <<credits, software, flowcontrolQ, finish>>

Refill ==
  /\ flowcontrolQ # <<>>
  /\ credits' = credits + Head(flowcontrolQ)
  /\ flowcontrolQ' = Tail(flowcontrolQ)
  /\ finish' = (finish \/ credits' < MaxPacket \/ credits' > FifoSize)
  /\ UNCHANGED <<inFlight, stored, software>>

-----------------------------------------------------------------------------

Continue(t) == AcquireCredits(t) \/ Test(t) \/ FetchAndStore(t) \/ Push(t)

Next ==
  \/ \E t \in Thread : Handle(t) \/ Continue(t)
  \/ Send \/ Deliver \/ Refill

Spec == Init /\ [][Next]_vars

\* Threads are scheduled, a message that is there is handled, and the link and
\* the egress run.  Nobody has to send.
Fairness ==
  /\ \A t \in Thread : WF_vars(Continue(t))
  /\ WF_vars(\E t \in Thread : Handle(t))
  /\ WF_vars(Deliver) /\ WF_vars(Refill)

FairSpec == Spec /\ Fairness

-----------------------------------------------------------------------------

TypeOK ==
  /\ {credits, inFlight, stored, flowcontrolCredits} \subseteq Nat
  /\ chunks \in [Thread -> 0..(MaxPacket + 1)]
  /\ pc \in [Thread -> {"idle", "acquire", "test", "store", "push"}]
  /\ creditsToReturn \in [Thread -> Nat]
  /\ flowcontrolQ \in Seq(Nat)
  /\ finish \in BOOLEAN

Returning == SumOf(creditsToReturn) + SumOf(flowcontrolQ)

\* "Thread safe under idempotence", the part that is true: whatever the threads
\* interleave, every credit is returned once.
CreditConservation ==
  credits + inFlight + stored + SumOf(chunks) + flowcontrolCredits + Returning
    = FifoSize

\* Credits are never forgotten: as long as there are enough to return, a thread
\* that has not tested them yet, or is about to take them, is under way.
SomeoneReturns ==
  flowcontrolCredits > ReturnThreshold
    => \E t \in Thread : pc[t] \in {"test", "store"}

\* The egress is never given a message that leaves it without room for its
\* largest packet, or with more credits than slots.
NeverFinishes == ~finish

\* A sender without credits gets credits again.
AlwaysUnblocked == []<>(credits >= MaxPacket + 1)

Protocol == INSTANCE CreditProtocol WITH
  Capacity <- FifoSize,
  Threshold <- ReturnThreshold,
  stored <- stored + SumOf(chunks),
  freed <- flowcontrolCredits,
  returning <- Returning

\* A single thread keeps the protocol the egress switch relies on.
ImplementsCreditProtocol == Protocol!Spec

=============================================================================
