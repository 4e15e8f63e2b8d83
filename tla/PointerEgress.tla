---------------------------- MODULE PointerEgress ----------------------------
(***************************************************************************)
(* Software that sends to a pointer switch: the channels of a link share   *)
(* one buffer at the far end, of which each is promised a part.  A sender  *)
(* calls acquireCredits, which blocks while neither the shared region nor  *)
(* the channel's own part has room; the thread that receives flow control  *)
(* messages calls freeCredits, which notifies all who sleep.  Both, and    *)
(* acquireCreditsFC of flow control messages, which never blocks, run under*)
(* one mutex from beginning to end, so each pass through it is a step.     *)
(*                                                                         *)
(* The far side is the pointer switch (PointerBuffer), known here by what  *)
(* it does to the counts.  One thread sends on each channel.               *)
(***************************************************************************)
EXTENDS Integers, Sequences, FiniteSetsExt, Sums

CONSTANTS
  Channel,     \* the channels of the link, flow control among them
  FC,          \* the channel of flow control messages
  FifoSize,    \* MULTIFPGA_FIFO_SIZES
  MinBuffer,   \* MINIMUM_CHANNEL_BUFFER
  MaxMessage,  \* longest message in chunks, its header counted
  MaxReturns   \* flow control messages on their way here, at most

PointerEgressAssumption ==
  /\ IsFiniteSet(Channel) /\ FC \in Channel
  /\ {FifoSize, MinBuffer, MaxMessage, MaxReturns} \subseteq Nat

VARIABLES
  totalCredits,        \* chunks sent on the link and not returned
  flowcontrolCredits,  \* and on each channel
  pc, need,            \* where the sender of a channel is, and its messageLength
  aborted,             \* an assertion of freeCredits failed
  outstanding,         \* chunks sent that the far side has not read
  freed,               \* chunks it has read and not returned
  returning            \* flow control messages on their way

software == <<totalCredits, flowcontrolCredits, pc, need, aborted>>
farSide == <<outstanding, freed, returning>>
vars == <<software, farSide>>

\* What all channels share: FLOWCONTROL_IN_CLASS::Init.
Region == FifoSize - Cardinality(Channel) * MinBuffer

\* pointer-ingress.bsv: when the far side returns credits.
ReturnThreshold == Min({FifoSize \div 2, Region})

Init ==
  /\ totalCredits = 0
  /\ flowcontrolCredits = [c \in Channel |-> 0]
  /\ pc = [c \in Channel |-> "idle"]
  /\ need = [c \in Channel |-> 0]
  /\ aborted = FALSE
  /\ outstanding = [c \in Channel |-> 0]
  /\ freed = [c \in Channel |-> 0]
  /\ returning = <<>>

-----------------------------------------------------------------------------

\* Mutant of MustWait: the channel's own part is not kept from the others.
MustWaitForAll(c, n) == totalCredits + n > FifoSize

MustWait(c, n) ==
  /\ totalCredits + n > Region
  /\ flowcontrolCredits[c] + n > MinBuffer

\* n chunks are on their way.
Spend(c, n) ==
  /\ flowcontrolCredits' = [flowcontrolCredits EXCEPT ![c] = @ + n]
  /\ totalCredits' = totalCredits + n
  /\ outstanding' = [outstanding EXCEPT ![c] = @ + n]
  /\ UNCHANGED <<aborted, freed, returning>>

\* One pass through acquireCredits: it takes its credits, or sleeps and lets go
\* of the mutex.
Enter(c, messageLength) ==
  IF MustWait(c, messageLength)
  THEN /\ pc' = [pc EXCEPT ![c] = "wait"]
       /\ need' = [need EXCEPT ![c] = messageLength]
       /\ UNCHANGED <<totalCredits, flowcontrolCredits, aborted, farSide>>
  ELSE /\ pc' = [pc EXCEPT ![c] = "idle"]
       /\ need' = [need EXCEPT ![c] = 0]
       /\ Spend(c, messageLength)

AcquireCredits(c, messageLength) ==
  ~aborted /\ c # FC /\ pc[c] = "idle" /\ Enter(c, messageLength)

\* The while loop goes round.
Wake(c) == ~aborted /\ pc[c] = "woken" /\ Enter(c, need[c])

\* "Flowcontrol will never block": a header and a body, whatever the counts say.
\* That those not yet returned fit into the part of flow control is a bound of the
\* model; nothing in the code checks it.
AcquireCreditsFC ==
  /\ ~aborted
  /\ flowcontrolCredits[FC] + 2 <= MinBuffer
  /\ Spend(FC, 2)
  /\ UNCHANGED <<pc, need>>

\* Mutant of Notified: one of the sleepers is notified.
NotifiedOne ==
  LET sleepers == {c \in Channel : pc[c] = "wait"}
  IN  IF sleepers = {} THEN pc ELSE [pc EXCEPT ![CHOOSE c \in sleepers : TRUE] = "woken"]

\* notify_all
Notified == [c \in Channel |-> IF pc[c] = "wait" THEN "woken" ELSE pc[c]]

\* Mutant of Remaining: the credits of the channel stay taken.
RemainingForTotal(c, credits) == flowcontrolCredits

Remaining(c, credits) == [flowcontrolCredits EXCEPT ![c] = @ - credits]

\* freeCredits: the assertion that some credits are still out is not one the
\* far side knows of; it may return the last ones.
FreeCredits ==
  /\ ~aborted /\ returning # <<>>
  /\ LET message == Head(returning)
     IN  /\ flowcontrolCredits' = Remaining(message.channel, message.credits)
         /\ totalCredits' = totalCredits - message.credits
  /\ returning' = Tail(returning)
  /\ aborted' = (totalCredits' = 0)
  /\ pc' = IF aborted' THEN pc ELSE Notified
  /\ UNCHANGED <<need, outstanding, freed>>

-----------------------------------------------------------------------------
(* Outside: the pointer switch at the other end of the link.               *)

Consume(c) ==
  /\ outstanding[c] > 0
  /\ outstanding' = [outstanding EXCEPT ![c] = @ - 1]
  /\ freed' = [freed EXCEPT ![c] = @ + 1]
  /\ UNCHANGED <<software, returning>>

\* Mutant of TooFree: a channel waits until its own share is due.
TooFreeAlone(c) == freed[c] > ReturnThreshold

TooFree(c) ==
  \/ freed[c] > 0 /\ SumOf(freed) > ReturnThreshold
  \/ freed[c] > ReturnThreshold \div 2

Return(c) ==
  /\ TooFree(c)
  /\ Len(returning) < MaxReturns
  /\ returning' = Append(returning, [channel |-> c, credits |-> freed[c]])
  /\ freed' = [freed EXCEPT ![c] = 0]
  /\ UNCHANGED <<software, outstanding>>

-----------------------------------------------------------------------------

Next ==
  \/ \E c \in Channel :
       \/ \E n \in 1..MaxMessage : AcquireCredits(c, n)
       \/ Wake(c)
       \/ Consume(c) \/ Return(c)
  \/ AcquireCreditsFC \/ FreeCredits

Spec == Init /\ [][Next]_vars

-----------------------------------------------------------------------------

Returning(c) ==
  SumOf([k \in DOMAIN returning |->
           IF returning[k].channel = c THEN returning[k].credits ELSE 0])

\* The two counts agree with each other and with where the chunks are.
CreditConservation ==
  /\ totalCredits = SumOf(flowcontrolCredits)
  /\ \A c \in Channel :
       flowcontrolCredits[c] = outstanding[c] + freed[c] + Returning(c)

\* The parts promised to the channels and the region shared by all of them fit in
\* the buffer together, although each sender looks at its own part only and flow
\* control looks at nothing.
SharedBufferHolds == SumOf(outstanding) <= FifoSize

\* A sender sleeps only as long as there is no room for its message.
NoLostWakeup == ~aborted => \A c \in Channel : pc[c] = "wait" => MustWait(c, need[c])

Quiet ==
  /\ returning = <<>>
  /\ \A c \in Channel : outstanding[c] = 0 /\ ~TooFree(c)

\* Nobody sleeps once the far side has read everything: what it keeps is never so
\* much that a message must wait for it.  This takes messages that fit between
\* the threshold of the far side and the region, or between half of that
\* threshold and the channel's own part; nothing in the code checks that.
NeverWedged == Quiet /\ ~aborted => \A c \in Channel : pc[c] # "wait"

=============================================================================
