--------------------------- MODULE CreditProtocol ---------------------------
(***************************************************************************)
(* What the flow control of a router promises for one data channel.  The   *)
(* sender owns credits, one per slot of the receiver's buffer.  A packet   *)
(* spends its credits when its header leaves; every chunk the receiver's   *)
(* consumer takes out frees one slot; freed slots are handed back in a     *)
(* batch, and only when more than Threshold are free.                      *)
(*                                                                         *)
(* FlowControlLink, SoftwareEgress and SoftwareIngress implement this      *)
(* specification: hardware on both ends of the channel, or software on one *)
(* of them.  Several of the events may share a clock cycle.                *)
(***************************************************************************)
EXTENDS Integers

CONSTANTS
  Capacity,   \* MULTIFPGA_FIFO_SIZES: slots of the channel at the receiver
  MaxPacket,  \* the largest maxPacketSize of the sender's queues
  Threshold   \* returnThreshold of the receiver

\* The code sets Capacity to a power of two and Threshold to half of it.
ASSUME CreditAssumption ==
  /\ Capacity \in Nat
  /\ MaxPacket \in Nat
  /\ Threshold \in Nat
  /\ Capacity <= 2 * Threshold + 1

VARIABLES
  credits,    \* sender: slots it may still fill
  inFlight,   \* chunks paid for that have not reached the receiver's buffer
  stored,     \* chunks in the receiver's buffer
  freed,      \* slots emptied and not handed back yet
  returning   \* credits in a flow control message on its way to the sender

vars == <<credits, inFlight, stored, freed, returning>>

Init ==
  /\ credits = Capacity
  /\ inFlight = 0
  /\ stored = 0
  /\ freed = 0
  /\ returning = 0

-----------------------------------------------------------------------------

Events == {"deliver", "return", "refill"}

\* How much e adds when it is among the events.
On(e, events, amount) == IF e \in events THEN amount ELSE 0

\* A packet of k chunks, header included, is paid for when it starts; none
\* starts while credits are being added.  k is 0 if none starts.
MaySend(k, events) ==
  /\ k <= credits
  /\ "refill" \in events => k = 0

\* Mutant of MayReturn: any free slot triggers a return.
MayReturnEager(events) == "return" \in events => freed > 0

\* Mutant of MayReturn: the threshold is a slot too high.
MayReturnLate(events) == "return" \in events => freed > Threshold + 1

MayReturn(events) == "return" \in events => freed > Threshold

May(k, n, events) ==
  /\ MaySend(k, events)
  /\ n <= stored
  /\ "deliver" \in events => inFlight > 0
  /\ MayReturn(events)
  /\ "refill" \in events => returning > 0

\* Mutant of Free: the slots are handed back but not claimed (no decrFree).
FreeUnclaimed(n, events) == freed' = freed + n

\* Mutant of Free: a slot emptied in the cycle of the return is forgotten.
FreeForgets(n, events) == freed' = IF "return" \in events THEN 0 ELSE freed + n

\* A batch takes every slot that was free.
Free(n, events) == freed' = freed + n - On("return", events, freed)

\* k chunks are started, n chunks are taken by the consumer, and the events
\* take place, all at once.
Step(k, n, events) ==
  /\ May(k, n, events)
  /\ credits' = credits - k + On("refill", events, returning)
  /\ inFlight' = inFlight + k - On("deliver", events, 1)
  /\ stored' = stored + On("deliver", events, 1) - n
  /\ Free(n, events)
  /\ returning' = returning + On("return", events, freed)
                            - On("refill", events, returning)

Amounts == 0..(MaxPacket + 1)

Next == \E k, n \in Amounts, events \in SUBSET Events : Step(k, n, events)

Spec == Init /\ [][Next]_vars

Happens(e) ==
  \E k, n \in Amounts, events \in SUBSET Events :
    e \in events /\ Step(k, n, events)

Consumes ==
  \E k \in Amounts, n \in Amounts \ {0}, events \in SUBSET Events :
    Step(k, n, events)

\* Every part but the sender keeps going: the link delivers, the consumer
\* drains its queue, the switches are clocked logic that fires when it can.
Fairness ==
  /\ \A e \in Events : WF_vars(Happens(e))
  /\ WF_vars(Consumes)

FairSpec == Spec /\ Fairness

-----------------------------------------------------------------------------

\* Credits and chunks are counted in Nat: nobody goes below zero.
TypeOK ==
  /\ credits \in Nat
  /\ inFlight \in Nat
  /\ stored \in Nat
  /\ freed \in Nat
  /\ returning \in Nat

\* Every slot of the receiver's buffer is accounted for exactly once.
Conservation == credits + inFlight + stored + freed + returning = Capacity

\* A flow control message carries more than Threshold credits.
FullBatches == returning > 0 => returning > Threshold

\* Whatever is on its way finds room in the buffer, and a refill never
\* raises the sender above the buffer's size.
NoOverflow ==
  /\ stored + inFlight <= Capacity
  /\ credits + returning <= Capacity

\* The receiver never has a second batch ready while the first is on its way,
\* so a channel has at most one flow control message outstanding.
OneReturnInFlight == freed > Threshold => returning = 0

\* A sender too poor to start a packet is owed something that will come: a
\* chunk still moving, a message on its way, or a batch ready to be sent.
NeverWedged ==
  credits < MaxPacket + 1
    => inFlight + stored + returning > 0 \/ freed > Threshold

\* A refill leaves the sender able to start a packet of any size.
RefillUnblocks == [][credits' > credits => credits' >= MaxPacket + 1]_vars

\* A sender is never blocked for good, whatever it does with its credits.
AlwaysUnblocked == []<>(credits >= MaxPacket + 1)

=============================================================================
