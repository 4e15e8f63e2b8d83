---------------------------- MODULE PointerIngress ----------------------------
(***************************************************************************)
(* Software that receives from a pointer switch: the channels of a link    *)
(* share one buffer.  The thread of a channel that has finished with a     *)
(* message adds its chunks to the channel's count and to the shared one,   *)
(* and returns the channel's when both are due.  There is no lock: each    *)
(* atomic operation is a step.                                             *)
(*                                                                         *)
(* The far side is the egress of the pointer switch, known here by what it *)
(* does to its counts.  It starts a packet while its total leaves room for *)
(* the largest one, a channel's first packet and flow control in any case: *)
(* bufferAvailable is true at reset and min(0, ...) makes it false for good*)
(* with the first packet.                                                  *)
(***************************************************************************)
EXTENDS Integers, Sequences, FiniteSetsExt, Sums

CONSTANTS
  Channel,    \* the channels of the link, flow control among them
  FC,         \* the channel of flow control messages
  FifoSize,   \* MULTIFPGA_FIFO_SIZES
  MinBuffer,  \* MINIMUM_CHANNEL_BUFFER
  MaxChunks   \* maxMessageLength: the longest packet, its header not counted

VARIABLES
  flowcontrolCredits,  \* chunks handled and not returned, for each channel
  totalCredits,        \* and for all of them together
  pc, chunks,          \* where the thread of a channel is; its message, or what it returns
  aborted,             \* an assertion of acquireCredits failed
  bufferAvailable,     \* the egress: no packet was sent on the channel yet
  totalCreditsUsed,    \* its count
  unread,              \* chunks sent and not handled
  flowcontrolQ         \* flow control messages on their way, as credit counts

software == <<flowcontrolCredits, totalCredits, pc, chunks, aborted>>
farSide == <<bufferAvailable, totalCreditsUsed, unread, flowcontrolQ>>
vars == <<software, farSide>>

\* What all channels share.
Region == FifoSize - Cardinality(Channel) * MinBuffer

ReturnThreshold == Min({FifoSize \div 2, Region})

\* What the receiver may keep leaves room for a packet; nothing in the code checks
\* that.
PointerIngressAssumption ==
  /\ IsFiniteSet(Channel) /\ FC \in Channel
  /\ {FifoSize, MinBuffer, MaxChunks} \subseteq Nat
  /\ ReturnThreshold < Region - MaxChunks - 1

Init ==
  /\ flowcontrolCredits = [c \in Channel |-> 0]
  /\ totalCredits = 0
  /\ pc = [c \in Channel |-> "idle"]
  /\ chunks = [c \in Channel |-> 0]
  /\ aborted = FALSE
  /\ bufferAvailable = [c \in Channel |-> TRUE]
  /\ totalCreditsUsed = 0
  /\ unread = [c \in Channel |-> 0]
  /\ flowcontrolQ = <<>>

-----------------------------------------------------------------------------

At(c, label) == ~aborted /\ pc[c] = label

Goto(c, label) == pc' = [pc EXCEPT ![c] = label]

Hold(c, n) == chunks' = [chunks EXCEPT ![c] = n]

\* The thread of a channel is handed a message.
Handle(c) ==
  /\ At(c, "idle")
  /\ \E n \in 1..(MaxChunks + 1) :
       /\ n <= unread[c]
       /\ unread' = [unread EXCEPT ![c] = @ - n]
       /\ Hold(c, n)
  /\ Goto(c, "acquire")
  /\ UNCHANGED <<flowcontrolCredits, totalCredits, aborted, bufferAvailable,
                 totalCreditsUsed, flowcontrolQ>>

\* acquireCredits
AcquireLocal(c) ==
  /\ At(c, "acquire")
  /\ flowcontrolCredits' = [flowcontrolCredits EXCEPT ![c] = @ + chunks[c]]
  /\ Goto(c, "regional")
  /\ UNCHANGED <<totalCredits, chunks, aborted, farSide>>

AcquireRegionalCredits(c) ==
  /\ At(c, "regional")
  /\ totalCredits' = totalCredits + chunks[c]
  /\ Hold(c, 0)
  /\ Goto(c, "assert")
  /\ UNCHANGED <<flowcontrolCredits, aborted, farSide>>

\* assert(totalCredits <= MULTIFPGA_FIFO_SIZES), whatever it is by now
CheckTotal(c) ==
  /\ At(c, "assert")
  /\ aborted' = (totalCredits > FifoSize)
  /\ Goto(c, "test")
  /\ UNCHANGED <<flowcontrolCredits, totalCredits, chunks, farSide>>

\* Mutant of MustReturn: a channel returns only what is due on its own.
MustReturnAlone(c) == flowcontrolCredits[c] > ReturnThreshold

MustReturn(c) ==
  \/ flowcontrolCredits[c] > 0 /\ totalCredits > ReturnThreshold
  \/ flowcontrolCredits[c] > ReturnThreshold \div 2

\* freeCredits
Test(c) ==
  /\ At(c, "test")
  /\ Goto(c, IF MustReturn(c) THEN "store" ELSE "idle")
  /\ UNCHANGED <<flowcontrolCredits, totalCredits, chunks, aborted, farSide>>

FetchAndStore(c) ==
  /\ At(c, "store")
  /\ Hold(c, flowcontrolCredits[c])
  /\ flowcontrolCredits' = [flowcontrolCredits EXCEPT ![c] = 0]
  /\ Goto(c, "free")
  /\ UNCHANGED <<totalCredits, aborted, farSide>>

\* Mutant of FreeRegionalCredits: the shared count is not lowered.
FreeRegionalCreditsNot(c) ==
  /\ At(c, "free")
  /\ Goto(c, "push")
  /\ UNCHANGED <<flowcontrolCredits, totalCredits, chunks, aborted, farSide>>

\* The two credits of the message itself are PointerEgress's AcquireCreditsFC.
FreeRegionalCredits(c) ==
  /\ At(c, "free")
  /\ totalCredits' = totalCredits - chunks[c]
  /\ Goto(c, "push")
  /\ UNCHANGED <<flowcontrolCredits, chunks, aborted, farSide>>

Push(c) ==
  /\ At(c, "push")
  /\ flowcontrolQ' = Append(flowcontrolQ, chunks[c])
  /\ Hold(c, 0)
  /\ Goto(c, "idle")
  /\ UNCHANGED <<flowcontrolCredits, totalCredits, aborted, bufferAvailable,
                 totalCreditsUsed, unread>>

-----------------------------------------------------------------------------
(* Outside: the egress of the pointer switch.                              *)

CreditsHigh == totalCreditsUsed < Region - MaxChunks - 1

Spend(c, n) ==
  /\ totalCreditsUsed' = totalCreditsUsed + n
  /\ unread' = [unread EXCEPT ![c] = @ + n]
  /\ bufferAvailable' = [bufferAvailable EXCEPT ![c] = FALSE]
  /\ UNCHANGED <<software, flowcontrolQ>>

Send(c) ==
  /\ c # FC /\ (CreditsHigh \/ bufferAvailable[c])
  /\ \E n \in 1..(MaxChunks + 1) : Spend(c, n)

\* One flow control packet at a time is a bound of the model.
SendFC == unread[FC] = 0 /\ totalCreditsUsed + 2 <= FifoSize /\ Spend(FC, 2)

Refill ==
  /\ flowcontrolQ # <<>>
  /\ totalCreditsUsed' = totalCreditsUsed - Head(flowcontrolQ)
  /\ flowcontrolQ' = Tail(flowcontrolQ)
  /\ UNCHANGED <<software, bufferAvailable, unread>>

-----------------------------------------------------------------------------

Continue(c) ==
  \/ AcquireLocal(c) \/ AcquireRegionalCredits(c) \/ CheckTotal(c)
  \/ Test(c) \/ FetchAndStore(c) \/ FreeRegionalCredits(c) \/ Push(c)

Next ==
  \/ \E c \in Channel : Handle(c) \/ Continue(c) \/ Send(c)
  \/ SendFC \/ Refill

Spec == Init /\ [][Next]_vars

-----------------------------------------------------------------------------

\* Every credit the egress spent is in one place, and the two counts differ by what
\* threads have added to one and not yet to the other.
CreditConservation ==
  LET In(labels) == SumOf([c \in Channel |-> IF pc[c] \in labels THEN chunks[c] ELSE 0])
  IN  /\ totalCreditsUsed =
           SumOf(unread) + SumOf(flowcontrolCredits) + In({"acquire", "free", "push"})
             + SumOf(flowcontrolQ)
      /\ totalCredits + In({"regional"}) = SumOf(flowcontrolCredits) + In({"free"})

\* Threads that each test the shared count after adding to it do not all leave it
\* to another: once all is handled, no more is kept than the threshold, and the
\* egress can start its largest packet (the assertion of line 110 holds, too).
NeverWedged ==
  /\ ~aborted
  /\ (flowcontrolQ = <<>> /\ \A c \in Channel : unread[c] = 0 /\ pc[c] = "idle")
       => totalCreditsUsed <= ReturnThreshold /\ CreditsHigh

=============================================================================
