------------------------------ MODULE Switches ------------------------------
(***************************************************************************)
(* What the egress and the ingress switch of two connected platforms share:*)
(* the link, the parameters the generated wrapper gives both, and the two  *)
(* ports through which the switches of one platform hand each other flow   *)
(* control packets.                                                        *)
(*                                                                         *)
(* Platform x has one egress queue for each of its data channels to        *)
(* Peer(x) and, after them, one for flow control packets; the ingress of   *)
(* Peer(x) has a queue for each of these, under the same number.           *)
(***************************************************************************)
EXTENDS Integers, Sequences, FiniteSets, SequencesExt, FiniteSetsExt

CONSTANTS
  Side,            \* the two platforms
  NumData,         \* data channels of each side's egress
  FifoSize,        \* MULTIFPGA_FIFO_SIZES, a power of two
  MaxChunks,       \* maxPacketSize of the data channels, header not counted
  SingleCycleArb,  \* singleCycleArb of mkEgressSwitch
  LinkDepth,       \* bound: chunks the physical channel holds
  None             \* tagged Invalid, an empty slot

Peer(x) == CHOOSE y \in Side : y # x

Fc(x) == NumData[x]

DataQueues(x) == 0..(NumData[x] - 1)

Queues(x) == 0..NumData[x]

\* Mutant of BypassFlowcontrol: flow control packets wait for credits as well.
NeverBypass(x, q) == FALSE

\* bypassFlowcontrol of the queue's EGRESS_PACKET_GENERATOR.
BypassFlowcontrol(x, q) == q = Fc(x)

MaxPacketSize(x, q) == IF q = Fc(x) THEN 1 ELSE MaxChunks

MaximumPacketSize(x) == Max({MaxPacketSize(x, q) : q \in Queues(x)})

\* Credit counts are Bit#(TAdd#(1,TLog#(MULTIFPGA_FIFO_SIZES))).
CreditMod == 2 * FifoSize

ReturnThreshold == FifoSize \div 2

\* A header names a service and the chunks that follow it; a credit chunk, the
\* body of a flow control packet, names a service and its credits.  Both are
\* the same bits to a switch that unpacks them.  The idx of a data chunk, whose
\* contents do not matter, remembers the queue it came from.
Header(q, k) == [kind |-> "header", idx |-> q, amnt |-> k]
Credit(q, k) == [kind |-> "credit", idx |-> q, amnt |-> k]
DataChunk(q) == [kind |-> "data", idx |-> q, amnt |-> 0]

Chunks == [kind : {"header", "credit", "data"},
           idx : UNION {Queues(x) : x \in Side},
           amnt : 0..(2 * FifoSize)]

ASSUME SwitchAssumption ==
  /\ \E a, b \in Side : a # b /\ Side = {a, b}
  /\ NumData \in [Side -> Nat]
  /\ FifoSize \in Nat \ {0}
  /\ MaxChunks \in Nat
  /\ SingleCycleArb \in BOOLEAN
  /\ LinkDepth \in Nat \ {0}
  /\ None \notin Nat \cup Chunks

VARIABLES
  wire,        \* wire[x]: chunks on their way from x to Peer(x)
  headerFIFO,  \* headerFIFO[x]: flow control headers x is about to send
  bodyFIFO,    \* bodyFIFO[x]: their bodies
  portRead,    \* portRead[x]: the chunk x's flow control ingress port returns
  finish       \* the $finish statements that were reached

sharedVars == <<wire, headerFIFO, bodyFIFO, portRead, finish>>

SharedInit ==
  /\ wire = [x \in Side |-> <<>>]
  /\ headerFIFO = [x \in Side |-> 0]
  /\ bodyFIFO = [x \in Side |-> <<>>]
  /\ portRead = [x \in Side |-> None]
  /\ finish = {}

\* headerFIFO and bodyFIFO are made by mkFIFOF.
FifofDepth == 2

LinkReady(x) == Len(wire[x]) < LinkDepth

=============================================================================
