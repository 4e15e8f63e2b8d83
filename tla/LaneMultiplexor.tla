--------------------------- MODULE LaneMultiplexor ---------------------------
(***************************************************************************)
(* The multiplexors that generateMultiplexors.py writes for the two ends of*)
(* a connection with several lanes.  The egress end packs what the lanes   *)
(* give it in one cycle, with a valid bit each, into one word of the       *)
(* physical channel; the ingress end splits the word over one FIFO per     *)
(* lane and drops the invalid parts.  Rules are atomic: a cycle is a       *)
(* sequence of them.                                                       *)
(***************************************************************************)
EXTENDS Sequences, SequencesExt, FiniteSets

CONSTANTS
  Lanes,
  Words,
  Invalid,
  ChannelSize      \* words in the physical channel (external)

MultiplexorAssumption ==
  /\ IsFiniteSet(Lanes)
  /\ ChannelSize \in Nat \ {0}
  /\ Invalid \notin Words

VARIABLES
  channel,         \* physical words: what each lane has in them
  fifo             \* the bypass FIFO of each lane at the ingress end

vars == <<channel, fifo>>

\* With one lane there is no valid bit (packPulseWires).
PackPulseWires == Cardinality(Lanes) > 1

Part == IF PackPulseWires THEN Words \cup {Invalid} ELSE Words

TypeOK ==
  /\ channel \in Seq([Lanes -> Part])
  /\ Len(channel) <= ChannelSize
  /\ fifo \in [Lanes -> {<<>>} \cup {<<w>> : w \in Part}]

Init ==
  /\ channel = <<>>
  /\ fifo = [v \in Lanes |-> <<>>]

-----------------------------------------------------------------------------
(* The egress multiplexor.                                                 *)

WriteReady == Len(channel) < ChannelSize

\* mergeData: the parts of the lanes that pulsed are valid.
Packed(sent) == [v \in Lanes |-> IF v \in DOMAIN sent THEN sent[v] ELSE Invalid]

\* A cycle in which the lanes in the domain of sent call their methods; the
\* rule fires only if there is one.
MergeData(sent) ==
  /\ WriteReady
  /\ DOMAIN sent # {}
  /\ channel' = Append(channel, Packed(sent))
  /\ UNCHANGED fifo

-----------------------------------------------------------------------------
(* The ingress multiplexor.                                                *)

\* Mutant of Deliverable: only the lanes that have a word need room.
DeliverableToSome ==
  \E v \in Lanes : fifo[v] = <<>> /\ Head(channel)[v] # Invalid

\* Every lane's FIFO takes its part, so that all of them must have room.
Deliverable == \A v \in Lanes : fifo[v] = <<>>

SendData ==
  /\ channel # <<>>
  /\ Deliverable
  /\ fifo' = [v \in Lanes |-> <<Head(channel)[v]>>]
  /\ channel' = Tail(channel)

\* Mutant of Drop: the rule fires, but does not dequeue.
DropWithoutDeq(v) ==
  /\ fifo[v] = <<Invalid>>
  /\ UNCHANGED vars

\* deq_<lane>: an invalid part leaves at once.
Drop(v) ==
  /\ fifo[v] = <<Invalid>>
  /\ fifo' = [fifo EXCEPT ![v] = <<>>]
  /\ UNCHANGED channel

\* The ingress switch of lane v takes a word: <lane>_first and <lane>_deq.
Take(v) ==
  /\ fifo[v] # <<>>
  /\ fifo[v] # <<Invalid>>
  /\ fifo' = [fifo EXCEPT ![v] = <<>>]
  /\ UNCHANGED channel

Next ==
  \/ \E S \in SUBSET Lanes : \E sent \in [S -> Words] : MergeData(sent)
  \/ SendData
  \/ \E v \in Lanes : Drop(v) \/ Take(v)

Spec == Init /\ [][Next]_vars

\* The scheduler fires every rule that stays enabled, and an ingress switch
\* takes every word, because credits reserve a place for it.
FairSpec == Spec /\ WF_vars(SendData) /\ \A v \in Lanes : WF_vars(Drop(v)) /\ WF_vars(Take(v))

-----------------------------------------------------------------------------

\* What is under way on lane v.
InFlight(v) ==
  LET valid(w) == w # Invalid
      part(word) == word[v]
  IN  SelectSeq(fifo[v], valid) \o SelectSeq([i \in DOMAIN channel |-> part(channel[i])], valid)

Abstract == INSTANCE LaneChannels WITH queue <- [v \in Lanes |-> InFlight(v)]

\* Although all lanes travel in the same words and wait for each other, each is
\* a FIFO that loses, doubles, reorders and invents nothing.
ImplementsLaneChannels == Abstract!Spec

\* The lanes never block each other for good: a full channel, whose first word
\* waits for room in the FIFO of every lane, has room again.
ChannelDrains == ~WriteReady ~> WriteReady

=============================================================================
