---------------------------- MODULE LaneChannels -----------------------------
(***************************************************************************)
(* What the lanes of a connection promise to the switches at its ends: each*)
(* lane is a FIFO of words of its own, and lanes share nothing but the     *)
(* clock, in which several of them may take a word.                        *)
(***************************************************************************)
EXTENDS Sequences

CONSTANTS Lanes, Words

VARIABLE queue

Init == queue = [v \in Lanes |-> <<>>]

\* A cycle in which the lanes in the domain of sent take a word each.
Put(sent) ==
  queue' = [v \in Lanes |-> IF v \in DOMAIN sent THEN Append(queue[v], sent[v]) ELSE queue[v]]

Get(v) ==
  /\ queue[v] # <<>>
  /\ queue' = [queue EXCEPT ![v] = Tail(@)]

Next ==
  \/ \E S \in SUBSET Lanes : \E sent \in [S -> Words] : Put(sent)
  \/ \E v \in Lanes : Get(v)

Spec == Init /\ [][Next]_queue

=============================================================================
