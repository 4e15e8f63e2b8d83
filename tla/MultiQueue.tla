----------------------------- MODULE MultiQueue -----------------------------
(***************************************************************************)
(* What a VLevelFIFO promises: several FIFOs of Size slots behind one      *)
(* port, filled by a user who spends enqueue tokens.  A slot that is       *)
(* dequeued becomes free, and a free slot becomes a token again only when  *)
(* the user claims it.  Any subset of the three operations may take place  *)
(* in one cycle.                                                           *)
(***************************************************************************)
EXTENDS Integers, Sequences

CONSTANTS
  NoFifo,  \* number of FIFOs
  Size,    \* slots of each
  Data,    \* what they hold
  None     \* no operation, no value

Fifos == 0..(NoFifo - 1)

Amounts == 0..Size

VARIABLES
  queue,     \* the contents of each FIFO, oldest first
  response,  \* what the last cycle's dequeue returns
  free,      \* slots emptied and not claimed
  tokens     \* enqueue tokens the user holds

vars == <<queue, response, free, tokens>>

Init ==
  /\ queue = [f \in Fifos |-> <<>>]
  /\ response = None
  /\ \E full \in BOOLEAN :
       /\ free = [f \in Fifos |-> IF full THEN Size ELSE 0]
       /\ tokens = [f \in Fifos |-> IF full THEN 0 ELSE Size]

\* enq is None or a FIFO and a datum, deq is None or a FIFO, claim is None or
\* a FIFO and a number of slots.
Step(enq, deq, claim) ==
  /\ enq # None => tokens[enq.idx] > 0
  /\ deq # None => queue[deq] # <<>>
  /\ claim # None => claim.amnt <= free[claim.idx]
  /\ response' = IF deq = None THEN None ELSE Head(queue[deq])
  /\ queue' = [f \in Fifos |->
       LET rest == IF deq = f THEN Tail(queue[f]) ELSE queue[f]
       IN  IF enq # None /\ enq.idx = f THEN Append(rest, enq.data) ELSE rest]
  /\ free' = [f \in Fifos |->
       free[f] + (IF deq = f THEN 1 ELSE 0)
               - (IF claim # None /\ claim.idx = f THEN claim.amnt ELSE 0)]
  /\ tokens' = [f \in Fifos |->
       tokens[f] + (IF claim # None /\ claim.idx = f THEN claim.amnt ELSE 0)
                 - (IF enq # None /\ enq.idx = f THEN 1 ELSE 0)]

Enqs == {None} \cup [idx : Fifos, data : Data]
Deqs == {None} \cup Fifos
Claims == {None} \cup [idx : Fifos, amnt : Amounts]

Next == \E enq \in Enqs, deq \in Deqs, claim \in Claims : Step(enq, deq, claim)

Spec == Init /\ [][Next]_vars

=============================================================================
