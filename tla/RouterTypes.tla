----------------------------- MODULE RouterTypes -----------------------------
(***************************************************************************)
(* generateRouterTypes (umfType.py): the size of the chunk counter depends *)
(* on how much payload fits beside it, which depends on its size, so the   *)
(* code iterates until nothing changes, unless UMF's own header is asked   *)
(* for.  The inputs are any lane.                                          *)
(***************************************************************************)
EXTENDS UMFTypes

CONSTANTS
  Widths, LinkCounts, MaxWidths,   \* the inputs considered
  None

VARIABLES
  viaWidth, viaLinks, maxWidth, aggressive, default,   \* the arguments
  fillerWidth, fillerWidthNext, chunks, methodDummy,
  umfType                                              \* what was returned, or None

inputs == <<viaWidth, viaLinks, maxWidth, aggressive, default>>
iteration == <<fillerWidth, fillerWidthNext, chunks, methodDummy>>
vars == <<inputs, iteration, umfType>>

Init ==
  /\ viaWidth \in Widths
  /\ viaLinks \in LinkCounts
  /\ maxWidth \in MaxWidths
  /\ aggressive \in BOOLEAN
  /\ default \in BOOLEAN
  /\ fillerWidth = -1
  /\ fillerWidthNext = 0
  /\ chunks = -1
  /\ methodDummy = 0
  /\ umfType = None

ReturnDefault ==
  /\ default
  /\ umfType = None
  /\ umfType' = DefaultType(viaWidth)
  /\ UNCHANGED <<inputs, iteration>>

\* Mutant of SizeCounter: the counter is sized for the filler of the round before.
SizeCounterStale == ChunkBits(viaWidth, maxWidth, aggressive, fillerWidth)

\* Mutant of SizeCounter: what fits beside the counter is added to the payload.
SizeCounterAdds == ChunkBits(viaWidth, maxWidth, aggressive, -fillerWidthNext)

\* Mutant of SizeCounter: the payload in the header is counted twice.
SizeCounterTwice == ChunkBits(viaWidth, maxWidth, aggressive, 2 * fillerWidthNext)

SizeCounter == ChunkBits(viaWidth, maxWidth, aggressive, fillerWidthNext)

\* Mutant of Iterate: the padding comes on top of the counter.
IteratePadded ==
  /\ ~default
  /\ fillerWidth # fillerWidthNext
  /\ fillerWidth' = fillerWidthNext
  /\ chunks' = SizeCounter
  /\ methodDummy' = IF aggressive THEN 0 ELSE 10
  /\ fillerWidthNext' = viaWidth - LinkBits(viaLinks) - chunks' - Larger(0, 10 - chunks')
  /\ UNCHANGED <<inputs, umfType>>

Iterate ==
  /\ ~default
  /\ fillerWidth # fillerWidthNext
  /\ fillerWidth' = fillerWidthNext
  /\ chunks' = SizeCounter
  /\ methodDummy' = MethodBits(aggressive, chunks')
  /\ fillerWidthNext' = viaWidth - LinkBits(viaLinks) - chunks' - methodDummy'
  /\ UNCHANGED <<inputs, umfType>>

Return ==
  /\ ~default
  /\ fillerWidth = fillerWidthNext
  /\ umfType = None
  /\ umfType' = UMFType(0, LinkBits(viaLinks), methodDummy, chunks, 0, fillerWidth)
  /\ UNCHANGED <<inputs, iteration>>

Next == ReturnDefault \/ Iterate \/ Return

Spec == Init /\ [][Next]_vars

FairSpec == Spec /\ WF_vars(Next)

-----------------------------------------------------------------------------

done == umfType # None

\* The counter that was returned counts the chunks of the widest packet, given
\* the filler that was returned with it: the loop does not stop one round early
\* (lines 90-103).
CounterIsWideEnough ==
  done => BodyChunks(viaWidth, maxWidth, umfType.filler) <= 2^umfType.msgLength - 1

\* The fields add up to the lane, the check of UMFType's constructor (lines 16-18).
FieldsAddUp ==
  done => umfType.channelID + umfType.serviceID + umfType.methodID + umfType.msgLength
            + umfType.phyReserved + umfType.filler = viaWidth

\* The loop climbs or descends without turning or jumping over a solution: it
\* ends at the fixed point nearest to 0 in the direction of its first step, so
\* that no better filler than the one returned would have been consistent.
NearestFixedPoint ==
  LET Fixed(f) == NextFiller(viaWidth, viaLinks, maxWidth, aggressive, f) = f
      range == (-(viaWidth + viaLinks + Larger(0, maxWidth) + 11))..viaWidth
      up == {f \in range : f >= 0 /\ Fixed(f)}
      down == {f \in range : f < 0 /\ Fixed(f)}
  IN  IF NextFiller(viaWidth, viaLinks, maxWidth, aggressive, 0) >= 0
      THEN CHOOSE f \in up : \A g \in up : f <= g
      ELSE CHOOSE f \in down : \A g \in down : g <= f

\* The filler that is returned is that one.
EndsAtNearestFixedPoint == done /\ ~default => umfType.filler = NearestFixedPoint

\* What the steps return is what network analysis is taken to get from them.
ReturnsTheType ==
  done => umfType = RouterTypesWith(viaWidth, viaLinks, maxWidth, aggressive, default)

=============================================================================
