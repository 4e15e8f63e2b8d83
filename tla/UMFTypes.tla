------------------------------ MODULE UMFTypes -------------------------------
(***************************************************************************)
(* The header of a packet on one lane of a router (umfType.py).  Its fields*)
(* name the link, count the chunks that follow, and, when the parameters   *)
(* are conservative, pad to the size of RRR's own header; what is left of  *)
(* the first chunk, the filler, already carries payload.  On request the   *)
(* header is UMF's own instead, whose fields do not depend on the lane.    *)
(***************************************************************************)
EXTENDS Integers

CONSTANTS
  UMF,               \* widths of the fields of UMF's own header, AWB parameters of umf
  EnableAggressive,  \* AWB parameters ENABLE_AGRESSIVE_UMF_PARAMETERS
  UseDefault         \* and USE_DEFAULT_UMF_PARAMETERS of lim_common

UMFAssumption ==
  /\ UMF \in [channelID : Nat, serviceID : Nat, methodID : Nat, msgLength : Nat, phyReserved : Nat]
  /\ EnableAggressive \in BOOLEAN /\ UseDefault \in BOOLEAN

Larger(a, b) == IF a >= b THEN a ELSE b

CeilDiv(a, b) == -((-a) \div b)

\* int(ceil(log(n, 2))) for n >= 1.
CeilLog2(n) == CHOOSE k \in 0..n : 2^k >= n /\ \A j \in 0..(k - 1) : 2^j < n

LinkBits(links) == IF links > 0 THEN Larger(1, CeilLog2(links)) ELSE 1

\* How many chunks follow the header of the widest packet.
BodyChunks(width, maxWidth, filler) == CeilDiv(Larger(0, maxWidth - filler), width)

\* The bits of the chunk counter for that filler.
ChunkBits(width, maxWidth, aggressive, filler) ==
  Larger(1, CeilLog2(1 + BodyChunks(width, maxWidth, filler)))
    + (IF aggressive THEN 0 ELSE 1)

\* The padding that gives the header the length of RRR's.
MethodBits(aggressive, chunkBits) ==
  IF aggressive THEN 0 ELSE Larger(0, 10 - chunkBits)

\* The filler that is left when the counter is sized for the given one.
NextFiller(width, links, maxWidth, aggressive, filler) ==
  LET chunkBits == ChunkBits(width, maxWidth, aggressive, filler)
  IN  width - LinkBits(links) - chunkBits - MethodBits(aggressive, chunkBits)

\* The filler with which generateRouterTypes returns: it starts from 0 and goes
\* on until nothing changes.  A header that does not fit leaves a negative one.
FillerBits(width, links, maxWidth, aggressive) ==
  LET Next(f) == NextFiller(width, links, maxWidth, aggressive, f)
      Settle[f \in Int] == IF Next(f) = f THEN f ELSE Settle[Next(f)]
  IN  Settle[0]

UMFType(channelID, serviceID, methodID, msgLength, phyReserved, filler) ==
  [channelID |-> channelID, serviceID |-> serviceID, methodID |-> methodID,
   msgLength |-> msgLength, phyReserved |-> phyReserved, filler |-> filler]

DefaultBits == UMF.channelID + UMF.serviceID + UMF.methodID + UMF.msgLength + UMF.phyReserved

\* UMF's own header; the filler of a lane narrower than that is negative.
DefaultType(width) ==
  UMFType(UMF.channelID, UMF.serviceID, UMF.methodID, UMF.msgLength, UMF.phyReserved, width - DefaultBits)

\* The header that is sized for the lane: the service names the link, the length
\* counts chunks.
SizedType(width, links, maxWidth, aggressive) ==
  LET filler == FillerBits(width, links, maxWidth, aggressive)
      chunkBits == ChunkBits(width, maxWidth, aggressive, filler)
  IN  UMFType(0, LinkBits(links), MethodBits(aggressive, chunkBits), chunkBits, 0, filler)

\* generateRouterTypes with both parameters, and with those of the model.
RouterTypesWith(width, links, maxWidth, aggressive, default) ==
  IF default THEN DefaultType(width) ELSE SizedType(width, links, maxWidth, aggressive)

GenerateRouterTypes(width, links, maxWidth) ==
  RouterTypesWith(width, links, maxWidth, EnableAggressive, UseDefault)

\* Width less filler: what the header takes of its chunk.
HeaderBits(width, links, maxWidth) ==
  IF UseDefault THEN DefaultBits ELSE width - FillerBits(width, links, maxWidth, EnableAggressive)

=============================================================================
