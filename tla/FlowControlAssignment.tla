----------------------- MODULE FlowControlAssignment -------------------------
(***************************************************************************)
(* analyzeNetworkNonuniform (analyzeNetwork.py), after the lanes of every  *)
(* connection have been cut: which lane, under which number, carries the   *)
(* flow control of which ingress lane.  The credits of an ingress on       *)
(* platform p from t go home over p's own egress to t; p chooses the lane, *)
(* and both ends must build their routers for the choice.                  *)
(***************************************************************************)
EXTENDS UMFTypes, Sequences, FiniteSets, FiniteSetsExt, Functions

CONSTANTS
  Platforms,
  Connections,    \* pairs <<p, t>> such that p has an egress to t
  PlatformTypes,  \* the assignments of "FPGA", "BLUESIM" or "CPU" to consider
  LaneChoices,    \* the sequences of lanes that may have been cut
  Bits, HeaderSize, LoadDivisor,   \* 8, 7 and 128
  None

FlowControlAssumption ==
  /\ Connections \subseteq Platforms \X Platforms
  /\ None \notin Connections
  \* A link one way is a legal environment, but the flow control of its ingress is
  \* then looked for on an egress that is not there, and the build stops (line 493).
  /\ \A c \in Connections : <<c[2], c[1]>> \in Connections
  \* allocateFunction always finds one lane; bits are those of its links.
  /\ LaneChoices \subseteq
       Seq([width : Nat \ {0}, load : Nat, bits : Seq(Nat)]) \ {<<>>}
  /\ Bits \in Nat /\ HeaderSize \in Nat
  /\ LoadDivisor \in Nat \ {0}

VARIABLES
  platformType,
  lanes,                         \* viasFinal of every connection
  todo,                          \* connections whose return lanes are open
  current,                       \* the connection at work, or None
  fcAssignment,                  \* ingressFlowcontrolAssignment
  egressLinks, viaLoads,         \* links and load of each lane so far
  logicalEgress, logicalIngress  \* what the two ends' routers are built from

vars == <<platformType, lanes, todo, current, fcAssignment, egressLinks, viaLoads,
          logicalEgress, logicalIngress>>

Back(c) == <<c[2], c[1]>>

\* The data links of lane v, numbered from 0, and the widest of them.
DataLinks(c, v) == Len(lanes[c][v].bits)

MaxWidth(c, v) == Max({0} \cup Range(lanes[c][v].bits))

ToCPU(type, c) == "CPU" \in {type[c[1]], type[c[2]]}

\* Connections to a CPU have one lane (getMaxViasPair), wide enough for the header
\* that software exchanges with it.
Feasible(cut, type) ==
  \A c \in Connections : ToCPU(type, c) => Len(cut[c]) = 1 /\ cut[c][1].width >= DefaultBits

Init ==
  /\ platformType \in PlatformTypes
  /\ lanes \in [Connections -> LaneChoices]
  /\ Feasible(lanes, platformType)
  /\ todo = Connections
  /\ current = None
  /\ fcAssignment = [c \in Connections |-> <<>>]
  /\ egressLinks = [c \in Connections |-> <<>>]
  /\ viaLoads = [c \in Connections |-> <<>>]
  /\ logicalEgress = [c \in Connections |-> <<>>]
  /\ logicalIngress = [c \in Connections |-> <<>>]

\* The connections of one platform are handled before those of another.
MayBegin(c) ==
  \A q \in Platforms \ {c[1]} :
    \/ \A d \in Connections : d[1] = q => d \in todo
    \/ \A d \in Connections : d[1] = q => d \notin todo

\* Platform c[1] turns to its ingress from c[2].
Begin(c) ==
  /\ current = None
  /\ c \in todo
  /\ MayBegin(c)
  /\ current' = c
  /\ todo' = todo \ {c}
  /\ egressLinks' = [egressLinks EXCEPT ![c] = [v \in DOMAIN lanes[c] |-> DataLinks(c, v)]]
  /\ viaLoads' = [viaLoads EXCEPT ![c] = [v \in DOMAIN lanes[c] |-> lanes[c][v].load]]
  /\ UNCHANGED <<platformType, lanes, fcAssignment, logicalEgress, logicalIngress>>

\* The load of lane v of connection c if it carries another return.
LoadWith(c, v) ==
  (lanes[c][v].load \div LoadDivisor) * CeilDiv(Bits + HeaderSize, lanes[c][v].width)
    + viaLoads[c][v]

LeastLoaded(c) ==
  CHOOSE v \in DOMAIN lanes[c] :
    \A w \in DOMAIN lanes[c] :
      \/ LoadWith(c, v) < LoadWith(c, w)
      \/ LoadWith(c, v) = LoadWith(c, w) /\ v <= w

\* Mutant of NextLink: every return is the first link after the data.
NextLinkFirst(c, v) == DataLinks(c, v)

\* Mutant of NextLink: the number is taken after the count has grown.
NextLinkLate(c, v) == egressLinks[c][v] + 1

\* The number that the next link on lane v gets.
NextLink(c, v) == egressLinks[c][v]

\* An ingress lane from c[2] has no return yet.
Pending(c) == Len(fcAssignment[c]) < Len(lanes[Back(c)])

\* The next ingress lane from c[2] gets its return on one of c's lanes.
Assign(c) ==
  /\ current = c
  /\ Pending(c)
  /\ LET v == LeastLoaded(c)
     IN  /\ fcAssignment' = [fcAssignment EXCEPT ![c] = Append(@, [via |-> v, link |-> NextLink(c, v)])]
         /\ egressLinks' = [egressLinks EXCEPT ![c][v] = @ + 1]
         /\ viaLoads' = [viaLoads EXCEPT ![c][v] = LoadWith(c, v)]
  /\ UNCHANGED <<platformType, lanes, todo, current, logicalEgress, logicalIngress>>

End(c) ==
  /\ current = c
  /\ ~Pending(c)
  /\ current' = None
  /\ UNCHANGED <<platformType, lanes, todo, fcAssignment, egressLinks, viaLoads, logicalEgress, logicalIngress>>

-----------------------------------------------------------------------------
(* The final structures, once every return has its place.                  *)

\* Where the credits of connection c's lanes come back: c's far end chose.
ReturnOf(c) == fcAssignment[Back(c)]

\* Mutant of LinksOn: the routers are built for the data links only.
LinksWithoutReturns(c, v) == DataLinks(c, v)

LinksOn(c, v) == egressLinks[c][v]

\* generateRouterTypesPair: UMF's own header if an end is a CPU.
GenerateRouterTypesPair(c, width, links, maxWidth) ==
  IF ToCPU(platformType, c) THEN RouterTypesWith(width, links, maxWidth, FALSE, TRUE)
  ELSE GenerateRouterTypes(width, links, maxWidth)

\* Mutant of HeaderOf: the header of the first pass, which knows no returns.
HeaderOfFirstPass(c, v) ==
  GenerateRouterTypesPair(c, lanes[c][v].width, DataLinks(c, v), MaxWidth(c, v))

HeaderOf(c, v) ==
  GenerateRouterTypesPair(c, lanes[c][v].width, LinksOn(c, v), MaxWidth(c, v))

\* One end of lane v of connection c.
LaneEnd(c, v) ==
  [links |-> LinksOn(c, v), ioLinks |-> DataLinks(c, v),
   fcLinks |-> LinksOn(c, v) - DataLinks(c, v),
   fcVia |-> ReturnOf(c)[v].via, fcLink |-> ReturnOf(c)[v].link,
   umfType |-> HeaderOf(c, v), filler |-> HeaderOf(c, v).filler]

Finish(c) ==
  /\ todo = {}
  /\ current = None
  /\ logicalEgress[c] = <<>>
  /\ logicalEgress' = [logicalEgress EXCEPT ![c] = [v \in DOMAIN egressLinks[c] |-> LaneEnd(c, v)]]
  /\ logicalIngress' = [logicalIngress EXCEPT ![c] = [v \in DOMAIN egressLinks[c] |-> LaneEnd(c, v)]]
  /\ UNCHANGED <<platformType, lanes, todo, current, fcAssignment, egressLinks, viaLoads>>

Next == \E c \in Connections : Begin(c) \/ Assign(c) \/ End(c) \/ Finish(c)

Spec == Init /\ [][Next]_vars
-----------------------------------------------------------------------------

TypeOK ==
  /\ todo \subseteq Connections
  /\ current \in Connections \cup {None}
  /\ \A c \in Connections :
       /\ egressLinks[c] \in Seq(Nat)
       /\ viaLoads[c] \in Seq(Nat)
       /\ Len(fcAssignment[c]) <= Len(lanes[Back(c)])
       /\ \A i \in DOMAIN fcAssignment[c] : fcAssignment[c][i].via \in DOMAIN lanes[c]

\* The numbers of the returns that lane v of c carries.
ReturnsOn(c, v) ==
  {fcAssignment[c][u].link : u \in {x \in DOMAIN fcAssignment[c] : fcAssignment[c][x].via = v}}

\* On each lane the returns follow the data links without gaps, and no two
\* share a number, at every step of the assignment (lines 504-531).
ReturnsFollowData ==
  \A c \in Connections : \A v \in DOMAIN egressLinks[c] :
    /\ ReturnsOn(c, v) = DataLinks(c, v)..(egressLinks[c][v] - 1)
    /\ Cardinality(ReturnsOn(c, v))
         = Cardinality({u \in DOMAIN fcAssignment[c] : fcAssignment[c][u].via = v})

\* The credits of lane v come back on a link of the opposite connection which
\* both ends of that connection know to be a flow control link, whatever the
\* order in which the two ends were handled (lines 534-581).
ReturnsMeet ==
  (\A c \in Connections : logicalEgress[c] # <<>>) =>
    \A c \in Connections : \A v \in DOMAIN logicalEgress[c] :
      LET there == logicalEgress[c][v]
          back == logicalIngress[Back(c)]
      IN  /\ there.fcVia \in DOMAIN back
          /\ there.fcLink \in back[there.fcVia].ioLinks..(back[there.fcVia].links - 1)

\* A header is sized for data and returns together, or is UMF's, whatever there is:
\* its link field can name every link of the lane, its length the chunks of the
\* widest packet, and it still fits the lane once the returns have made the link
\* field wider (lines 534-581).
HeaderStillFits ==
  \A c \in Connections : \A v \in DOMAIN logicalEgress[c] :
    LET end == logicalEgress[c][v]
    IN  /\ end.links = DataLinks(c, v) + Cardinality(ReturnsOn(c, v))
        /\ end.links <= 2^end.umfType.serviceID
        /\ BodyChunks(lanes[c][v].width, MaxWidth(c, v), end.filler) <= 2^end.umfType.msgLength - 1
        /\ end.filler >= 0

=============================================================================
