------------------------------- MODULE MCRouter -------------------------------
(***************************************************************************)
(* The passes that build the routers and what runs on the lanes they build:*)
(* the sizing of headers, the cutting of a connection into lanes, the      *)
(* assignment of flow control links with the routers generated for it, and *)
(* the multiplexors; one of them to a behaviour.  Variables of the others  *)
(* keep the value None, and the multiplexors' stay empty.                  *)
(*                                                                         *)
(* Headers: lanes from eight bits, too narrow for a conservative header, to*)
(* many times that, and packets up to dozens of chunks.  Cutting: three    *)
(* links, narrow and wide, idle and busy, on connections that allow no, one*)
(* or two carved lanes.  Routers: three platforms in a line, one of them a *)
(* processor or simulated; a connection of FPGAs has one to three lanes.   *)
(* Multiplexors: three lanes, two different words, a channel of two words. *)
(***************************************************************************)
EXTENDS RouterGeneration, TLC

CONSTANTS A, B, C, l1, l2, l3, v1, v2, v3, w1, w2, Invalid

VARIABLES
  pass,
  viaWidth, viaLinks, maxWidth, aggressive, default, fillerWidth, fillerWidthNext,
  chunks, methodDummy, umfType,                                   \* RouterTypes
  bitwidth, activity, physWidth, cpu, sortedLinks, jobs, pc, numberOfVias, viaWidths,
  usedLinks, noViasRemaining, tried, vias, headers, at, maxLinkWidth, provisional,
  viasFinal, maxLoad, assigned, firstAllocationPass,              \* ViaAllocation
  channel, fifo                                                   \* LaneMultiplexor

ofHeaders == <<viaWidth, viaLinks, maxWidth, aggressive, default, fillerWidth, fillerWidthNext,
               chunks, methodDummy, umfType>>
ofLanes == <<bitwidth, activity, physWidth, cpu, sortedLinks, jobs, pc, numberOfVias, viaWidths,
             usedLinks, noViasRemaining, tried, vias, headers, at, maxLinkWidth, provisional,
             viasFinal, maxLoad, assigned, firstAllocationPass>>
ofMultiplexor == <<channel, fifo>>
passVars == <<pass, ofHeaders, ofLanes, allVars, ofMultiplexor>>

-----------------------------------------------------------------------------

\* The parameters that the builds report (longChain.stats:153-159).  Together they
\* are 32 bits; a chunk of UMF has 32 or 128.
UMFParameters ==
  [channelID |-> 4, serviceID |-> 8, methodID |-> 4, msgLength |-> 15, phyReserved |-> 1]

Headers == INSTANCE RouterTypes WITH
  Widths <- (8..14) \cup {20, 32, 64},
  LinkCounts <- {0, 1, 2, 3, 4, 5, 9, 17},
  MaxWidths <- {-1, 0, 1, 5, 7, 8, 9, 20, 31, 32, 33, 64, 100, 200}

Cutting == INSTANCE ViaAllocation WITH
  Links <- {l1, l2, l3}, MinNumberOfVias <- 1, MaxNumberOfVias <- 3, HeaderSize <- 12,
  Bitwidths <- {4, 20, 70}, Activities <- {0, 1, 40}, PhysWidths <- {18, 71, 90}

Lane(width, load, bits) == [width |-> width, load |-> load, bits |-> bits]

Cuts ==
  {<<Lane(32, 512, <<40, 8>>)>>,
   <<Lane(128, 0, <<>>)>>,
   <<Lane(24, 256, <<60>>), Lane(14, 0, <<>>)>>,
   <<Lane(24, 256, <<20>>), Lane(14, 256, <<2, 12, 2>>)>>,
   <<Lane(14, 128, <<8>>), Lane(16, 128, <<4, 30>>), Lane(16, 0, <<4>>)>>}

Types ==
  {(A :> "FPGA" @@ B :> "FPGA" @@ C :> "CPU"),
   (A :> "FPGA" @@ B :> "CPU" @@ C :> "FPGA"),
   (A :> "BLUESIM" @@ B :> "FPGA" @@ C :> "FPGA")}

\* A line of three.
Line == {<<A, B>>, <<B, A>>, <<B, C>>, <<C, B>>}

Multiplexor == INSTANCE LaneMultiplexor WITH
  Lanes <- {v1, v2, v3}, Words <- {w1, w2}, ChannelSize <- 2

ASSUME Cutting!ViaAllocationAssumption
ASSUME UMFAssumption
ASSUME FlowControlAssumption
ASSUME RouterAssumption
ASSUME Multiplexor!MultiplexorAssumption

-----------------------------------------------------------------------------

NoHeaders ==
  /\ viaWidth = None /\ viaLinks = None /\ maxWidth = None /\ aggressive = None
  /\ default = None /\ fillerWidth = None /\ fillerWidthNext = None /\ chunks = None
  /\ methodDummy = None /\ umfType = None
NoLanes ==
  /\ bitwidth = None /\ activity = None /\ physWidth = None /\ cpu = None /\ sortedLinks = None
  /\ jobs = None /\ pc = None /\ numberOfVias = None /\ viaWidths = None /\ usedLinks = None
  /\ noViasRemaining = None /\ tried = None /\ vias = None /\ headers = None /\ at = None
  /\ maxLinkWidth = None /\ provisional = None /\ viasFinal = None /\ maxLoad = None
  /\ assigned = None /\ firstAllocationPass = None
NoRouters ==
  /\ lanes = None /\ todo = None /\ current = None /\ fcAssignment = None /\ egressLinks = None
  /\ viaLoads = None /\ logicalEgress = None /\ logicalIngress = None /\ platformType = None
  /\ phase = None /\ switches = None /\ drivers = None /\ consumers = None /\ packetizers = None

PassInit ==
  \/ pass = "headers" /\ Headers!Init /\ NoLanes /\ NoRouters /\ Multiplexor!Init
  \/ pass = "cutting" /\ NoHeaders /\ Cutting!Init /\ NoRouters /\ Multiplexor!Init
  \/ pass = "routers" /\ NoHeaders /\ NoLanes /\ GInit /\ Multiplexor!Init
  \/ pass = "multiplexor" /\ NoHeaders /\ NoLanes /\ NoRouters /\ Multiplexor!Init

Only(name, others) == pass = name /\ UNCHANGED <<pass, others>>

SizeHeaders == Only("headers", <<ofLanes, allVars, ofMultiplexor>>) /\ Headers!Next
CutLanes == Only("cutting", <<ofHeaders, allVars, ofMultiplexor>>) /\ Cutting!Next
BuildRouters == Only("routers", <<ofHeaders, ofLanes, ofMultiplexor>>) /\ GNext
Multiplex(A1) == Only("multiplexor", <<ofHeaders, ofLanes, allVars>>) /\ A1

PassNext == SizeHeaders \/ CutLanes \/ BuildRouters \/ Multiplex(Multiplexor!Next)

PassSpec == PassInit /\ [][PassNext]_passVars

\* Passes are sequential programs and run to their end.  The scheduler fires
\* every rule of a multiplexor that stays enabled, and an ingress switch takes
\* every word, because credits reserve a place for it.
FairPassSpec ==
  /\ PassSpec
  /\ WF_passVars(SizeHeaders) /\ WF_passVars(CutLanes)
  /\ WF_passVars(Multiplex(Multiplexor!SendData))
  /\ \A v \in {v1, v2, v3} :
       WF_passVars(Multiplex(Multiplexor!Drop(v))) /\ WF_passVars(Multiplex(Multiplexor!Take(v)))

-----------------------------------------------------------------------------

\* The fields of a header fill the lane, its counter counts the chunks of the
\* widest packet, and the filler of a header that is sized for its lane is the
\* fixed point nearest to where the iteration began (umfType.py:60-118); and the
\* headers of the routers, to a processor or not, name all links and fit their
\* lanes once these have their flow control links (analyzeNetwork.py:36-42, 534-581).
HeadersAreSound ==
  /\ pass = "headers" =>
       /\ Headers!CounterIsWideEnough /\ Headers!FieldsAddUp /\ Headers!EndsAtNearestFixedPoint
       /\ Headers!ReturnsTheType
  /\ pass = "routers" => HeaderStillFits

\* The lanes fill the connection, links are numbered without gaps, loads were
\* compared with headers that suffice, no choice is slower than a single lane
\* and at most one lane is idle (analyzeNetwork.py:78-303).
LanesAreSound ==
  pass = "cutting" =>
    /\ Cutting!TypeOK /\ Cutting!LanesFillConnection /\ Cutting!NumbersAreDense
    /\ Cutting!LoadsAreHonest /\ Cutting!NoWorseThanOneLane /\ Cutting!AtMostOneLaneIdle

\* Both ends of a connection agree on the link that carries a lane's flow
\* control, in whatever order platforms were handled, and number them without
\* gaps or doubles (analyzeNetwork.py:464-581).
ReturnsAgree == pass = "routers" => TypeOK /\ ReturnsFollowData /\ ReturnsMeet

\* Routers written at the two ends of a link, for FPGAs or processors, deliver
\* what enters a link to its one consumer, cut up payload alike, leave no link
\* undriven and refer to switches that exist (generateCode.py:196-390, 565-623).
RoutersFit ==
  pass = "routers" =>
    /\ GTypeOK /\ NoLinkLeftOpen /\ WiresMeet
    /\ PacketizersFit /\ SwitchesExist

\* Lanes that travel in the same words and wait for each other are FIFOs of their
\* own: every step of the multiplexors is one of LaneChannels, or none
\* (generateMultiplexors.py:51-238).
ImplementsLaneChannels ==
  /\ pass = "multiplexor" => Multiplexor!Abstract!Init
  /\ [][pass = "multiplexor" =>
          Multiplexor!Abstract!Next \/ \A v \in {v1, v2, v3} : UNCHANGED Multiplexor!InFlight(v)]_passVars

\* The search for a header and the rounds of growing headers end, and a full
\* channel has room again although its first word waits for every lane.
AllGoesOn ==
  /\ <>(pass = "headers" => umfType # None)
  /\ <>(pass = "cutting" => pc = "done")
  /\ Multiplexor!ChannelDrains

=============================================================================
