-------------------------- MODULE RouterGeneration ---------------------------
(***************************************************************************)
(* generateCode.py: from the lanes and numbers that network analysis has   *)
(* chosen, every platform writes its own router.  An FPGA's is a set of    *)
(* switches: each egress switch has an array of links to drive it, each    *)
(* ingress switch an array of ports for consumers.  A CPU's is a vector of *)
(* channel objects per direction, indexed by link, for its only lane.      *)
(* The two ends of a connection are written without looking at each other. *)
(***************************************************************************)
EXTENDS FlowControlAssignment

\* Network analysis leaves a lane without a link only if it is the only one, or
\* all the others have a load (AtMostOneLaneIdle of ViaAllocation).
RouterAssumption ==
  \A s \in LaneChoices : \A v, w \in DOMAIN s :
    s[v].bits = <<>> /\ v # w => s[v].load = 0 /\ s[w].load > 0

VARIABLES
  phase,            \* of the router code that platform c[1] has for c[2]
  switches,         \* ingress switches that exist: <<connection, lane>>
  drivers,          \* egressVectors: what feeds each link of each lane
  consumers,        \* what each link is delivered to at the far end
  packetizers       \* how the two ends of a data link cut up its payload

wiring == <<phase, switches, drivers, consumers, packetizers>>
allVars == <<vars, wiring>>

Open == [kind |-> "open"]
Data(v, k) == [kind |-> "data", via |-> v, link |-> k]
Credits(u) == [kind |-> "credits", via |-> u]   \* of lane u of the opposite connection

GInit ==
  /\ Init
  /\ phase = [c \in Connections |-> "start"]
  /\ switches = {}
  /\ drivers = [c \in Connections |-> <<>>]
  /\ consumers = [c \in Connections |-> {}]
  /\ packetizers = [c \in Connections |-> {}]

Analyze == Next /\ UNCHANGED wiring

Analyzed == \A c \in Connections : logicalEgress[c] # <<>>

\* One router is written at a time, target by target.
Turn(c) == Analyzed /\ \A d \in Connections \ {c} : phase[d] \in {"start", "done"}

\* Mutant of Used: only lanes that carry data.
UsedByData(ends) == {v \in DOMAIN ends : ends[v].ioLinks > 0}

\* The lanes for which there is a switch.
Used(ends) == {v \in DOMAIN ends : ends[v].links > 0}

-----------------------------------------------------------------------------
(* Platforms on FPGAs: generateCodeBSV.                                    *)

Hardware(p) == platformType[p] \in {"FPGA", "BLUESIM"}

\* Ingress switches for the lanes with links, and egress lanes open at all links.
LaySwitches(c) ==
  /\ Hardware(c[1])
  /\ phase[c] = "start"
  /\ Turn(c)
  /\ switches' = switches \cup {<<Back(c), v>> : v \in Used(logicalIngress[Back(c)])}
  /\ drivers' = [drivers EXCEPT ![c] =
       [v \in DOMAIN logicalEgress[c] |-> [k \in 0..(logicalEgress[c][v].links - 1) |-> Open]]]
  /\ phase' = [phase EXCEPT ![c] = "egress"]
  /\ UNCHANGED <<vars, consumers, packetizers>>

\* How a source on an FPGA sends b bits to a platform of that type.
SendAs(b, end, peerType) ==
  IF peerType = "CPU" THEN "NoPack"
  ELSE IF b <= end.filler THEN "Unmarshalled" ELSE "Marshalled"

\* Mutant of ReceiveAs: whatever fits in one body chunk is taken to be unmarshalled.
ReceiveAsNarrow(b, end, width, peerType) ==
  IF peerType = "CPU" THEN "NoPack"
  ELSE IF b <= width THEN "Unmarshalled"
  ELSE IF b <= width + end.filler THEN "PartialMarshalled" ELSE "Marshalled"

\* How a sink on an FPGA takes b bits that come on a lane of that width.
ReceiveAs(b, end, width, peerType) ==
  IF peerType = "CPU" THEN "NoPack"
  ELSE IF b <= end.filler THEN "Unmarshalled"
  ELSE IF b <= width + end.filler THEN "PartialMarshalled" ELSE "Marshalled"

Packetizer(v, k, side, type) == [via |-> v, link |-> k, side |-> side, type |-> type]

\* The data links of connection c.
DataLinksOf(c) ==
  UNION {{<<v, k>> : k \in 0..(DataLinks(c, v) - 1)} : v \in DOMAIN lanes[c]}

\* Packetizers for the channels and chains that leave for c[2].
LayEgress(c) ==
  /\ phase[c] = "egress"
  /\ drivers' = [drivers EXCEPT ![c] = [v \in DOMAIN @ |->
       [k \in DOMAIN @[v] |-> IF k < DataLinks(c, v) THEN Data(v, k) ELSE @[v][k]]]]
  /\ packetizers' = [packetizers EXCEPT ![c] = @ \cup
       {Packetizer(d[1], d[2], "send",
          SendAs(lanes[c][d[1]].bits[d[2] + 1], logicalEgress[c][d[1]], platformType[c[2]]))
        : d \in DataLinksOf(c)}]
  /\ phase' = [phase EXCEPT ![c] = "lanes"]
  /\ UNCHANGED <<vars, switches, consumers>>

\* Mutant of ReturnSlots: returns follow the data in the order of the lanes.
ReturnSlotsInOrder(c, v, k) ==
  {u \in DOMAIN logicalIngress[Back(c)] :
     logicalIngress[Back(c)][u].fcVia = v /\ k = DataLinks(c, v) + u - 1}

\* The ingress lanes from c[2] whose credits leave on link k of lane v.
ReturnSlots(c, v, k) ==
  {u \in DOMAIN logicalIngress[Back(c)] :
     logicalIngress[Back(c)][u].fcVia = v /\ logicalIngress[Back(c)][u].fcLink = k}

\* The egress switches, each with its array of links and the ingress port on
\* which its own credits return; a lane without links has none.
LayLanes(c) ==
  /\ phase[c] = "lanes"
  /\ drivers' = [drivers EXCEPT ![c] = [v \in DOMAIN @ |->
       [k \in DOMAIN @[v] |->
          IF ReturnSlots(c, v, k) = {} THEN @[v][k]
          ELSE Credits(Max(ReturnSlots(c, v, k)))]]]
  /\ consumers' = [consumers EXCEPT ![Back(c)] = @ \cup
       {[via |-> logicalEgress[c][v].fcVia, link |-> logicalEgress[c][v].fcLink, to |-> Credits(v)]
        : v \in Used(logicalEgress[c])}]
  /\ phase' = [phase EXCEPT ![c] = "ingress"]
  /\ UNCHANGED <<vars, switches, packetizers>>

\* Unpacking for the channels and chains that arrive from c[2].
LayIngress(c) ==
  /\ phase[c] = "ingress"
  /\ consumers' = [consumers EXCEPT ![Back(c)] = @ \cup
       {[via |-> d[1], link |-> d[2], to |-> Data(d[1], d[2])] : d \in DataLinksOf(Back(c))}]
  /\ packetizers' = [packetizers EXCEPT ![Back(c)] = @ \cup
       {Packetizer(d[1], d[2], "receive",
          ReceiveAs(lanes[Back(c)][d[1]].bits[d[2] + 1], logicalIngress[Back(c)][d[1]],
                    lanes[Back(c)][d[1]].width, platformType[c[2]]))
        : d \in DataLinksOf(Back(c))}]
  /\ phase' = [phase EXCEPT ![c] = "done"]
  /\ UNCHANGED <<vars, switches, drivers>>

-----------------------------------------------------------------------------
(* Platforms on CPUs: generateCodeCPP.                                     *)

\* The entries of the vectors, each put at its index; there are as many NULLs
\* as there will be entries.
Outgoing(c) ==
  {[link |-> logicalIngress[Back(c)][u].fcLink, what |-> Credits(u)] : u \in DOMAIN lanes[Back(c)]}
    \cup {[link |-> d[2], what |-> Data(d[1], d[2])] : d \in DataLinksOf(c)}

Incoming(c) ==
  {[link |-> logicalEgress[c][v].fcLink, what |-> Credits(v)] : v \in DOMAIN lanes[c]}
    \cup {[link |-> d[2], what |-> Data(d[1], d[2])] : d \in DataLinksOf(Back(c))}

\* Mutant of VectorSize: room for the channels, none for the flow control.
VectorSizeOfData(entries) == Cardinality({e \in entries : e.what.kind = "data"})

VectorSize(entries) == Cardinality(entries)

LaySoftware(c) ==
  /\ platformType[c[1]] = "CPU"
  /\ phase[c] = "start"
  /\ Turn(c)
  /\ drivers' = [drivers EXCEPT ![c] = <<[k \in 0..(VectorSize(Outgoing(c)) - 1) |->
       IF \E e \in Outgoing(c) : e.link = k
       THEN (CHOOSE e \in Outgoing(c) : e.link = k).what ELSE Open]>>]
  /\ consumers' = [consumers EXCEPT ![Back(c)] = @ \cup
       {[via |-> 1, link |-> e.link, to |-> e.what] : e \in Incoming(c)}]
  /\ phase' = [phase EXCEPT ![c] = "done"]
  /\ UNCHANGED <<vars, switches, packetizers>>

GNext ==
  \/ Analyze
  \/ \E c \in Connections :
       LaySwitches(c) \/ LayEgress(c) \/ LayLanes(c) \/ LayIngress(c) \/ LaySoftware(c)

GSpec == GInit /\ [][GNext]_allVars

-----------------------------------------------------------------------------

GTypeOK ==
  /\ TypeOK
  /\ \A c \in Connections :
       /\ phase[c] \in {"start", "egress", "lanes", "ingress", "done"}
       /\ \A v \in DOMAIN drivers[c] : v \in DOMAIN lanes[c]

\* No link of an egress switch is left undriven or driven by two, and none was
\* taken from a channel by a return: when a router is complete every slot that
\* network analysis numbered has the driver it was numbered for.
NoLinkLeftOpen ==
  \A c \in Connections : phase[c] = "done" =>
    \A v \in DOMAIN drivers[c] :
      /\ DOMAIN drivers[c][v] = 0..(logicalEgress[c][v].links - 1)
      /\ \A k \in DOMAIN drivers[c][v] :
           IF k < DataLinks(c, v) THEN drivers[c][v][k] = Data(v, k)
           ELSE drivers[c][v][k].kind = "credits"

\* What enters link k of lane v on one platform comes out at its counterpart on
\* the other: data at the sink of that channel, credits at the egress switch
\* that waits for them, and at no other consumer.
WiresMeet ==
  \A c \in Connections : phase[c] = "done" /\ phase[Back(c)] = "done" =>
    \A v \in DOMAIN drivers[c] : \A k \in DOMAIN drivers[c][v] :
      {x.to : x \in {y \in consumers[c] : y.via = v /\ y.link = k}} = {drivers[c][v][k]}

\* The two ends of a link between FPGAs cut up the payload in ways that fit.
Compatible == {<<"Unmarshalled", "Unmarshalled">>, <<"Marshalled", "Marshalled">>,
               <<"Marshalled", "PartialMarshalled">>, <<"NoPack", "NoPack">>}

PacketizersFit ==
  \A c \in Connections : \A x, y \in packetizers[c] :
    x.via = y.via /\ x.link = y.link /\ x.side = "send" /\ y.side = "receive"
      => <<x.type, y.type>> \in Compatible

\* A router refers only to ingress switches that it has: a lane without links
\* has none, and yet the flow control of every lane is given a driver.
SwitchesExist ==
  \A c \in Connections : phase[c] = "done" /\ Hardware(c[1]) =>
    /\ \A v \in DOMAIN drivers[c] : \A k \in DOMAIN drivers[c][v] :
         drivers[c][v][k].kind = "credits" => <<Back(c), drivers[c][v][k].via>> \in switches
    /\ \A x \in consumers[Back(c)] : <<Back(c), x.via>> \in switches

=============================================================================
