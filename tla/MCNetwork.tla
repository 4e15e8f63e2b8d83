------------------------------ MODULE MCNetwork ------------------------------
(***************************************************************************)
(* The passes that lay out the network: the environment, the activities,   *)
(* the placement and the routing, one pass to a behaviour.  Variables of   *)
(* the passes that a behaviour is not about keep the value None.           *)
(*                                                                         *)
(* Environments: three platforms with every choice of links, paired or     *)
(* not, one with links to an unknown platform, and four platforms with     *)
(* every choice of links in both directions and a one-way ring.  Routing:  *)
(* four platforms in a line, a star and rings, and a line one way, where   *)
(* some paths are missing.  Placement: two FPGAs with a module each and a  *)
(* processor, with and without a placement that fits, and a line one way.  *)
(* Activities: three channels, one a chunk of a wider one.                 *)
(***************************************************************************)
EXTENDS Integers, Sequences, SequencesExt, FiniteSets, Functions, TLC

CONSTANTS
  A, B, C, D, Elsewhere,            \* platforms, and a name of none
  C1, C2, C3, Chunk, Whole,         \* channels
  Wide, Pair, Single,               \* chains
  PA, PB, X, Y, S,                  \* modules
  None

VARIABLES
  pass,
  file, ingresses, egresses, unchecked, status, transitTablesOutgoing,
  transitTablesIncoming, logs, width,                       \* Environment
  edges, trees,                                             \* and RouteConnections
  order, channels, partner, sinkPartner, at, pairs,         \* RouteConnections
  program, phase,                                           \* and Placement
  mapping, pair, connections,                               \* Placement
  stats, graph, activity, weight, calls                     \* Activity

ofEnvironment == <<file, ingresses, egresses, unchecked, status, transitTablesOutgoing,
                   transitTablesIncoming, logs, width>>
ofRouting == <<order, channels, partner, sinkPartner, at, pairs>>
ofPlacement == <<mapping, pair, connections>>
ofActivity == <<stats, graph, activity, weight, calls>>
vars == <<pass, ofEnvironment, edges, trees, ofRouting, program, phase, ofPlacement, ofActivity>>

Four == <<A, B, C, D>>
Three == {A, B, C}
BothWays(links) == links \cup {<<e[2], e[1]>> : e \in links}
Partial(domain, range) == UNION {[E -> range] : E \in SUBSET domain}

-----------------------------------------------------------------------------
(* Environments.                                                           *)

WidthOf(p, name) == IF name = "second" THEN 64 ELSE 32

\* The lines of platform p for the given ends; a link from A to B is doubled.
Lines(p, out, in) ==
  LET line(direction, q) == [direction |-> direction, endpoint |-> q, name |-> q]
      ends(direction, platforms) ==
        LET listed == SelectSeq(Append(Four, Elsewhere), LAMBDA q : q \in platforms)
        IN  [i \in DOMAIN listed |-> line(direction, listed[i])]
  IN  ends("egress", out) \o ends("ingress", in)
        \o (IF p = A /\ B \in out THEN <<[line("egress", B) EXCEPT !.name = "second"]>> ELSE <<>>)

File(out, in, master, lines) ==
  [descriptors |-> [p \in {A, B, C, D} |-> Lines(p, out[p], in[p])],
   master |-> master,
   logs |-> lines,
   type |-> [p \in {A, B, C, D} |-> IF p = B THEN "CPU" ELSE "FPGA"]]

\* The logs speak of every device of A and of one of B that no link uses.
LogLines(out, in) ==
  {<<A, d.direction, d.name>> : d \in Range(Lines(A, out[A], in[A]))} \cup {<<B, "egress", "unused">>}

Ends == {f @@ (D :> {}) : f \in {g \in [Three -> SUBSET Three] : \A p \in Three : p \notin g[p]}}

Out(links) == [p \in {A, B, C, D} |-> {q \in {A, B, C, D} : <<p, q>> \in links}]
In(links) == [p \in {A, B, C, D} |-> {q \in {A, B, C, D} : <<q, p>> \in links}]

Undirected == {<<A, B>>, <<A, C>>, <<A, D>>, <<B, C>>, <<B, D>>, <<C, D>>}
OneWay == {<<A, B>>, <<B, C>>, <<C, D>>}
OneRing == OneWay \cup {<<D, A>>}

Files ==
  {File(out, in, {}, LogLines(out, in)) : out \in Ends, in \in Ends}
    \cup {File([p \in {A, B, C, D} |-> {Elsewhere}], [p \in {A, B, C, D} |-> {}], {}, {})}
    \cup {File(Out(BothWays(E)), In(BothWays(E)), m, {}) : E \in SUBSET Undirected, m \in {{}, {C}}}
    \cup {File(Out(OneRing), In(OneRing), {D}, {})}

Env == INSTANCE Environment WITH
  Platforms <- {A, B, C, D}, Environments <- Files, Alphabet <- Four, Width <- WidthOf

-----------------------------------------------------------------------------
(* Routing.                                                                *)

Networks ==
  {BothWays(OneWay), BothWays({<<A, B>>, <<A, C>>, <<A, D>>}), BothWays(OneRing), OneRing, OneWay}

Channel(n, p, q) == [name |-> n, from |-> p, to |-> q]

RoutePrograms ==
  {[channels |-> {Channel(C1, A, D), Channel(C2, D, A), Channel(C3, B, D)},
    chains |-> (Wide :> {A, B, C, D} @@ Pair :> {B, D} @@ Single :> {C})],
   [channels |-> {Channel(C1, A, C), Channel(C2, B, C), Channel(C3, A, D)},
    chains |-> (Single :> {C})],
   [channels |-> {Channel(C1, A, C)},
    chains |-> (Wide :> {A, C, D})]}

Routes == INSTANCE RouteConnections WITH Platforms <- {A, B, C, D}, Programs <- RoutePrograms

-----------------------------------------------------------------------------
(* Placement.                                                              *)

ProgramsOver(networks, capacities, activities) ==
  [links : networks,
   type : {(A :> "FPGA" @@ B :> "BLUESIM" @@ C :> "CPU")},
   pinned : {(PA :> A @@ PB :> B)},
   software : {{S}},
   map : Partial({X, Y}, {A, B}) \cup {(X :> A @@ Y :> B @@ S :> C)},
   ilp : BOOLEAN,
   from : {(C1 :> PA @@ C2 :> X @@ C3 :> Y)},
   to : {(C1 :> X @@ C2 :> Y @@ C3 :> S), (C1 :> Y @@ C2 :> PB @@ C3 :> X)},
   members : {(Wide :> {PA, X, S} @@ Pair :> {X, Y})},
   activity : activities,
   uses : {[m \in {PA, PB, X, Y, S} |-> IF m \in {PA, X} THEN 2 ELSE 1]},
   capacity : {[p \in {A, B} |-> k] : k \in capacities}]

\* On all but the last network every platform can reach every other.
PlacementPrograms ==
  ProgramsOver({BothWays({<<A, B>>, <<B, C>>}), BothWays({<<A, B>>, <<A, C>>}), {<<A, B>>, <<B, C>>, <<C, A>>},
                {<<A, B>>, <<B, C>>}},
               {2, 4, 9}, {[c \in {C1, C2, C3} |-> IF c \in busy THEN 5 ELSE 1] : busy \in {{}, {C1}, {C2}, {C3}}})

Place == INSTANCE Placement WITH
  Platforms <- Three, Modules <- {PA, PB, X, Y, S}, Channels <- {C1, C2, C3},
  Chains <- {Wide, Pair}, Programs <- PlacementPrograms

-----------------------------------------------------------------------------
(* Activities.                                                             *)

BaseOf(c) == IF c = Chunk THEN Whole ELSE c

StatisticsFiles == Partial({C1, C2, Chunk, Whole}, {0, 1, 4, 60})

Weights == INSTANCE Activity WITH
  Channels <- {C1, C2, Chunk}, Chains <- {Wide, Pair}, Base <- BaseOf,
  Statistics <- StatisticsFiles, Unset <- None

-----------------------------------------------------------------------------

ASSUME Env!EnvironmentAssumption
ASSUME Routes!RouteAssumption
ASSUME Place!PlacementAssumption
ASSUME Weights!ActivityAssumption

NoEnvironment ==
  /\ file = None /\ ingresses = None /\ egresses = None /\ unchecked = None /\ status = None
  /\ transitTablesOutgoing = None /\ transitTablesIncoming = None /\ logs = None /\ width = None
NoGraph == edges = None /\ trees = None
NoRouting ==
  /\ order = None /\ channels = None /\ partner = None /\ sinkPartner = None
  /\ at = None /\ pairs = None
NoProgram == program = None /\ phase = None
NoPlacement == mapping = None /\ pair = None /\ connections = None
NoActivity == stats = None /\ graph = None /\ activity = None /\ weight = None /\ calls = None

Init ==
  \/ /\ pass = "environment"
     /\ Env!Init
     /\ NoRouting /\ NoProgram /\ NoPlacement /\ NoActivity
  \/ /\ pass = "routing"
     /\ Routes!Init
     /\ NoEnvironment /\ NoPlacement /\ NoActivity
  \/ /\ pass = "placement"
     /\ Place!Init
     /\ NoEnvironment /\ NoGraph /\ NoRouting /\ NoActivity
  \/ /\ pass = "activity"
     /\ Weights!Init
     /\ NoEnvironment /\ NoGraph /\ NoRouting /\ program = None /\ NoPlacement

Next ==
  /\ UNCHANGED pass
  /\ \/ /\ pass = "environment"
        /\ Env!Next
        /\ UNCHANGED <<ofRouting, program, phase, ofPlacement, ofActivity>>
     \/ /\ pass = "routing"
        /\ Routes!Next
        /\ UNCHANGED <<ofEnvironment, ofPlacement, ofActivity>>
     \/ /\ pass = "placement"
        /\ Place!Next
        /\ UNCHANGED <<ofEnvironment, edges, trees, ofRouting, ofActivity>>
     \/ /\ pass = "activity"
        /\ Weights!Next
        /\ UNCHANGED <<ofEnvironment, edges, trees, ofRouting, program, ofPlacement>>

\* A pass is a sequential program and runs to its end.
Spec == Init /\ [][Next]_vars /\ WF_vars(pass \in {"environment", "routing"} /\ Next)

-----------------------------------------------------------------------------

\* An environment is accepted exactly if every link has both its ends, in
\* whatever order the platforms check their own, and what the build logs say of
\* a device reaches it (environment.py:49-104, LIMConnect.py:374-398).
EnvironmentIsSound ==
  pass = "environment" => Env!TypeOK /\ Env!LegalIffPaired /\ Env!WidthsAreKnown

\* Tables that every platform computes by itself bring packets nearer to their
\* target at each hop, and the platforms agree on who is a neighbour and on the
\* numbers of all (environment.py:30-47 and 137-196).
TablesRoute ==
  pass = "environment" => Env!HopsGetNearer /\ Env!NeighboursAreDirect /\ Env!PlatformIDsAreStable

\* Channels and chains that are routed over several platforms while the lists of
\* all platforms grow are whole at the end: each channel arrives, both ends of
\* a link name each other, and a chain is one ring (LIMConnect.py:104-344).
RoutesAreWhole ==
  pass = "routing" =>
    /\ Routes!TypeOK /\ Routes!PartnersAgree /\ Routes!NamesAreUnique
    /\ Routes!ChannelsArrive /\ Routes!ChainsAreRings

\* The environment is accepted or rejected, and routing always ends, although
\* its lists grow while they are walked; it succeeds exactly if each path that it
\* needs exists (environment.py:49-104, LIMConnect.py:292-344).
NetworkIsRouted ==
  <>[](/\ pass = "environment" => status = "illegal" \/ (status = "legal" /\ logs = {})
       /\ pass = "routing" => Routes!EndedRight)

\* Whenever the map file, the kinds of the modules and the capacities allow a
\* placement, the one found respects them and, if all platforms reach each other, has
\* the least traffic over the fewest links of all that do; given modules stay, and the platform graph is cut so that
\* each channel that crosses platforms has two ends and no chain loses a link, even
\* if there is no such placement and the graph is built from the variables of a
\* program without a solution (placeModules.py:43-306).
PlacementIsLegal ==
  pass = "placement" =>
    /\ Place!TypeOK /\ Place!PlacementIsLegal /\ Place!GivenModulesStay
    /\ Place!PairsAreHonest /\ Place!GraphIsCut /\ Place!CommsAreMinimal

\* Activities reach both ends of every channel, nothing is left without weight,
\* and a second assignment keeps what was measured (activity.py:7-108).
TrafficIsWeighed ==
  pass = "activity" =>
    Weights!TypeOK /\ Weights!EndsAgree /\ Weights!EveryoneWeighs /\ Weights!MeasuredIsKept

=============================================================================
