------------------------------ MODULE Placement ------------------------------
(***************************************************************************)
(* Placement of the program's modules on platforms (placeModules.py): by a *)
(* map file, or by an integer program whose solver is not part of the code,*)
(* and the platform graph.  A 0/1 variable per module and platform is      *)
(* modelled as the set of platforms for which it is 1, and likewise the    *)
(* variables of a channel.  Nobody asks the solver whether it found a      *)
(* solution: a program that has none is placed by whatever values are left *)
(* in the variables, and the platform graph is built all the same.         *)
(***************************************************************************)
EXTENDS ShortestPaths, SequencesExt, FiniteSetsExt, Functions

CONSTANTS
  Modules, Channels, Chains,
  Programs   \* records: links, type of the platforms, pinned, software, map, ilp,
             \* from, to and activity of the channels, members of the chains, uses,
             \* and the capacity of the platforms for which it is known

PlacementAssumption ==
  \A g \in Programs :
    /\ \A c \in Channels : g.from[c] \in Modules /\ g.to[c] \in Modules \ {g.from[c]}
    /\ \A m \in DOMAIN g.pinned \cup DOMAIN g.map : m \in Modules
    /\ \A c \in Chains : g.members[c] \subseteq Modules
    /\ \A m \in Modules : g.uses[m] \in Nat
    /\ DOMAIN g.capacity \subseteq Platforms

VARIABLES
  program,
  mapping,        \* the MAPPING attribute of each module, or None
  pair,           \* of each channel: the pairs of platforms that the solver chose
  connections,    \* what platformGraph is built from: ends of channels, links of chains
  phase

vars == <<program, mapping, pair, connections, phase>>

Init ==
  /\ program \in Programs
  /\ mapping = [m \in Modules |-> None]
  /\ pair = <<>>
  /\ connections = {}
  /\ phase = "pin"

\* The modules that are the platforms themselves are placed on them.
PinPlatformModules ==
  /\ phase = "pin"
  /\ mapping' = program.pinned @@ mapping
  /\ phase' = "decorate"
  /\ UNCHANGED <<program, pair, connections>>

\* The map file places some of the other modules.
DecorateModulesWithMapFile ==
  /\ phase = "decorate"
  /\ mapping' = [m \in Modules |->
                   IF m \in DOMAIN program.map \ DOMAIN program.pinned THEN program.map[m] ELSE mapping[m]]
  /\ phase' = IF program.ilp THEN "solve" ELSE "check"
  /\ UNCHANGED <<program, pair, connections>>

Unmapped == {m \in Modules : mapping[m] = None}

\* placeModulesWithMapFile: without the solver the file must place all.
CheckMapFile ==
  /\ phase = "check"
  /\ phase' = IF Unmapped = {} THEN "placed" ELSE "unmapped"
  /\ UNCHANGED <<program, mapping, pair, connections>>

-----------------------------------------------------------------------------
(* placeModulesILP: the variables, the constraints and the cost.           *)

IsModuleCompatibleWithPlatform(m, p) ==
  (m \in program.software) <=> (program.type[p] = "CPU")

Colors(m) ==
  IF mapping[m] = None THEN {p \in Platforms : IsModuleCompatibleWithPlatform(m, p)} ELSE {mapping[m]}

\* Every module has one platform.
Colorings ==
  {color \in [Modules -> SUBSET Platforms] :
     \A m \in Modules : color[m] \subseteq Colors(m) /\ Cardinality(color[m]) = 1}

\* Mutant of PairFollows: only the sending module restricts the pair.
PairFollowsSource(color, c, pairs) ==
  \A p \in Colors(program.from[c]) :
    Cardinality({x \in pairs : x[1] = p}) = IF p \in color[program.from[c]] THEN 1 ELSE 0

\* For each platform of each of the channel's modules, the pairs with that
\* platform add up to the module's variable.
PairFollows(color, c, pairs) ==
  /\ \A p \in Colors(program.from[c]) :
       Cardinality({x \in pairs : x[1] = p}) = IF p \in color[program.from[c]] THEN 1 ELSE 0
  /\ \A p \in Colors(program.to[c]) :
       Cardinality({x \in pairs : x[2] = p}) = IF p \in color[program.to[c]] THEN 1 ELSE 0

Pairs(color, c) ==
  {pairs \in SUBSET (Colors(program.from[c]) \X Colors(program.to[c])) :
     /\ Cardinality(pairs) = 1
     /\ PairFollows(color, c, pairs)}

\* Mutant of Constrained: modules placed beforehand are not counted.
ConstrainedFree(color, p) == {m \in Modules : p \in color[m] /\ mapping[m] = None}

\* Mutant of Constrained: a module counts wherever it might be.
ConstrainedPossible(color, p) == {m \in Modules : p \in Colors(m)}

\* The modules whose resources are added up for the platform.
Constrained(color, p) == {m \in Modules : p \in color[m]}

ResourcesFit(color) ==
  \A p \in DOMAIN program.capacity :
    FoldFunctionOnSet(+, 0, program.uses, Constrained(color, p)) <= program.capacity[p]

\* Mutant of Hops: every pair of distinct platforms counts alike.
HopsAlike(x) == IF x[1] = x[2] THEN 0 ELSE 1

\* The length of the path between two platforms, -1 if there is none.
Hops(x) == IF x[1] = x[2] THEN 0 ELSE PathLength(program.links, x[1], x[2])

Cost(pairOf) ==
  FoldFunctionOnSet(+, 0,
    [c \in Channels |-> program.activity[c] * SumSet({Hops(x) : x \in pairOf[c]})], Channels)

Solutions ==
  LET feasible == {color \in Colorings : ResourcesFit(color)}
  IN  UNION {{[color |-> color, pair |-> f] :
                f \in {g \in [Channels -> UNION {Pairs(color, c) : c \in Channels}] :
                         \A c \in Channels : g[c] \in Pairs(color, c)}} : color \in feasible}

\* The solver returns some solution of the least cost, and each module is given
\* its platform.
Solve ==
  /\ phase = "solve"
  /\ \E s \in Solutions :
       /\ \A t \in Solutions : Cost(s.pair) <= Cost(t.pair)
       /\ mapping' = [m \in Modules |-> CHOOSE p \in s.color[m] : TRUE]
       /\ pair' = s.pair
  /\ phase' = "placed"
  /\ UNCHANGED <<program, connections>>

\* Without a solution the variables hold anything, and are read as if it were one:
\* a module of which no variable is positive keeps no mapping.
SolveInVain ==
  /\ phase = "solve"
  /\ Solutions = {}
  /\ mapping' \in {left \in [Modules -> Platforms \cup {None}] :
       \A m \in Modules : left[m] \in Colors(m) \cup (IF mapping[m] = None THEN {None} ELSE {})}
  /\ phase' = "placed"
  /\ UNCHANGED <<program, pair, connections>>

-----------------------------------------------------------------------------

End(c, kind, m, p) == [name |-> c, kind |-> kind, module |-> m, platform |-> p]

\* Mutant of Recast: the receiver is put where the sender is.
RecastAtSender(c) ==
  {End(c, "Send", program.from[c], mapping[program.from[c]]),
   End(c, "Recv", program.to[c], mapping[program.from[c]])}

\* Both ends of a channel, each on its own module's platform.
Recast(c) ==
  {End(c, "Send", program.from[c], mapping[program.from[c]]),
   End(c, "Recv", program.to[c], mapping[program.to[c]])}

\* Mutant of RecastChain: like those of channels, links with a partner on the same
\* platform are left out.
RecastChainOnce(c) ==
  {End(c, "Chain", m, mapping[m]) :
     m \in {n \in program.members[c] : \A o \in program.members[c] : mapping[n] # mapping[o] \/ n = o}}

\* The links of a chain, each on its module's platform.
RecastChain(c) == {End(c, "Chain", m, mapping[m]) : m \in program.members[c]}

Crossing == {c \in Channels : mapping[program.from[c]] # mapping[program.to[c]]}

\* The channels that cross platforms, and all chains.
BuildPlatformGraph ==
  /\ phase = "placed"
  /\ connections' = UNION ({Recast(c) : c \in Crossing} \cup {RecastChain(c) : c \in Chains})
  /\ phase' = "done"
  /\ UNCHANGED <<program, mapping, pair>>

Next ==
  \/ PinPlatformModules
  \/ DecorateModulesWithMapFile
  \/ CheckMapFile
  \/ Solve
  \/ SolveInVain
  \/ BuildPlatformGraph

Spec == Init /\ [][Next]_vars

-----------------------------------------------------------------------------

\* The placements that the file, the modules' kinds and the capacities allow.
Legal ==
  {place \in [Modules -> Platforms] :
     /\ \A m \in Modules :
          IF m \in DOMAIN program.pinned THEN place[m] = program.pinned[m]
          ELSE IF m \in DOMAIN program.map THEN place[m] = program.map[m]
          ELSE IsModuleCompatibleWithPlatform(m, place[m])
     /\ \A p \in DOMAIN program.capacity :
          FoldFunctionOnSet(+, 0, program.uses, {m \in Modules : place[m] = p}) <= program.capacity[p]}

\* Traffic times distance of a placement; None if a channel has no path.
Comms(place) ==
  LET hops(c) == PathLength(program.links, place[program.from[c]], place[program.to[c]])
  IN  IF \E c \in Channels : hops(c) = -1 THEN None
      ELSE FoldFunctionOnSet(+, 0, [c \in Channels |-> program.activity[c] * hops(c)], Channels)

TypeOK ==
  /\ phase \in {"pin", "decorate", "check", "solve", "placed", "done", "unmapped"}
  /\ mapping \in [Modules -> Platforms \cup {None}]
  /\ \A e \in connections : e.platform \in Platforms \cup {None}

\* If the file, the modules' kinds and the capacities allow any placement, then
\* the integer program gives one: within the capacities, with the given modules
\* counted.  In particular it has a solution whenever there is a placement.
PlacementIsLegal == phase = "done" /\ program.ilp /\ Legal # {} => mapping \in Legal

\* Even if there is none, the given modules stay where the platforms and the file
\* put them, and the others are where their kind can be, or nowhere.
GivenModulesStay ==
  phase = "done" => \A m \in Modules :
    IF m \in DOMAIN program.pinned THEN mapping[m] = program.pinned[m]
    ELSE IF m \in DOMAIN program.map THEN mapping[m] = program.map[m]
    ELSE mapping[m] # None => IsModuleCompatibleWithPlatform(m, mapping[m])

\* The variables of a channel, on which the cost depends, say what those of its
\* two modules say, although the constraints tie them only one end at a time.
PairsAreHonest ==
  phase = "done" /\ program.ilp /\ Legal # {} =>
    \A c \in Channels : pair[c] = {<<mapping[program.from[c]], mapping[program.to[c]]>>}

AllReachable == \A p, q \in Platforms : Hops(<<p, q>>) >= 0

\* "Minimize communications": no legal placement has less traffic over fewer links
\* than the one chosen.  Where a path is missing, the cost counts it as better than
\* none, and the placement chosen need not be one that can be routed.
CommsAreMinimal ==
  phase = "done" /\ program.ilp /\ AllReachable =>
    \A place \in Legal : Comms(place) # None => Comms(mapping) # None /\ Comms(mapping) <= Comms(place)

\* The platform graph has the channels that cross platforms, each with a sender
\* and a receiver on different platforms, and no other channel; and every chain
\* has a link for each of its modules on that module's platform.
GraphIsCut ==
  phase = "done" =>
    /\ \A c \in Channels :
         LET ends == {e \in connections : e.name = c}
         IN  IF mapping[program.from[c]] = mapping[program.to[c]] THEN ends = {}
             ELSE Cardinality({e.platform : e \in ends}) = 2 /\ Cardinality({e.kind : e \in ends}) = 2
    /\ \A c \in Chains :
         LET links == {e \in connections : e.name = c}
         IN  /\ {e.module : e \in links} = program.members[c]
             /\ Cardinality(links) = Cardinality(program.members[c])
             /\ \A e \in links : e.platform = mapping[e.module]

=============================================================================
