----------------------------- MODULE Environment -----------------------------
(***************************************************************************)
(* The physical platforms and their links, as parsed from the environment  *)
(* file (environment.py, platform.py): construction, the check that every  *)
(* link has two ends, the tables of first and last hops, the numbers of the*)
(* platforms, and the widths read from the platforms' build logs.          *)
(***************************************************************************)
EXTENDS ShortestPaths, SequencesExt, FiniteSetsExt

CONSTANTS
  Environments,   \* what the file and the build logs may say: records with
                  \* descriptors ("endpoint -> name" or "endpoint <- name" of
                  \* each platform), master, type and logs
  Alphabet,       \* the platforms' names in alphabetical order
  Width(_, _)     \* what platform p's log says of the device with that name

EnvironmentAssumption ==
  /\ IsFiniteSet(Platforms)
  /\ None \notin Platforms
  /\ Range(Alphabet) = Platforms /\ Len(Alphabet) = Cardinality(Platforms)

VARIABLES
  file,                    \* the environment file and the lines of the logs
  ingresses, egresses,     \* of each platform: endpoint -> physical name
  edges, unchecked, status,
  trees,                   \* what shortest_path returns for each source
  transitTablesOutgoing, transitTablesIncoming,
  logs,                    \* lines of the logs still to read
  width                    \* of each platform's devices: <<direction, name>> -> width

tables == <<trees, transitTablesOutgoing, transitTablesIncoming>>
links == <<ingresses, egresses>>
vars == <<file, links, edges, unchecked, status, tables, logs, width>>

Devices(p) == {<<d.direction, d.name>> : d \in Range(file.descriptors[p])}

Init ==
  /\ file \in Environments
  /\ ingresses = [p \in Platforms |-> <<>>]
  /\ egresses = [p \in Platforms |-> <<>>]
  /\ edges = {}
  /\ unchecked = Platforms
  /\ status = "parse"
  /\ trees = [p \in Platforms |-> None]
  /\ transitTablesOutgoing = <<>>
  /\ transitTablesIncoming = <<>>
  /\ logs = file.logs
  /\ width = [p \in Platforms |-> [d \in Devices(p) |-> None]]

\* The links of p in that direction; of several to one endpoint the last stays.
LinksOf(p, direction) ==
  LET list == file.descriptors[p]
      last(q) == Max({i \in DOMAIN list : list[i].direction = direction /\ list[i].endpoint = q})
      ends == {list[i].endpoint : i \in {j \in DOMAIN list : list[j].direction = direction}}
  IN  [q \in ends |-> list[last(q)].name]

Construct ==
  /\ status = "parse"
  /\ ingresses' = [p \in Platforms |-> LinksOf(p, "ingress")]
  /\ egresses' = [p \in Platforms |-> LinksOf(p, "egress")]
  /\ status' = "graphize"
  /\ UNCHANGED <<file, edges, unchecked, tables, logs, width>>

-----------------------------------------------------------------------------

\* Mutant of EndsMeet: ingresses are not checked.
EndsMeetEgress(p) == \A q \in DOMAIN egresses[p] : q \in Platforms /\ p \in DOMAIN ingresses[q]

\* Every link of p has its other end.
EndsMeet(p) ==
  /\ \A q \in DOMAIN egresses[p] : q \in Platforms /\ p \in DOMAIN ingresses[q]
  /\ \A q \in DOMAIN ingresses[p] : q \in Platforms /\ p \in DOMAIN egresses[q]

\* graphize: p's links enter the graph, or the environment is rejected.
Graphize(p) ==
  /\ status = "graphize"
  /\ p \in unchecked
  /\ unchecked' = unchecked \ {p}
  /\ IF EndsMeet(p)
     THEN edges' = edges \cup {<<p, q>> : q \in DOMAIN egresses[p]} /\ UNCHANGED status
     ELSE status' = "illegal" /\ UNCHANGED edges
  /\ UNCHANGED <<file, links, tables, logs, width>>

\* shortest_path from p, which gives the same answer at every call.
Search(p) ==
  /\ status = "graphize"
  /\ unchecked = {}
  /\ \E i \in DOMAIN Alphabet :
       Alphabet[i] = p /\ \A q \in Platforms : trees[q] = None <=> q \notin Range(SubSeq(Alphabet, 1, i - 1))
  /\ \E tree \in Trees(edges, p) : trees' = [trees EXCEPT ![p] = tree]
  /\ UNCHANGED <<file, links, edges, unchecked, status,
                 transitTablesOutgoing, transitTablesIncoming, logs, width>>

\* Mutant of FirstHop: a neighbour is reached directly, all others by one default link.
FirstHopDefault(p, q) ==
  IF q \in DOMAIN egresses[p] THEN q ELSE CHOOSE hop \in DOMAIN egresses[p] : TRUE

FirstHop(p, q) == PathHopFirst(trees[p], p, q)

\* Mutant of LastHop: all is received from one default link.
LastHopDefault(p, q) == CHOOSE hop \in DOMAIN ingresses[p] : TRUE

LastHop(p, q) == PathHopLast(trees[q], p)

\* The tables name, for every platform that can be reached or can reach us, the
\* device of the first hop there and of the last hop from there.
BuildTransitTables ==
  /\ status = "graphize"
  /\ unchecked = {}
  /\ \A p \in Platforms : trees[p] # None
  /\ transitTablesOutgoing' =
       [p \in Platforms |->
          [q \in {r \in Platforms : PathLength(edges, p, r) > 0} |-> egresses[p][FirstHop(p, q)]]]
  /\ transitTablesIncoming' =
       [p \in Platforms |->
          [q \in {r \in Platforms : PathLength(edges, r, p) > 0} |-> ingresses[p][LastHop(p, q)]]]
  /\ status' = "legal"
  /\ UNCHANGED <<file, links, edges, unchecked, trees, logs, width>>

\* Mutant of Device: every line is taken to be about an egress.
DeviceOfEgress(line) == <<"egress", line[3]>>

\* The device that a line of the log is about.
Device(line) == <<line[2], line[3]>>

\* parseWidth: a line about a device of that platform; others are ignored.
ParseWidth(line) ==
  /\ status = "legal"
  /\ line \in logs
  /\ logs' = logs \ {line}
  /\ LET p == line[1]
     IN  width' = IF Device(line) \in DOMAIN width[p]
                  THEN [width EXCEPT ![p][Device(line)] = Width(p, line[3])] ELSE width
  /\ UNCHANGED <<file, links, edges, unchecked, status, tables>>

Next ==
  \/ Construct
  \/ \E p \in Platforms : Graphize(p)
  \/ \E p \in Platforms : Search(p)
  \/ BuildTransitTables
  \/ \E line \in logs : ParseWidth(line)

Spec == Init /\ [][Next]_vars

-----------------------------------------------------------------------------
(* getSynthesisBoundaryPlatformID.                                         *)

\* Mutant of PlatformOrder: the FPGAs in the order of the dictionary.
PlatformOrderOfKeys(keys) ==
  LET fpga(p) == p \notin file.master /\ file.type[p] \in {"FPGA", "BLUESIM"}
      other(p) == p \notin file.master /\ file.type[p] \notin {"FPGA", "BLUESIM"}
      master(p) == p \in file.master
  IN  SelectSeq(keys, master) \o SelectSeq(keys, fpga) \o SelectSeq(Alphabet, other)

\* The order in which platforms are numbered, given that of the dictionary: the
\* masters, the other FPGAs, the rest.
PlatformOrder(keys) ==
  LET fpga(p) == p \notin file.master /\ file.type[p] \in {"FPGA", "BLUESIM"}
      other(p) == p \notin file.master /\ file.type[p] \notin {"FPGA", "BLUESIM"}
      master(p) == p \in file.master
  IN  SelectSeq(keys, master) \o SelectSeq(Alphabet, fpga) \o SelectSeq(Alphabet, other)

-----------------------------------------------------------------------------

TypeOK ==
  /\ status \in {"parse", "graphize", "illegal", "legal"}
  /\ edges \subseteq Platforms \X Platforms
  /\ unchecked \subseteq Platforms
  /\ \A p \in Platforms : \A d \in DOMAIN width[p] : width[p][d] \in Nat \cup {None}

\* The links that the file declares, as directed pairs, at either end.
DeclaredEgress == UNION {{<<p, d.endpoint>> : d \in {e \in Range(file.descriptors[p]) : e.direction = "egress"}} : p \in Platforms}
DeclaredIngress == UNION {{<<d.endpoint, p>> : d \in {e \in Range(file.descriptors[p]) : e.direction = "ingress"}} : p \in Platforms}

\* An environment is accepted exactly if every egress has an ingress and every
\* ingress an egress, in whatever order the platforms are looked at, although
\* each platform checks only its own (lines 49-104).
LegalIffPaired ==
  /\ status = "legal" => DeclaredEgress = DeclaredIngress /\ edges = DeclaredEgress
  /\ status = "illegal" => DeclaredEgress # DeclaredIngress

\* A packet that every platform forwards by its own table, computed from its own
\* tree, gets nearer to its target at each hop and never circles.
HopsGetNearer ==
  status = "legal" =>
    \A p, q \in Platforms : p # q /\ q \in DOMAIN transitTablesOutgoing[p] =>
      \E hop \in DOMAIN egresses[p] :
        /\ egresses[p][hop] = transitTablesOutgoing[p][q]
        /\ PathLength(edges, hop, q) = PathLength(edges, p, q) - 1

\* The two ends of a link agree: what p sends to a neighbour q leaves by the
\* device that p has for q, and q expects it at the device it has for p, so that
\* code generated from the tables for neighbours talks over the direct link.
NeighboursAreDirect ==
  status = "legal" =>
    \A e \in edges :
      /\ transitTablesOutgoing[e[1]][e[2]] = egresses[e[1]][e[2]]
      /\ transitTablesIncoming[e[2]][e[1]] = ingresses[e[2]][e[1]]

\* Numbers do not depend on the order of the dictionary, so that separate builds
\* agree on them, as long as there is at most one master; the master is number 0.
PlatformIDsAreStable ==
  status = "legal" /\ Cardinality(file.master) <= 1 =>
    LET orders == {PlatformOrder(keys) : keys \in SetToSeqs(Platforms)}
    IN  /\ Cardinality(orders) = 1
        /\ \A o \in orders : Range(o) = Platforms /\ \A p \in file.master : o[1] = p

\* When the logs have been read every link in use that they speak of has its own
\* device's width.
WidthsAreKnown ==
  status = "legal" /\ logs = {} =>
    \A p \in Platforms :
      /\ \A q \in DOMAIN egresses[p] :
           <<p, "egress", egresses[p][q]>> \in file.logs =>
             width[p][<<"egress", egresses[p][q]>>] = Width(p, egresses[p][q])
      /\ \A q \in DOMAIN ingresses[p] :
           <<p, "ingress", ingresses[p][q]>> \in file.logs =>
             width[p][<<"ingress", ingresses[p][q]>>] = Width(p, ingresses[p][q])

=============================================================================
