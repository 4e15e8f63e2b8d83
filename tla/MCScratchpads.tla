---------------------------- MODULE MCScratchpads ----------------------------
(***************************************************************************)
(* The passes that connect scratchpads to memory controllers: assignment,  *)
(* the wrapper with its network, trees and hierarchical rings, one of them *)
(* to a behaviour.  Variables of the others keep the value None.           *)
(*                                                                         *)
(* Assignment: four scratchpads, up to three controllers, traffic none to  *)
(* large, and two or three parts for some.  Networks: the same with all    *)
(* types of networks; not crossbars with a controller of one scratchpad,   *)
(* which it leaves unconnected, nor hierarchical rings with split ones,    *)
(* whose parts ask under a wrong number, or with several on one level at a *)
(* controller.  Trees: two to four children, for up to eight scratchpads   *)
(* at one or two controllers, or for nine.  Rings: up to five scratchpads  *)
(* on three levels, at one or two controllers whose scratchpads are on two *)
(* levels at least.                                                        *)
(***************************************************************************)
EXTENDS Integers, Sequences, FiniteSets, SequencesExt, TLC

CONSTANTS
  S1, S2, S3, S4, None,
  Passes,               \* the passes to check
  TreeCases             \* the trees to build

VARIABLES
  pass,
  case, phase, newId, remapped,                                   \* of several passes
  clients, partition, controllerIdx, ringstops, totalBandwidth, split, rest,
  remappedIds, next, matching, routes, fractions, portions, wired, step,
  tree, left, leaves, internals, level, childNodes, nodes, roots, \* ScratchpadTree
  ctrl, minId, maxId, todo, order, number, rings, gap, wires, message  \* HierarchicalRing

ofAssignment == <<clients, partition, controllerIdx, ringstops, totalBandwidth, split, rest>>
ofNetwork == <<remappedIds, next, matching, routes, fractions, portions, wired, step>>
ofTree == <<tree, left, leaves, internals, level, childNodes, nodes, roots>>
ofRing == <<ctrl, minId, maxId, todo, order, number, rings, gap, wires, message>>
vars == <<pass, case, phase, newId, remapped, ofAssignment, ofNetwork, ofTree, ofRing>>

Four == {S1, S2, S3, S4}
Always(x) == [c \in Four |-> x]

-----------------------------------------------------------------------------

Ratios == {<<>>, <<1, 3>>, <<2, 1, 2>>}

AssignmentCases ==
  [controllers : {1, 2, 3}, traffic : [Four -> {0, 5, 6, 23}],
   ratio : {f \in [Four -> Ratios] : f[S3] = <<>> /\ f[S4] = <<>>},
   mode : {"ordered"}, stats : {TRUE}, interleaveAll : {FALSE}]
  \cup
  [controllers : 0..3, traffic : {Always(0)}, ratio : {Always(<<>>)},
   mode : {"ordered", "random"}, stats : {FALSE}, interleaveAll : BOOLEAN]

Assignment == INSTANCE ScratchpadAssignment WITH Clients <- <<S1, S2, S3, S4>>, Cases <- AssignmentCases

-----------------------------------------------------------------------------

Some(types, counts, all, ratios, traffics, bandwidths) ==
  [controllers : counts, type : types, mode : {"ordered"}, stats : {TRUE}, interleaveAll : {all},
   ratio : {[c \in Four |-> IF c = S1 THEN r[1] ELSE IF c = S2 THEN r[2] ELSE <<>>] : r \in ratios},
   traffic : traffics, bandwidth : bandwidths,
   id : {[c \in Four |-> CASE c = S1 -> 3 [] c = S2 -> 1 [] c = S3 -> 2 [] c = S4 -> 7]},
   level : {[c \in Four |-> CASE c = S1 -> 0 [] c = S4 -> 2 [] OTHER -> 1]}]

\* Traffic that leaves the controllers of unsplit scratchpads with two of them each.
Even == {Always(10)}
Most == Even \cup {[c \in Four |-> IF c = S1 THEN 40 ELSE 12]}
Skewed == {[c \in Four |-> IF c = S3 THEN 60 ELSE 10]}
Bandwidths == {Always(1), Always(20), Always(90), [c \in Four |-> IF c = S1 THEN 90 ELSE 7]}
Narrow == {Always(1)}
Whole == {<<<<>>, <<>>>>}
Split == Whole \cup {<<<<3, 1>>, <<>>>>, <<<<3, 2>>, <<1, 1>>>>}

NetworkCases ==
  Some({"ring", "tree"}, {2}, FALSE, Split, Most \cup Skewed, Narrow)
    \cup Some({"ring", "tree"}, {3}, FALSE, Split \cup {<<<<5, 1>>, <<2, 1, 1>>>>}, Even, Narrow)
    \cup Some({"ring", "tree", "crossbar", "hring"}, {1}, FALSE, Split, Even, Bandwidths)
    \cup Some({"crossbar"}, {1, 2, 3}, TRUE, Whole, Even, Bandwidths)
    \cup Some({"tree"}, {1, 2}, TRUE, Whole, Even, Narrow)
    \cup Some({"crossbar"}, {2}, FALSE, Split, Even, Bandwidths)
    \cup {[k EXCEPT !.stats = FALSE] :
             k \in Some({"ring", "tree", "crossbar"}, {2, 3}, FALSE, Whole, Even, Narrow)}
    \cup {[k EXCEPT !.mode = "random"] : k \in Some({"ring"}, {2, 3}, FALSE, Whole, Even, Narrow)}
    \cup Some({"hring"}, {2, 3}, FALSE, Whole, Even \cup Skewed, Narrow)

Network == INSTANCE ScratchpadNetwork WITH Clients <- <<S1, S2, S3, S4>>, Cases <- NetworkCases

-----------------------------------------------------------------------------

Numbers(n) == [i \in 1..n |-> i]

Latencies ==
  {[c \in 1..9 |-> 3], [c \in 1..9 |-> c], [c \in 1..9 |-> 10 - c], [c \in 1..9 |-> 0],
   [c \in 1..9 |-> IF c = 2 THEN 20 ELSE 1], [c \in 1..9 |-> c * c], [c \in 1..9 |-> c % 3],
   [c \in 1..9 |-> IF c < 4 THEN 9 ELSE 4], [c \in 1..9 |-> 2^c]}

One(sizes, arities, modes, latencies) ==
  [serves : {<<Numbers(n)>> : n \in sizes}, arity : arities, mode : modes, latency : latencies]

\* Two controllers; the first one's first scratchpad is split over both.
Two(m, n) == {<<Numbers(m), [i \in 1..n |-> IF i = 1 THEN 1 ELSE m + i - 1]>>}

UpToEight ==
  One(1..5, {2, 3}, {"DP"}, Latencies)
    \cup One({6}, {3, 4}, {"DP"}, Latencies)
    \cup One(0..8, {2, 3}, {"balanced"}, {Numbers(9)})
    \cup One({3, 4}, {2, 3}, {"shuffled"}, {Numbers(9)})
    \cup [serves : Two(2, 3) \cup Two(4, 3) \cup Two(4, 4), arity : {2, 3},
          mode : {"DP", "balanced"}, latency : Latencies]

Nine == One({9}, {2}, {"balanced"}, {Numbers(9)})

Trees == INSTANCE ScratchpadTree WITH Cases <- TreeCases

-----------------------------------------------------------------------------

Mixed(list, levels) == Cardinality({levels[c] : c \in Range(list)}) > 1

RingCases ==
  {k \in UNION {[serves : {<<Numbers(n)>>}, level : [1..n -> 0..2]] : n \in 2..5}
         \cup [serves : {<<<<1, 2>>, <<3, 4>>>>, <<<<3>>, <<4, 2, 1>>>>}, level : [1..4 -> 0..2]] :
     \A i \in DOMAIN k.serves : Len(k.serves[i]) = 1 \/ Mixed(k.serves[i], k.level)}

Rings == INSTANCE HierarchicalRing WITH Cases <- RingCases

-----------------------------------------------------------------------------

ASSUME Assignment!AssignmentAssumption
ASSUME Network!AssignmentAssumption /\ Network!NetworkAssumption
ASSUME Trees!TreeAssumption
ASSUME Rings!RingAssumption

NoNumbers == newId = None /\ remapped = None
NoAssignment ==
  /\ clients = None /\ partition = None /\ controllerIdx = None /\ ringstops = None
  /\ totalBandwidth = None /\ split = None /\ rest = None
NoNetwork ==
  /\ remappedIds = None /\ next = None /\ matching = None /\ routes = None /\ fractions = None
  /\ portions = None /\ wired = None /\ step = None
NoTree ==
  /\ tree = None /\ left = None /\ leaves = None /\ internals = None /\ level = None
  /\ childNodes = None /\ nodes = None /\ roots = None
NoRing ==
  /\ ctrl = None /\ minId = None /\ maxId = None /\ todo = None /\ order = None /\ number = None
  /\ rings = None /\ gap = None /\ wires = None /\ message = [kind |-> "none"]

Init ==
  /\ pass \in Passes
  /\ \/ pass = "assignment" /\ Assignment!Init /\ NoNumbers /\ NoNetwork /\ NoTree /\ NoRing
     \/ pass = "network" /\ Network!NInit /\ NoTree /\ NoRing
     \/ pass = "tree" /\ Trees!Init /\ NoAssignment /\ NoNetwork /\ NoRing
     \/ pass = "ring" /\ Rings!Init /\ remapped = None /\ NoAssignment /\ NoNetwork /\ NoTree

Only(name, others) == pass = name /\ UNCHANGED <<pass, others>>
OnlyRing == Only("ring", <<remapped, ofAssignment, ofNetwork, ofTree>>)

Next ==
  \/ Only("assignment", <<newId, remapped, ofNetwork, ofTree, ofRing>>) /\ Assignment!Next
  \/ Only("network", <<ofTree, ofRing>>) /\ Network!NNext
  \/ Only("tree", <<ofAssignment, ofNetwork, ofRing>>) /\ Trees!Next
  \/ OnlyRing /\ Rings!Next

\* A ring is built by a sequential program; afterwards its ports are served by
\* rules that nothing else keeps from firing.
Spec ==
  /\ Init /\ [][Next]_vars
  /\ WF_vars(OnlyRing /\ Rings!Build) /\ WF_vars(OnlyRing /\ Rings!Move)

-----------------------------------------------------------------------------

\* Both views of the assignment agree, all traffic is counted, moving any single
\* scratchpad would not improve the balance, and groups by number are even
\* (remapScratchpad.py:97-197).
AssignmentIsBalanced ==
  pass = "assignment" =>
    /\ Assignment!TypeOK /\ Assignment!ViewsAgree /\ Assignment!NothingBetterMoved
    /\ Assignment!TrafficIsCounted /\ Assignment!GroupsAreEven

\* Every scratchpad, whole or split, is connected to each of its controllers, and
\* a response comes back to the one that asked, under whatever number its request
\* carried there (remapScratchpad.py:224-243, 372-501 and 634-662).
ClientsAreWired ==
  pass = "network" =>
    Network!NTypeOK /\ Network!EveryClientIsWired /\ Network!ResponsesComeHome

\* Interleavers give each controller its share of the addresses and crossbars each
\* scratchpad its share of the bandwidth (remapScratchpad.py:594-603, 663-690).
SharesAreKept == pass = "network" => Network!PartsGetTheirShare /\ Network!FractionsFit

\* "This function builds scratchpad trees for all platforms": the tree of a
\* controller has a leaf for each of its scratchpads, and no other.
EveryClientHasALeaf == pass = "tree" => Trees!EveryClientHasALeaf

\* All leaves are there, have numbers of their own, no node has too many children,
\* and the bounds of every node lead each number to its leaf; a tree built for
\* latencies is the cheapest there is (scratchpadTree.py:90-247).
TreesRoute ==
  pass = "tree" =>
    /\ Trees!TypeOK /\ Trees!EveryClientHasALeaf /\ Trees!FanOutFits
    /\ Trees!AddressBoundsRoute /\ Trees!NumbersAreUnique /\ Trees!LatencyIsMinimal

\* The wires of hierarchical rings pair up ports that exist, each ring holds a
\* range of numbers, and requests skip the rings that are not theirs
\* (remapScratchpad.py:247-281, 502-591).
RingsAreWhole ==
  pass = "ring" =>
    Rings!TypeOK /\ Rings!WiresAreWhole /\ Rings!RingsAreRanges /\ Rings!RequestsBypassRings

\* What a scratchpad asks over a hierarchical ring comes back to it: no message is
\* lost at a port that leads nowhere, and none circles.
RoundTrip == Rings!RoundTrip

=============================================================================
