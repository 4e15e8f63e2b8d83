------------------------------- MODULE Activity -------------------------------
(***************************************************************************)
(* Weights of channels and chains from measured traffic (activity.py),     *)
(* assigned to the program's graph before placement and again to the       *)
(* channels that placement leaves between platforms.  A weight is a pair   *)
(* <<numerator, denominator>>; Unset stands for the library's defaults, no *)
(* more than 1 for a channel and negative for a chain.                     *)
(***************************************************************************)
EXTENDS Integers, FiniteSets, FiniteSetsExt, Functions, TLC

CONSTANTS
  Channels, Chains,
  Base(_),      \* the name of a chunk without its number; of others, itself
  Statistics,   \* what a statistics file may say: names to traffic
  Unset

ActivityAssumption ==
  /\ IsFiniteSet(Channels)
  /\ \A s \in Statistics : \A n \in DOMAIN s : s[n] \in Nat

VARIABLES
  stats,      \* the traffic of each name that the file has
  graph,      \* the channels of the graph at hand
  activity,   \* weight of each end <<channel, kind>>
  weight,     \* weight of each chain
  calls, phase

vars == <<stats, graph, activity, weight, calls, phase>>

Kinds == {"Send", "Recv"}

Init ==
  /\ stats \in Statistics
  /\ graph \in SUBSET Channels
  /\ activity = [e \in Channels \X Kinds |-> Unset]
  /\ weight = [c \in Chains |-> Unset]
  /\ calls = 0
  /\ phase = "assign"

-----------------------------------------------------------------------------

Measured == graph \cap DOMAIN stats

\* Chunks of a name that was measured whole.
Chunked == {c \in graph \ Measured : Base(c) # c /\ Base(c) \in DOMAIN stats}

Traffic == FoldFunctionOnSet(+, 0, stats, Measured)

\* Mutant of TotalTraffic: no default when nothing was measured.
TotalTrafficMeasured == Traffic

TotalTraffic == IF Traffic = 0 THEN 2 * Cardinality(graph) ELSE Traffic

Default == <<TotalTraffic, 2 * Cardinality(graph)>>

\* Mutant of AtMostOne: measured weights below the default are raised.
AtMostDefault(w) == w = Unset \/ (w # Unset /\ w[1] * Default[2] <= Default[1] * w[2])

AtMostOne(w) == w = Unset \/ (w # Unset /\ w[1] <= w[2])

\* Mutant of Load: only the receiver's end is given the traffic.
LoadReceiver(end) == IF end[1] \in Measured /\ end[2] = "Recv" THEN <<stats[end[1]], 1>> ELSE activity[end]

\* Receivers are looked up, and set their partners.
Load(end) == IF end[1] \in Measured THEN <<stats[end[1]], 1>> ELSE activity[end]

\* assignActivity: what was measured, then a default for every end that is still
\* at most 1 and for every chain without a weight.
AssignActivity ==
  /\ phase = "assign"
  /\ Chunked = {}
  /\ graph # {}
  /\ activity' = [end \in Channels \X Kinds |->
                    IF end[1] \notin graph THEN activity[end]
                    ELSE IF AtMostOne(Load(end)) THEN Default ELSE Load(end)]
  /\ weight' = [c \in Chains |-> IF weight[c] = Unset THEN <<Default[1], 10 * Default[2]>> ELSE weight[c]]
  /\ calls' = calls + 1
  /\ phase' = IF calls = 0 THEN "place" ELSE "done"
  /\ UNCHANGED <<stats, graph>>

\* A graph without any end needs no default; chains alone divide by zero.
AssignNothing ==
  /\ phase = "assign"
  /\ graph = {}
  /\ calls' = calls + 1
  /\ phase' = IF \E c \in Chains : weight[c] = Unset THEN "ZeroDivisionError"
              ELSE IF calls = 0 THEN "place" ELSE "done"
  /\ UNCHANGED <<stats, graph, activity, weight>>

\* chunkMatch adds to a variable of the function around it, which is local there.
MatchChunk ==
  /\ phase = "assign"
  /\ Chunked # {}
  /\ phase' = "UnboundLocalError"
  /\ UNCHANGED <<stats, graph, activity, weight, calls>>

\* placeModules keeps copies of the channels between platforms.
Place ==
  /\ phase = "place"
  /\ graph' \in SUBSET graph
  /\ phase' = "assign"
  /\ UNCHANGED <<stats, activity, weight, calls>>

Next == AssignActivity \/ AssignNothing \/ MatchChunk \/ Place

Spec == Init /\ [][Next]_vars

-----------------------------------------------------------------------------

TypeOK ==
  /\ graph \subseteq Channels
  /\ phase \in {"assign", "place", "done", "ZeroDivisionError", "UnboundLocalError"}
  /\ \A e \in DOMAIN activity : activity[e] # Unset => activity[e][2] > 0 /\ activity[e][1] >= 0
  /\ phase = "place" => \A c \in graph : \A k \in Kinds : activity[<<c, k>>] # Unset

\* Both ends of a channel weigh the same after each assignment, as the packing of
\* lanes is computed from the ends of one side and the loads of the other.
EndsAgree ==
  phase \in {"place", "done"} => \A c \in graph : activity[<<c, "Send">>] = activity[<<c, "Recv">>]

\* Every channel and chain weighs something, whatever was measured, so that
\* least-loaded choices and the placer's cost depend on all of them.
EveryoneWeighs ==
  phase \in {"place", "done"} =>
    /\ \A c \in graph : \A k \in Kinds : activity[<<c, k>>][1] > 0
    /\ graph # {} => \A c \in Chains : weight[c] # Unset /\ weight[c][1] > 0

\* What was measured above the default of 1 is kept by both assignments.
MeasuredIsKept ==
  phase = "done" =>
    \A c \in graph : c \in DOMAIN stats /\ stats[c] > 1 =>
      \A k \in Kinds : activity[<<c, k>>] = <<stats[c], 1>>

=============================================================================
