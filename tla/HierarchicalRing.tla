--------------------------- MODULE HierarchicalRing ---------------------------
(***************************************************************************)
(* Hierarchical ring networks between scratchpads and memory controllers   *)
(* (remapScratchpad.py): numbering of the scratchpads ring by ring, the    *)
(* generated wiring of each controller's rings, and the way of a request   *)
(* and its response over the wires.  The ring node is external: it accepts *)
(* a response that is for it and passes any other one on.  Scratchpads     *)
(* split over controllers are in ScratchpadNetwork.                        *)
(***************************************************************************)
EXTENDS Integers, Sequences, FiniteSets, FiniteSetsExt, SequencesExt

CONSTANT
  Cases     \* records: serves (of each controller, its scratchpads), level

RingAssumption ==
  \A k \in Cases : \A i \in DOMAIN k.serves :
    IsInjective(k.serves[i]) /\ \A c \in Range(k.serves[i]) : k.level[c] \in Nat

VARIABLES
  case,
  ctrl,           \* the controller at hand
  newId,          \* new_id
  minId, maxId,   \* of the ring at hand
  todo,           \* scratchpads of the controller without a number
  order,          \* scratchpads of the controller by number
  number,         \* remappedIds: scratchpad -> number
  rings,          \* platform.network[i]: the rings, highest level first
  gap,            \* how many neighbours of the list have been wired
  wires,          \* pairs of an outgoing and an incoming port
  message,        \* the request or response under way
  phase

numbers == <<newId, minId, maxId, todo, order, number, rings>>
vars == <<case, ctrl, numbers, gap, wires, message, phase>>

Init ==
  /\ case \in Cases
  /\ ctrl = 1
  /\ newId = 1
  /\ minId = 1
  /\ maxId = 1
  /\ todo = <<>>
  /\ order = <<>>
  /\ number = <<>>
  /\ rings = <<>>
  /\ gap = 0
  /\ wires = {}
  /\ message = [kind |-> "none"]
  /\ phase = "start"

Serves == case.serves[ctrl]

-----------------------------------------------------------------------------
(* buildHierarchicalRing.                                                  *)

\* Mutant of ByLevel: the list stays as it is.
ByLevelUnsorted(list) == list

\* Highest level first, equal ones in their order.
ByLevel(list) ==
  LET place(c) == CHOOSE k \in DOMAIN list : list[k] = c
  IN  SortSeq(list, LAMBDA c, d :
        \/ case.level[c] > case.level[d]
        \/ case.level[c] = case.level[d] /\ place(c) < place(d))

StartController ==
  /\ phase = "start"
  /\ ctrl <= Len(case.serves)
  /\ todo' = ByLevel(Serves)
  /\ order' = todo'
  /\ minId' = newId
  /\ maxId' = newId
  /\ number' = <<>>
  /\ rings' = <<>>
  /\ gap' = 0
  /\ wires' = {}
  /\ phase' = "number"
  /\ UNCHANGED <<case, ctrl, newId, message>>

\* A ring gets its range when the next one is begun.
Ring(level) == [level |-> level, minId |-> 0, maxId |-> 0]

\* Mutant of Close: the range includes the next ring's first number.
CloseLate(list) ==
  IF list = <<>> THEN list
  ELSE [list EXCEPT ![Len(list)].minId = minId, ![Len(list)].maxId = maxId]

Close(list) ==
  IF list = <<>> THEN list
  ELSE [list EXCEPT ![Len(list)].minId = minId, ![Len(list)].maxId = maxId - 1]

NumberClient ==
  /\ phase = "number"
  /\ todo # <<>>
  /\ LET c == Head(todo)
         ring == Ring(case.level[c])
     IN  /\ IF ring \in Range(rings)
            THEN UNCHANGED <<rings, minId>> /\ maxId' = maxId + 1
            ELSE rings' = Append(Close(rings), ring) /\ minId' = newId /\ maxId' = newId + 1
         /\ number' = [d \in DOMAIN number \cup {c} |-> IF d = c THEN newId ELSE number[d]]
  /\ newId' = newId + 1
  /\ todo' = Tail(todo)
  /\ UNCHANGED <<case, ctrl, order, gap, wires, message, phase>>

\* All numbered.  One scratchpad alone needs no network.
CloseLastRing ==
  /\ phase = "number"
  /\ todo = <<>>
  /\ rings' = Close(rings)
  /\ phase' = IF Len(order) = 1 THEN "done" ELSE IF order = <<>> THEN "IndexError" ELSE "wire"
  /\ UNCHANGED <<case, ctrl, newId, minId, maxId, todo, order, number, gap, wires, message>>

-----------------------------------------------------------------------------
(* The wiring.  Nodes and connectors are numbered from 0.                  *)

Node(k) == <<"node", k>>
Connector(k) == <<"connector", k>>
Wire(from, out, to, in) == <<<<from, out>>, <<to, in>>>>
Level(k) == case.level[order[k + 1]]

\* The place in the list of the first node of a ring, rings numbered from 0.
FirstOf(r) == rings[r + 1].minId - rings[1].minId

\* Two neighbours on a level are neighbours on the ring.
SameLevel(k) ==
  {Wire(Node(k), "req", Node(k + 1), "req"), Wire(Node(k), "rsp", Node(k + 1), "rsp")}

\* Mutant of NewLevel: the requests from above go through the ring.
NewLevelThrough(k) ==
  LET r == (CHOOSE x \in DOMAIN rings : rings[x].level = Level(k)) - 1
  IN  {Wire(Node(k), "req", Connector(r), "client")}
        \cup IF r = 0
             THEN {Wire(Connector(0), "client", Node(FirstOf(0)), "rsp")}
             ELSE {Wire(Connector(r - 1), "req", Node(FirstOf(r)), "req"),
                   Wire(Connector(r - 1), "rsp", Node(FirstOf(r)), "rsp"),
                   Wire(Connector(r), "client", Connector(r - 1), "rsp")}

\* Between two levels is a connector: it takes the requests of the upper ring and
\* of the connector above, and passes responses up to them.
NewLevel(k) ==
  LET r == (CHOOSE x \in DOMAIN rings : rings[x].level = Level(k)) - 1
  IN  {Wire(Node(k), "req", Connector(r), "client")}
        \cup IF r = 0
             THEN {Wire(Connector(0), "client", Node(FirstOf(0)), "rsp")}
             ELSE {Wire(Connector(r - 1), "req", Connector(r), "req"),
                   Wire(Connector(r - 1), "rsp", Node(FirstOf(r)), "rsp"),
                   Wire(Connector(r), "client", Connector(r - 1), "rsp")}

WireNeighbours ==
  /\ phase = "wire"
  /\ gap < Len(order) - 1
  /\ wires' = wires \cup IF Level(gap) = Level(gap + 1) THEN SameLevel(gap) ELSE NewLevel(gap)
  /\ gap' = gap + 1
  /\ UNCHANGED <<case, ctrl, numbers, message, phase>>

LastConnector == Len(rings) - 2

\* The last connector feeds the lowest ring; the server hears the last node and
\* answers to the last connector.
WireLastConnector ==
  /\ phase = "wire"
  /\ gap = Len(order) - 1
  /\ wires' = wires \cup
       {Wire(Connector(LastConnector), "req", Node(FirstOf(Len(rings) - 1)), "req"),
        Wire(Connector(LastConnector), "rsp", Node(FirstOf(Len(rings) - 1)), "rsp"),
        Wire(Node(Len(order) - 1), "req", <<"server", 0>>, "req"),
        Wire(<<"server", 0>>, "rsp", Connector(LastConnector), "rsp")}
  /\ phase' = "run"
  /\ UNCHANGED <<case, ctrl, numbers, gap, message>>

-----------------------------------------------------------------------------
(* A request and its response.                                             *)

\* Mutant of IsChild: the connector knows the ring above it only.
IsChildOwnRing(r, id) == rings[r + 1].minId <= id /\ id <= rings[r + 1].maxId

\* isChildFunc of a connector: it stands for its ring and all above it.
IsChild(r, id) == rings[1].minId <= id /\ id <= rings[r + 1].maxId

\* isLocalFunc of a node.
IsLocal(k, id) == id = number[order[k + 1]]

Send ==
  /\ phase = "run"
  /\ message.kind = "none"
  /\ \E k \in 0..(Len(order) - 1) :
       message' = [kind |-> "req", id |-> number[order[k + 1]], at |-> Node(k)]
  /\ UNCHANGED <<case, ctrl, numbers, gap, wires, phase>>

\* The port through which a node or connector passes the message on.
Exit ==
  LET k == message.at[2]
  IN  IF message.kind = "rsp" /\ (IF message.at[1] = "node" THEN IsLocal(k, message.id)
                                  ELSE message.at[1] = "connector" /\ IsChild(k, message.id))
      THEN "client"
      ELSE message.kind

Pass ==
  /\ phase = "run"
  /\ message.kind # "none"
  /\ \E w \in wires :
       /\ w[1] = <<message.at, Exit>>
       /\ message' = [message EXCEPT !.at = w[2][1]]
  /\ UNCHANGED <<case, ctrl, numbers, gap, wires, phase>>

Answer ==
  /\ phase = "run"
  /\ message.kind = "req" /\ message.at[1] = "server"
  /\ message' = [message EXCEPT !.kind = "rsp"]
  /\ UNCHANGED <<case, ctrl, numbers, gap, wires, phase>>

AtHome == message.kind = "rsp" /\ message.at[1] = "node" /\ Exit = "client"

Accept ==
  /\ phase = "run"
  /\ AtHome
  /\ message' = [kind |-> "none"]
  /\ UNCHANGED <<case, ctrl, numbers, gap, wires, phase>>

\* The next controller's network; new_id goes on.
NextController ==
  /\ phase \in {"run", "done"}
  /\ message.kind = "none"
  /\ ctrl < Len(case.serves)
  /\ ctrl' = ctrl + 1
  /\ phase' = "start"
  /\ UNCHANGED <<case, numbers, gap, wires, message>>

Build == StartController \/ NumberClient \/ CloseLastRing \/ WireNeighbours \/ WireLastConnector

Move == Pass \/ Answer \/ Accept

Next == Build \/ Send \/ Move \/ NextController

\* Ports are served by rules that nothing else keeps from firing.
Spec == Init /\ [][Next]_vars /\ WF_vars(Build) /\ WF_vars(Move)

-----------------------------------------------------------------------------

TypeOK ==
  /\ newId \in Nat \ {0}
  /\ DOMAIN number \subseteq Range(order)
  /\ Range(number) \subseteq 1..(newId - 1)
  /\ gap \in Nat
  /\ Len(rings) <= Len(order) /\ \A r \in DOMAIN rings : rings[r].maxId \in 0..(newId - 1)
  /\ phase \in {"start", "number", "wire", "run", "done", "IndexError"}

\* The connectors that the wires name have been instantiated, and no port is
\* connected twice (lines 526-541).
WiresAreWhole ==
  /\ \A w \in wires : \A end \in {w[1][1], w[2][1]} :
       end[1] = "connector" => end[2] \in 0..(Len(rings) - 2)
  /\ \A w, v \in wires : w[1] = v[1] \/ w[2] = v[2] => w = v

\* The range of a ring is the numbers of its level's scratchpads, no number is used
\* twice, and a level has one ring.
RingsAreRanges ==
  phase \in {"wire", "run"} =>
    /\ IsInjective(rings) /\ \A c, d \in DOMAIN number : number[c] = number[d] => c = d
    /\ \A r, s \in DOMAIN rings : rings[r].level = rings[s].level => r = s
    /\ \A r \in DOMAIN rings :
         rings[r].minId..rings[r].maxId = {number[c] : c \in {d \in DOMAIN number : case.level[d] = rings[r].level}}

\* A request goes over no ring but its own and the lowest: a ring's load is its own.
RequestsBypassRings ==
  message.kind = "req" /\ message.at[1] = "node" =>
    LET sender == CHOOSE c \in DOMAIN number : number[c] = message.id
    IN  Level(message.at[2]) \in {case.level[sender], rings[Len(rings)].level}

\* What a scratchpad asks comes back to it: no message is lost at a port that leads
\* nowhere, and none circles.
RoundTrip ==
  \A k \in 0..4 :
    (message.kind = "req" /\ message.at = Node(k))
      ~> (message.kind = "none")

=============================================================================
