---------------------------- MODULE ScratchpadTree ----------------------------
(***************************************************************************)
(* The trees that connect scratchpads to a platform's memory controllers   *)
(* (scratchpadTree.py): how many leaves and inner nodes each level has, the*)
(* new numbers of the scratchpads, and the tree built level by level from  *)
(* the bottom.  The shape comes from dynamic programming or is balanced;   *)
(* the integer program for the external solver is not modelled.            *)
(***************************************************************************)
EXTENDS Integers, Sequences, FiniteSets, FiniteSetsExt, SequencesExt

CONSTANT
  Cases    \* records: serves (of each controller, its clients), arity, mode, latency

TreeAssumption ==
  \A k \in Cases : k.arity >= 2 /\ \A i \in DOMAIN k.serves : IsInjective(k.serves[i])

VARIABLES
  case,
  tree,            \* the number of the controller at hand
  newId,           \* new_id, which goes on over all trees
  remapped,        \* remappedIds: of each tree, client -> number
  left,            \* clients of this tree that have no leaf yet, in order
  leaves,          \* num_leaves: of each depth from 1
  internals,       \* num_internals: of each depth from 1
  level,           \* the depth whose inner nodes are built next
  childNodes,      \* the nodes of the level below, from left to right
  nodes,           \* the inner nodes built, roots included
  roots,           \* the root of each tree done
  phase

shape == <<leaves, internals>>
vars == <<case, tree, newId, remapped, left, shape, level, childNodes, nodes, roots, phase>>

Init ==
  /\ case \in Cases
  /\ tree = 1
  /\ newId = 1
  /\ remapped = <<>>
  /\ left = <<>>
  /\ leaves = <<>>
  /\ internals = <<>>
  /\ level = 0
  /\ childNodes = <<>>
  /\ nodes = {}
  /\ roots = <<>>
  /\ phase = "shape"

K == case.arity

-----------------------------------------------------------------------------
(* Leaves and nodes.                                                       *)

\* A node is its idRange and the depths of its leaves below it.
Leaf(id) == [range |-> <<id, id>>, depth |-> [i \in {id} |-> 0]]

Node(children) ==
  LET ids == UNION {DOMAIN children[j].depth : j \in DOMAIN children}
      holder(id) == CHOOSE j \in DOMAIN children : id \in DOMAIN children[j].depth
  IN  [range |-> IF children = <<>> THEN <<0, 0>>
                 ELSE <<Min({children[j].range[1] : j \in DOMAIN children}),
                        Max({children[j].range[2] : j \in DOMAIN children})>>,
       depth |-> [id \in ids |-> children[holder(id)].depth[id] + 1]]

-----------------------------------------------------------------------------
(* The shape of a tree.                                                    *)

Ceiling(a, b) == (a + b - 1) \div b

ByLatency(list) ==
  LET place(c) == CHOOSE i \in DOMAIN list : list[i] = c
  IN  SortSeq(list, LAMBDA c, d :
        \/ case.latency[c] > case.latency[d]
        \/ case.latency[c] = case.latency[d] /\ place(c) < place(d))

\* ceil(log(n, K)).
Depth(n) == Min({d \in 1..n : K^d >= n})

\* Mutant of NodesAbove: rounded down.
NodesAboveFloor(n) == n \div K

\* Inner nodes above n leaves.
NodesAbove(n) == Ceiling(n, K)

\* constructBalancedTreeTopology: as many leaves one level above the bottom as
\* leave room for the inner nodes above the others.
Balanced(n) ==
  LET depth == Depth(n)
      room == K^(depth - 1)
      Settle[upper \in Int] ==
        LET inner == NodesAbove(n - upper)
        IN  IF upper + inner > room THEN Settle[room - inner] ELSE upper
      upper == Settle[room]
  IN  [leaves |-> [d \in 1..depth |-> IF d = depth - 1 THEN upper ELSE IF d = depth THEN n - upper ELSE 0],
       internals |-> [d \in 1..(depth - 1) |-> IF d = depth - 1 THEN NodesAbove(n - upper) ELSE K]]

MaxDepth(n) == (n - 2) \div (K - 1) + 1
Dummies(n) == MaxDepth(n) * (K - 1) + 1 - n

Infinity == 100000

\* Mutant of LeavesTried: at least one leaf at every depth.
LeavesTriedSome(slots) == 1..(slots - 1)

\* How many leaves of a level are tried.
LeavesTried(slots) == 0..(slots - 1)

\* The cheapest of the shapes tried, with most leaves if there are several.
Least(tried) ==
  tried[Max({x \in DOMAIN tried : \A y \in DOMAIN tried : tried[x].cost <= tried[y].cost})]

\* The table v and leaves of constructTreeTopologyUsingDP, for the last n of the
\* leaves with the given latencies, of which slots fit at depth d.
Best(a, depth) ==
  LET N == Len(a)
      Sum(i, n) == FoldSeq(+, 0, SubSeq(a, N - n + 1, N - n + i))  \* of the first i of the last n
      Table[d \in 1..depth, slots \in Nat, n \in Nat] ==
        IF slots >= n THEN [cost |-> Sum(n, n) * d, leaves |-> <<n>>]
        ELSE IF d = depth THEN [cost |-> Infinity, leaves |-> <<>>]
        ELSE LET try(x) ==
                   IF (slots - x) * K >= n - x
                   THEN [cost |-> Sum(x, n) * d + Sum(n - x, n - x) * (d + 1), leaves |-> <<x, n - x>>]
                   ELSE LET below == Table[d + 1, (slots - x) * K, n - x]
                        IN  [cost |-> Sum(x, n) * d + below.cost, leaves |-> <<x>> \o below.leaves]
             IN  Least([x \in LeavesTried(slots) |-> try(x)])
  IN  Table[1, K, N].leaves

\* Leaves for n clients and some dummies; inner nodes counted from the bottom; the
\* dummies are taken from the last level.
WithoutDummies(found, n) ==
  LET depth == Len(found)
      Above[d \in Nat] == IF d = depth THEN found[d] ELSE Above[d + 1] \div K + found[d]
  IN  [leaves |-> [found EXCEPT ![depth] = @ - Dummies(n)],
       internals |-> [d \in 1..(depth - 1) |-> Above[d + 1] \div K]]

Cheapest(list) ==
  LET n == Len(list)
      a == [i \in 1..(n + Dummies(n)) |-> IF i <= n THEN case.latency[list[i]] ELSE 0]
  IN  WithoutDummies(Best(a, MaxDepth(n)), n)

Flat(n) == [leaves |-> <<n>>, internals |-> <<>>]

LastOf(list, n) == SubSeq(list, Len(list) - n + 1, Len(list))
AllBut(list, n) == SubSeq(list, 1, Len(list) - n)

\* Mutant of Numbered: every tree starts at 1.
NumberedFromOne(i) == i

\* The number of the i-th client of the tree.
Numbered(i) == newId + i - 1

\* The next controller: its clients in the order in which they become leaves, in
\* mode "shuffled" any order, and their new numbers.
StartTree ==
  /\ phase = "shape"
  /\ tree <= Len(case.serves)
  /\ LET list == case.serves[tree]
         flat == Len(list) <= K
         sorted == IF flat THEN list ELSE ByLatency(list)
         orders == IF case.mode = "shuffled" THEN SetToSeqs(Range(list)) ELSE {sorted}
         shapes == {IF flat THEN Flat(Len(list))
                    ELSE IF case.mode = "DP" THEN Cheapest(sorted) ELSE Balanced(Len(list))}
     IN  \E chosen \in shapes, order \in orders :
           /\ leaves' = chosen.leaves
           /\ internals' = chosen.internals
           /\ level' = Len(chosen.internals)
           /\ remapped' = Append(remapped, [c \in Range(order) |->
                                              Numbered(CHOOSE i \in DOMAIN order : order[i] = c)])
           /\ newId' = newId + Len(order)
           /\ left' = AllBut(order, chosen.leaves[Len(chosen.leaves)])
           /\ LET bottom == LastOf(order, chosen.leaves[Len(chosen.leaves)])
              IN  childNodes' = [i \in DOMAIN bottom |-> Leaf(remapped'[tree][bottom[i]])]
  /\ phase' = "levels"
  /\ UNCHANGED <<case, tree, nodes, roots>>

\* Mutant of FirstGroup: the remainder goes on top of a full node.
FirstGroupMerged(n) == IF n % K > 0 THEN (n % K) + K ELSE K

\* How many children the first node of a level takes; the others take K.
FirstGroup(n) == IF n % K > 0 THEN n % K ELSE K

Group(list, j) ==
  LET first == FirstGroup(Len(list))
      from == IF j = 1 THEN 1 ELSE first + (j - 2) * K + 1
      to == Min({first + (j - 1) * K, Len(list)})
  IN  SubSeq(list, from, to)

\* Mutant of LevelLeaves: the clients are taken from the front.
LevelLeavesFront(n) == SubSeq(left, 1, n)

\* The clients that become leaves of a level.
LevelLeaves(n) == LastOf(left, n)

\* The inner nodes of a level take the nodes below; the level's leaves are put to
\* the left of them.
BuildLevel ==
  /\ phase = "levels"
  /\ level > 0
  /\ LET groups == [j \in 1..internals[level] |-> Group(childNodes, j)]
         here == LevelLeaves(leaves[level])
     IN  /\ childNodes' = [i \in DOMAIN here |-> Leaf(remapped[tree][here[i]])]
                            \o [j \in DOMAIN groups |-> Node(groups[j])]
         /\ nodes' = nodes \cup Range(groups)
         /\ left' = SelectSeq(left, LAMBDA c : c \notin Range(here))
  /\ level' = level - 1
  /\ UNCHANGED <<case, tree, newId, remapped, shape, roots, phase>>

FinishTree ==
  /\ phase = "levels"
  /\ level = 0
  /\ nodes' = nodes \cup {childNodes}
  /\ roots' = Append(roots, Node(childNodes))
  /\ tree' = tree + 1
  /\ phase' = "shape"
  /\ UNCHANGED <<case, newId, remapped, left, shape, level, childNodes>>

Next == StartTree \/ BuildLevel \/ FinishTree

Spec == Init /\ [][Next]_vars

-----------------------------------------------------------------------------

TypeOK ==
  /\ newId \in Nat
  /\ \A d \in DOMAIN leaves : leaves[d] \in Nat
  /\ \A d \in DOMAIN internals : internals[d] \in Nat \ {0}
  /\ Len(roots) <= Len(remapped) /\ Len(remapped) <= Len(case.serves)
  /\ \A i \in DOMAIN remapped : remapped[i] \in [Range(case.serves[i]) -> 1..(newId - 1)]

\* "The maximum number of children for each tree node" is kept by every node, and
\* inner nodes are never empty (lines 227-242).
FanOutFits ==
  \A children \in nodes :
    Len(children) <= K /\ (Len(children) > 0 \/ \E i \in DOMAIN case.serves : case.serves[i] = <<>>)

\* "Build balanced trees": the tree of a controller has a leaf for each of its
\* clients, and no other.
EveryClientHasALeaf ==
  \A i \in DOMAIN roots : DOMAIN roots[i].depth = {remapped[i][c] : c \in Range(case.serves[i])}

\* The bounds that a router is given, its children's first numbers and the last
\* number plus one, send every number to the child that has the leaf.
AddressBoundsRoute ==
  \A children \in nodes :
    \A j \in DOMAIN children :
      /\ DOMAIN children[j].depth = children[j].range[1]..children[j].range[2]
      /\ j < Len(children) => children[j].range[2] < children[j + 1].range[1]

\* All trees number their leaves apart: a response is known by its number at every
\* controller, also of a client that several controllers serve.
NumbersAreUnique ==
  \A i, j \in DOMAIN remapped : \A c \in DOMAIN remapped[i], d \in DOMAIN remapped[j] :
    remapped[i][c] = remapped[j][d] => i = j /\ c = d

\* "Use DP to build minimum latency trees": no tree of that arity, whatever depths
\* it gives the clients, has a smaller sum of latency times depth.
LatencyIsMinimal ==
  case.mode = "DP" =>
    \A i \in DOMAIN roots :
      LET list == case.serves[i]
          clients == Range(list)
          D == MaxDepth(Len(list))
          total(depth) == FoldFunction(+, 0, [c \in clients |-> case.latency[c] * depth[c]])
          exists(depth) == FoldFunction(+, 0, [c \in clients |-> K^(D - depth[c])]) <= K^D
      IN  Len(list) > K =>
            \A depth \in [clients -> 1..D] :
              exists(depth) => total([c \in clients |-> roots[i].depth[remapped[i][c]]]) <= total(depth)

=============================================================================
