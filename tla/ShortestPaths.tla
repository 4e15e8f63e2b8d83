---------------------------- MODULE ShortestPaths ----------------------------
(***************************************************************************)
(* Paths in the graph of platforms.  The graph library's shortest_path     *)
(* returns, for a source, the distance and the predecessor of every node it*)
(* reaches; where several predecessors are equally near it may return any, *)
(* and for another source it may choose differently.                       *)
(***************************************************************************)
EXTENDS Integers, Sequences, FiniteSets, TLC

CONSTANTS Platforms, None

\* The distance from p of every platform that can be reached.
Distances(edges, p) ==
  LET Grow[k \in Nat] ==
        IF k = 0 THEN p :> 0
        ELSE LET near == Grow[k - 1]
                 next == {q \in Platforms \ DOMAIN near : \E r \in DOMAIN near : <<r, q>> \in edges}
             IN  near @@ [q \in next |-> k]
  IN  Grow[Cardinality(Platforms)]

\* The predecessors that shortest_path may return for source p.
Trees(edges, p) ==
  LET distance == Distances(edges, p)
      others == DOMAIN distance \ {p}
  IN  {[q \in DOMAIN distance |-> IF q = p THEN None ELSE parent[q]] :
         parent \in {f \in [others -> DOMAIN distance] :
                       \A q \in others : <<f[q], q>> \in edges /\ distance[q] = distance[f[q]] + 1}}

\* getPathLength: -1 if there is no path.
PathLength(edges, p, q) ==
  LET distance == Distances(edges, p) IN IF q \in DOMAIN distance THEN distance[q] ELSE -1

\* Mutant of Path: the list is not reversed.
PathFromTarget(tree, p, q) ==
  LET Climb[hop \in DOMAIN tree] ==
        IF tree[hop] \in {p, None} THEN <<>> ELSE <<tree[hop]>> \o Climb[tree[hop]]
  IN  Climb[q]

\* getPath: the platforms between p and q, without the two.
Path(tree, p, q) ==
  LET Climb[hop \in DOMAIN tree] ==
        IF tree[hop] \in {p, None} THEN <<>> ELSE Append(Climb[tree[hop]], tree[hop])
  IN  Climb[q]

\* getPathHopFirst: the neighbour of p on the way to q.
PathHopFirst(tree, p, q) ==
  LET Climb[hop \in DOMAIN tree] == IF tree[hop] = p THEN hop ELSE Climb[tree[hop]]
  IN  Climb[q]

\* getPathHopLast: the neighbour of q on the way from the tree's root.
PathHopLast(tree, q) == tree[q]

=============================================================================
