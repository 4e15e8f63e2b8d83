------------------------- MODULE ScratchpadAssignment -------------------------
(***************************************************************************)
(* Assignment of the scratchpads of one platform to its memory controllers *)
(* (remapScratchpad.py): in equal groups, by measured traffic with some    *)
(* scratchpads split over several controllers, or all over all.            *)
(* Controllers are numbered from 0, as in the code.                        *)
(***************************************************************************)
EXTENDS Integers, Sequences, FiniteSets, FiniteSetsExt, SequencesExt

CONSTANTS
  Clients,      \* the platform's scratchpads in the order of their names
  Cases         \* records: controllers, traffic, ratio, mode, stats, interleaveAll

AssignmentAssumption ==
  \A k \in Cases :
    /\ k.controllers \in Nat
    /\ \A c \in Range(Clients) :
         k.traffic[c] \in Nat /\ Len(k.ratio[c]) # 1 /\ \A i \in DOMAIN k.ratio[c] : k.ratio[c][i] > 0

VARIABLES
  case,
  clients,          \* the list, sorted or shuffled in place
  partition,        \* of each client, the ratios of its parts
  controllerIdx,    \* of each client, its controllers, the first one first
  ringstops,        \* of each controller, its clients
  totalBandwidth,
  split, rest,      \* partitioned clients, and the others, still to assign
  phase

vars == <<case, clients, partition, controllerIdx, ringstops, totalBandwidth, split, rest, phase>>

Controllers == 0..(case.controllers - 1)

Init ==
  /\ case \in Cases
  /\ clients = Clients
  /\ partition = [c \in Range(Clients) |-> <<>>]
  /\ controllerIdx = [c \in Range(Clients) |-> <<>>]
  /\ ringstops = [i \in Controllers |-> <<>>]
  /\ totalBandwidth = [i \in Controllers |-> 0]
  /\ split = <<>>
  /\ rest = <<>>
  /\ phase = "start"

Balancing == case.stats /\ Len(clients) > 0 /\ case.mode # "random"

-----------------------------------------------------------------------------
(* interleaveAllClients.                                                   *)

InterleaveAllClients ==
  /\ phase = "start"
  /\ case.interleaveAll /\ Len(clients) > 0
  /\ partition' = [c \in Range(clients) |-> [i \in 1..case.controllers |-> 1]]
  /\ controllerIdx' = [c \in Range(clients) |-> [i \in 1..case.controllers |-> i - 1]]
  /\ ringstops' = [i \in Controllers |-> clients]
  /\ phase' = "done"
  /\ UNCHANGED <<case, clients, totalBandwidth, split, rest>>

-----------------------------------------------------------------------------
(* bandwidthPartition.                                                     *)

\* The ratios of the statistics file, largest first.
Ratio(c) == SortSeq(case.ratio[c], LAMBDA a, b : a > b)

\* Mutant of ByTraffic: least traffic first.
ByTrafficAscending(list) ==
  SetToSortSeq(Range(list), LAMBDA c, d : case.traffic[c] < case.traffic[d])

\* sort by traffic, equal ones in their order.
ByTraffic(list) ==
  LET place(c) == CHOOSE i \in DOMAIN list : list[i] = c
  IN  SetToSortSeq(Range(list), LAMBDA c, d :
        \/ case.traffic[c] > case.traffic[d]
        \/ case.traffic[c] = case.traffic[d] /\ place(c) < place(d))

SortByTraffic ==
  /\ phase = "start"
  /\ ~case.interleaveAll /\ Balancing
  /\ partition' = [c \in Range(clients) |-> Ratio(c)]
  /\ clients' = ByTraffic(clients)
  /\ split' = SelectSeq(clients', LAMBDA c : case.controllers > 1 /\ Len(Ratio(c)) > 0)
  /\ rest' = SelectSeq(clients', LAMBDA c : ~(case.controllers > 1 /\ Len(Ratio(c)) > 0))
  /\ phase' = "balance"
  /\ UNCHANGED <<case, controllerIdx, ringstops, totalBandwidth>>

\* Mutant of Shares: the traffic is divided first.
SharesRounded(c) ==
  LET sum == FoldSeq(+, 0, partition[c])
  IN  [i \in DOMAIN partition[c] |-> partition[c][i] * (case.traffic[c] \div sum)]

\* The parts of the client's traffic, rounded down.
Shares(c) ==
  LET sum == FoldSeq(+, 0, partition[c])
  IN  [i \in DOMAIN partition[c] |-> (partition[c][i] * case.traffic[c]) \div sum]

\* Mutant of LeastLoaded: controllers of equal load are not told apart.
LeastLoadedByValue(total, n) ==
  LET order == SetToSortSeq(DOMAIN total, LAMBDA i, j : total[i] < total[j] \/ (total[i] = total[j] /\ i < j))
      first(v) == Min({i \in DOMAIN total : total[i] = v})
  IN  [k \in 1..n |-> first(total[order[k]])]

\* The n least loaded controllers, the lower number first among equals.
LeastLoaded(total, n) ==
  SubSeq(SetToSortSeq(DOMAIN total, LAMBDA i, j : total[i] < total[j] \/ (total[i] = total[j] /\ i < j)), 1, n)

\* A partitioned client: its larger parts go to the less loaded controllers.
AssignParts ==
  /\ phase = "balance"
  /\ split # <<>>
  /\ LET c == Head(split)
         idx == LeastLoaded(totalBandwidth, Len(partition[c]))
         part(i) == CHOOSE k \in DOMAIN idx : idx[k] = i
     IN  IF Len(partition[c]) > case.controllers
         THEN phase' = "IndexError" /\ UNCHANGED <<controllerIdx, ringstops, totalBandwidth, split>>
         ELSE /\ controllerIdx' = [controllerIdx EXCEPT ![c] = idx]
              /\ ringstops' = [i \in Controllers |->
                                 IF i \in Range(idx) THEN Append(ringstops[i], c) ELSE ringstops[i]]
              /\ totalBandwidth' = [i \in Controllers |->
                                      totalBandwidth[i] + IF i \in Range(idx) THEN Shares(c)[part(i)] ELSE 0]
              /\ split' = Tail(split)
              /\ UNCHANGED phase
  /\ UNCHANGED <<case, clients, partition, rest>>

Stops == [i \in Controllers |-> Len(ringstops[i])]

\* Any other client goes to the least loaded controller; one without traffic to
\* the one with the fewest clients.
AssignWhole ==
  /\ phase = "balance"
  /\ split = <<>> /\ rest # <<>>
  /\ LET c == Head(rest)
         idx == LeastLoaded(IF case.traffic[c] > 0 THEN totalBandwidth ELSE Stops, 1)[1]
     IN  /\ controllerIdx' = [controllerIdx EXCEPT ![c] = <<idx>>]
         /\ ringstops' = [ringstops EXCEPT ![idx] = Append(@, c)]
         /\ totalBandwidth' = [totalBandwidth EXCEPT ![idx] = @ + case.traffic[c]]
  /\ rest' = Tail(rest)
  /\ UNCHANGED <<case, clients, partition, split, phase>>

FinishBalance ==
  /\ phase = "balance"
  /\ split = <<>> /\ rest = <<>>
  /\ phase' = "done"
  /\ UNCHANGED <<case, clients, partition, controllerIdx, ringstops, totalBandwidth, split, rest>>

-----------------------------------------------------------------------------
(* The equal groups of assignScratchpadClients.                            *)

\* Mutant of ClientsPerGroup: rounded down.
ClientsPerGroupFloor == IF Len(clients) < case.controllers THEN 1 ELSE Len(clients) \div case.controllers

ClientsPerGroup == (Len(clients) + case.controllers - 1) \div case.controllers

\* The list in its order, or shuffled; a platform without controllers fails.
GroupClients ==
  /\ phase = "start"
  /\ ~(case.interleaveAll /\ Len(clients) > 0) /\ ~Balancing
  /\ clients' \in IF case.mode = "random" THEN SetToSeqs(Range(clients)) ELSE {clients}
  /\ IF case.controllers = 0
     THEN phase' = "ZeroDivisionError" /\ UNCHANGED <<controllerIdx, ringstops>>
     ELSE /\ controllerIdx' = [c \in Range(clients) |->
                                 <<((CHOOSE i \in DOMAIN clients : clients'[i] = c) - 1) \div ClientsPerGroup>>]
          /\ ringstops' = [i \in Controllers |-> SelectSeq(clients', LAMBDA c : controllerIdx'[c] = <<i>>)]
          /\ phase' = "done"
  /\ UNCHANGED <<case, partition, totalBandwidth, split, rest>>

Next ==
  \/ InterleaveAllClients
  \/ SortByTraffic
  \/ AssignParts
  \/ AssignWhole
  \/ FinishBalance
  \/ GroupClients

Spec == Init /\ [][Next]_vars

-----------------------------------------------------------------------------

TypeOK ==
  /\ Range(clients) = Range(Clients) /\ Len(clients) = Len(Clients)
  /\ \A c \in Range(Clients) : controllerIdx[c] \in Seq(Controllers)
  /\ \A i \in Controllers : totalBandwidth[i] \in Nat
  /\ phase \in {"start", "balance", "done", "IndexError", "ZeroDivisionError"}

\* The two views that the generator uses agree: a controller serves a scratchpad
\* exactly if the scratchpad knows it, each once, as many as it has parts.
ViewsAgree ==
  phase = "done" /\ case.controllers > 0 =>
    \A c \in Range(Clients) :
      /\ IsInjective(controllerIdx[c])
      /\ \A i \in Controllers :
           Cardinality({k \in DOMAIN ringstops[i] : ringstops[i][k] = c}) = IF i \in Range(controllerIdx[c]) THEN 1 ELSE 0
      /\ Len(controllerIdx[c]) = IF case.controllers > 1 /\ Len(partition[c]) > 0 THEN Len(partition[c]) ELSE 1

\* "by balancing the total number of requests": no scratchpad with traffic that is not split
\* could leave its controller for another one and make the more loaded of the two
\* less loaded (lines 135, 157-164).
NothingBetterMoved ==
  phase = "done" /\ Balancing /\ ~case.interleaveAll =>
    \A c \in Range(Clients) : Len(controllerIdx[c]) = 1 /\ case.traffic[c] > 0 =>
      \A i \in Controllers :
        totalBandwidth[controllerIdx[c][1]] - case.traffic[c] <= totalBandwidth[i]

\* The loads that the balance is computed from are the traffic, but for less than
\* one request for each part that a scratchpad is split into.
TrafficIsCounted ==
  phase = "done" /\ Balancing /\ ~case.interleaveAll =>
    LET all == FoldFunction(+, 0, case.traffic)
        counted == FoldFunction(+, 0, totalBandwidth)
        parts == FoldFunction(+, 0, [c \in Range(Clients) |-> Len(controllerIdx[c]) - 1])
    IN  counted <= all /\ all <= counted + parts

\* The equal groups are equal: none has more than the rounded-up share, and only
\* the last of those in use has fewer.
GroupsAreEven ==
  phase = "done" /\ ~Balancing /\ ~case.interleaveAll =>
    \A i \in Controllers :
      /\ Len(ringstops[i]) * case.controllers <= Len(Clients) + case.controllers - 1
      /\ i > 0 /\ ringstops[i] # <<>> =>
           Len(ringstops[i - 1]) * case.controllers >= Len(Clients)

=============================================================================
