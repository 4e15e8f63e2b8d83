--------------------------- MODULE ScratchpadNetwork ---------------------------
(***************************************************************************)
(* The network that the generated wrapper of a platform builds between its *)
(* scratchpads and its memory controllers (genRemapWrapper): which port of *)
(* which controller's network serves a scratchpad, under which number, how *)
(* a response finds its scratchpad and how an interleaver picks the        *)
(* controller of an address.  A case has, besides what the assignment      *)
(* needs, the network's type, the scratchpads' ids, levels and bandwidths. *)
(* Leaves of a tree get their numbers in any order (see ScratchpadTree);   *)
(* the inside of a ring, tree or crossbar is external: it hands a response *)
(* to the port that has its number.                                        *)
(***************************************************************************)
EXTENDS ScratchpadAssignment

NetworkAssumption ==
  \A k \in Cases : IsInjective(k.id) /\ \A c \in Range(Clients) : k.bandwidth[c] \in Nat /\ k.level[c] \in Nat

VARIABLES
  remappedIds,     \* of each controller, scratchpad -> number; empty without numbers
  newId,
  next,            \* the controller to number or generate next
  matching,        \* pairs of a scratchpad and a controller with matching ports
  routes,          \* of each controller, the scratchpad that a response number reaches
  remapped,        \* of each controller, getRemappedIdx where it is not the identity
  fractions,       \* of each crossbar, scratchpad -> share of the bandwidth
  portions,        \* of each interleaved scratchpad, its bounds of addresses
  wired,           \* pairs of a scratchpad and a controller it is connected to
  step

network == <<remappedIds, newId, next, matching, routes, remapped, fractions, portions, wired>>
nvars == <<vars, network, step>>

NInit ==
  /\ Init
  /\ remappedIds = [i \in Controllers |-> <<>>]
  /\ newId = 1
  /\ next = 0
  /\ matching = {}
  /\ routes = [i \in Controllers |-> <<>>]
  /\ remapped = [i \in Controllers |-> <<>>]
  /\ fractions = [i \in Controllers |-> <<>>]
  /\ portions = <<>>
  /\ wired = {}
  /\ step = "number"

Assign == Next /\ UNCHANGED <<network, step>>

Serves(i) == SelectSeq(clients, LAMBDA c : i \in Range(controllerIdx[c]))

\* platform.partitionedClients.
Partitioned ==
  SelectSeq(clients, LAMBDA c : case.interleaveAll
                                  \/ (Balancing /\ case.controllers > 1 /\ Len(partition[c]) > 0))

\* Mutant of Rest: those that have no ratios.
RestWithoutRatio == SelectSeq(clients, LAMBDA c : Len(partition[c]) = 0)

\* platform.restClients.
Rest == SelectSeq(clients, LAMBDA c : c \notin Range(Partitioned))

First(c) == controllerIdx[c][1]

-----------------------------------------------------------------------------
(* remapClientIds.                                                         *)

ByLevel(list) ==
  LET place(c) == CHOOSE k \in DOMAIN list : list[k] = c
  IN  SortSeq(list, LAMBDA c, d :
        \/ case.level[c] > case.level[d]
        \/ case.level[c] = case.level[d] /\ place(c) < place(d))

\* Trees and hierarchical rings number the scratchpads of each controller.
NumberController ==
  /\ phase = "done" /\ step = "number"
  /\ case.type \in {"tree", "hring"} /\ next < case.controllers
  /\ \E order \in IF case.type = "tree" THEN SetToSeqs(Range(Serves(next))) ELSE {ByLevel(Serves(next))} :
       /\ remappedIds' = [remappedIds EXCEPT ![next] =
                            [c \in Range(order) |-> newId - 1 + CHOOSE k \in DOMAIN order : order[k] = c]]
       /\ newId' = newId + Len(order)
  /\ next' = next + 1
  /\ UNCHANGED <<vars, matching, routes, remapped, fractions, portions, wired, step>>

BeginWrapper ==
  /\ phase = "done" /\ step = "number" /\ Len(clients) > 0
  /\ case.type \in {"tree", "hring"} => next = case.controllers
  /\ next' = 0
  /\ step' = "generate"
  /\ UNCHANGED <<vars, remappedIds, newId, matching, routes, remapped, fractions, portions, wired>>

\* The number that a scratchpad's requests carry.
ClientId(c) ==
  IF c \in DOMAIN remappedIds[First(c)] THEN remappedIds[First(c)][c] ELSE case.id[c]

-----------------------------------------------------------------------------
(* One controller.                                                         *)

Inverted(f) == [x \in Range(f) |-> CHOOSE c \in DOMAIN f : f[c] = x]

Match(list) == matching \cup {<<c, next>> : c \in Range(list)}

\* Mutant of Remapped: at the controllers where it is not needed.
RemappedAtFirst(i) ==
  LET foreign == {c \in Range(Serves(i)) : First(c) = i}
  IN  [x \in {ClientId(c) : c \in foreign} |->
         remappedIds[i][CHOOSE c \in foreign : ClientId(c) = x]]

\* getRemappedIdx: from a scratchpad's number at its first controller.
Remapped(i) ==
  LET foreign == {c \in Range(Serves(i)) : First(c) # i}
  IN  [x \in {ClientId(c) : c \in foreign} |->
         remappedIds[i][CHOOSE c \in foreign : ClientId(c) = x]]

\* Any number of a response reaches a scratchpad that has its controller alone.
Direct ==
  /\ phase = "done" /\ step = "generate" /\ next < case.controllers
  /\ Len(Serves(next)) = 1
  /\ remapped' = [remapped EXCEPT ![next] = IF remappedIds[next] = <<>> THEN <<>> ELSE Remapped(next)]
  /\ LET c == Serves(next)[1]
         id == IF remappedIds[next] = <<>> THEN case.id[c] ELSE remappedIds[next][c]
     IN  routes' = [routes EXCEPT ![next] = [x \in {id} |-> c]]
  /\ matching' = Match(Serves(next))
  /\ next' = next + 1
  /\ UNCHANGED <<vars, remappedIds, newId, fractions, portions, wired, step>>

\* The nodes of a ring have the scratchpads' own ids.
RingNetwork ==
  /\ phase = "done" /\ step = "generate" /\ next < case.controllers
  /\ Len(Serves(next)) # 1 /\ case.type = "ring"
  /\ routes' = [routes EXCEPT ![next] = Inverted([c \in Range(Serves(next)) |-> case.id[c]])]
  /\ matching' = Match(Serves(next))
  /\ next' = next + 1
  /\ UNCHANGED <<vars, remappedIds, newId, remapped, fractions, portions, wired, step>>

\* The leaves of a tree have the new numbers, and the root's responses are remapped.
\* A root without children has no largest bandwidth.
TreeNetwork ==
  /\ phase = "done" /\ step = "generate" /\ next < case.controllers
  /\ Len(Serves(next)) # 1 /\ case.type = "tree"
  /\ IF Serves(next) = <<>>
     THEN step' = "ValueError" /\ UNCHANGED network
     ELSE /\ routes' = [routes EXCEPT ![next] = Inverted(remappedIds[next])]
          /\ remapped' = [remapped EXCEPT ![next] = Remapped(next)]
          /\ matching' = Match(Serves(next))
          /\ next' = next + 1
          /\ UNCHANGED <<remappedIds, newId, fractions, portions, wired, step>>
  /\ UNCHANGED vars

\* The nodes of a hierarchical ring have the new numbers (see HierarchicalRing).
HierarchicalRingNetwork ==
  /\ phase = "done" /\ step = "generate" /\ next < case.controllers
  /\ Len(Serves(next)) # 1 /\ case.type = "hring"
  /\ IF Serves(next) = <<>>
     THEN step' = "IndexError" /\ UNCHANGED network
     ELSE /\ routes' = [routes EXCEPT ![next] = Inverted(remappedIds[next])]
          /\ matching' = Match(Serves(next))
          /\ next' = next + 1
          /\ UNCHANGED <<remappedIds, newId, remapped, fractions, portions, wired, step>>
  /\ UNCHANGED vars

-----------------------------------------------------------------------------
(* Crossbars.                                                              *)

BandwidthBits == 5
Rounded(a, b) == (2 * a + b) \div (2 * b)

\* getBandwidthFraction: of a part of a scratchpad, its part of the bandwidth.
Bandwidth(c, i) ==
  IF partition[c] = <<>> THEN case.bandwidth[c]
  ELSE LET k == CHOOSE x \in DOMAIN controllerIdx[c] : controllerIdx[c][x] = i
       IN  Rounded(partition[c][k] * case.bandwidth[c], FoldSeq(+, 0, partition[c]))

\* Mutant of Fraction: not scaled.
FractionUnscaled(c, i) == Max({1, Bandwidth(c, i)})

Fraction(c, i) ==
  LET most == Max({1} \cup {Bandwidth(d, i) : d \in Range(Serves(i))})
  IN  Max({1, Min({Bandwidth(c, i), Rounded(Bandwidth(c, i) * (2^BandwidthBits - 1), most)})})

\* A scratchpad of one controller is wired to the crossbar at once; one that is split
\* gets ports for its interleaver, which fails if it is not among the partitioned.
CrossbarNetwork ==
  /\ phase = "done" /\ step = "generate" /\ next < case.controllers
  /\ Len(Serves(next)) # 1 /\ case.type = "crossbar"
  /\ LET whole == SelectSeq(Serves(next), LAMBDA c : partition[c] = <<>>)
         parts == SelectSeq(Serves(next), LAMBDA c : partition[c] # <<>>)
     IN  IF Serves(next) = <<>> \/ ~(Range(parts) \subseteq Range(Partitioned))
         THEN step' = "ValueError" /\ UNCHANGED network
         ELSE /\ wired' = wired \cup {<<c, next>> : c \in Range(whole)}
              /\ matching' = Match(parts)
              /\ routes' = [routes EXCEPT ![next] = Inverted([c \in Range(Serves(next)) |-> case.id[c]])]
              /\ fractions' = [fractions EXCEPT ![next] = [c \in Range(Serves(next)) |-> Fraction(c, next)]]
              /\ next' = next + 1
              /\ UNCHANGED <<remappedIds, newId, remapped, portions, step>>
  /\ UNCHANGED vars

-----------------------------------------------------------------------------
(* The scratchpads.                                                        *)

\* Those of one controller, which a crossbar has connected already.
ConnectRest ==
  /\ step = "generate" /\ next = case.controllers
  /\ wired' = IF case.type = "crossbar" THEN wired ELSE wired \cup {<<c, First(c)>> : c \in Range(Rest)}
  /\ step' = "interleave"
  /\ UNCHANGED <<vars, remappedIds, newId, next, matching, routes, remapped, fractions, portions>>

InterleaveAddrBit == 4

\* Mutant of AddrBits: rounded down.
AddrBitsFloor(sum) == Max({b \in 0..sum : 2^b <= sum})

\* ceil(log(sum, 2)).
AddrBits(sum) == Min({b \in 0..sum : 2^b >= sum})

\* An address below the first bound goes to the first controller, and so on.
Thresholds(c) ==
  LET sum == FoldSeq(+, 0, partition[c])
      upTo(k) == FoldSeq(+, 0, SubSeq(partition[c], 1, k))
  IN  IF case.interleaveAll
      THEN [k \in 1..(Len(partition[c]) - 1) |-> k * (2^InterleaveAddrBit \div Len(partition[c]))]
      ELSE [k \in DOMAIN partition[c] |-> (2^AddrBits(sum) * upTo(k) + sum - 1) \div sum]

\* The interleaver of the next partitioned scratchpad; one controller leaves no bound.
InterleaveClient ==
  /\ step = "interleave"
  /\ DOMAIN portions # Range(Partitioned)
  /\ LET c == SelectSeq(Partitioned, LAMBDA d : d \notin DOMAIN portions)[1]
     IN  IF Thresholds(c) = <<>>
         THEN step' = "IndexError" /\ UNCHANGED <<portions, wired>>
         ELSE /\ portions' = [d \in DOMAIN portions \cup {c} |-> IF d = c THEN Thresholds(c) ELSE portions[d]]
              /\ wired' = wired \cup ({<<c, i>> : i \in Range(controllerIdx[c])} \cap matching)
              /\ UNCHANGED step
  /\ UNCHANGED <<vars, remappedIds, newId, next, matching, routes, remapped, fractions>>

EndWrapper ==
  /\ step = "interleave"
  /\ DOMAIN portions = Range(Partitioned)
  /\ step' = "end"
  /\ UNCHANGED <<vars, network>>

Generate ==
  \/ Direct
  \/ RingNetwork
  \/ TreeNetwork
  \/ HierarchicalRingNetwork
  \/ CrossbarNetwork

NNext ==
  \/ Assign
  \/ NumberController
  \/ BeginWrapper
  \/ Generate
  \/ ConnectRest
  \/ InterleaveClient
  \/ EndWrapper

NSpec == NInit /\ [][NNext]_nvars

-----------------------------------------------------------------------------

Bits(c) == IF case.interleaveAll THEN InterleaveAddrBit ELSE AddrBits(FoldSeq(+, 0, partition[c]))
Addresses(c) == 0..(2^Bits(c) - 1)

\* getControllerIdxFromAddr: the last controller takes what is left.
Chosen(c, a) ==
  Min({Len(partition[c])} \cup {k \in 1..(Len(partition[c]) - 1) : a < portions[c][k]})

NTypeOK ==
  /\ \A i \in Controllers :
       /\ Range(remappedIds[i]) \subseteq 1..(newId - 1)
       /\ DOMAIN remappedIds[i] \in {{}, Range(Serves(i))}
       /\ Range(routes[i]) \subseteq Range(Clients)
  /\ next \in 0..case.controllers
  /\ wired \subseteq Range(Clients) \X Controllers
  /\ \A c \in DOMAIN portions : Range(portions[c]) \subseteq 1..2^Bits(c)
  /\ step \in {"number", "generate", "interleave", "end", "ValueError", "IndexError"}

\* Every scratchpad is connected to each of its controllers, and to no other.
EveryClientIsWired ==
  step = "end" => \A c \in Range(Clients), i \in Controllers : <<c, i>> \in wired <=> i \in Range(controllerIdx[c])

\* The response of a controller, numbered as the request was and remapped as the
\* wrapper does, reaches the scratchpad that asked (lines 377-385 and 450-463).
ResponsesComeHome ==
  step = "end" =>
    \A c \in Range(Clients) : \A i \in Range(controllerIdx[c]) :
      LET id == ClientId(c)
          here == IF id \in DOMAIN remapped[i] THEN remapped[i][id] ELSE id
      IN  here \in DOMAIN routes[i] /\ routes[i][here] = c

\* An interleaver gives each controller its part of the addresses: none is left out,
\* and none gets one address more or less than its ratio; without ratios the last
\* controller gets the remainder.
PartsGetTheirShare ==
  step = "end" =>
    \A c \in DOMAIN portions :
      LET n == Len(partition[c])
          sum == FoldSeq(+, 0, partition[c])
          got(k) == Cardinality({a \in Addresses(c) : Chosen(c, a) = k})
      IN  \A k \in 1..n :
            /\ got(k) > 0
            /\ IF case.interleaveAll
               THEN got(k) = 2^Bits(c) \div n \/ (k = n /\ got(k) < 2^Bits(c) \div n + n)
               ELSE got(k) * sum - 2^Bits(c) * partition[c][k] \in (1 - sum)..(sum - 1)

\* The bandwidth fractions fit their five bits, and a greater bandwidth has no smaller
\* fraction (lines 594-603).
FractionsFit ==
  \A i \in Controllers :
    \A c, d \in DOMAIN fractions[i] :
      /\ fractions[i][c] \in 1..(2^BandwidthBits - 1)
      /\ Bandwidth(c, i) <= Bandwidth(d, i) => fractions[i][c] <= fractions[i][d]

=============================================================================
