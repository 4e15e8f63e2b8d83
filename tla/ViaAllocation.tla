---------------------------- MODULE ViaAllocation ----------------------------
(***************************************************************************)
(* generateViaLJF (analyzeNetwork.py): how the physical connection from one*)
(* platform to another is cut into lanes ("vias") and which channel or     *)
(* chain travels on which lane under which number.                         *)
(*                                                                         *)
(* For each number of lanes the code carves a lane for some small busy     *)
(* channel off the base lane, then places all links, longest job first, on *)
(* the least loaded lane.  The load depends on the size of the header, and *)
(* that on what is placed: placement is redone with larger headers until   *)
(* the estimate suffices.  The best allocation is written into the links.  *)
(***************************************************************************)
EXTENDS UMFTypes, Sequences, FiniteSets, FiniteSetsExt, Functions

CONSTANTS
  Links,            \* egress channels and chains to the target platform
  MinNumberOfVias, MaxNumberOfVias,   \* AWB parameters
  HeaderSize,       \* 12, the header size assumed for carving
  Bitwidths, Activities, PhysWidths,  \* the inputs considered
  None

ViaAllocationAssumption ==
  /\ IsFiniteSet(Links)
  /\ MinNumberOfVias \in Nat \ {0}
  /\ MaxNumberOfVias \in Nat
  /\ HeaderSize \in Nat
  /\ Bitwidths \subseteq Nat
  /\ Activities \subseteq Nat
  /\ PhysWidths \subseteq Nat \ {0}
  /\ None \notin Nat

VARIABLES
  bitwidth, activity,      \* of each link
  physWidth, cpu,          \* width of the connection; an end of it is a CPU
  sortedLinks, jobs,       \* the links as sorted for carving and for placing
  pc,
  numberOfVias, viaWidths, usedLinks, noViasRemaining, tried,   \* carving
  vias, headers, at, maxLinkWidth, provisional,                 \* placing
  viasFinal, maxLoad, assigned, firstAllocationPass             \* the best

inputs == <<bitwidth, activity, physWidth, cpu, sortedLinks, jobs>>
carving == <<numberOfVias, viaWidths, usedLinks, noViasRemaining, tried>>
placing == <<vias, headers, at, maxLinkWidth, provisional>>
best == <<viasFinal, maxLoad, assigned, firstAllocationPass>>
vars == <<inputs, pc, carving, placing, best>>

\* Longest job first: sorted ascending by this key, busier links first.
Key(l) == bitwidth[l] - 2048 * activity[l]

\* The sorts are stable over lists in different orders, so that links with
\* equal keys may come in any order, and not the same in both.
Sortings ==
  {s \in [1..Cardinality(Links) -> Links] :
     /\ IsInjective(s)
     /\ \A i, j \in DOMAIN s : i < j => Key(s[i]) <= Key(s[j])}

\* No optimization on connections to a CPU.
MinVias == IF cpu THEN 1 ELSE MinNumberOfVias
MaxVias == IF cpu THEN 1 ELSE MaxNumberOfVias

Init ==
  /\ bitwidth \in [Links -> Bitwidths]
  /\ activity \in [Links -> Activities]
  /\ physWidth \in PhysWidths
  /\ cpu \in BOOLEAN
  /\ sortedLinks \in Sortings
  /\ jobs \in Sortings
  /\ pc = "pass"
  /\ numberOfVias = MinVias
  /\ viaWidths = <<>>
  /\ usedLinks = {}
  /\ noViasRemaining = FALSE
  /\ tried = 0
  /\ vias = <<>>
  /\ headers = <<>>
  /\ at = 1
  /\ maxLinkWidth = <<>>
  /\ provisional = [l \in Links |-> None]
  /\ viasFinal = <<>>
  /\ maxLoad = 0
  /\ assigned = [l \in Links |-> None]
  /\ firstAllocationPass = TRUE

-----------------------------------------------------------------------------
(* Cutting the connection into numberOfVias lanes.                         *)

\* The base lane has the whole width: a single lane needs no valid bit.
BeginPass ==
  /\ pc = "pass"
  /\ numberOfVias <= MaxVias
  /\ pc' = "carve"
  /\ viaWidths' = <<physWidth>>
  /\ tried' = 1
  /\ noViasRemaining' = FALSE
  /\ UNCHANGED <<inputs, numberOfVias, usedLinks, placing, best>>

\* Mutant of BaseWidth: the valid bit of the base lane is forgotten.
BaseWidthWithoutValid == viaWidths[1]

\* With a second lane the base lane needs a valid bit, too.
BaseWidth == IF Len(viaWidths) = 1 THEN viaWidths[1] - 1 ELSE viaWidths[1]

\* Links not used for sizing before, small enough for a lane of their own.
Candidates ==
  {k \in DOMAIN sortedLinks :
     /\ sortedLinks[k] \notin usedLinks
     /\ BaseWidth > bitwidth[sortedLinks[k]] + 2 * (HeaderSize + 1)}

\* A lane for the busiest candidate, which leaves the base lane.
CarveLane ==
  /\ Candidates # {}
  /\ LET l == sortedLinks[Min(Candidates)]
     IN  /\ usedLinks' = usedLinks \cup {l}
         /\ viaWidths' = Append([viaWidths EXCEPT ![1] = BaseWidth - (bitwidth[l] + HeaderSize + 1)],
                                bitwidth[l] + HeaderSize)
  /\ noViasRemaining' = FALSE

\* No lane; the base lane gets back the bit it gave.
KeepBase ==
  /\ Candidates = {}
  /\ noViasRemaining' = TRUE
  /\ UNCHANGED <<usedLinks, viaWidths>>

Carve ==
  /\ pc = "carve"
  /\ tried < numberOfVias
  /\ tried' = tried + 1
  /\ CarveLane \/ KeepBase
  /\ UNCHANGED <<inputs, pc, numberOfVias, placing, best>>

GiveUp ==
  /\ pc = "carve"
  /\ tried = numberOfVias
  /\ noViasRemaining
  /\ pc' = "done"
  /\ UNCHANGED <<inputs, carving, placing, best>>

-----------------------------------------------------------------------------
(* allocateLJFWithHeaders: longest job first.                              *)

EmptyVias == [v \in DOMAIN viaWidths |-> [width |-> viaWidths[v], load |-> 0, links |-> 0]]

\* Mutant of Restart: the lanes keep what the previous round placed on them.
RestartWithoutRollback(newHeaders) ==
  /\ headers' = newHeaders
  /\ vias' = IF vias = <<>> \/ pc = "carve" THEN EmptyVias ELSE vias
  /\ at' = 1
  /\ maxLinkWidth' = [v \in DOMAIN viaWidths |-> -1]
  /\ provisional' = [l \in Links |-> None]

\* Every round starts from empty lanes (viasRollback).
Restart(newHeaders) ==
  /\ headers' = newHeaders
  /\ vias' = EmptyVias
  /\ at' = 1
  /\ maxLinkWidth' = [v \in DOMAIN viaWidths |-> -1]
  /\ provisional' = [l \in Links |-> None]

BeginPlacing ==
  /\ pc = "carve"
  /\ tried = numberOfVias
  /\ ~noViasRemaining
  /\ pc' = "place"
  /\ Restart([v \in DOMAIN viaWidths |-> 1])
  /\ UNCHANGED <<inputs, carving, best>>

\* The load of lane v if link l joins it.
LoadWith(l, v) ==
  activity[l] * CeilDiv(bitwidth[l] + headers[v], vias[v].width) + vias[v].load

\* The first lane whose load would be least.
LeastLoaded(l) ==
  CHOOSE v \in DOMAIN vias :
    \A w \in DOMAIN vias :
      \/ LoadWith(l, v) < LoadWith(l, w)
      \/ LoadWith(l, v) = LoadWith(l, w) /\ v <= w

Place ==
  /\ pc = "place"
  /\ at <= Len(jobs)
  /\ LET l == jobs[at]
         v == LeastLoaded(l)
     IN  /\ vias' = [vias EXCEPT ![v].load = LoadWith(l, v), ![v].links = @ + 1]
         /\ provisional' = [provisional EXCEPT ![l] = [via |-> v, link |-> vias[v].links]]
         /\ maxLinkWidth' = [maxLinkWidth EXCEPT ![v] = Larger(@, bitwidth[l])]
  /\ at' = at + 1
  /\ UNCHANGED <<inputs, pc, carving, headers, best>>

\* With the parameters of the model even if an end is a CPU, whose header is
\* another: there is a single lane to choose then (lines 280-282).
HeaderActual(v) == HeaderBits(vias[v].width, vias[v].links, maxLinkWidth[v])

\* Mutant of HeadersSuffice: the estimate is never questioned.
HeadersNotChecked == TRUE

HeadersSuffice == \A v \in DOMAIN vias : headers[v] >= HeaderActual(v)

\* Mutant of HeadersNext: the next round starts from the same estimate.
HeadersNextSame == headers

\* Monotone, so that the rounds end.
HeadersNext == [v \in DOMAIN vias |-> Larger(HeaderActual(v), headers[v])]

Recurse ==
  /\ pc = "place"
  /\ at > Len(jobs)
  /\ ~HeadersSuffice
  /\ Restart(HeadersNext)
  /\ UNCHANGED <<inputs, pc, carving, best>>

-----------------------------------------------------------------------------

Peak(allocation) == Max({allocation[v].load : v \in DOMAIN allocation})

\* Mutant of Better: more lanes are better.
BetterAlways == TRUE

Better == Peak(vias) < maxLoad \/ firstAllocationPass

\* assignLinks: the partner gets the same numbers on its ingress side.
AssignLinks == assigned' = provisional

\* The allocation is complete; keep it if it beats the best so far.
Accept ==
  /\ pc = "place"
  /\ at > Len(jobs)
  /\ HeadersSuffice
  /\ IF Better
     THEN maxLoad' = Peak(vias) /\ viasFinal' = vias /\ AssignLinks
     ELSE UNCHANGED <<maxLoad, viasFinal, assigned>>
  /\ firstAllocationPass' = FALSE
  /\ numberOfVias' = numberOfVias + 1
  /\ pc' = "pass"
  /\ UNCHANGED <<inputs, viaWidths, usedLinks, noViasRemaining, tried, placing>>

Finish ==
  /\ pc = "pass"
  /\ numberOfVias > MaxVias
  /\ pc' = "done"
  /\ UNCHANGED <<inputs, carving, placing, best>>

Next ==
  \/ BeginPass \/ Carve \/ GiveUp \/ BeginPlacing
  \/ Place \/ Recurse \/ Accept \/ Finish

Spec == Init /\ [][Next]_vars

FairSpec == Spec /\ WF_vars(Next)

-----------------------------------------------------------------------------

TypeOK ==
  /\ pc \in {"pass", "carve", "place", "done"}
  /\ usedLinks \subseteq Links
  /\ viaWidths \in Seq(Nat \ {0})
  /\ maxLoad \in Nat
  /\ \A l \in Links : provisional[l] # None => provisional[l].via \in DOMAIN vias
  /\ at \in 1..(Len(jobs) + 1)

SumOf(F(_), S) == MapThenFoldSet(+, 0, F, LAMBDA T : CHOOSE x \in T : TRUE, S)

\* The lanes and one valid bit for each fill the connection exactly, none is
\* lost and none is used twice; a lone lane has no valid bit (lines 117-168).
LanesFillConnection ==
  viaWidths # <<>> =>
    LET width(v) == viaWidths[v]
        total == SumOf(width, DOMAIN viaWidths)
    IN  total = IF Len(viaWidths) = 1 THEN physWidth ELSE physWidth - Len(viaWidths)

\* The links of lane v, in the allocation that was chosen.
On(v) == {l \in Links : assigned[l] # None /\ assigned[l].via = v}

\* The final lanes and the numbers written into the links agree, although both
\* were replaced from pass to pass: on each lane the links are numbered from 0
\* without gaps or doubles, and every link has a number (lines 196-210).
NumbersAreDense ==
  pc = "done" /\ viasFinal # <<>> =>
    /\ \A l \in Links : assigned[l] # None
    /\ \A v \in DOMAIN viasFinal :
         /\ {assigned[l].link : l \in On(v)} = 0..(viasFinal[v].links - 1)
         /\ Cardinality(On(v)) = viasFinal[v].links

\* The load a lane will have with the header that its links really get, unless an
\* end is a CPU.
RealLoad(v) ==
  LET width == viasFinal[v].width
      header == HeaderBits(width, Cardinality(On(v)), Max({-1} \cup {bitwidth[l] : l \in On(v)}))
      load(l) == activity[l] * CeilDiv(bitwidth[l] + header, width)
  IN  SumOf(load, On(v))

\* The loads that were compared are not lower than the real ones: the header
\* estimates suffice when a placement is accepted (lines 276-301).
LoadsAreHonest ==
  pc = "done" /\ ~cpu => \A v \in DOMAIN viasFinal : RealLoad(v) <= viasFinal[v].load

OneLaneLoad ==
  LET header == HeaderBits(physWidth, Cardinality(Links), Max({-1} \cup Range(bitwidth)))
      load(l) == activity[l] * CeilDiv(bitwidth[l] + header, physWidth)
  IN  SumOf(load, Links)

\* Cutting the connection up never makes the busiest lane busier than the
\* whole connection would have been (lines 203-208).
NoWorseThanOneLane ==
  pc = "done" /\ ~cpu /\ MinVias = 1 => maxLoad <= OneLaneLoad

\* At most one lane is left without a link, and then all the others have a load.
\* Router generation counts on it: it instantiates a switch only for a lane with
\* links, refers to the switch of every lane, and an idle lane gets its first link
\* from the flow control of the opposite connection, which goes where the load is
\* least (generateCode.py 198, 282-284).
AtMostOneLaneIdle ==
  pc = "done" /\ MinVias = 1 =>
    \A v, w \in DOMAIN viasFinal :
      viasFinal[v].links = 0 /\ v # w => viasFinal[v].load = 0 /\ viasFinal[w].load > 0

=============================================================================
