-------------------------- MODULE RouteConnections --------------------------
(***************************************************************************)
(* Routing of channels and chains over the platforms (LIMConnect.py).      *)
(* A channel between platforms that are not neighbours becomes a sequence  *)
(* of channels, with a receiver and a sender of one name on every platform *)
(* it passes through; a chain becomes a ring over the platforms it is on.  *)
(* The code walks each platform's list of channels while routing adds to   *)
(* the lists of the others.                                                *)
(*                                                                         *)
(* LIGraph is a library: it keeps the channels of each platform in order,  *)
(* and pairs the two ends of a name in the graph that routing starts from. *)
(***************************************************************************)
EXTENDS ShortestPaths, SequencesExt, FiniteSetsExt

CONSTANTS
  Networks,   \* sets of links <<from, to>> that the environment may have
  Programs    \* records: channels, a set of [name, from, to], and
              \* chains, a function from names to sets of platforms

RouteAssumption ==
  \A program \in Programs :
    /\ \A c \in program.channels : c.from \in Platforms /\ c.to \in Platforms \ {c.from}
    /\ \A c, d \in program.channels : c.name = d.name => c = d
    /\ \A n \in DOMAIN program.chains : program.chains[n] \subseteq Platforms
    /\ DOMAIN program.chains \cap {c.name : c \in program.channels} = {}

VARIABLES
  edges, trees,   \* the links, and what shortest_path returns for each source
  program,
  order,          \* getPlatformNames: the platforms in the dictionary's order
  channels,       \* the channels of each platform's module, in order
  partner,        \* partnerChannel of a channel, sourcePartnerChain of a chain
  sinkPartner,    \* sinkPartnerChain of a chain
  at,             \* the platform and channel that the first loop is at
  pairs,          \* ring pairs <<chain, index>> still to connect
  phase

graph == <<edges, trees, program, order>>
vars == <<graph, channels, partner, sinkPartner, at, pairs, phase>>

End(p, kind, name) == [platform |-> p, kind |-> kind, name |-> name]

Ends(p) == {End(p, "Send", c.name) : c \in {d \in program.channels : d.from = p}}
             \cup {End(p, "Recv", c.name) : c \in {d \in program.channels : d.to = p}}
Original == UNION {Ends(p) : p \in Platforms}
Paired(e) == CHOOSE f \in Original : f.name = e.name /\ f.kind # e.kind
ChainEnd(p, name) == End(p, "Chain", name)

Init ==
  /\ edges \in Networks
  /\ trees = [p \in Platforms |-> None]
  /\ program \in Programs
  /\ order \in SetToSeqs(Platforms)
  /\ channels = [p \in Platforms |-> SetToSeq(Ends(p))]
  /\ partner = [e \in Original |-> Paired(e)]
  /\ sinkPartner = <<>>
  /\ at = <<1, 1>>
  /\ pairs = {}
  /\ phase = "search"

\* The library's shortest_path, which gives the same answer at every call, for
\* each source in turn.
Search ==
  /\ phase = "search"
  /\ LET p == order[at[1]]
     IN  \E tree \in Trees(edges, p) : trees' = [trees EXCEPT ![p] = tree]
  /\ at' = IF at[1] < Len(order) THEN <<at[1] + 1, 1>> ELSE <<1, 1>>
  /\ phase' = IF at[1] < Len(order) THEN phase ELSE "channels"
  /\ UNCHANGED <<edges, program, order, channels, partner, sinkPartner, pairs>>

-----------------------------------------------------------------------------
(* connectPath.                                                            *)

\* Mutant of HopName: the two ends of the path are left out.
HopNameShort(src, sink, hop) == <<src.name, hop>>

HopName(src, sink, hop) == <<src.name, src.platform, sink.platform, hop>>

\* A platform that a path goes through gets a receiver and a sender.
AddHop(list, hop, name) == list \o <<End(hop, "Recv", name), End(hop, "Send", name)>>

\* Mutant of Repair: only the senders are set.
RepairSources(srcs, sinks) ==
  [e \in {f \in Range(srcs) : f.kind # "Chain"} |-> sinks[CHOOSE i \in DOMAIN srcs : srcs[i] = e]] @@ partner

\* The partners of the channels at both ends, and of a chain at the sink's end.
Repair(srcs, sinks) ==
  [e \in {f \in Range(srcs) : f.kind # "Chain"} |-> sinks[CHOOSE i \in DOMAIN srcs : srcs[i] = e]]
    @@ [e \in Range(sinks) |-> srcs[CHOOSE i \in DOMAIN sinks : sinks[i] = e]]
    @@ partner

\* Mutant of HasPath: the way back is needed too.
HasPathBothWays(src, sink) ==
  sink.platform \in DOMAIN trees[src.platform] /\ src.platform \in DOMAIN trees[sink.platform]

\* Without a path the look-up in what shortest_path returned fails.
HasPath(src, sink) == sink.platform \in DOMAIN trees[src.platform]

ConnectPath(src, sink) ==
  LET path == Path(trees[src.platform], src.platform, sink.platform)
      name(hop) == HopName(src, sink, hop)
      srcs == <<src>> \o [i \in DOMAIN path |-> End(path[i], "Send", name(path[i]))]
      sinks == Append([i \in DOMAIN path |-> End(path[i], "Recv", name(path[i]))], sink)
  IN  IF HasPath(src, sink)
      THEN /\ channels' = [p \in Platforms |->
                             IF p \in Range(path) THEN AddHop(channels[p], p, name(p)) ELSE channels[p]]
           /\ partner' = Repair(srcs, sinks)
           /\ sinkPartner' = IF src.kind = "Chain" THEN (src :> sinks[1]) @@ sinkPartner ELSE sinkPartner
           /\ UNCHANGED phase
      ELSE phase' = "KeyError" /\ UNCHANGED <<channels, partner, sinkPartner>>

-----------------------------------------------------------------------------
(* routeConnections.                                                       *)

Here == channels[order[at[1]]]

\* The next channel of this platform, those added meanwhile included.
RouteChannel ==
  /\ phase = "channels"
  /\ at[1] <= Len(order) /\ at[2] <= Len(Here)
  /\ at' = <<at[1], at[2] + 1>>
  /\ LET channel == Here[at[2]]
     IN  IF channel.kind = "Send" THEN ConnectPath(channel, partner[channel])
         ELSE UNCHANGED <<channels, partner, sinkPartner, phase>>
  /\ UNCHANGED <<graph, pairs>>

NextPlatform ==
  /\ phase = "channels"
  /\ at[1] <= Len(order) /\ at[2] > Len(Here)
  /\ at' = <<at[1] + 1, 1>>
  /\ UNCHANGED <<graph, channels, partner, sinkPartner, pairs, phase>>

\* The platforms that the chain is on, in the order in which they were met.
Ring(name) == SelectSeq(order, LAMBDA p : p \in program.chains[name])

\* Mutant of NextOnRing: the two lists are one, and rotate together.
NextOnRingAliased(ring, i) == ring[i]

\* The list of egresses is the list of ingresses rotated by one.
NextOnRing(ring, i) == Append(Tail(ring), Head(ring))[i]

\* Chains on one platform are deleted.
CollectChains ==
  /\ phase = "channels"
  /\ at[1] > Len(order)
  /\ pairs' = UNION {{<<n, i>> : i \in DOMAIN Ring(n)} :
                       n \in {m \in DOMAIN program.chains : Len(Ring(m)) >= 2}}
  /\ phase' = "chains"
  /\ UNCHANGED <<graph, channels, partner, sinkPartner, at>>

\* The pairs of one chain are connected in order, the chains in any.
ConnectChain(name, i) ==
  /\ phase = "chains"
  /\ <<name, i>> \in pairs
  /\ \A j \in 1..(i - 1) : <<name, j>> \notin pairs
  /\ \A other \in {pair[1] : pair \in pairs} \ {name} : <<other, 1>> \in pairs
  /\ pairs' = pairs \ {<<name, i>>}
  /\ ConnectPath(ChainEnd(Ring(name)[i], name), ChainEnd(NextOnRing(Ring(name), i), name))
  /\ UNCHANGED <<graph, at>>

\* Channels without a partner end the build.
Finish ==
  /\ phase = "chains"
  /\ pairs = {}
  /\ phase' = IF \A p \in Platforms : Range(channels[p]) \subseteq DOMAIN partner
              THEN "done" ELSE "unmatched"
  /\ UNCHANGED <<graph, channels, partner, sinkPartner, at, pairs>>

Next ==
  \/ Search
  \/ RouteChannel
  \/ NextPlatform
  \/ CollectChains
  \/ \E name \in DOMAIN program.chains : \E i \in 1..Len(order) : ConnectChain(name, i)
  \/ Finish

Spec == Init /\ [][Next]_vars /\ WF_vars(Next)

-----------------------------------------------------------------------------

AllChannels == UNION {Range(channels[p]) : p \in Platforms}
AllChains == UNION {{ChainEnd(p, n) : p \in program.chains[n]} : n \in DOMAIN program.chains}

TypeOK ==
  /\ phase \in {"search", "channels", "chains", "done", "unmatched", "KeyError"}
  /\ \A p \in Platforms : \A e \in Range(channels[p]) : e.platform = p /\ e.kind \in {"Send", "Recv"}
  /\ \A e \in DOMAIN partner : e \in AllChannels \cup AllChains /\ partner[e] \in AllChannels \cup AllChains
  /\ \A e \in DOMAIN sinkPartner : e \in AllChains /\ sinkPartner[e] \in AllChannels \cup AllChains

\* What a platform sends on from a receiver that it only passes on: the sender
\* of the same name, as the generated code connects them.
Onward(e) == IF e.kind = "Recv" THEN End(e.platform, "Send", e.name) ELSE e

To(e) == IF e.kind = "Chain" THEN sinkPartner[e] ELSE partner[e]

\* The end reached from e after n links.
After(e, n) ==
  LET Go[k \in Nat] == IF k = 0 THEN e ELSE To(Onward(Go[k - 1]))
  IN  Go[n]

OnLinks(e, n) == \A k \in 1..n : <<After(e, k - 1).platform, After(e, k).platform>> \in edges

\* Every channel, followed from its sender over partners and through the
\* platforms that pass it on, arrives at its own receiver, over links that exist
\* and over as few as possible (connectPath, lines 104-162).
ChannelsArrive ==
  phase = "done" =>
    \A c \in program.channels :
      LET src == End(c.from, "Send", c.name)
          length == PathLength(edges, c.from, c.to)
      IN  After(src, length) = End(c.to, "Recv", c.name) /\ OnLinks(src, length)

\* Once linked, both ends of a channel name each other at every moment, although
\* connectPath rewrites ends that were matched before.
PartnersAgree ==
  \A e \in DOMAIN partner :
    LET f == partner[e]
        table == IF f.kind = "Chain" /\ e.kind # "Send" THEN sinkPartner ELSE partner
    IN  f \in DOMAIN table /\ table[f] = e

\* No platform has two senders or two receivers of one name, although many paths
\* of a chain may pass through it: generated code connects them by name.
NamesAreUnique == \A p \in Platforms : IsInjective(channels[p])

\* A chain on several platforms is one ring: from any of them it comes back after
\* the others, each once, over existing links (lines 319-344).
ChainsAreRings ==
  phase = "done" =>
    \A n \in DOMAIN program.chains : Cardinality(program.chains[n]) >= 2 =>
      \A p \in program.chains[n] :
        LET start == ChainEnd(p, n)
            visits == CHOOSE k \in 1..(Cardinality(Platforms) * Cardinality(Platforms)) :
                        /\ After(start, k) = start
                        /\ \A j \in 1..(k - 1) : After(start, j) # start
            met == {j \in 1..visits : After(start, j).kind = "Chain"}
        IN  /\ {After(start, j).platform : j \in met} = program.chains[n]
            /\ Cardinality(met) = Cardinality(program.chains[n])
            /\ OnLinks(start, visits)

\* Routing always ends, although the lists grow while they are walked, and it
\* succeeds exactly if every path that is needed exists: each channel's own and
\* those between the platforms of a chain, in the order in which they are met.
EndedRight ==
  phase = IF /\ \A c \in program.channels : PathLength(edges, c.from, c.to) > 0
               /\ \A n \in DOMAIN program.chains : Len(Ring(n)) >= 2 =>
                    \A i \in DOMAIN Ring(n) :
                      PathLength(edges, Ring(n)[i], NextOnRing(Ring(n), i)) > 0
            THEN "done" ELSE "KeyError"

=============================================================================
