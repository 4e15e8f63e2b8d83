---------------------------- MODULE RouterProofs ----------------------------
(***************************************************************************)
(* The flow control links that network analysis assigns and the routers    *)
(* that are written for them: for every network, every number of lanes and *)
(* links, every load and kind of platform, and whatever the order in which *)
(* platforms are handled.  MCRouter's other passes keep out of the way.    *)
(*                                                                         *)
(* A return is numbered by a count that afterwards only grows, so it stays *)
(* between the data links and the count, all of these numbers are taken,   *)
(* and none twice; and a connection is left only when every lane of its    *)
(* opposite has a return.  The routers are described when nothing changes  *)
(* any more, which is why both ends see the same.  From then on what a     *)
(* platform has written for a connection depends only on how far it is.    *)
(***************************************************************************)
EXTENDS MCRouter, CountingLemmas

\* Of finitely many lanes with loads one is the least loaded, and of these one is
\* the first.
LEMMA LeastLoadedExists ==
  ASSUME NEW n \in Nat \ {0}, NEW load \in [1..n -> Nat]
  PROVE  \E v \in 1..n : \A w \in 1..n :
           load[v] < load[w] \/ (load[v] = load[w] /\ v <= w)
<1> DEFINE T == {load[v] : v \in 1..n}
<1>1. PICK l \in T : \A y \in T : l <= y
  <2>1. T \in SUBSET Nat /\ T # {}
    <3>1. 1 \in 1..n
      OBVIOUS
    <3>2. QED
      BY <3>1
  <2> HIDE DEF T
  <2>2. QED
    BY <2>1, LeastNat
<1> DEFINE U == {v \in 1..n : load[v] = l}
<1>2. PICK v \in U : \A w \in U : v <= w
  <2>1. U \in SUBSET Nat /\ U # {}
    BY <1>1
  <2> HIDE DEF U
  <2>2. QED
    BY <2>1, LeastNat
<1>3. ASSUME NEW w \in 1..n
      PROVE  load[v] < load[w] \/ (load[v] = load[w] /\ v <= w)
  <2>1. l <= load[w] /\ load[v] = l /\ load[w] \in Nat /\ l \in Nat
    BY <1>1
  <2>2. load[w] = l => v <= w
    BY <1>2
  <2>3. QED
    BY <2>1, <2>2
<1>4. QED
  BY <1>3

-----------------------------------------------------------------------------
(* The choice of a lane.                                                   *)

LaneRecords == [width : Nat \ {0}, load : Nat, bits : Seq(Nat)]

\* A choice of lanes is a non-empty sequence.
LEMMA LanesAreSeq ==
  ASSUME FlowControlAssumption, NEW s \in LaneChoices
  PROVE  /\ s \in Seq(LaneRecords)
         /\ Len(s) \in Nat \ {0} /\ DOMAIN s = 1..Len(s)
         /\ \A v \in DOMAIN s : /\ s[v].width \in Nat \ {0} /\ s[v].load \in Nat
                                /\ Len(s[v].bits) \in Nat
                                /\ Len(s[v].bits) = 0 <=> s[v].bits = <<>>
<1>1. s \in Seq(LaneRecords) /\ s # <<>>
  BY DEF FlowControlAssumption, LaneRecords
<1>2. Len(s) \in Nat \ {0} /\ DOMAIN s = 1..Len(s)
  BY <1>1
<1>3. ASSUME NEW v \in DOMAIN s
      PROVE  /\ s[v].width \in Nat \ {0} /\ s[v].load \in Nat
             /\ Len(s[v].bits) \in Nat
             /\ Len(s[v].bits) = 0 <=> s[v].bits = <<>>
  <2>1. s[v] \in LaneRecords
    BY <1>1, <1>2
  <2>2. s[v].width \in Nat \ {0} /\ s[v].load \in Nat /\ s[v].bits \in Seq(Nat)
    BY <2>1 DEF LaneRecords
  <2>3. QED
    BY <2>2
<1>4. QED
  BY <1>1, <1>2, <1>3

\* A return takes a number of chunks that is no less than zero.
LEMMA CeilDivNat ==
  ASSUME NEW a \in Nat, NEW b \in Nat \ {0}
  PROVE  CeilDiv(a, b) \in Nat
<1>1. (-a) \div b \in Int /\ (-a) \div b <= 0
  OBVIOUS
<1>2. QED
  BY <1>1 DEF CeilDiv

\* The function chooses one of the lanes with the least load, which remains a
\* number.
LEMMA LeastLoadedIsALane ==
  ASSUME FlowControlAssumption, lanes \in [Connections -> LaneChoices],
         NEW c \in Connections, viaLoads[c] \in [DOMAIN lanes[c] -> Nat]
  PROVE  /\ LeastLoaded(c) \in DOMAIN lanes[c]
         /\ \A v \in DOMAIN lanes[c] :
              /\ LoadWith(c, v) \in Nat /\ LoadWith(c, v) >= viaLoads[c][v]
              /\ lanes[c][v].load = 0 => LoadWith(c, v) = viaLoads[c][v]
              /\ LoadWith(c, LeastLoaded(c)) <= LoadWith(c, v)
<1> DEFINE n == Len(lanes[c])
           load == [v \in 1..n |-> LoadWith(c, v)]
<1>1. /\ n \in Nat \ {0} /\ DOMAIN lanes[c] = 1..n
      /\ \A v \in 1..n : lanes[c][v].width \in Nat \ {0} /\ lanes[c][v].load \in Nat
  BY LanesAreSeq
<1>2. ASSUME NEW v \in 1..n
      PROVE  /\ LoadWith(c, v) \in Nat /\ LoadWith(c, v) >= viaLoads[c][v]
             /\ lanes[c][v].load = 0 => LoadWith(c, v) = viaLoads[c][v]
  <2> DEFINE width == lanes[c][v].width
             carried == lanes[c][v].load
             share == carried \div LoadDivisor
             parts == CeilDiv(Bits + HeaderSize, width)
  <2>1. /\ LoadDivisor \in Nat \ {0} /\ Bits + HeaderSize \in Nat
    BY DEF FlowControlAssumption
  <2>2. width \in Nat \ {0} /\ carried \in Nat /\ viaLoads[c][v] \in Nat
    <3> HIDE DEF n
    <3>1. QED
      BY <1>1
  <2> HIDE DEF width, carried
  <2>3. share \in Nat
    BY <2>1, <2>2
  <2>4. parts \in Nat
    BY <2>1, <2>2, CeilDivNat
  <2>5. carried = 0 => share = 0
    BY <2>1
  <2> HIDE DEF share, parts
  <2>6. /\ share * parts + viaLoads[c][v] \in Nat
        /\ share * parts + viaLoads[c][v] >= viaLoads[c][v]
        /\ carried = 0 => share * parts + viaLoads[c][v] = viaLoads[c][v]
    <3>1. share * parts \in Nat /\ (share = 0 => share * parts = 0)
      BY <2>3, <2>4
    <3>2. QED
      BY <2>2, <2>5, <3>1
  <2>7. LoadWith(c, v) = share * parts + viaLoads[c][v]
    BY DEF LoadWith, share, parts, width, carried
  <2>8. QED
    BY <2>6, <2>7 DEF carried
<1>3. load \in [1..n -> Nat]
  BY <1>2
<1>4. \E v \in 1..n : \A w \in 1..n :
        load[v] < load[w] \/ (load[v] = load[w] /\ v <= w)
  <2> HIDE DEF load, n
  <2>1. QED
    BY <1>1, <1>3, LeastLoadedExists
<1>5. \E v \in DOMAIN lanes[c] : \A w \in DOMAIN lanes[c] :
        \/ LoadWith(c, v) < LoadWith(c, w)
        \/ LoadWith(c, v) = LoadWith(c, w) /\ v <= w
  BY <1>1, <1>4
<1>6. /\ LeastLoaded(c) \in DOMAIN lanes[c]
      /\ \A w \in DOMAIN lanes[c] :
           \/ LoadWith(c, LeastLoaded(c)) < LoadWith(c, w)
           \/ LoadWith(c, LeastLoaded(c)) = LoadWith(c, w)
  BY <1>5 DEF LeastLoaded
<1>7. ASSUME NEW v \in DOMAIN lanes[c]
      PROVE  LoadWith(c, LeastLoaded(c)) <= LoadWith(c, v)
  <2>1. LoadWith(c, LeastLoaded(c)) \in Nat /\ LoadWith(c, v) \in Nat
    BY <1>1, <1>2, <1>6
  <2>2. QED
    BY <1>6, <2>1
<1>8. QED
  BY <1>1, <1>2, <1>6, <1>7

-----------------------------------------------------------------------------
(* The invariant.                                                          *)

Returns == [via : Nat, link : Nat]

\* A sequence of returns holds returns.
LEMMA ReturnsAreSeq ==
  ASSUME NEW f \in Seq(Returns), NEW u \in DOMAIN f
  PROVE  f[u] \in Returns
OBVIOUS

\* A connection that was begun, with lanes s: e links and l load per lane, and
\* the returns f, each on a lane, after its data links and below the count.
IsOpen(s, e, l, f) ==
  /\ e \in [DOMAIN s -> Nat]
  /\ l \in [DOMAIN s -> Nat]
  /\ f \in Seq(Returns)
  /\ \A v \in DOMAIN s : Len(s[v].bits) <= e[v]
  /\ \A u \in DOMAIN f : /\ f[u].via \in DOMAIN s
                         /\ Len(s[f[u].via].bits) <= f[u].link
                         /\ f[u].link < e[f[u].via]

\* The returns have the numbers after the data links, all of them and no two the
\* same; the first of them, on the lane with the least load, is the first link of
\* a lane that had none.
IsNumbered(s, e, l, f) ==
  /\ \A u, w \in DOMAIN f : f[u] = f[w] => u = w
  /\ \A v \in DOMAIN s : \A k \in Nat :
       Len(s[v].bits) <= k /\ k < e[v] => \E u \in DOMAIN f : f[u] = [via |-> v, link |-> k]
  /\ IF f = <<>>
     THEN \A v \in DOMAIN s : e[v] = Len(s[v].bits) /\ l[v] = s[v].load
     ELSE RouterAssumption => \A v \in DOMAIN s : e[v] > 0

Shape ==
  /\ lanes \in [Connections -> LaneChoices]
  /\ todo \subseteq Connections
  /\ current \in Connections \cup {None}
  /\ current \notin todo
  /\ DOMAIN egressLinks = Connections /\ DOMAIN viaLoads = Connections
  /\ DOMAIN fcAssignment = Connections
  /\ DOMAIN logicalEgress = Connections /\ DOMAIN logicalIngress = Connections

Opened ==
  \A c \in Connections :
    IF c \in todo THEN fcAssignment[c] = <<>> /\ egressLinks[c] = <<>> /\ viaLoads[c] = <<>>
    ELSE IsOpen(lanes[c], egressLinks[c], viaLoads[c], fcAssignment[c])

Numbered ==
  \A c \in Connections :
    /\ Len(fcAssignment[c]) <= Len(lanes[Back(c)])
    /\ c \notin todo => IsNumbered(lanes[c], egressLinks[c], viaLoads[c], fcAssignment[c])

\* A connection that was left has a return for every lane of its opposite.
Complete ==
  \A c \in Connections :
    c \notin todo /\ c # current => Len(lanes[Back(c)]) <= Len(fcAssignment[c])

\* What both ends are built from, once nothing changes any more.
Ends(c) == [v \in DOMAIN egressLinks[c] |-> LaneEnd(c, v)]

Described ==
  \A c \in Connections :
    logicalEgress[c] # <<>> =>
      /\ todo = {} /\ current = None
      /\ logicalEgress[c] = Ends(c) /\ logicalIngress[c] = Ends(c)

IInv == Shape /\ Opened /\ Numbered /\ Complete /\ Described

\* Opposite of the opposite.
LEMMA BackOfBack ==
  ASSUME FlowControlAssumption, NEW c \in Connections
  PROVE  Back(c) \in Connections /\ Back(Back(c)) = c
<1>1. Connections \subseteq Platforms \X Platforms /\ Back(c) \in Connections
  BY DEF FlowControlAssumption, Back
<1>2. c = <<c[1], c[2]>>
  BY <1>1
<1>3. Back(Back(c)) = <<c[1], c[2]>>
  BY DEF Back
<1>4. QED
  BY <1>1, <1>2, <1>3

\* One more return keeps a connection in order.
LEMMA OneMoreReturn ==
  ASSUME FlowControlAssumption,
         NEW s \in LaneChoices, NEW e, NEW l, NEW f, IsOpen(s, e, l, f),
         NEW v \in DOMAIN s, NEW x \in Nat
  PROVE  IsOpen(s, [e EXCEPT ![v] = e[v] + 1], [l EXCEPT ![v] = x],
                Append(f, [via |-> v, link |-> e[v]]))
<1> DEFINE e1 == [e EXCEPT ![v] = e[v] + 1]
           r == [via |-> v, link |-> e[v]]
           g == Append(f, r)
<1>1. /\ DOMAIN s = 1..Len(s) /\ Len(s) \in Nat /\ v \in Nat
      /\ \A w \in DOMAIN s : Len(s[w].bits) \in Nat
  BY LanesAreSeq
<1>2. /\ e \in [DOMAIN s -> Nat] /\ l \in [DOMAIN s -> Nat]
      /\ f \in Seq(Returns)
      /\ \A w \in DOMAIN s : Len(s[w].bits) <= e[w]
      /\ \A u \in DOMAIN f : /\ f[u].via \in DOMAIN s
                             /\ Len(s[f[u].via].bits) <= f[u].link
                             /\ f[u].link < e[f[u].via]
  BY DEF IsOpen
<1>3. /\ e1 \in [DOMAIN s -> Nat] /\ e1[v] = e[v] + 1
      /\ \A w \in DOMAIN s : e[w] <= e1[w]
      /\ [l EXCEPT ![v] = x] \in [DOMAIN s -> Nat]
  BY <1>2
<1>4. r \in Returns /\ r.via = v /\ r.link = e[v]
  BY <1>1, <1>2 DEF Returns
<1>5. /\ g \in Seq(Returns)
      /\ DOMAIN g = 1..(Len(f) + 1) /\ DOMAIN f = 1..Len(f) /\ Len(f) \in Nat
      /\ \A u \in 1..Len(f) : g[u] = f[u]
      /\ g[Len(f) + 1] = r
  <2> HIDE DEF r
  <2>1. QED
    BY <1>2, <1>4
<1> HIDE DEF e1, r, g
<1>6. ASSUME NEW u \in DOMAIN g
      PROVE  /\ g[u].via \in DOMAIN s
             /\ Len(s[g[u].via].bits) <= g[u].link
             /\ g[u].link < e1[g[u].via]
  <2>1. CASE u = Len(f) + 1
    BY <1>2, <1>3, <1>4, <1>5, <2>1
  <2>2. CASE u # Len(f) + 1
    <3>1. u \in 1..Len(f) /\ u \in DOMAIN f /\ g[u] = f[u]
      BY <1>5, <2>2
    <3>2. f[u] \in Returns
      BY <1>2, <3>1, ReturnsAreSeq
    <3>3. f[u].via \in DOMAIN s /\ f[u].link \in Nat
      BY <1>2, <3>1, <3>2 DEF Returns
    <3>4. e[f[u].via] \in Nat /\ e1[f[u].via] \in Nat /\ e[f[u].via] <= e1[f[u].via]
      BY <1>2, <1>3, <3>3
    <3>5. QED
      BY <1>2, <3>1, <3>3, <3>4
  <2>3. QED
    BY <2>1, <2>2
<1>7. \A w \in DOMAIN s : Len(s[w].bits) <= e1[w]
  BY <1>1, <1>2, <1>3
<1>8. QED
  BY <1>3, <1>5, <1>6, <1>7 DEF IsOpen, e1, r, g

\* One more return, with the next number of a lane, which is the lane without
\* links if this is the first return and there is such a lane.
LEMMA OneMoreNumber ==
  ASSUME FlowControlAssumption,
         NEW s \in LaneChoices, NEW e, NEW l, NEW f, IsOpen(s, e, l, f), IsNumbered(s, e, l, f),
         NEW v \in DOMAIN s, NEW x \in Nat,
         RouterAssumption /\ f = <<>> => \A w \in DOMAIN s : w # v => s[w].bits # <<>>
  PROVE  IsNumbered(s, [e EXCEPT ![v] = e[v] + 1], [l EXCEPT ![v] = x],
                    Append(f, [via |-> v, link |-> e[v]]))
<1> DEFINE e1 == [e EXCEPT ![v] = e[v] + 1]
           r == [via |-> v, link |-> e[v]]
           g == Append(f, r)
<1>1. /\ DOMAIN s = 1..Len(s) /\ Len(s) \in Nat /\ v \in Nat
      /\ \A w \in DOMAIN s : Len(s[w].bits) \in Nat
      /\ \A w \in DOMAIN s : Len(s[w].bits) = 0 <=> s[w].bits = <<>>
  BY LanesAreSeq
<1>2. /\ e \in [DOMAIN s -> Nat] /\ f \in Seq(Returns)
      /\ \A u \in DOMAIN f : f[u].link < e[f[u].via]
  BY DEF IsOpen
<1>3. /\ e1 \in [DOMAIN s -> Nat] /\ e1[v] = e[v] + 1
      /\ \A w \in DOMAIN s : w # v => e1[w] = e[w]
  BY <1>2
<1>4. r \in Returns /\ r.via = v /\ r.link = e[v]
  BY <1>1, <1>2 DEF Returns
<1>5. /\ g \in Seq(Returns) /\ g # <<>>
      /\ DOMAIN g = 1..(Len(f) + 1) /\ DOMAIN f = 1..Len(f) /\ Len(f) \in Nat
      /\ \A u \in 1..Len(f) : g[u] = f[u]
      /\ g[Len(f) + 1] = r
  <2> HIDE DEF r
  <2>1. QED
    BY <1>2, <1>4
<1>6. ASSUME NEW u \in DOMAIN f
      PROVE  f[u] # r
  <2>1. f[u] = r => f[u].via = v /\ f[u].link = e[v]
    BY <1>4
  <2>2. f[u].link < e[f[u].via] /\ e[v] \in Nat
    BY <1>2
  <2>3. QED
    BY <2>1, <2>2
<1> HIDE DEF e1, r, g
<1>7. \A u, w \in DOMAIN g : g[u] = g[w] => u = w
  <2> SUFFICES ASSUME NEW u \in DOMAIN g, NEW w \in DOMAIN g, g[u] = g[w]
               PROVE  u = w
    OBVIOUS
  <2>1. CASE u \in DOMAIN f /\ w \in DOMAIN f
    BY <1>5, <2>1 DEF IsNumbered
  <2>2. CASE u = Len(f) + 1 /\ w \in DOMAIN f
    BY <1>5, <1>6, <2>2
  <2>3. CASE u \in DOMAIN f /\ w = Len(f) + 1
    BY <1>5, <1>6, <2>3
  <2>4. QED
    BY <1>5, <2>1, <2>2, <2>3
<1>8. ASSUME NEW w \in DOMAIN s, NEW k \in Nat, Len(s[w].bits) <= k, k < e1[w]
      PROVE  \E u \in DOMAIN g : g[u] = [via |-> w, link |-> k]
  <2>1. CASE w = v /\ k = e[v]
    <3>1. Len(f) + 1 \in DOMAIN g /\ g[Len(f) + 1] = [via |-> w, link |-> k]
      BY <1>5, <2>1 DEF r
    <3>2. QED
      BY <3>1
  <2>2. CASE ~(w = v /\ k = e[v])
    <3>1. k < e[w]
      <4>1. e[w] \in Nat /\ e[v] \in Nat
        BY <1>2
      <4>2. QED
        BY <1>3, <1>8, <2>2, <4>1
    <3>2. PICK u \in DOMAIN f : f[u] = [via |-> w, link |-> k]
      BY <1>8, <3>1 DEF IsNumbered
    <3>3. u \in DOMAIN g /\ g[u] = f[u]
      BY <1>5
    <3>4. QED
      BY <3>2, <3>3
  <2>3. QED
    BY <2>1, <2>2
<1>9. ASSUME RouterAssumption, NEW w \in DOMAIN s
      PROVE  e1[w] > 0
  <2>1. e[w] \in Nat /\ e[v] \in Nat
    BY <1>2
  <2>2. CASE w = v
    BY <1>3, <2>1, <2>2
  <2>3. CASE w # v /\ f = <<>>
    <3>1. Len(s[w].bits) \in Nat /\ Len(s[w].bits) # 0
      BY <1>1, <1>9, <2>3
    <3>2. e[w] = Len(s[w].bits)
      BY <2>3 DEF IsNumbered
    <3>3. QED
      BY <1>3, <2>3, <3>1, <3>2
  <2>4. CASE w # v /\ f # <<>>
    <3>1. e[w] > 0
      BY <1>9, <2>4 DEF IsNumbered
    <3>2. QED
      BY <1>3, <2>4, <3>1
  <2>5. QED
    BY <2>2, <2>3, <2>4
<1>10. IsNumbered(s, e1, [l EXCEPT ![v] = x], g)
  BY <1>5, <1>7, <1>8, <1>9 DEF IsNumbered
<1>11. QED
  BY <1>10 DEF e1, r, g

\* Two lanes of which one is idle differ in load, and the idle one gets the first
\* return.
LEMMA FirstReturnGoesIdle ==
  ASSUME FlowControlAssumption, RouterAssumption, lanes \in [Connections -> LaneChoices],
         NEW c \in Connections, viaLoads[c] = [v \in DOMAIN lanes[c] |-> lanes[c][v].load],
         NEW w \in DOMAIN lanes[c], w # LeastLoaded(c)
  PROVE  lanes[c][w].bits # <<>>
<1> DEFINE v == LeastLoaded(c)
<1>1. /\ lanes[c] \in LaneChoices
      /\ \A u \in DOMAIN lanes[c] : lanes[c][u].load \in Nat
  BY LanesAreSeq
<1>2. viaLoads[c] \in [DOMAIN lanes[c] -> Nat]
  BY <1>1
<1>3. /\ v \in DOMAIN lanes[c]
      /\ LoadWith(c, v) \in Nat /\ LoadWith(c, w) \in Nat
      /\ LoadWith(c, v) >= viaLoads[c][v]
      /\ lanes[c][w].load = 0 => LoadWith(c, w) = viaLoads[c][w]
      /\ LoadWith(c, v) <= LoadWith(c, w)
  BY <1>2, LeastLoadedIsALane
<1> HIDE DEF v
<1>4. viaLoads[c][v] = lanes[c][v].load /\ viaLoads[c][w] = lanes[c][w].load
  BY <1>3
<1>5. ASSUME lanes[c][w].bits = <<>>
      PROVE  FALSE
  <2>1. lanes[c][w].load = 0 /\ lanes[c][v].load > 0 /\ lanes[c][v].load \in Nat
    BY <1>1, <1>3, <1>5 DEF RouterAssumption, v
  <2>2. QED
    BY <1>3, <1>4, <2>1
<1>6. QED
  BY <1>5

-----------------------------------------------------------------------------
(* Every step keeps the invariant.                                         *)

\* While a connection waits or is at work, neither end has been described.
LEMMA NoneDescribed ==
  ASSUME FlowControlAssumption, IInv, todo # {} \/ current # None, NEW c \in Connections
  PROVE  logicalEgress[c] = <<>>
BY DEF IInv, Described

\* No connection was begun, and none described.
LEMMA InitInv ==
  ASSUME FlowControlAssumption, Init
  PROVE  IInv
<1>1. Shape
  BY DEF Init, Shape, FlowControlAssumption
<1>2. Opened /\ Complete /\ Described
  BY DEF Init, Opened, Complete, Described
<1>3. Numbered
  <2>1. ASSUME NEW c \in Connections
        PROVE  Len(fcAssignment[c]) <= Len(lanes[Back(c)])
    <3>1. lanes[Back(c)] \in LaneChoices
      BY BackOfBack DEF Init
    <3>2. Len(lanes[Back(c)]) \in Nat
      BY <3>1, LanesAreSeq
    <3>3. fcAssignment[c] = <<>>
      BY DEF Init
    <3>4. QED
      BY <3>2, <3>3
  <2>2. todo = Connections
    BY DEF Init
  <2>3. QED
    BY <2>1, <2>2 DEF Numbered
<1>4. QED
  BY <1>1, <1>2, <1>3 DEF IInv

\* A connection begins with its data links, and no return.
LEMMA BeginInv ==
  ASSUME FlowControlAssumption, IInv, NEW c \in Connections, Begin(c)
  PROVE  IInv'
<1>1. /\ lanes \in [Connections -> LaneChoices] /\ lanes[c] \in LaneChoices
      /\ DOMAIN egressLinks = Connections /\ DOMAIN viaLoads = Connections
  BY DEF IInv, Shape
<1>2. /\ current' = c /\ todo' = todo \ {c} /\ c \in todo /\ current = None
      /\ egressLinks' = [egressLinks EXCEPT ![c] = [v \in DOMAIN lanes[c] |-> DataLinks(c, v)]]
      /\ viaLoads' = [viaLoads EXCEPT ![c] = [v \in DOMAIN lanes[c] |-> lanes[c][v].load]]
      /\ UNCHANGED <<lanes, fcAssignment, logicalEgress, logicalIngress>>
  BY DEF Begin
<1>3. Shape'
  BY <1>2 DEF IInv, Shape
<1>4. Opened'
  <2>1. IsOpen(lanes[c], egressLinks'[c], viaLoads'[c], fcAssignment[c])
    <3>1. /\ egressLinks'[c] = [v \in DOMAIN lanes[c] |-> Len(lanes[c][v].bits)]
          /\ viaLoads'[c] = [v \in DOMAIN lanes[c] |-> lanes[c][v].load]
      BY <1>1, <1>2 DEF DataLinks
    <3>2. \A v \in DOMAIN lanes[c] : lanes[c][v].load \in Nat /\ Len(lanes[c][v].bits) \in Nat
      BY <1>1, LanesAreSeq
    <3>3. fcAssignment[c] = <<>>
      BY <1>2 DEF IInv, Opened
    <3>4. fcAssignment[c] \in Seq(Returns) /\ DOMAIN fcAssignment[c] = {}
      BY <3>3
    <3>5. QED
      BY <3>1, <3>2, <3>4 DEF IsOpen
  <2>2. ASSUME NEW d \in Connections, d # c
        PROVE  IF d \in todo'
               THEN fcAssignment'[d] = <<>> /\ egressLinks'[d] = <<>> /\ viaLoads'[d] = <<>>
               ELSE IsOpen(lanes'[d], egressLinks'[d], viaLoads'[d], fcAssignment'[d])
    <3>1. egressLinks'[d] = egressLinks[d] /\ viaLoads'[d] = viaLoads[d]
      BY <1>1, <1>2, <2>2
    <3>2. QED
      BY <1>2, <2>2, <3>1 DEF IInv, Opened
  <2>3. QED
    BY <1>2, <2>1, <2>2 DEF Opened
<1>5. Complete'
  <2>1. None \notin Connections
    BY DEF FlowControlAssumption
  <2>2. QED
    BY <1>2, <2>1 DEF IInv, Complete, Back
<1>6. Described'
  BY <1>2, NoneDescribed DEF Described
<1>7. Numbered'
  <2>1. IsNumbered(lanes[c], egressLinks'[c], viaLoads'[c], fcAssignment[c])
    <3>1. /\ egressLinks'[c] = [v \in DOMAIN lanes[c] |-> Len(lanes[c][v].bits)]
          /\ viaLoads'[c] = [v \in DOMAIN lanes[c] |-> lanes[c][v].load]
      BY <1>1, <1>2 DEF DataLinks
    <3>2. \A v \in DOMAIN lanes[c] : Len(lanes[c][v].bits) \in Nat
      BY <1>1, LanesAreSeq
    <3>3. fcAssignment[c] = <<>>
      BY <1>2 DEF IInv, Opened
    <3>4. DOMAIN fcAssignment[c] = {}
      BY <3>3
    <3>5. QED
      BY <3>1, <3>2, <3>3, <3>4 DEF IsNumbered
  <2>2. ASSUME NEW d \in Connections, d # c, d \notin todo'
        PROVE  IsNumbered(lanes[d], egressLinks'[d], viaLoads'[d], fcAssignment[d])
    <3>1. egressLinks'[d] = egressLinks[d] /\ viaLoads'[d] = viaLoads[d] /\ d \notin todo
      BY <1>1, <1>2, <2>2
    <3>2. QED
      BY <3>1 DEF IInv, Numbered
  <2>3. QED
    BY <1>2, <2>1, <2>2 DEF IInv, Numbered, Back
<1>8. QED
  BY <1>3, <1>4, <1>5, <1>6, <1>7 DEF IInv

\* The next return takes the number that its lane has reached.
LEMMA AssignInv ==
  ASSUME FlowControlAssumption, IInv, NEW c \in Connections, Assign(c)
  PROVE  IInv'
<1> DEFINE v == LeastLoaded(c)
           r == [via |-> v, link |-> egressLinks[c][v]]
<1>1. /\ lanes \in [Connections -> LaneChoices] /\ lanes[c] \in LaneChoices
      /\ DOMAIN egressLinks = Connections /\ DOMAIN viaLoads = Connections
      /\ DOMAIN fcAssignment = Connections
  BY DEF IInv, Shape
<1>2. /\ current = c /\ c \notin todo /\ c # None
      /\ UNCHANGED <<lanes, todo, current, logicalEgress, logicalIngress>>
  BY DEF Assign, IInv, Shape, FlowControlAssumption
<1>3. /\ fcAssignment' = [fcAssignment EXCEPT ![c] = Append(fcAssignment[c], r)]
      /\ egressLinks' = [egressLinks EXCEPT ![c] = [egressLinks[c] EXCEPT ![v] = egressLinks[c][v] + 1]]
      /\ viaLoads' = [viaLoads EXCEPT ![c] = [viaLoads[c] EXCEPT ![v] = LoadWith(c, v)]]
  BY DEF Assign, NextLink
<1>4. IsOpen(lanes[c], egressLinks[c], viaLoads[c], fcAssignment[c])
  BY <1>2 DEF IInv, Opened
<1>5. v \in DOMAIN lanes[c] /\ LoadWith(c, v) \in Nat
  <2>1. viaLoads[c] \in [DOMAIN lanes[c] -> Nat]
    BY <1>4 DEF IsOpen
  <2>2. QED
    BY <1>1, <2>1, LeastLoadedIsALane
<1> HIDE DEF v
<1>6. IsOpen(lanes[c], egressLinks'[c], viaLoads'[c], fcAssignment'[c])
  <2>1. IsOpen(lanes[c], [egressLinks[c] EXCEPT ![v] = egressLinks[c][v] + 1],
               [viaLoads[c] EXCEPT ![v] = LoadWith(c, v)], Append(fcAssignment[c], r))
    BY <1>1, <1>4, <1>5, OneMoreReturn
  <2>2. /\ egressLinks'[c] = [egressLinks[c] EXCEPT ![v] = egressLinks[c][v] + 1]
        /\ viaLoads'[c] = [viaLoads[c] EXCEPT ![v] = LoadWith(c, v)]
        /\ fcAssignment'[c] = Append(fcAssignment[c], r)
    <3> HIDE DEF r
    <3>1. QED
      BY <1>1, <1>3
  <2>3. QED
    BY <2>1, <2>2
<1>7. ASSUME NEW d \in Connections, d # c
      PROVE  /\ egressLinks'[d] = egressLinks[d] /\ viaLoads'[d] = viaLoads[d]
             /\ fcAssignment'[d] = fcAssignment[d]
  <2> HIDE DEF r
  <2>1. QED
    BY <1>1, <1>3, <1>7
<1>8. Shape'
  <2> HIDE DEF r
  <2>1. QED
    BY <1>2, <1>3 DEF IInv, Shape
<1>9. Opened'
  BY <1>2, <1>6, <1>7 DEF IInv, Opened
<1>10. Complete'
  BY <1>2, <1>7 DEF IInv, Complete, Back
<1>11. Described'
  BY <1>2, NoneDescribed DEF Described
<1>12. Numbered'
  <2>1. IsNumbered(lanes[c], egressLinks[c], viaLoads[c], fcAssignment[c])
    BY <1>2 DEF IInv, Numbered
  <2>2. RouterAssumption /\ fcAssignment[c] = <<>> => \A w \in DOMAIN lanes[c] : w # v => lanes[c][w].bits # <<>>
    <3> SUFFICES ASSUME RouterAssumption, fcAssignment[c] = <<>>, NEW w \in DOMAIN lanes[c], w # v
                 PROVE  lanes[c][w].bits # <<>>
      OBVIOUS
    <3>1. viaLoads[c] = [u \in DOMAIN lanes[c] |-> lanes[c][u].load]
      BY <1>4, <2>1 DEF IsOpen, IsNumbered
    <3>2. QED
      BY <1>1, <3>1, FirstReturnGoesIdle DEF v
  <2>3. IsNumbered(lanes[c], egressLinks'[c], viaLoads'[c], fcAssignment'[c])
    <3>1. IsNumbered(lanes[c], [egressLinks[c] EXCEPT ![v] = egressLinks[c][v] + 1],
                     [viaLoads[c] EXCEPT ![v] = LoadWith(c, v)], Append(fcAssignment[c], r))
      BY <1>1, <1>4, <1>5, <2>1, <2>2, OneMoreNumber
    <3>2. /\ egressLinks'[c] = [egressLinks[c] EXCEPT ![v] = egressLinks[c][v] + 1]
          /\ viaLoads'[c] = [viaLoads[c] EXCEPT ![v] = LoadWith(c, v)]
          /\ fcAssignment'[c] = Append(fcAssignment[c], r)
      <4> HIDE DEF r
      <4>1. QED
        BY <1>1, <1>3
    <3>3. QED
      BY <3>1, <3>2
  <2>4. Len(fcAssignment'[c]) <= Len(lanes[Back(c)])
    <3>1. Len(fcAssignment[c]) < Len(lanes[Back(c)])
      BY DEF Assign, Pending
    <3>2. fcAssignment[c] \in Seq(Returns) /\ fcAssignment'[c] = Append(fcAssignment[c], r)
      <4> HIDE DEF r
      <4>1. QED
        BY <1>1, <1>3, <1>4 DEF IsOpen
    <3>3. Len(fcAssignment[c]) \in Nat
      BY <3>2
    <3>4. Len(fcAssignment'[c]) = Len(fcAssignment[c]) + 1
      <4> HIDE DEF r
      <4>1. QED
        BY <3>2
    <3>5. Len(lanes[Back(c)]) \in Nat
      <4>1. lanes[Back(c)] \in LaneChoices
        BY <1>1, BackOfBack
      <4>2. QED
        BY <4>1, LanesAreSeq
    <3>6. QED
      BY <3>1, <3>3, <3>4, <3>5
  <2>5. QED
    BY <1>2, <1>7, <2>3, <2>4 DEF IInv, Numbered, Back
<1>13. QED
  BY <1>8, <1>9, <1>10, <1>11, <1>12 DEF IInv

\* A connection is left when no lane of its opposite is without a return.
LEMMA EndInv ==
  ASSUME FlowControlAssumption, IInv, NEW c \in Connections, End(c)
  PROVE  IInv'
<1>1. /\ current = c /\ ~Pending(c) /\ current' = None /\ c # None
      /\ UNCHANGED <<lanes, todo, fcAssignment, egressLinks, viaLoads, logicalEgress, logicalIngress>>
  BY DEF End, FlowControlAssumption
<1>2. Len(lanes[Back(c)]) <= Len(fcAssignment[c])
  <2>1. IsOpen(lanes[c], egressLinks[c], viaLoads[c], fcAssignment[c])
    BY <1>1 DEF IInv, Shape, Opened
  <2>2. Len(fcAssignment[c]) \in Nat
    <3>1. fcAssignment[c] \in Seq(Returns)
      BY <2>1 DEF IsOpen
    <3>2. QED
      BY <3>1
  <2>3. Len(lanes[Back(c)]) \in Nat
    <3>1. lanes[Back(c)] \in LaneChoices
      BY BackOfBack DEF IInv, Shape
    <3>2. QED
      BY <3>1, LanesAreSeq
  <2>4. QED
    BY <1>1, <2>2, <2>3 DEF Pending
<1>3. Shape'
  <2>1. None \notin todo
    BY DEF IInv, Shape, FlowControlAssumption
  <2>2. QED
    BY <1>1, <2>1 DEF IInv, Shape
<1>4. Opened'
  BY <1>1 DEF IInv, Opened
<1>5. Complete'
  BY <1>1, <1>2 DEF IInv, Complete, Back
<1>6. Described'
  BY <1>1, NoneDescribed DEF Described
<1>7. Numbered'
  BY <1>1 DEF IInv, Numbered, Back
<1>8. QED
  BY <1>3, <1>4, <1>5, <1>6, <1>7 DEF IInv

\* Both ends are described from the same, final structures.
LEMMA FinishInv ==
  ASSUME FlowControlAssumption, IInv, NEW c \in Connections, Finish(c)
  PROVE  IInv'
<1>1. /\ todo = {} /\ current = None
      /\ logicalEgress' = [logicalEgress EXCEPT ![c] = Ends(c)]
      /\ logicalIngress' = [logicalIngress EXCEPT ![c] = Ends(c)]
      /\ UNCHANGED <<platformType, lanes, todo, current, fcAssignment, egressLinks, viaLoads>>
  BY DEF Finish, Ends
<1>2. ASSUME NEW d \in Connections
      PROVE  Ends(d)' = Ends(d)
  BY <1>1 DEF Ends, LaneEnd, LinksOn, DataLinks, ReturnOf, HeaderOf, GenerateRouterTypesPair,
              ToCPU, MaxWidth
<1>3. Shape'
  BY <1>1 DEF IInv, Shape
<1>4. Opened'
  BY <1>1 DEF IInv, Opened
<1>5. Complete'
  BY <1>1 DEF IInv, Complete, Back
<1>6. Described'
  <2>1. /\ DOMAIN logicalEgress = Connections /\ DOMAIN logicalIngress = Connections
        /\ \A d \in Connections : logicalEgress[d] # <<>> =>
             logicalEgress[d] = Ends(d) /\ logicalIngress[d] = Ends(d)
    BY DEF IInv, Shape, Described
  <2>2. ASSUME NEW d \in Connections, logicalEgress'[d] # <<>>
        PROVE  logicalEgress'[d] = Ends(d) /\ logicalIngress'[d] = Ends(d)
    BY <1>1, <2>1, <2>2
  <2>3. QED
    BY <1>1, <1>2, <2>2 DEF Described
<1>7. Numbered'
  BY <1>1 DEF IInv, Numbered, Back
<1>8. QED
  BY <1>3, <1>4, <1>5, <1>6, <1>7 DEF IInv

-----------------------------------------------------------------------------
(* What the invariant says once all is described.                          *)

\* The return of a lane is one of the links between the data and the count.
LEMMA InvImplies ==
  ASSUME FlowControlAssumption, IInv
  PROVE  ReturnsMeet
<1> SUFFICES ASSUME \A c \in Connections : logicalEgress[c] # <<>>,
                    NEW c \in Connections, NEW v \in DOMAIN logicalEgress[c]
             PROVE  /\ logicalEgress[c][v].fcVia \in DOMAIN logicalIngress[Back(c)]
                    /\ logicalEgress[c][v].fcLink \in
                         logicalIngress[Back(c)][logicalEgress[c][v].fcVia].ioLinks ..
                         (logicalIngress[Back(c)][logicalEgress[c][v].fcVia].links - 1)
  BY DEF ReturnsMeet
<1> DEFINE b == Back(c)
           f == fcAssignment[b]
           there == logicalEgress[c][v]
           back == logicalIngress[b]
<1>1. b \in Connections /\ Back(b) = c
  BY BackOfBack
<1>2. todo = {} /\ current = None /\ logicalEgress[c] = Ends(c) /\ back = Ends(b)
  BY <1>1 DEF IInv, Described
<1> HIDE DEF b
<1>3. /\ IsOpen(lanes[c], egressLinks[c], viaLoads[c], fcAssignment[c])
      /\ IsOpen(lanes[b], egressLinks[b], viaLoads[b], f)
      /\ lanes[c] \in LaneChoices /\ lanes[b] \in LaneChoices
  BY <1>1, <1>2 DEF IInv, Shape, Opened
<1>4. DOMAIN egressLinks[c] = DOMAIN lanes[c] /\ DOMAIN egressLinks[b] = DOMAIN lanes[b]
  BY <1>3 DEF IsOpen
<1>5. Len(lanes[c]) <= Len(f)
  <2>1. b # current
    BY <1>1, <1>2 DEF FlowControlAssumption
  <2>2. QED
    BY <1>1, <1>2, <2>1 DEF IInv, Complete
<1>6. v \in DOMAIN f
  <2>1. f \in Seq(Returns)
    BY <1>3 DEF IsOpen
  <2> HIDE DEF f
  <2>2. DOMAIN f = 1..Len(f) /\ Len(f) \in Nat
    BY <2>1
  <2>3. v \in 1..Len(lanes[c]) /\ Len(lanes[c]) \in Nat
    <3>1. v \in DOMAIN lanes[c]
      BY <1>2, <1>4 DEF Ends
    <3>2. QED
      BY <1>3, <3>1, LanesAreSeq
  <2>4. QED
    BY <1>5, <2>2, <2>3
<1>7. /\ f[v].via \in DOMAIN lanes[b]
      /\ Len(lanes[b][f[v].via].bits) <= f[v].link
      /\ f[v].link < egressLinks[b][f[v].via]
      /\ f[v].link \in Nat
      /\ egressLinks[b][f[v].via] \in Nat /\ Len(lanes[b][f[v].via].bits) \in Nat
  <2>1. f \in Seq(Returns) /\ egressLinks[b] \in [DOMAIN lanes[b] -> Nat]
    BY <1>3 DEF IsOpen
  <2>2. f[v] \in Returns
    <3> HIDE DEF f
    <3>1. QED
      BY <1>6, <2>1, ReturnsAreSeq
  <2>3. /\ f[v].via \in DOMAIN lanes[b]
        /\ Len(lanes[b][f[v].via].bits) <= f[v].link
        /\ f[v].link < egressLinks[b][f[v].via]
    BY <1>3, <1>6 DEF IsOpen
  <2>4. Len(lanes[b][f[v].via].bits) \in Nat
    BY <1>3, <2>3, LanesAreSeq
  <2>5. QED
    BY <2>1, <2>2, <2>3, <2>4 DEF Returns
<1>8. there.fcVia = f[v].via /\ there.fcLink = f[v].link
  <2>1. there = LaneEnd(c, v)
    BY <1>2 DEF Ends
  <2>2. QED
    BY <2>1 DEF LaneEnd, ReturnOf, b
<1>9. /\ f[v].via \in DOMAIN back
      /\ back[f[v].via].ioLinks = Len(lanes[b][f[v].via].bits)
      /\ back[f[v].via].links = egressLinks[b][f[v].via]
  <2>1. f[v].via \in DOMAIN back /\ back[f[v].via] = LaneEnd(b, f[v].via)
    BY <1>2, <1>4, <1>7 DEF Ends
  <2>2. QED
    BY <2>1 DEF LaneEnd, LinksOn, DataLinks
<1> DEFINE w == f[v].via
           low == back[w].ioLinks
           high == back[w].links
<1>10. f[v].link \in low..(high - 1)
  <2>1. low \in Nat /\ high \in Nat /\ f[v].link \in Nat /\ low <= f[v].link /\ f[v].link < high
    BY <1>7, <1>9
  <2> HIDE DEF low, high
  <2>2. QED
    BY <2>1
<1>11. QED
  BY <1>8, <1>9, <1>10 DEF b

\* Every step of the assignment keeps the invariant.
LEMMA StepInv ==
  ASSUME FlowControlAssumption, IInv, [Next]_vars
  PROVE  IInv'
<1>1. CASE Next
  <2>1. PICK c \in Connections : Begin(c) \/ Assign(c) \/ End(c) \/ Finish(c)
    BY <1>1 DEF Next
  <2>2. QED
    BY <2>1, BeginInv, AssignInv, EndInv, FinishInv
<1>2. CASE UNCHANGED vars
  <2>1. Shape' = Shape /\ Opened' = Opened /\ Numbered' = Numbered
    BY <1>2 DEF vars, Shape, Opened, Numbered, Back
  <2>2. Complete' = Complete /\ Described' = Described
    BY <1>2 DEF vars, Complete, Described, Ends, LaneEnd, LinksOn, DataLinks, ReturnOf,
                HeaderOf, GenerateRouterTypesPair, ToCPU, MaxWidth, Back
  <2>3. QED
    BY <2>1, <2>2 DEF IInv
<1>3. QED
  BY <1>1, <1>2

\* The credits of every lane come back on a link of the opposite connection that
\* both of its ends were built to use for flow control: for every network, every
\* number of lanes, links and loads, and any order of the platforms
\* (analyzeNetwork.py, lines 487-581).
THEOREM ReturnsMeetCorrect ==
  ASSUME FlowControlAssumption
  PROVE  Spec => []ReturnsMeet
BY InitInv, StepInv, InvImplies, PTL DEF Spec

-----------------------------------------------------------------------------
(* What the assignment promises besides.                                   *)

\* A return is its lane and its number.
LEMMA ReturnIs ==
  ASSUME NEW f \in Seq(Returns), NEW u \in DOMAIN f
  PROVE  /\ f[u].via \in Nat /\ f[u].link \in Nat
         /\ f[u] = [via |-> f[u].via, link |-> f[u].link]
<1>1. f[u] \in Returns
  BY ReturnsAreSeq
<1>2. QED
  BY <1>1 DEF Returns

\* The returns that lane v carries, and their numbers.
On(f, v) == {u \in DOMAIN f : f[u].via = v}

NumbersOn(f, v) == {f[u].link : u \in On(f, v)}

\* They have the numbers from the data links to the count, one each.
LEMMA NumbersAreDense ==
  ASSUME FlowControlAssumption, NEW s \in LaneChoices, NEW e, NEW l, NEW f,
         IsOpen(s, e, l, f), IsNumbered(s, e, l, f), NEW v \in DOMAIN s
  PROVE  /\ NumbersOn(f, v) = Len(s[v].bits)..(e[v] - 1)
         /\ Cardinality(NumbersOn(f, v)) = Cardinality(On(f, v))
<1> DEFINE here == {u \in DOMAIN f : f[u].via = v}
           numbers == {f[u].link : u \in here}
           number == [u \in here |-> f[u].link]
<1>1. /\ f \in Seq(Returns) /\ e[v] \in Nat /\ Len(s[v].bits) \in Nat
      /\ DOMAIN f = 1..Len(f) /\ Len(f) \in Nat
  <2>1. f \in Seq(Returns) /\ e[v] \in Nat
    BY DEF IsOpen
  <2>2. QED
    BY <2>1, LanesAreSeq
<1>2. \A u \in DOMAIN f : /\ f[u].link \in Nat
                         /\ f[u] = [via |-> f[u].via, link |-> f[u].link]
  BY <1>1, ReturnIs
<1>3. \A u \in DOMAIN f : Len(s[f[u].via].bits) <= f[u].link /\ f[u].link < e[f[u].via]
  BY DEF IsOpen
<1>4. ASSUME NEW k
      PROVE  k \in numbers <=> k \in Len(s[v].bits)..(e[v] - 1)
  <2>1. ASSUME k \in numbers
        PROVE  k \in Len(s[v].bits)..(e[v] - 1)
    <3>1. PICK u \in DOMAIN f : f[u].via = v /\ k = f[u].link
      BY <2>1
    <3>2. QED
      BY <1>1, <1>2, <1>3, <3>1
  <2>2. ASSUME k \in Len(s[v].bits)..(e[v] - 1)
        PROVE  k \in numbers
    <3>1. k \in Nat /\ Len(s[v].bits) <= k /\ k < e[v]
      BY <1>1, <2>2
    <3>2. PICK u \in DOMAIN f : f[u] = [via |-> v, link |-> k]
      BY <3>1 DEF IsNumbered
    <3>3. f[u].via = v /\ f[u].link = k
      BY <3>2
    <3>4. QED
      BY <3>3
  <2>3. QED
    BY <2>1, <2>2
<1>5. number \in Bijection(here, numbers)
  <2>1. ASSUME NEW u \in here, NEW w \in here, number[u] = number[w]
        PROVE  u = w
    <3>1. f[u] = f[w]
      BY <1>2, <2>1
    <3>2. QED
      BY <3>1 DEF IsNumbered
  <2>2. number \in Injection(here, numbers)
    <3> HIDE DEF numbers, here
    <3>1. number \in [here -> numbers]
      BY DEF numbers
    <3>2. QED
      BY <2>1, <3>1 DEF Injection, IsInjective
  <2>3. number \in Surjection(here, numbers)
    BY DEF Surjection
  <2>4. QED
    BY <2>2, <2>3 DEF Bijection
<1>6. Cardinality(numbers) = Cardinality(here)
  <2>1. IsFiniteSet(here)
    <3>1. IsFiniteSet(DOMAIN f)
      BY <1>1, FS_Interval
    <3>2. QED
      BY <3>1, FS_Subset
  <2> HIDE DEF here, numbers, number
  <2>2. ExistsBijection(here, numbers)
    BY <1>5 DEF ExistsBijection
  <2>3. QED
    BY <2>1, <2>2, FS_Bijection
<1>7. QED
  BY <1>4, <1>6 DEF On, NumbersOn

\* The variables of the assignment have their types.
LEMMA InvTypes ==
  ASSUME FlowControlAssumption, IInv
  PROVE  TypeOK
<1> SUFFICES ASSUME NEW c \in Connections
             PROVE  /\ egressLinks[c] \in Seq(Nat) /\ viaLoads[c] \in Seq(Nat)
                    /\ Len(fcAssignment[c]) <= Len(lanes[Back(c)])
                    /\ \A i \in DOMAIN fcAssignment[c] : fcAssignment[c][i].via \in DOMAIN lanes[c]
  BY DEF TypeOK, IInv, Shape
<1>1. Len(fcAssignment[c]) <= Len(lanes[Back(c)])
  BY DEF IInv, Numbered
<1>2. CASE c \in todo
  <2>1. fcAssignment[c] = <<>> /\ egressLinks[c] = <<>> /\ viaLoads[c] = <<>>
    BY <1>2 DEF IInv, Opened
  <2>2. QED
    BY <1>1, <2>1
<1>3. CASE c \notin todo
  <2>1. IsOpen(lanes[c], egressLinks[c], viaLoads[c], fcAssignment[c])
    BY <1>3 DEF IInv, Opened
  <2>2. DOMAIN lanes[c] = 1..Len(lanes[c]) /\ Len(lanes[c]) \in Nat
    <3>1. lanes[c] \in LaneChoices
      BY DEF IInv, Shape
    <3>2. QED
      BY <3>1, LanesAreSeq
  <2>3. egressLinks[c] \in [1..Len(lanes[c]) -> Nat] /\ viaLoads[c] \in [1..Len(lanes[c]) -> Nat]
    BY <2>1, <2>2 DEF IsOpen
  <2>4. egressLinks[c] \in Seq(Nat) /\ viaLoads[c] \in Seq(Nat)
    BY <2>2, <2>3
  <2>5. QED
    BY <1>1, <2>1, <2>4 DEF IsOpen
<1>4. QED
  BY <1>2, <1>3

\* On every lane the returns follow the data, without gaps and doubles.
LEMMA InvFollows ==
  ASSUME FlowControlAssumption, IInv
  PROVE  ReturnsFollowData
<1> SUFFICES ASSUME NEW c \in Connections, NEW v \in DOMAIN egressLinks[c]
             PROVE  /\ ReturnsOn(c, v) = DataLinks(c, v)..(egressLinks[c][v] - 1)
                    /\ Cardinality(ReturnsOn(c, v))
                         = Cardinality({u \in DOMAIN fcAssignment[c] : fcAssignment[c][u].via = v})
  BY DEF ReturnsFollowData
<1>1. c \notin todo
  <2>1. DOMAIN <<>> = {}
    OBVIOUS
  <2>2. QED
    BY <2>1 DEF IInv, Opened
<1>2. /\ IsOpen(lanes[c], egressLinks[c], viaLoads[c], fcAssignment[c])
      /\ IsNumbered(lanes[c], egressLinks[c], viaLoads[c], fcAssignment[c])
      /\ lanes[c] \in LaneChoices
  BY <1>1 DEF IInv, Shape, Opened, Numbered
<1>3. v \in DOMAIN lanes[c]
  BY <1>2 DEF IsOpen
<1> DEFINE f == fcAssignment[c]
<1>4. /\ NumbersOn(f, v) = Len(lanes[c][v].bits)..(egressLinks[c][v] - 1)
      /\ Cardinality(NumbersOn(f, v)) = Cardinality(On(f, v))
  BY <1>2, <1>3, NumbersAreDense
<1>5. /\ ReturnsOn(c, v) = NumbersOn(f, v)
      /\ On(f, v) = {u \in DOMAIN fcAssignment[c] : fcAssignment[c][u].via = v}
  BY DEF ReturnsOn, On, NumbersOn
<1>6. QED
  BY <1>4, <1>5 DEF DataLinks

-----------------------------------------------------------------------------
(* The routers.                                                            *)

\* The lane of the opposite connection whose return is link k of lane v.
TheReturn(c, v, k) ==
  CHOOSE u \in DOMAIN fcAssignment[c] : fcAssignment[c][u].via = v /\ fcAssignment[c][u].link = k

\* The links of connection c with nothing, with the data, with all their drivers.
OpenArray(c) ==
  [v \in DOMAIN lanes[c] |-> [k \in 0..(egressLinks[c][v] - 1) |-> Open]]

DataArray(c) ==
  [v \in DOMAIN lanes[c] |-> [k \in 0..(egressLinks[c][v] - 1) |->
     IF k < DataLinks(c, v) THEN Data(v, k) ELSE Open]]

FullArray(c) ==
  [v \in DOMAIN lanes[c] |-> [k \in 0..(egressLinks[c][v] - 1) |->
     IF k < DataLinks(c, v) THEN Data(v, k) ELSE Credits(TheReturn(c, v, k))]]

DriversAt(c) ==
  IF phase[c] = "start" THEN <<>>
  ELSE IF phase[c] = "egress" THEN OpenArray(c)
  ELSE IF phase[c] = "lanes" THEN DataArray(c) ELSE FullArray(c)

\* The consumers that c[1] has for what comes from c[2].
ReturnPorts(c) ==
  {[via |-> fcAssignment[Back(c)][u].via, link |-> fcAssignment[Back(c)][u].link,
    to |-> Credits(u)] : u \in DOMAIN lanes[c]}

DataPorts(c) ==
  {[via |-> d[1], link |-> d[2], to |-> Data(d[1], d[2])] : d \in DataLinksOf(Back(c))}

ConsumersAt(c) ==
  IF phase[c] = "done" THEN ReturnPorts(c) \cup DataPorts(c)
  ELSE IF phase[c] = "ingress" THEN ReturnPorts(c) ELSE {}

\* The packetizers at the two ends of connection c.
SendEnd(c, d) ==
  Packetizer(d[1], d[2], "send",
    SendAs(lanes[c][d[1]].bits[d[2] + 1], LaneEnd(c, d[1]), platformType[c[2]]))

ReceiveEnd(c, d) ==
  Packetizer(d[1], d[2], "receive",
    ReceiveAs(lanes[c][d[1]].bits[d[2] + 1], LaneEnd(c, d[1]),
              lanes[c][d[1]].width, platformType[c[1]]))

IsEndOf(c, x) ==
  \E d \in DataLinksOf(c) :
    \/ Hardware(c[1]) /\ x = SendEnd(c, d)
    \/ Hardware(c[2]) /\ x = ReceiveEnd(c, d)

Tables ==
  /\ DOMAIN phase = Connections /\ DOMAIN drivers = Connections
  /\ DOMAIN consumers = Connections /\ DOMAIN packetizers = Connections

\* Routers are written once network analysis is complete, in parts by hardware
\* and at once by software.
Phased ==
  \A c \in Connections :
    /\ phase[c] \in {"start", "egress", "lanes", "ingress", "done"}
    /\ phase[c] # "start" => Analyzed
    /\ phase[c] \in {"egress", "lanes", "ingress"} => Hardware(c[1])

\* What has been written for a connection.
Wired ==
  \A c \in Connections :
    /\ drivers[c] = DriversAt(c)
    /\ consumers[Back(c)] = ConsumersAt(c)
    /\ \A x \in packetizers[c] : Analyzed /\ IsEndOf(c, x)
    /\ Hardware(c[1]) /\ phase[c] # "start" =>
         \A v \in DOMAIN lanes[Back(c)] : <<Back(c), v>> \in switches

GInv ==
  /\ IInv /\ Feasible(lanes, platformType)
  /\ Tables /\ Phased /\ Wired

\* What network analysis has settled for a connection when it is complete.
LEMMA Settled ==
  ASSUME FlowControlAssumption, IInv, Analyzed, NEW c \in Connections
  PROVE  /\ todo = {} /\ current = None
         /\ logicalEgress[c] = Ends(c) /\ logicalIngress[c] = Ends(c)
         /\ DOMAIN Ends(c) = DOMAIN lanes[c]
         /\ \A v \in DOMAIN lanes[c] : Ends(c)[v] = LaneEnd(c, v)
         /\ lanes[c] \in LaneChoices
         /\ \A v \in DOMAIN lanes[c] :
              /\ v \in Nat
              /\ DataLinks(c, v) \in Nat /\ egressLinks[c][v] \in Nat
              /\ DataLinks(c, v) <= egressLinks[c][v]
              /\ RouterAssumption => egressLinks[c][v] > 0
<1>1. todo = {} /\ current = None /\ logicalEgress[c] = Ends(c) /\ logicalIngress[c] = Ends(c)
  BY DEF Analyzed, IInv, Described
<1>2. /\ IsOpen(lanes[c], egressLinks[c], viaLoads[c], fcAssignment[c])
      /\ IsNumbered(lanes[c], egressLinks[c], viaLoads[c], fcAssignment[c])
      /\ lanes[c] \in LaneChoices
  BY <1>1 DEF IInv, Shape, Opened, Numbered
<1>3. DOMAIN Ends(c) = DOMAIN lanes[c] /\ \A v \in DOMAIN lanes[c] : Ends(c)[v] = LaneEnd(c, v)
  BY <1>2 DEF Ends, IsOpen
<1>4. ASSUME NEW v \in DOMAIN lanes[c]
      PROVE  /\ v \in Nat
             /\ DataLinks(c, v) \in Nat /\ egressLinks[c][v] \in Nat
             /\ DataLinks(c, v) <= egressLinks[c][v]
  BY <1>2, LanesAreSeq DEF IsOpen, DataLinks
<1>5. ASSUME RouterAssumption, NEW v \in DOMAIN lanes[c]
      PROVE  egressLinks[c][v] > 0
  <2>1. fcAssignment[c] # <<>>
    <3>1. Len(lanes[Back(c)]) <= Len(fcAssignment[c])
      <4>1. c # current
        BY <1>1 DEF FlowControlAssumption
      <4>2. QED
        BY <1>1, <4>1 DEF IInv, Complete
    <3>2. lanes[Back(c)] \in LaneChoices
      BY BackOfBack DEF IInv, Shape
    <3>3. Len(lanes[Back(c)]) \in Nat \ {0}
      BY <3>2, LanesAreSeq
    <3>4. Len(<<>>) = 0
      OBVIOUS
    <3>5. QED
      BY <3>1, <3>3, <3>4
  <2>2. QED
    BY <1>2, <1>5, <2>1 DEF IsNumbered
<1>6. QED
  BY <1>1, <1>2, <1>3, <1>4, <1>5

\* And for the returns that it carries: they are those of the lanes of its
\* opposite, each on a link of its own after the data.
LEMMA ReturnsSettled ==
  ASSUME FlowControlAssumption, IInv, Analyzed, NEW c \in Connections
  PROVE  /\ DOMAIN fcAssignment[c] = DOMAIN lanes[Back(c)]
         /\ \A u \in DOMAIN fcAssignment[c] :
              /\ fcAssignment[c][u].via \in DOMAIN lanes[c]
              /\ fcAssignment[c][u].link \in Nat
              /\ DataLinks(c, fcAssignment[c][u].via) <= fcAssignment[c][u].link
              /\ fcAssignment[c][u].link < egressLinks[c][fcAssignment[c][u].via]
              /\ TheReturn(c, fcAssignment[c][u].via, fcAssignment[c][u].link) = u
         /\ \A v \in DOMAIN lanes[c] : \A k \in Nat :
              DataLinks(c, v) <= k /\ k < egressLinks[c][v] =>
                /\ TheReturn(c, v, k) \in DOMAIN fcAssignment[c]
                /\ fcAssignment[c][TheReturn(c, v, k)].via = v
                /\ fcAssignment[c][TheReturn(c, v, k)].link = k
<1> DEFINE f == fcAssignment[c]
<1>1. todo = {} /\ current = None
  BY Settled
<1>2. /\ IsOpen(lanes[c], egressLinks[c], viaLoads[c], f)
      /\ IsNumbered(lanes[c], egressLinks[c], viaLoads[c], f)
  BY <1>1 DEF IInv, Shape, Opened, Numbered
<1>3. f \in Seq(Returns)
  BY <1>2 DEF IsOpen
<1>4. DOMAIN f = DOMAIN lanes[Back(c)]
  <2>1. lanes[Back(c)] \in LaneChoices
    BY BackOfBack DEF IInv, Shape
  <2>2. DOMAIN lanes[Back(c)] = 1..Len(lanes[Back(c)]) /\ Len(lanes[Back(c)]) \in Nat
    BY <2>1, LanesAreSeq
  <2>3. DOMAIN f = 1..Len(f) /\ Len(f) \in Nat
    <3> HIDE DEF f
    <3>1. QED
      BY <1>3
  <2>4. Len(lanes[Back(c)]) <= Len(f)
    <3>1. c # current
      BY <1>1 DEF FlowControlAssumption
    <3>2. QED
      BY <1>1, <3>1 DEF IInv, Complete
  <2>5. Len(f) <= Len(lanes[Back(c)])
    BY DEF IInv, Numbered
  <2>6. QED
    BY <2>2, <2>3, <2>4, <2>5
<1>5. ASSUME NEW u \in DOMAIN f
      PROVE  /\ f[u].via \in DOMAIN lanes[c] /\ f[u].link \in Nat
             /\ DataLinks(c, f[u].via) <= f[u].link
             /\ f[u].link < egressLinks[c][f[u].via]
             /\ f[u] = [via |-> f[u].via, link |-> f[u].link]
  <2> HIDE DEF f
  <2>1. QED
    BY <1>2, <1>3, ReturnIs DEF IsOpen, DataLinks
<1>6. ASSUME NEW u \in DOMAIN f, NEW w \in DOMAIN f, f[u].via = f[w].via, f[u].link = f[w].link
      PROVE  u = w
  <2>1. f[u] = f[w]
    BY <1>5, <1>6
  <2>2. QED
    BY <1>2, <2>1 DEF IsNumbered
<1>7. ASSUME NEW u \in DOMAIN f
      PROVE  TheReturn(c, f[u].via, f[u].link) = u
  BY <1>6 DEF TheReturn
<1>8. ASSUME NEW v \in DOMAIN lanes[c], NEW k \in Nat,
             DataLinks(c, v) <= k, k < egressLinks[c][v]
      PROVE  /\ TheReturn(c, v, k) \in DOMAIN f
             /\ f[TheReturn(c, v, k)].via = v /\ f[TheReturn(c, v, k)].link = k
  <2>1. PICK u \in DOMAIN f : f[u] = [via |-> v, link |-> k]
    BY <1>2, <1>8 DEF IsNumbered, DataLinks
  <2>2. f[u].via = v /\ f[u].link = k
    BY <2>1
  <2>3. QED
    BY <2>2 DEF TheReturn
<1>9. QED
  BY <1>4, <1>5, <1>7, <1>8

\* Network analysis does nothing any more once it is complete.
LEMMA AnalysisIsOver ==
  ASSUME FlowControlAssumption, IInv, Analyzed, Next
  PROVE  FALSE
<1>1. PICK c \in Connections : Begin(c) \/ Assign(c) \/ End(c) \/ Finish(c)
  BY DEF Next
<1>2. todo = {} /\ current = None /\ logicalEgress[c] # <<>>
  BY Settled DEF Analyzed
<1>3. c # None
  BY DEF FlowControlAssumption
<1>4. QED
  BY <1>1, <1>2, <1>3 DEF Begin, Assign, End, Finish

-----------------------------------------------------------------------------
(* Every step of a router's construction keeps the invariant.              *)

\* What has to be written depends on what network analysis has left.
LEMMA SameStructures ==
  ASSUME UNCHANGED vars, NEW c
  PROVE  /\ Analyzed' = Analyzed /\ Hardware(c[1])' = Hardware(c[1]) /\ Hardware(c[2])' = Hardware(c[2])
         /\ OpenArray(c)' = OpenArray(c) /\ DataArray(c)' = DataArray(c)
         /\ FullArray(c)' = FullArray(c)
         /\ ReturnPorts(c)' = ReturnPorts(c) /\ DataPorts(c)' = DataPorts(c)
         /\ DataLinksOf(c)' = DataLinksOf(c)
         /\ \A d : SendEnd(c, d)' = SendEnd(c, d) /\ ReceiveEnd(c, d)' = ReceiveEnd(c, d)
<1> USE DEF vars
<1>1. /\ \A v : DataLinks(c, v)' = DataLinks(c, v) /\ LaneEnd(c, v)' = LaneEnd(c, v)
      /\ \A v, k : TheReturn(c, v, k)' = TheReturn(c, v, k)
  BY DEF DataLinks, LaneEnd, LinksOn, ReturnOf, HeaderOf, GenerateRouterTypesPair, ToCPU,
         MaxWidth, TheReturn
<1>2. Analyzed' = Analyzed /\ Hardware(c[1])' = Hardware(c[1]) /\ Hardware(c[2])' = Hardware(c[2])
  BY DEF Analyzed, Hardware
<1>3. /\ OpenArray(c)' = OpenArray(c) /\ DataArray(c)' = DataArray(c)
      /\ FullArray(c)' = FullArray(c)
  BY <1>1 DEF OpenArray, DataArray, FullArray
<1>4. DataLinksOf(c)' = DataLinksOf(c) /\ DataLinksOf(Back(c))' = DataLinksOf(Back(c))
  BY DEF DataLinksOf, DataLinks, Back
<1>5. ReturnPorts(c)' = ReturnPorts(c) /\ DataPorts(c)' = DataPorts(c)
  BY <1>4 DEF ReturnPorts, DataPorts, Back
<1>6. \A d : SendEnd(c, d)' = SendEnd(c, d) /\ ReceiveEnd(c, d)' = ReceiveEnd(c, d)
  BY <1>1 DEF SendEnd, ReceiveEnd
<1>7. QED
  BY <1>2, <1>3, <1>4, <1>5, <1>6

\* The data links of a connection.
LEMMA DataLinksAre ==
  ASSUME NEW c, NEW d
  PROVE  d \in DataLinksOf(c) <=>
           \E v \in DOMAIN lanes[c] : \E k \in 0..(DataLinks(c, v) - 1) : d = <<v, k>>
BY DEF DataLinksOf

\* A step of the platform c[1] on its router for c[2], which from then on is at p.
LEMMA StepOf ==
  ASSUME FlowControlAssumption, GInv, Analyzed, UNCHANGED vars,
         NEW c \in Connections, NEW p \in {"egress", "lanes", "ingress", "done"},
         p # "done" => Hardware(c[1]),
         phase' = [phase EXCEPT ![c] = p],
         Tables',
         \A d \in Connections : d # c =>
           drivers'[d] = drivers[d] /\ consumers'[Back(d)] = consumers[Back(d)],
         drivers'[c] = IF p = "egress" THEN OpenArray(c)
                       ELSE IF p = "lanes" THEN DataArray(c) ELSE FullArray(c),
         consumers'[Back(c)] = IF p = "done" THEN ReturnPorts(c) \cup DataPorts(c)
                               ELSE IF p = "ingress" THEN ReturnPorts(c) ELSE {},
         \A d \in Connections : \A x \in packetizers'[d] :
           x \in packetizers[d] \/ IsEndOf(d, x),
         switches \subseteq switches',
         Hardware(c[1]) => \A v \in DOMAIN lanes[Back(c)] : <<Back(c), v>> \in switches'
  PROVE  GInv'
<1>1. IInv'
  BY StepInv DEF GInv
<1>2. Feasible(lanes, platformType)'
  BY DEF GInv, Feasible, ToCPU, vars
<1>3. DOMAIN phase = Connections /\ phase'[c] = p /\ \A d \in Connections : d # c => phase'[d] = phase[d]
  BY DEF GInv, Tables
<1>4. Phased'
  BY <1>3, SameStructures DEF GInv, Phased
<1>5. ASSUME NEW d \in Connections
      PROVE  drivers'[d] = DriversAt(d)' /\ consumers'[Back(d)] = ConsumersAt(d)'
  <2>1. CASE d = c
    BY <1>3, <2>1, SameStructures DEF DriversAt, ConsumersAt
  <2>2. CASE d # c
    <3>1. drivers'[d] = DriversAt(d) /\ consumers'[Back(d)] = ConsumersAt(d)
      BY <2>2 DEF GInv, Wired
    <3>2. QED
      BY <1>3, <2>2, <3>1, SameStructures DEF DriversAt, ConsumersAt
  <2>3. QED
    BY <2>1, <2>2
<1>6. ASSUME NEW d \in Connections, NEW x \in packetizers'[d]
      PROVE  IsEndOf(d, x)'
  <2>1. IsEndOf(d, x)
    BY DEF GInv, Wired
  <2>2. PICK y \in DataLinksOf(d) :
          \/ Hardware(d[1]) /\ x = SendEnd(d, y)
          \/ Hardware(d[2]) /\ x = ReceiveEnd(d, y)
    BY <2>1 DEF IsEndOf
  <2>3. /\ y \in DataLinksOf(d)' /\ Hardware(d[1])' = Hardware(d[1]) /\ Hardware(d[2])' = Hardware(d[2])
        /\ SendEnd(d, y)' = SendEnd(d, y) /\ ReceiveEnd(d, y)' = ReceiveEnd(d, y)
    BY SameStructures
  <2>4. QED
    BY <2>2, <2>3 DEF IsEndOf
<1>7. ASSUME NEW d \in Connections, Hardware(d[1])', phase'[d] # "start",
             NEW v \in DOMAIN lanes'[Back(d)]
      PROVE  <<Back(d), v>> \in switches'
  <2>1. lanes' = lanes /\ Hardware(d[1])
    BY <1>7, SameStructures DEF vars
  <2>2. CASE d = c
    BY <2>1, <2>2
  <2>3. CASE d # c
    BY <1>3, <1>7, <2>1, <2>3 DEF GInv, Wired
  <2>4. QED
    BY <2>2, <2>3
<1>8. Wired'
  BY <1>5, <1>6, <1>7, SameStructures DEF Wired, Back
<1>9. QED
  BY <1>1, <1>2, <1>4, <1>8 DEF GInv

\* What the two ends of a lane are built from.
LEMMA EndsAre ==
  ASSUME FlowControlAssumption, IInv, Analyzed, NEW c \in Connections
  PROVE  /\ logicalEgress[c] = logicalIngress[c] /\ DOMAIN logicalEgress[c] = DOMAIN lanes[c]
         /\ \A v \in DOMAIN lanes[c] :
              /\ logicalEgress[c][v] = LaneEnd(c, v)
              /\ logicalEgress[c][v].links = egressLinks[c][v]
              /\ logicalEgress[c][v].fcVia = fcAssignment[Back(c)][v].via
              /\ logicalEgress[c][v].fcLink = fcAssignment[Back(c)][v].link
<1>1. /\ logicalEgress[c] = Ends(c) /\ logicalIngress[c] = Ends(c)
      /\ DOMAIN Ends(c) = DOMAIN lanes[c]
      /\ \A v \in DOMAIN lanes[c] : Ends(c)[v] = LaneEnd(c, v)
  BY Settled
<1>2. \A v : /\ LaneEnd(c, v).links = egressLinks[c][v]
             /\ LaneEnd(c, v).fcVia = fcAssignment[Back(c)][v].via
             /\ LaneEnd(c, v).fcLink = fcAssignment[Back(c)][v].link
  BY DEF LaneEnd, LinksOn, ReturnOf
<1>3. QED
  BY <1>1, <1>2

\* All lanes have links.
LEMMA AllLanesUsed ==
  ASSUME FlowControlAssumption, RouterAssumption, IInv, Analyzed, NEW c \in Connections
  PROVE  Used(logicalEgress[c]) = DOMAIN lanes[c] /\ Used(logicalIngress[c]) = DOMAIN lanes[c]
<1>1. /\ logicalEgress[c] = logicalIngress[c] /\ DOMAIN logicalEgress[c] = DOMAIN lanes[c]
      /\ \A v \in DOMAIN lanes[c] : logicalEgress[c][v].links > 0
  BY Settled, EndsAre
<1>2. QED
  BY <1>1 DEF Used

\* The switches of the lanes that come in, and an array for those that go out.
LEMMA LaySwitchesInv ==
  ASSUME FlowControlAssumption, RouterAssumption, GInv, NEW c \in Connections, LaySwitches(c)
  PROVE  GInv'
<1> DEFINE b == Back(c)
<1>1. b \in Connections
  BY BackOfBack
<1>2. /\ Hardware(c[1]) /\ Analyzed /\ UNCHANGED <<vars, consumers, packetizers>>
      /\ phase' = [phase EXCEPT ![c] = "egress"] /\ phase[c] = "start"
      /\ switches' = switches \cup {<<b, v>> : v \in Used(logicalIngress[b])}
      /\ drivers' = [drivers EXCEPT ![c] =
           [v \in DOMAIN logicalEgress[c] |-> [k \in 0..(logicalEgress[c][v].links - 1) |-> Open]]]
  BY DEF LaySwitches, Turn
<1>3. Tables'
  BY <1>2 DEF GInv, Tables
<1>4. /\ DOMAIN logicalEgress[c] = DOMAIN lanes[c]
      /\ \A v \in DOMAIN lanes[c] : logicalEgress[c][v].links = egressLinks[c][v]
  BY <1>2, EndsAre DEF GInv
<1>5. drivers'[c] = OpenArray(c) /\ \A d \in Connections : d # c => drivers'[d] = drivers[d]
  BY <1>2, <1>4 DEF GInv, Tables, OpenArray
<1>6. consumers'[b] = {}
  BY <1>2 DEF GInv, Wired, ConsumersAt
<1>7. /\ switches \subseteq switches'
      /\ \A v \in DOMAIN lanes[b] : <<b, v>> \in switches'
  BY <1>1, <1>2, AllLanesUsed DEF GInv
<1>8. QED
  BY <1>2, <1>3, <1>5, <1>6, <1>7, StepOf

\* The data links get their drivers and packetizers.
LEMMA LayEgressInv ==
  ASSUME FlowControlAssumption, GInv, NEW c \in Connections, LayEgress(c)
  PROVE  GInv'
<1>1. /\ UNCHANGED <<vars, switches, consumers>>
      /\ phase' = [phase EXCEPT ![c] = "lanes"] /\ phase[c] = "egress"
      /\ drivers' = [drivers EXCEPT ![c] = [v \in DOMAIN drivers[c] |->
           [k \in DOMAIN drivers[c][v] |->
              IF k < DataLinks(c, v) THEN Data(v, k) ELSE drivers[c][v][k]]]]
      /\ packetizers' = [packetizers EXCEPT ![c] = packetizers[c] \cup
           {Packetizer(d[1], d[2], "send",
              SendAs(lanes[c][d[1]].bits[d[2] + 1], logicalEgress[c][d[1]], platformType[c[2]]))
            : d \in DataLinksOf(c)}]
  BY DEF LayEgress
<1>2. Hardware(c[1]) /\ Analyzed
  BY <1>1 DEF GInv, Phased
<1>3. Tables'
  BY <1>1 DEF GInv, Tables
<1>4. drivers[c] = OpenArray(c)
  BY <1>1 DEF GInv, Wired, DriversAt
<1>5. drivers'[c] = DataArray(c) /\ \A d \in Connections : d # c => drivers'[d] = drivers[d]
  BY <1>1, <1>4 DEF GInv, Tables, OpenArray, DataArray
<1>6. consumers'[Back(c)] = {}
  BY <1>1 DEF GInv, Wired, ConsumersAt
<1>7. ASSUME NEW d \in Connections, NEW x \in packetizers'[d]
      PROVE  x \in packetizers[d] \/ IsEndOf(d, x)
  <2>1. CASE d # c
    BY <1>1, <2>1 DEF GInv, Tables
  <2>2. CASE d = c /\ x \notin packetizers[c]
    <3>1. PICK y \in DataLinksOf(c) : x = Packetizer(y[1], y[2], "send",
            SendAs(lanes[c][y[1]].bits[y[2] + 1], logicalEgress[c][y[1]], platformType[c[2]]))
      BY <1>1, <2>2 DEF GInv, Tables
    <3>2. logicalEgress[c][y[1]] = LaneEnd(c, y[1])
      BY <1>2, EndsAre, DataLinksAre DEF GInv
    <3>3. x = SendEnd(c, y)
      BY <3>1, <3>2 DEF SendEnd
    <3>4. Hardware(d[1]) /\ x = SendEnd(d, y) /\ y \in DataLinksOf(d)
      BY <1>2, <2>2, <3>3
    <3>5. QED
      BY <3>4 DEF IsEndOf
  <2>3. QED
    BY <2>1, <2>2
<1>8. \A v \in DOMAIN lanes[Back(c)] : <<Back(c), v>> \in switches'
  BY <1>1, <1>2 DEF GInv, Wired
<1>9. QED
  BY <1>1, <1>2, <1>3, <1>5, <1>6, <1>7, <1>8, StepOf

\* Every return has its driver, every lane its port for the credits.
LEMMA LayLanesInv ==
  ASSUME FlowControlAssumption, RouterAssumption, GInv, NEW c \in Connections, LayLanes(c)
  PROVE  GInv'
<1> DEFINE b == Back(c)
<1>1. /\ UNCHANGED <<vars, switches, packetizers>>
      /\ phase' = [phase EXCEPT ![c] = "ingress"] /\ phase[c] = "lanes"
      /\ drivers' = [drivers EXCEPT ![c] = [v \in DOMAIN drivers[c] |->
           [k \in DOMAIN drivers[c][v] |->
              IF ReturnSlots(c, v, k) = {} THEN drivers[c][v][k]
              ELSE Credits(Max(ReturnSlots(c, v, k)))]]]
      /\ consumers' = [consumers EXCEPT ![b] = consumers[b] \cup
           {[via |-> logicalEgress[c][v].fcVia, link |-> logicalEgress[c][v].fcLink, to |-> Credits(v)]
            : v \in Used(logicalEgress[c])}]
  BY DEF LayLanes
<1>2. Hardware(c[1]) /\ Analyzed
  BY <1>1 DEF GInv, Phased
<1>3. Tables'
  BY <1>1 DEF GInv, Tables
<1>4. b \in Connections /\ Back(b) = c /\ \A d \in Connections : d # c => Back(d) # b
  BY BackOfBack
<1>5. drivers[c] = DataArray(c)
  BY <1>1 DEF GInv, Wired, DriversAt
<1>6. ASSUME NEW v \in DOMAIN lanes[c], NEW k \in 0..(egressLinks[c][v] - 1)
      PROVE  (IF ReturnSlots(c, v, k) = {} THEN DataArray(c)[v][k]
              ELSE Credits(Max(ReturnSlots(c, v, k))))
               = FullArray(c)[v][k]
  <2>1. /\ DataArray(c)[v][k] = IF k < DataLinks(c, v) THEN Data(v, k) ELSE Open
        /\ FullArray(c)[v][k] = IF k < DataLinks(c, v) THEN Data(v, k) ELSE Credits(TheReturn(c, v, k))
    BY DEF DataArray, FullArray
  <2>2. k \in Nat /\ k < egressLinks[c][v] /\ DataLinks(c, v) \in Nat
    BY <1>2, Settled DEF GInv
  <2>3. \A u : u \in ReturnSlots(c, v, k) <=>
                u \in DOMAIN fcAssignment[c] /\ fcAssignment[c][u].via = v /\ fcAssignment[c][u].link = k
    <3>1. /\ DOMAIN logicalIngress[b] = DOMAIN lanes[b] /\ DOMAIN fcAssignment[c] = DOMAIN lanes[b]
          /\ \A u \in DOMAIN lanes[b] : /\ logicalIngress[b][u].fcVia = fcAssignment[c][u].via
                                       /\ logicalIngress[b][u].fcLink = fcAssignment[c][u].link
      BY <1>2, <1>4, EndsAre, ReturnsSettled DEF GInv
    <3>2. QED
      BY <3>1 DEF ReturnSlots
  <2>4. CASE k < DataLinks(c, v)
    <3>1. ASSUME NEW u \in ReturnSlots(c, v, k)
          PROVE  FALSE
      <4>1. fcAssignment[c][u].via = v /\ fcAssignment[c][u].link = k /\ u \in DOMAIN fcAssignment[c]
        BY <2>3
      <4>2. DataLinks(c, v) <= k
        BY <1>2, <4>1, ReturnsSettled DEF GInv
      <4>3. QED
        BY <2>2, <2>4, <4>2
    <3>2. ReturnSlots(c, v, k) = {}
      BY <3>1
    <3>3. QED
      BY <2>1, <2>4, <3>2
  <2>5. CASE ~(k < DataLinks(c, v))
    <3> DEFINE r == TheReturn(c, v, k)
    <3>1. r \in ReturnSlots(c, v, k)
      BY <1>2, <2>2, <2>3, <2>5, ReturnsSettled DEF GInv
    <3>2. \A u \in ReturnSlots(c, v, k) : u = r
      BY <1>2, <2>3, ReturnsSettled DEF GInv
    <3>3. r \in Nat
      <4>1. r \in DOMAIN lanes[b]
        BY <1>2, <2>3, <3>1, ReturnsSettled DEF GInv
      <4>2. QED
        BY <1>2, <1>4, <4>1, Settled DEF GInv
    <3> HIDE DEF r
    <3>4. ReturnSlots(c, v, k) = {r}
      BY <3>1, <3>2
    <3>5. Max({r}) = r
      BY <3>3 DEF Max
    <3>6. QED
      BY <2>1, <2>5, <3>4, <3>5 DEF r
  <2>6. QED
    BY <2>4, <2>5
<1>7. drivers'[c] = FullArray(c) /\ \A d \in Connections : d # c => drivers'[d] = drivers[d]
  <2>1. /\ DOMAIN DataArray(c) = DOMAIN lanes[c]
        /\ \A v \in DOMAIN lanes[c] : DOMAIN DataArray(c)[v] = 0..(egressLinks[c][v] - 1)
    BY DEF DataArray
  <2>2. FullArray(c) = [v \in DOMAIN lanes[c] |-> [k \in 0..(egressLinks[c][v] - 1) |-> FullArray(c)[v][k]]]
    BY DEF FullArray
  <2>3. drivers'[c] = [v \in DOMAIN lanes[c] |-> [k \in 0..(egressLinks[c][v] - 1) |->
                         IF ReturnSlots(c, v, k) = {} THEN DataArray(c)[v][k]
                         ELSE Credits(Max(ReturnSlots(c, v, k)))]]
    BY <1>1, <1>5, <2>1 DEF GInv, Tables
  <2>4. drivers'[c] = FullArray(c)
    BY <1>6, <2>2, <2>3
  <2>5. QED
    BY <1>1, <2>4 DEF GInv, Tables
<1>8. consumers'[b] = ReturnPorts(c) /\ \A d \in Connections : d # c => consumers'[Back(d)] = consumers[Back(d)]
  <2>1. consumers[b] = {}
    BY <1>1 DEF GInv, Wired, ConsumersAt
  <2>2. /\ Used(logicalEgress[c]) = DOMAIN lanes[c]
        /\ \A v \in DOMAIN lanes[c] : /\ logicalEgress[c][v].fcVia = fcAssignment[b][v].via
                                     /\ logicalEgress[c][v].fcLink = fcAssignment[b][v].link
    BY <1>2, AllLanesUsed, EndsAre DEF GInv
  <2>3. consumers'[b] = {[via |-> logicalEgress[c][v].fcVia, link |-> logicalEgress[c][v].fcLink,
                          to |-> Credits(v)] : v \in DOMAIN lanes[c]}
    BY <1>1, <1>4, <2>1, <2>2 DEF GInv, Tables
  <2>4. consumers'[b] = ReturnPorts(c)
    BY <2>2, <2>3 DEF ReturnPorts
  <2>5. QED
    BY <1>1, <1>4, <2>4 DEF GInv, Tables
<1>9. \A v \in DOMAIN lanes[b] : <<b, v>> \in switches'
  BY <1>1, <1>2 DEF GInv, Wired
<1>10. QED
  BY <1>1, <1>2, <1>3, <1>7, <1>8, <1>9, StepOf

\* The data that comes in has its consumers and packetizers.
LEMMA LayIngressInv ==
  ASSUME FlowControlAssumption, GInv, NEW c \in Connections, LayIngress(c)
  PROVE  GInv'
<1> DEFINE b == Back(c)
<1>1. /\ UNCHANGED <<vars, switches, drivers>>
      /\ phase' = [phase EXCEPT ![c] = "done"] /\ phase[c] = "ingress"
      /\ consumers' = [consumers EXCEPT ![b] = consumers[b] \cup
           {[via |-> d[1], link |-> d[2], to |-> Data(d[1], d[2])] : d \in DataLinksOf(b)}]
      /\ packetizers' = [packetizers EXCEPT ![b] = packetizers[b] \cup
           {Packetizer(d[1], d[2], "receive",
              ReceiveAs(lanes[b][d[1]].bits[d[2] + 1], logicalIngress[b][d[1]],
                        lanes[b][d[1]].width, platformType[c[2]]))
            : d \in DataLinksOf(b)}]
  BY DEF LayIngress
<1>2. Hardware(c[1]) /\ Analyzed
  BY <1>1 DEF GInv, Phased
<1>3. Tables'
  BY <1>1 DEF GInv, Tables
<1>4. /\ b \in Connections /\ Back(b) = c /\ b[1] = c[2] /\ b[2] = c[1]
      /\ \A d \in Connections : d # c => Back(d) # b
  BY BackOfBack DEF Back
<1>5. drivers'[c] = FullArray(c)
  BY <1>1 DEF GInv, Wired, DriversAt
<1>6. consumers'[b] = ReturnPorts(c) \cup DataPorts(c)
  <2>1. consumers[b] = ReturnPorts(c)
    BY <1>1 DEF GInv, Wired, ConsumersAt
  <2>2. QED
    BY <1>1, <1>4, <2>1 DEF GInv, Tables, DataPorts
<1>7. ASSUME NEW d \in Connections, NEW x \in packetizers'[d]
      PROVE  x \in packetizers[d] \/ IsEndOf(d, x)
  <2>1. CASE d # b
    BY <1>1, <2>1 DEF GInv, Tables
  <2>2. CASE d = b /\ x \notin packetizers[b]
    <3>1. PICK y \in DataLinksOf(b) : x = Packetizer(y[1], y[2], "receive",
            ReceiveAs(lanes[b][y[1]].bits[y[2] + 1], logicalIngress[b][y[1]],
                      lanes[b][y[1]].width, platformType[c[2]]))
      BY <1>1, <2>2 DEF GInv, Tables
    <3>2. logicalIngress[b][y[1]] = LaneEnd(b, y[1])
      BY <1>2, <1>4, EndsAre, DataLinksAre DEF GInv
    <3>3. x = ReceiveEnd(b, y)
      BY <1>4, <3>1, <3>2 DEF ReceiveEnd
    <3>4. Hardware(d[2]) /\ x = ReceiveEnd(d, y) /\ y \in DataLinksOf(d)
      BY <1>2, <1>4, <2>2, <3>3
    <3>5. QED
      BY <3>4 DEF IsEndOf
  <2>3. QED
    BY <2>1, <2>2
<1>8. \A v \in DOMAIN lanes[b] : <<b, v>> \in switches'
  BY <1>1, <1>2 DEF GInv, Wired
<1>9. \A d \in Connections : d # c => drivers'[d] = drivers[d] /\ consumers'[Back(d)] = consumers[Back(d)]
  BY <1>1, <1>4 DEF GInv, Tables
<1>10. QED
  BY <1>1, <1>2, <1>3, <1>5, <1>6, <1>7, <1>8, <1>9, StepOf

\* A connection from or to a processor: one lane each way, with one return.
LEMMA OneLane ==
  ASSUME FlowControlAssumption, IInv, Analyzed, Feasible(lanes, platformType),
         NEW c \in Connections, "CPU" \in {platformType[c[1]], platformType[c[2]]}
  PROVE  /\ DOMAIN lanes[c] = {1} /\ DOMAIN lanes[Back(c)] = {1}
         /\ DataLinks(c, 1) \in Nat /\ egressLinks[c][1] = DataLinks(c, 1) + 1
         /\ fcAssignment[c][1].via = 1 /\ fcAssignment[c][1].link = DataLinks(c, 1)
         /\ DataLinksOf(c) = {<<1, k>> : k \in 0..(DataLinks(c, 1) - 1)}
<1>1. ASSUME NEW d \in Connections, "CPU" \in {platformType[d[1]], platformType[d[2]]}
      PROVE  DOMAIN lanes[d] = {1}
  <2>1. Len(lanes[d]) = 1
    BY <1>1 DEF Feasible, ToCPU
  <2>2. lanes[d] \in LaneChoices
    BY Settled
  <2>3. DOMAIN lanes[d] = 1..1
    BY <2>1, <2>2, LanesAreSeq
  <2>4. QED
    BY <2>3
<1>2. DOMAIN lanes[c] = {1}
  BY <1>1
<1>3. DOMAIN lanes[Back(c)] = {1}
  <2>1. Back(c) \in Connections /\ Back(c)[1] = c[2] /\ Back(c)[2] = c[1]
    BY BackOfBack DEF Back
  <2>2. QED
    BY <1>1, <2>1
<1> DEFINE n == DataLinks(c, 1)
           m == egressLinks[c][1]
           r == fcAssignment[c][1]
<1>4. n \in Nat /\ m \in Nat
  BY <1>2, Settled
<1>5. /\ r.via = 1 /\ r.link \in Nat /\ n <= r.link /\ r.link < m
      /\ \A k \in Nat : n <= k /\ k < m => r.link = k
  <2>1. DOMAIN fcAssignment[c] = {1} /\ r.via \in {1} /\ r.link \in Nat
    BY <1>2, <1>3, ReturnsSettled
  <2>2. n <= r.link /\ r.link < m
    BY <2>1, ReturnsSettled
  <2>3. \A k \in Nat : n <= k /\ k < m => r.link = k
    BY <1>2, <2>1, ReturnsSettled
  <2>4. QED
    BY <2>1, <2>2, <2>3
<1>6. m = n + 1 /\ r.link = n
  <2> HIDE DEF n, m, r
  <2>1. r.link = n
    BY <1>4, <1>5
  <2>2. ~(m > n + 1)
    <3>1. SUFFICES ASSUME m > n + 1 PROVE FALSE
      OBVIOUS
    <3>2. n + 1 \in Nat /\ n <= n + 1 /\ n + 1 < m
      BY <1>4, <3>1
    <3>3. QED
      BY <1>4, <1>5, <2>1, <3>2
  <2>3. QED
    BY <1>4, <1>5, <2>1, <2>2
<1>7. DataLinksOf(c) = {<<1, k>> : k \in 0..(n - 1)}
  BY <1>2 DEF DataLinksOf
<1>8. QED
  BY <1>2, <1>3, <1>4, <1>5, <1>6, <1>7

\* A vector with an entry for each of n + 1 indices has n + 1 entries.
LEMMA EntriesAre ==
  ASSUME NEW n \in Nat, NEW E, NEW w,
         \A k \in 0..n : [link |-> k, what |-> w[k]] \in E,
         \A e \in E : \E k \in 0..n : e = [link |-> k, what |-> w[k]]
  PROVE  Cardinality(E) = n + 1
<1> DEFINE Entry(k) == [link |-> k, what |-> w[k]]
           f == [k \in 0..n |-> Entry(k)]
<1>1. \A k \in 0..n : Entry(k) \in E
  OBVIOUS
<1>2. \A k, j : Entry(k) = Entry(j) => k = j
  <2>1. \A k : Entry(k).link = k
    OBVIOUS
  <2>2. QED
    BY <2>1
<1>3. f \in Bijection(0..n, E)
  <2>1. f \in [0..n -> E]
    BY <1>1
  <2>2. \A k, j \in 0..n : f[k] = f[j] => k = j
    BY <1>2
  <2>3. \A e \in E : \E k \in 0..n : f[k] = e
    OBVIOUS
  <2>4. QED
    BY <2>1, <2>2, <2>3 DEF Bijection, Injection, Surjection, IsInjective
<1>4. IsFiniteSet(0..n) /\ Cardinality(0..n) = n + 1
  BY FS_Interval
<1>5. QED
  BY <1>3, <1>4, FS_Bijection DEF ExistsBijection

\* Entries and ports for the links of the only lane.
LEMMA FromPairs ==
  ASSUME NEW n, NEW S, S = {<<1, k>> : k \in 0..(n - 1)}
  PROVE  /\ {[link |-> d[2], what |-> Data(d[1], d[2])] : d \in S}
              = {[link |-> k, what |-> Data(1, k)] : k \in 0..(n - 1)}
         /\ {[via |-> d[1], link |-> d[2], to |-> Data(d[1], d[2])] : d \in S}
              = {[via |-> 1, link |-> k, to |-> Data(1, k)] : k \in 0..(n - 1)}
         /\ {[via |-> 1, link |-> e.link, to |-> e.what] :
                e \in {[link |-> d[2], what |-> Data(d[1], d[2])] : d \in S}}
              = {[via |-> 1, link |-> k, to |-> Data(1, k)] : k \in 0..(n - 1)}
<1>1. \A d \in S : \E k \in 0..(n - 1) : d[1] = 1 /\ d[2] = k
  OBVIOUS
<1>2. \A k \in 0..(n - 1) : \E d \in S : d[1] = 1 /\ d[2] = k
  <2>1. \A k \in 0..(n - 1) : <<1, k>> \in S /\ <<1, k>>[1] = 1 /\ <<1, k>>[2] = k
    OBVIOUS
  <2>2. QED
    BY <2>1
<1>3. /\ {[link |-> d[2], what |-> Data(d[1], d[2])] : d \in S}
            = {[link |-> k, what |-> Data(1, k)] : k \in 0..(n - 1)}
      /\ {[via |-> d[1], link |-> d[2], to |-> Data(d[1], d[2])] : d \in S}
            = {[via |-> 1, link |-> k, to |-> Data(1, k)] : k \in 0..(n - 1)}
  BY <1>1, <1>2
<1>4. {[via |-> 1, link |-> e.link, to |-> e.what] :
         e \in {[link |-> k, what |-> Data(1, k)] : k \in 0..(n - 1)}}
        = {[via |-> 1, link |-> k, to |-> Data(1, k)] : k \in 0..(n - 1)}
  <2> DEFINE E == {[link |-> k, what |-> Data(1, k)] : k \in 0..(n - 1)}
  <2>1. \A e \in E : \E k \in 0..(n - 1) : e.link = k /\ e.what = Data(1, k)
    OBVIOUS
  <2>2. \A k \in 0..(n - 1) : \E e \in E : e.link = k /\ e.what = Data(1, k)
    <3>1. \A k \in 0..(n - 1) : [link |-> k, what |-> Data(1, k)] \in E
      OBVIOUS
    <3> HIDE DEF E
    <3>2. QED
      BY <3>1
  <2> HIDE DEF E
  <2>3. {[via |-> 1, link |-> e.link, to |-> e.what] : e \in E}
          = {[via |-> 1, link |-> k, to |-> Data(1, k)] : k \in 0..(n - 1)}
    BY <2>1, <2>2
  <2>4. QED
    BY <2>3 DEF E
<1>5. QED
  BY <1>3, <1>4

\* Software writes everything at once.
LEMMA LaySoftwareInv ==
  ASSUME FlowControlAssumption, GInv, NEW c \in Connections, LaySoftware(c)
  PROVE  GInv'
<1> DEFINE b == Back(c)
           n == DataLinks(c, 1)
<1>1. /\ UNCHANGED <<vars, switches, packetizers>> /\ Analyzed
      /\ platformType[c[1]] = "CPU" /\ phase[c] = "start"
      /\ phase' = [phase EXCEPT ![c] = "done"]
      /\ drivers' = [drivers EXCEPT ![c] = <<[k \in 0..(VectorSize(Outgoing(c)) - 1) |->
           IF \E e \in Outgoing(c) : e.link = k
           THEN (CHOOSE e \in Outgoing(c) : e.link = k).what ELSE Open]>>]
      /\ consumers' = [consumers EXCEPT ![b] = consumers[b] \cup
           {[via |-> 1, link |-> e.link, to |-> e.what] : e \in Incoming(c)}]
  BY DEF LaySoftware, Turn
<1>2. Tables'
  BY <1>1 DEF GInv, Tables
<1>3. /\ b \in Connections /\ Back(b) = c /\ b[1] = c[2] /\ b[2] = c[1]
      /\ \A d \in Connections : d # c => Back(d) # b
  BY BackOfBack DEF Back
<1>4. /\ DOMAIN lanes[c] = {1} /\ DOMAIN lanes[b] = {1}
      /\ n \in Nat /\ egressLinks[c][1] = n + 1
      /\ fcAssignment[c][1].via = 1 /\ fcAssignment[c][1].link = n
      /\ DataLinksOf(c) = {<<1, k>> : k \in 0..(n - 1)}
  BY <1>1, OneLane DEF GInv
<1>5. /\ fcAssignment[b][1].via = 1
      /\ DataLinksOf(b) = {<<1, k>> : k \in 0..(DataLinks(b, 1) - 1)}
  BY <1>1, <1>3, OneLane DEF GInv
<1>6. drivers'[c] = FullArray(c) /\ \A d \in Connections : d # c => drivers'[d] = drivers[d]
  <2> DEFINE w == FullArray(c)[1]
  <2>1. w = [k \in 0..n |-> IF k < n THEN Data(1, k) ELSE Credits(TheReturn(c, 1, k))]
    <3>1. (n + 1) - 1 = n
      BY <1>4
    <3>2. QED
      BY <1>4, <3>1 DEF FullArray
  <2>2. TheReturn(c, 1, n) = 1
    <3>1. 1 \in DOMAIN fcAssignment[c]
      BY <1>1, <1>4, ReturnsSettled DEF GInv
    <3>2. QED
      BY <1>1, <1>4, <3>1, ReturnsSettled DEF GInv
  <2>3. \A e : e \in Outgoing(c) <=>
          \/ e = [link |-> n, what |-> Credits(1)]
          \/ \E k \in 0..(n - 1) : e = [link |-> k, what |-> Data(1, k)]
    <3>1. logicalIngress[b][1].fcLink = n
      BY <1>1, <1>3, <1>4, EndsAre DEF GInv
    <3>2. {[link |-> logicalIngress[b][u].fcLink, what |-> Credits(u)] : u \in DOMAIN lanes[b]}
            = {[link |-> n, what |-> Credits(1)]}
      BY <1>4, <3>1
    <3>3. {[link |-> d[2], what |-> Data(d[1], d[2])] : d \in DataLinksOf(c)}
            = {[link |-> k, what |-> Data(1, k)] : k \in 0..(n - 1)}
      BY <1>4, FromPairs
    <3>4. QED
      BY <3>2, <3>3 DEF Outgoing
  <2>4. /\ \A k \in 0..n : [link |-> k, what |-> w[k]] \in Outgoing(c)
        /\ \A e \in Outgoing(c) : \E k \in 0..n : e = [link |-> k, what |-> w[k]]
    <3>1. \A k \in 0..(n - 1) : k \in 0..n /\ w[k] = Data(1, k)
      BY <1>4, <2>1
    <3>2. n \in 0..n /\ w[n] = Credits(1)
      BY <1>4, <2>1, <2>2
    <3>3. \A k \in 0..n : k = n \/ k \in 0..(n - 1)
      BY <1>4
    <3> HIDE DEF n, w
    <3>4. QED
      BY <2>3, <3>1, <3>2, <3>3
  <2> HIDE DEF w
  <2>5. /\ VectorSize(Outgoing(c)) - 1 = n
        /\ \A k \in 0..n : /\ \E e \in Outgoing(c) : e.link = k
                           /\ (CHOOSE e \in Outgoing(c) : e.link = k).what = w[k]
    <3>1. /\ Cardinality(Outgoing(c)) = n + 1
          /\ \A k \in 0..n : /\ \E e \in Outgoing(c) : e.link = k
                             /\ \A e \in Outgoing(c) : e.link = k => e.what = w[k]
      <4> DEFINE E == Outgoing(c)
      <4>1. n \in Nat
        BY <1>4
      <4>2. /\ \A k \in 0..n : [link |-> k, what |-> w[k]] \in E
            /\ \A e \in E : \E k \in 0..n : e = [link |-> k, what |-> w[k]]
        BY <2>4
      <4> HIDE DEF n, E
      <4>3. Cardinality(E) = n + 1
        BY <4>1, <4>2, EntriesAre
      <4>4. \A k \in 0..n : /\ \E e \in E : e.link = k
                            /\ \A e \in E : e.link = k => e.what = w[k]
        <5> SUFFICES ASSUME NEW k \in 0..n
                     PROVE  /\ \E e \in E : e.link = k
                            /\ \A e \in E : e.link = k => e.what = w[k]
          OBVIOUS
        <5> DEFINE entry == [link |-> k, what |-> w[k]]
        <5>1. entry \in E /\ entry.link = k /\ entry.what = w[k]
          BY <4>2
        <5>2. \A e \in E : e.link = k => e = entry
          BY <4>2
        <5>3. QED
          BY <5>1, <5>2
      <4>5. QED
        BY <4>3, <4>4 DEF E
    <3>2. QED
      BY <1>4, <3>1 DEF VectorSize
  <2>6. drivers'[c] = <<[k \in 0..n |-> w[k]]>>
    BY <1>1, <2>5 DEF GInv, Tables
  <2>7. drivers'[c] = <<w>>
    BY <2>1, <2>6 DEF w
  <2>8. FullArray(c) = <<w>>
    <3>1. FullArray(c) = [v \in 1..1 |-> w]
      BY <1>4 DEF FullArray, w
    <3>2. <<w>> = [v \in 1..1 |-> w]
      OBVIOUS
    <3>3. QED
      BY <3>1, <3>2
  <2>9. QED
    BY <1>1, <2>7, <2>8 DEF GInv, Tables
<1>7. consumers'[b] = ReturnPorts(c) \cup DataPorts(c)
  <2>1. consumers[b] = {}
    BY <1>1 DEF GInv, Wired, ConsumersAt
  <2>2. logicalEgress[c][1].fcLink = fcAssignment[b][1].link
    BY <1>1, <1>4, EndsAre DEF GInv
  <2>3. consumers'[b] = {[via |-> 1, link |-> e.link, to |-> e.what] : e \in Incoming(c)}
    BY <1>1, <1>3, <2>1 DEF GInv, Tables
  <2> DEFINE Here(S) == {[via |-> 1, link |-> e.link, to |-> e.what] : e \in S}
             R == {[link |-> logicalEgress[c][v].fcLink, what |-> Credits(v)] : v \in DOMAIN lanes[c]}
             D == {[link |-> d[2], what |-> Data(d[1], d[2])] : d \in DataLinksOf(b)}
  <2>4. Here(R) = ReturnPorts(c)
    <3>1. R = {[link |-> fcAssignment[b][1].link, what |-> Credits(1)]}
      BY <1>4, <2>2
    <3>2. ReturnPorts(c) = {[via |-> 1, link |-> fcAssignment[b][1].link, to |-> Credits(1)]}
      BY <1>4, <1>5 DEF ReturnPorts
    <3>3. \A e \in R : e.link = fcAssignment[b][1].link /\ e.what = Credits(1)
      BY <3>1
    <3>4. R # {}
      BY <3>1
    <3> HIDE DEF R
    <3>5. QED
      BY <3>2, <3>3, <3>4
  <2>5. Here(D) = DataPorts(c)
    <3>1. Here(D) = {[via |-> 1, link |-> k, to |-> Data(1, k)] : k \in 0..(DataLinks(b, 1) - 1)}
      BY <1>5, FromPairs
    <3>2. DataPorts(c) = {[via |-> 1, link |-> k, to |-> Data(1, k)] : k \in 0..(DataLinks(b, 1) - 1)}
      BY <1>5, FromPairs DEF DataPorts
    <3>3. QED
      BY <3>1, <3>2
  <2>6. Here(Incoming(c)) = Here(R) \cup Here(D)
    BY DEF Incoming
  <2>7. QED
    BY <2>3, <2>4, <2>5, <2>6
<1>8. \A d \in Connections : d # c => consumers'[Back(d)] = consumers[Back(d)]
  BY <1>1, <1>3 DEF GInv, Tables
<1>9. ~Hardware(c[1])
  BY <1>1 DEF Hardware
<1>10. QED
  BY <1>1, <1>2, <1>6, <1>7, <1>8, <1>9, StepOf

\* No router is begun before network analysis is complete.
LEMMA AnalyzeInv ==
  ASSUME FlowControlAssumption, GInv, Analyze
  PROVE  GInv'
<1>1. Next /\ UNCHANGED <<phase, switches, drivers, consumers, packetizers>>
  BY DEF Analyze, wiring
<1>2. IInv' /\ UNCHANGED <<platformType, lanes>>
  <2>1. UNCHANGED <<platformType, lanes>>
    BY <1>1 DEF Next, Begin, Assign, End, Finish
  <2>2. QED
    BY <1>1, <2>1, StepInv DEF GInv
<1>3. ~Analyzed
  BY <1>1, AnalysisIsOver DEF GInv
<1>4. \A c \in Connections : phase[c] = "start" /\ packetizers[c] = {}
  BY <1>3 DEF GInv, Phased, Wired
<1>5. \A c \in Connections : drivers[c] = <<>> /\ consumers[Back(c)] = {}
  BY <1>4 DEF GInv, Wired, DriversAt, ConsumersAt
<1>6. Feasible(lanes, platformType)' /\ Tables' /\ Phased'
  BY <1>1, <1>2, <1>4 DEF GInv, Feasible, ToCPU, Tables, Phased, Hardware
<1>7. Wired'
  BY <1>1, <1>4, <1>5 DEF Wired, DriversAt, ConsumersAt, Back
<1>8. QED
  BY <1>2, <1>6, <1>7 DEF GInv

\* Nothing happens.
LEMMA NothingInv ==
  ASSUME FlowControlAssumption, GInv, UNCHANGED allVars
  PROVE  GInv'
<1>1. UNCHANGED vars /\ UNCHANGED <<phase, switches, drivers, consumers, packetizers>>
  BY DEF allVars, wiring
<1>2. IInv'
  BY <1>1, StepInv DEF GInv
<1>3. Feasible(lanes, platformType)' /\ Tables' /\ Phased'
  BY <1>1, SameStructures DEF GInv, Feasible, ToCPU, Tables, Phased, vars
<1>4. \A c \in Connections : DriversAt(c)' = DriversAt(c) /\ ConsumersAt(c)' = ConsumersAt(c)
  BY <1>1, SameStructures DEF DriversAt, ConsumersAt
<1>5. \A c \in Connections : \A x : IsEndOf(c, x)' <=> IsEndOf(c, x)
  BY <1>1, SameStructures DEF IsEndOf
<1>6. Wired'
  <2>1. ASSUME NEW c \in Connections
        PROVE  /\ drivers'[c] = DriversAt(c)' /\ consumers'[Back(c)] = ConsumersAt(c)'
               /\ \A x \in packetizers'[c] : Analyzed' /\ IsEndOf(c, x)'
    BY <1>1, <1>4, <1>5, SameStructures DEF GInv, Wired
  <2>2. ASSUME NEW c \in Connections, Hardware(c[1])', phase'[c] # "start",
               NEW v \in DOMAIN lanes'[Back(c)]
        PROVE  <<Back(c), v>> \in switches'
    BY <1>1, <2>2, SameStructures DEF GInv, Wired, vars
  <2>3. QED
    BY <2>1, <2>2 DEF Wired, Back
<1>7. QED
  BY <1>2, <1>3, <1>6 DEF GInv

\* Before the first step nothing is written.
LEMMA GInitInv ==
  ASSUME FlowControlAssumption, GInit
  PROVE  GInv
<1>1. IInv /\ Feasible(lanes, platformType)
  BY InitInv DEF GInit, Init
<1>2. /\ phase = [c \in Connections |-> "start"] /\ drivers = [c \in Connections |-> <<>>]
      /\ consumers = [c \in Connections |-> {}] /\ packetizers = [c \in Connections |-> {}]
  BY DEF GInit
<1>3. Tables /\ Phased
  BY <1>2 DEF Tables, Phased
<1>4. Wired
  BY <1>2, BackOfBack DEF Wired, DriversAt, ConsumersAt
<1>5. QED
  BY <1>1, <1>3, <1>4 DEF GInv

\* Every step of network analysis or of a router keeps the invariant.
LEMMA GStepInv ==
  ASSUME FlowControlAssumption, RouterAssumption, GInv, [GNext]_allVars
  PROVE  GInv'
<1>1. CASE Analyze
  BY <1>1, AnalyzeInv
<1>2. ASSUME NEW c \in Connections,
             LaySwitches(c) \/ LayEgress(c) \/ LayLanes(c) \/ LayIngress(c) \/ LaySoftware(c)
      PROVE  GInv'
  BY <1>2, LaySwitchesInv, LayEgressInv, LayLanesInv, LayIngressInv, LaySoftwareInv
<1>3. CASE UNCHANGED allVars
  BY <1>3, NothingInv
<1>4. QED
  BY <1>1, <1>2, <1>3 DEF GNext

-----------------------------------------------------------------------------
(* What the invariant says of the routers.                                 *)

\* A router that is complete has all that was numbered for it.
LEMMA WhenDone ==
  ASSUME FlowControlAssumption, GInv, NEW c \in Connections, phase[c] = "done"
  PROVE  /\ Analyzed /\ drivers[c] = FullArray(c)
         /\ consumers[Back(c)] = ReturnPorts(c) \cup DataPorts(c)
BY DEF GInv, Phased, Wired, DriversAt, ConsumersAt

\* The arrays have their types.
LEMMA GInvTypes ==
  ASSUME FlowControlAssumption, GInv
  PROVE  GTypeOK
<1>1. TypeOK
  BY InvTypes DEF GInv
<1>2. ASSUME NEW c \in Connections
      PROVE  \A v \in DOMAIN drivers[c] : v \in DOMAIN lanes[c]
  <2>1. drivers[c] \in {<<>>, OpenArray(c), DataArray(c), FullArray(c)}
    BY DEF GInv, Wired, DriversAt
  <2>2. DOMAIN <<>> = {}
    OBVIOUS
  <2>3. /\ DOMAIN OpenArray(c) = DOMAIN lanes[c] /\ DOMAIN DataArray(c) = DOMAIN lanes[c]
        /\ DOMAIN FullArray(c) = DOMAIN lanes[c]
    BY DEF OpenArray, DataArray, FullArray
  <2>4. QED
    BY <2>1, <2>2, <2>3
<1>3. QED
  BY <1>1, <1>2 DEF GTypeOK, GInv, Phased

\* Every link has the driver it was numbered for.
LEMMA GInvDrives ==
  ASSUME FlowControlAssumption, GInv
  PROVE  NoLinkLeftOpen
<1> SUFFICES ASSUME NEW c \in Connections, phase[c] = "done", NEW v \in DOMAIN drivers[c]
             PROVE  /\ DOMAIN drivers[c][v] = 0..(logicalEgress[c][v].links - 1)
                    /\ \A k \in DOMAIN drivers[c][v] :
                         IF k < DataLinks(c, v) THEN drivers[c][v][k] = Data(v, k)
                         ELSE drivers[c][v][k].kind = "credits"
  BY DEF NoLinkLeftOpen
<1>1. drivers[c] = FullArray(c) /\ Analyzed
  BY WhenDone
<1>2. v \in DOMAIN lanes[c]
  BY <1>1 DEF FullArray
<1>3. drivers[c][v] = [k \in 0..(egressLinks[c][v] - 1) |->
                         IF k < DataLinks(c, v) THEN Data(v, k) ELSE Credits(TheReturn(c, v, k))]
  BY <1>1, <1>2 DEF FullArray
<1>4. logicalEgress[c][v].links = egressLinks[c][v]
  BY <1>1, <1>2, EndsAre DEF GInv
<1>5. \A u : Credits(u).kind = "credits"
  BY DEF Credits
<1>6. QED
  BY <1>3, <1>4, <1>5

\* What is put in comes out where it is waited for, and nowhere else.
LEMMA GInvMeets ==
  ASSUME FlowControlAssumption, GInv
  PROVE  WiresMeet
<1> SUFFICES ASSUME NEW c \in Connections, phase[c] = "done", phase[Back(c)] = "done",
                    NEW v \in DOMAIN drivers[c], NEW k \in DOMAIN drivers[c][v]
             PROVE  {x.to : x \in {y \in consumers[c] : y.via = v /\ y.link = k}} = {drivers[c][v][k]}
  BY DEF WiresMeet
<1> DEFINE b == Back(c)
           n == DataLinks(c, v)
<1>1. b \in Connections /\ Back(b) = c
  BY BackOfBack
<1>2. Analyzed /\ drivers[c] = FullArray(c)
  BY WhenDone
<1>3. v \in DOMAIN lanes[c]
  BY <1>2 DEF FullArray
<1>4. k \in 0..(egressLinks[c][v] - 1)
  BY <1>2, <1>3 DEF FullArray
<1>5. drivers[c][v][k] = IF k < n THEN Data(v, k) ELSE Credits(TheReturn(c, v, k))
  BY <1>2, <1>3, <1>4 DEF FullArray
<1>6. consumers[c] = ReturnPorts(b) \cup DataPorts(b)
  BY <1>1, WhenDone
<1>7. n \in Nat /\ egressLinks[c][v] \in Nat /\ k \in Nat /\ k < egressLinks[c][v]
  BY <1>2, <1>3, <1>4, Settled DEF GInv
<1>8. \A y : y \in DataPorts(b) <=>
        \E w \in DOMAIN lanes[c] : \E j \in 0..(DataLinks(c, w) - 1) :
          y = [via |-> w, link |-> j, to |-> Data(w, j)]
  <2>1. \A y : y \in DataPorts(b) <=>
          \E d \in DataLinksOf(c) : y = [via |-> d[1], link |-> d[2], to |-> Data(d[1], d[2])]
    BY <1>1 DEF DataPorts
  <2>2. ASSUME NEW y \in DataPorts(b)
        PROVE  \E w \in DOMAIN lanes[c] : \E j \in 0..(DataLinks(c, w) - 1) :
                 y = [via |-> w, link |-> j, to |-> Data(w, j)]
    <3>1. PICK d \in DataLinksOf(c) : y = [via |-> d[1], link |-> d[2], to |-> Data(d[1], d[2])]
      BY <2>1
    <3>2. PICK w \in DOMAIN lanes[c] : \E j \in 0..(DataLinks(c, w) - 1) : d = <<w, j>>
      BY DataLinksAre
    <3>3. PICK j \in 0..(DataLinks(c, w) - 1) : d = <<w, j>>
      BY <3>2
    <3>4. d[1] = w /\ d[2] = j
      BY <3>3
    <3>5. QED
      BY <3>1, <3>4
  <2>3. ASSUME NEW w \in DOMAIN lanes[c], NEW j \in 0..(DataLinks(c, w) - 1)
        PROVE  [via |-> w, link |-> j, to |-> Data(w, j)] \in DataPorts(b)
    <3>1. <<w, j>> \in DataLinksOf(c) /\ <<w, j>>[1] = w /\ <<w, j>>[2] = j
      BY DataLinksAre
    <3>2. QED
      BY <2>1, <3>1
  <2>4. QED
    BY <2>2, <2>3
<1>9. \A y : y \in ReturnPorts(b) <=>
        \E u \in DOMAIN fcAssignment[c] :
          y = [via |-> fcAssignment[c][u].via, link |-> fcAssignment[c][u].link, to |-> Credits(u)]
  <2>1. DOMAIN fcAssignment[c] = DOMAIN lanes[b]
    BY <1>2, ReturnsSettled DEF GInv
  <2>2. QED
    BY <1>1, <2>1 DEF ReturnPorts
<1>10. ASSUME NEW y \in DataPorts(b), y.via = v, y.link = k
       PROVE  k < n /\ y.to = Data(v, k)
  <2>1. PICK w \in DOMAIN lanes[c] : \E j \in 0..(DataLinks(c, w) - 1) :
          y = [via |-> w, link |-> j, to |-> Data(w, j)]
    BY <1>8
  <2>2. PICK j \in 0..(DataLinks(c, w) - 1) : y = [via |-> w, link |-> j, to |-> Data(w, j)]
    BY <2>1
  <2>3. w = v /\ j = k /\ y.to = Data(w, j)
    BY <1>10, <2>2
  <2>4. QED
    BY <1>7, <2>3
<1>11. ASSUME NEW y \in ReturnPorts(b), y.via = v, y.link = k
       PROVE  ~(k < n) /\ y.to = Credits(TheReturn(c, v, k))
  <2>1. PICK u \in DOMAIN fcAssignment[c] :
          y = [via |-> fcAssignment[c][u].via, link |-> fcAssignment[c][u].link, to |-> Credits(u)]
    BY <1>9
  <2>2. fcAssignment[c][u].via = v /\ fcAssignment[c][u].link = k /\ y.to = Credits(u)
    BY <1>11, <2>1
  <2>3. n <= k /\ TheReturn(c, v, k) = u
    BY <1>2, <2>2, ReturnsSettled DEF GInv
  <2>4. QED
    BY <1>7, <2>2, <2>3
<1>12. \E y \in consumers[c] : y.via = v /\ y.link = k
  <2>1. CASE k < n
    <3> DEFINE y == [via |-> v, link |-> k, to |-> Data(v, k)]
    <3>1. k \in 0..(n - 1)
      BY <1>7, <2>1
    <3>2. y \in DataPorts(b)
      BY <1>3, <1>8, <3>1
    <3>3. y.via = v /\ y.link = k
      OBVIOUS
    <3>4. QED
      BY <1>6, <3>2, <3>3
  <2>2. CASE ~(k < n)
    <3> DEFINE u == TheReturn(c, v, k)
               y == [via |-> fcAssignment[c][u].via, link |-> fcAssignment[c][u].link, to |-> Credits(u)]
    <3>1. n <= k
      BY <1>7, <2>2
    <3>2. u \in DOMAIN fcAssignment[c] /\ fcAssignment[c][u].via = v /\ fcAssignment[c][u].link = k
      BY <1>2, <1>3, <1>7, <3>1, ReturnsSettled DEF GInv
    <3>3. y \in ReturnPorts(b)
      BY <1>9, <3>2
    <3>4. y.via = v /\ y.link = k
      BY <3>2
    <3>5. QED
      BY <1>6, <3>3, <3>4
  <2>3. QED
    BY <2>1, <2>2
<1>13. \A y \in consumers[c] : y.via = v /\ y.link = k => y.to = drivers[c][v][k]
  BY <1>5, <1>6, <1>10, <1>11
<1>14. QED
  BY <1>12, <1>13

\* The two ends look at the same lane and know what the other is.
LEMMA GInvPackets ==
  ASSUME FlowControlAssumption, GInv
  PROVE  PacketizersFit
<1> SUFFICES ASSUME NEW c \in Connections, NEW x \in packetizers[c], NEW y \in packetizers[c],
                    x.via = y.via, x.link = y.link, x.side = "send", y.side = "receive"
             PROVE  <<x.type, y.type>> \in Compatible
  BY DEF PacketizersFit
<1>1. PICK d \in DataLinksOf(c) : \/ Hardware(c[1]) /\ x = SendEnd(c, d)
                                  \/ Hardware(c[2]) /\ x = ReceiveEnd(c, d)
  BY DEF GInv, Wired, IsEndOf
<1>2. PICK e \in DataLinksOf(c) : \/ Hardware(c[1]) /\ y = SendEnd(c, e)
                                  \/ Hardware(c[2]) /\ y = ReceiveEnd(c, e)
  BY DEF GInv, Wired, IsEndOf
<1>3. /\ SendEnd(c, d).side = "send" /\ SendEnd(c, d).via = d[1] /\ SendEnd(c, d).link = d[2]
      /\ ReceiveEnd(c, d).side = "receive"
  BY DEF SendEnd, ReceiveEnd, Packetizer
<1>4. /\ ReceiveEnd(c, e).side = "receive" /\ ReceiveEnd(c, e).via = e[1] /\ ReceiveEnd(c, e).link = e[2]
      /\ SendEnd(c, e).side = "send"
  BY DEF SendEnd, ReceiveEnd, Packetizer
<1>5. Hardware(c[1]) /\ x = SendEnd(c, d) /\ Hardware(c[2]) /\ y = ReceiveEnd(c, e)
  BY <1>1, <1>2, <1>3, <1>4
<1>6. d[1] = e[1] /\ d[2] = e[2]
  BY <1>3, <1>4, <1>5
<1>7. platformType[c[1]] # "CPU" /\ platformType[c[2]] # "CPU"
  BY <1>5 DEF Hardware
<1> DEFINE bits == lanes[c][d[1]].bits[d[2] + 1]
           end == LaneEnd(c, d[1])
<1>8. /\ x.type = SendAs(bits, end, platformType[c[2]])
      /\ y.type = ReceiveAs(bits, end, lanes[c][d[1]].width, platformType[c[1]])
  BY <1>5, <1>6 DEF SendEnd, ReceiveEnd, Packetizer
<1>9. QED
  BY <1>7, <1>8 DEF SendAs, ReceiveAs, Compatible

\* All lanes have an ingress switch.
LEMMA GInvSwitches ==
  ASSUME FlowControlAssumption, GInv
  PROVE  SwitchesExist
<1> SUFFICES ASSUME NEW c \in Connections, phase[c] = "done", Hardware(c[1])
             PROVE  /\ \A v \in DOMAIN drivers[c] : \A k \in DOMAIN drivers[c][v] :
                         drivers[c][v][k].kind = "credits" =>
                           <<Back(c), drivers[c][v][k].via>> \in switches
                    /\ \A x \in consumers[Back(c)] : <<Back(c), x.via>> \in switches
  BY DEF SwitchesExist
<1> DEFINE b == Back(c)
<1>1. b \in Connections /\ Back(b) = c
  BY BackOfBack
<1>2. /\ Analyzed /\ drivers[c] = FullArray(c)
      /\ consumers[b] = ReturnPorts(c) \cup DataPorts(c)
  BY WhenDone
<1>3. \A v \in DOMAIN lanes[b] : <<b, v>> \in switches
  BY DEF GInv, Wired
<1>4. ASSUME NEW v \in DOMAIN drivers[c], NEW k \in DOMAIN drivers[c][v],
             drivers[c][v][k].kind = "credits"
      PROVE  drivers[c][v][k].via \in DOMAIN lanes[b]
  <2>1. v \in DOMAIN lanes[c]
    BY <1>2 DEF FullArray
  <2>2. k \in 0..(egressLinks[c][v] - 1)
    BY <1>2, <2>1 DEF FullArray
  <2>3. drivers[c][v][k] = IF k < DataLinks(c, v) THEN Data(v, k) ELSE Credits(TheReturn(c, v, k))
    BY <1>2, <2>1, <2>2 DEF FullArray
  <2>4. ~(k < DataLinks(c, v)) /\ drivers[c][v][k].via = TheReturn(c, v, k)
    BY <1>4, <2>3 DEF Data, Credits
  <2>5. DataLinks(c, v) <= k /\ k < egressLinks[c][v] /\ k \in Nat
    BY <1>2, <2>1, <2>2, <2>4, Settled DEF GInv
  <2>6. TheReturn(c, v, k) \in DOMAIN fcAssignment[c] /\ DOMAIN fcAssignment[c] = DOMAIN lanes[b]
    BY <1>2, <2>1, <2>5, ReturnsSettled DEF GInv
  <2>7. QED
    BY <2>4, <2>6
<1>5. ASSUME NEW x \in ReturnPorts(c)
      PROVE  x.via \in DOMAIN lanes[b]
  <2>1. PICK u \in DOMAIN lanes[c] : x.via = fcAssignment[b][u].via
    BY DEF ReturnPorts
  <2>2. DOMAIN fcAssignment[b] = DOMAIN lanes[c]
    BY <1>1, <1>2, ReturnsSettled DEF GInv
  <2>3. QED
    BY <1>1, <1>2, <2>1, <2>2, ReturnsSettled DEF GInv
<1>6. ASSUME NEW x \in DataPorts(c)
      PROVE  x.via \in DOMAIN lanes[b]
  <2>1. PICK d \in DataLinksOf(b) : x.via = d[1]
    BY DEF DataPorts
  <2>2. QED
    BY <2>1, DataLinksAre
<1>7. QED
  BY <1>2, <1>3, <1>4, <1>5, <1>6

\* Every router that is written is whole: all links are driven by what they were
\* numbered for, what goes in at one end of a connection comes out at the
\* consumer that waits for it at the other, packets are cut up alike, and the
\* switches that are referred to exist; for every network of platforms of any
\* kind, all lanes, links and loads that network analysis may cut, and any order
\* of the platforms (generateCode.py:196-390, 565-623).
THEOREM RoutersCorrect ==
  ASSUME FlowControlAssumption, RouterAssumption
  PROVE  GSpec => [](GTypeOK /\ NoLinkLeftOpen /\ WiresMeet /\ PacketizersFit /\ SwitchesExist)
<1>1. GInv => GTypeOK /\ NoLinkLeftOpen /\ WiresMeet /\ PacketizersFit /\ SwitchesExist
  BY GInvTypes, GInvDrives, GInvMeets, GInvPackets, GInvSwitches
<1>2. QED
  BY <1>1, GInitInv, GStepInv, PTL DEF GSpec

-----------------------------------------------------------------------------
(* The same among the other passes.                                        *)

\* The assignment's invariant needs no RouterAssumption.
Assigned == pass = "routers" => IInv

Built == pass = "routers" => GInv

\* The passes take no part in each other.
LEMMA PassesApart ==
  ASSUME [PassNext]_passVars, pass = "routers" \/ pass' = "routers"
  PROVE  pass = "routers" /\ [GNext]_allVars
BY DEF PassNext, SizeHeaders, CutLanes, BuildRouters, Multiplex, Only, passVars

\* A step of the routers is one of the assignment, or none.
LEMMA RoutersAssign ==
  ASSUME [GNext]_allVars
  PROVE  [Next]_vars
BY DEF GNext, Analyze, LaySwitches, LayEgress, LayLanes, LayIngress, LaySoftware, allVars

\* Both ends of every connection agree on the links for flow control, numbered
\* without gaps or doubles (analyzeNetwork.py:464-581).
THEOREM ReturnsAgreeCorrect ==
  ASSUME FlowControlAssumption
  PROVE  PassSpec => []ReturnsAgree
<1>1. PassInit => Assigned
  BY InitInv DEF PassInit, GInit, Assigned
<1>2. Assigned /\ [PassNext]_passVars => Assigned'
  BY PassesApart, RoutersAssign, StepInv DEF Assigned
<1>3. Assigned => ReturnsAgree
  BY InvTypes, InvFollows, InvImplies DEF Assigned, ReturnsAgree
<1>4. QED
  BY <1>1, <1>2, <1>3, PTL DEF PassSpec

\* The routers fit together, as the run checks it (generateCode.py:196-390,
\* 565-623).
THEOREM RoutersFitCorrect ==
  ASSUME FlowControlAssumption, RouterAssumption
  PROVE  PassSpec => []RoutersFit
<1>1. PassInit => Built
  BY GInitInv DEF PassInit, Built
<1>2. Built /\ [PassNext]_passVars => Built'
  BY PassesApart, GStepInv DEF Built
<1>3. Built => RoutersFit
  BY GInvTypes, GInvDrives, GInvMeets, GInvPackets, GInvSwitches DEF Built, RoutersFit
<1>4. QED
  BY <1>1, <1>2, <1>3, PTL DEF PassSpec

=============================================================================
