----------------------- MODULE FlowControlLinkProofs ------------------------
(***************************************************************************)
(* Theorems about two flow controlled switches and their link, for every   *)
(* number of data queues, size of buffers and packets, depth of the link   *)
(* and for both arbiters, under the one condition that a packet fits in    *)
(* what a refill brings (PacketsFit).  The code asks for it too: with less *)
(* the egress can stop on "setting credits to zero"                        *)
(* (flowcontrol-egress.bsv:343-382).                                       *)
(*                                                                         *)
(* The argument.  IInv is inductive.  Its parts lean on each other:        *)
(*  - Accounted: the credits of a queue are in five places, and their sum  *)
(*    is the buffer's size: exactly for a data queue, modulo the width of  *)
(*    the counters for the flow control queue, which nothing holds back;   *)
(*  - Affords: a queue the arbiter may choose, or chose in the last cycle, *)
(*    can pay for the largest packet.  With PacketsFit this survives a     *)
(*    refill, since a batch is larger than ReturnThreshold;                *)
(*  - PacketsAreWhole, Contents, Alternates: what is read as a header or   *)
(*    as credits is that.  Without them a data chunk could be added to the *)
(*    credits, and Accounted would not be kept.                            *)
(* A tick of side x is the sender's half of the channels that leave x and  *)
(* the receiver's half of those that come in: SenderAccounts and           *)
(* ReceiverAccounts say what each half moves, and the refinement of        *)
(* CreditProtocol reads its steps off the same lemmas.                     *)
(***************************************************************************)
EXTENDS FlowControlLink, CountingLemmas, TLAPS

-----------------------------------------------------------------------------
(* The parameters.                                                         *)

\* A packet fits in the slots that a refill is sure to bring.
PacketsFit == \A x \in Side : MaximumPacketSize(x) <= ReturnThreshold

\* There are two sides, and each is the other's peer.
LEMMA Peers ==
  ASSUME NEW x \in Side
  PROVE  /\ Peer(x) \in Side /\ Peer(x) # x /\ Peer(Peer(x)) = x
         /\ \A z \in Side : z = x \/ z = Peer(x)
<1>1. PICK a, b \in Side : a # b /\ Side = {a, b}
  BY SwitchAssumption
<1>2. \A z \in Side : \E y \in Side : y # z
  BY <1>1
<1>3. \A z \in Side : Peer(z) \in Side /\ Peer(z) # z
  BY <1>2 DEF Peer
<1>4. QED
  BY <1>1, <1>3

\* Counts have a bit more than the size needs.
LEMMA Sizes ==
  /\ FifoSize \in Nat \ {0} /\ CreditMod \in Nat \ {0} /\ CreditMod = 2 * FifoSize
  /\ ReturnThreshold \in Nat
  /\ 2 * ReturnThreshold <= FifoSize /\ FifoSize <= 2 * ReturnThreshold + 1
  /\ \A x \in Side : NumData[x] \in Nat
  /\ MaxChunks \in Nat /\ LinkDepth \in Nat \ {0}
BY SwitchAssumption DEF CreditMod, ReturnThreshold

\* Queues are numbers; the last is the flow control queue.
LEMMA QueueNumbers ==
  ASSUME NEW x \in Side
  PROVE  /\ Queues(x) = 0..NumData[x] /\ Fc(x) = NumData[x] /\ Fc(x) \in Queues(x)
         /\ DataQueues(x) = 0..(NumData[x] - 1) /\ NumData[x] \in Nat
         /\ \A q : q \in DataQueues(x) <=> q \in Queues(x) /\ q # Fc(x)
         /\ \A q \in Queues(x) : q \in Nat
BY SwitchAssumption DEF Queues, DataQueues, Fc

\* The largest packet, and the largest count of chunks after a header.
LEMMA Largest ==
  /\ Max({1, MaxChunks}) \in Nat
  /\ Max({1, MaxChunks}) >= 1 /\ Max({1, MaxChunks}) >= MaxChunks
<1>1. MaxChunks \in Nat
  BY SwitchAssumption
<1>2. \E m \in {1, MaxChunks} : \A n \in {1, MaxChunks} : m >= n
  BY <1>1
<1>3. QED
  BY <1>1, <1>2 DEF Max

\* No packet is larger than the largest.
LEMMA LargestPacket ==
  ASSUME NEW x \in Side
  PROVE  /\ MaximumPacketSize(x) \in Nat /\ MaximumPacketSize(x) >= 1
         /\ \A q \in DataQueues(x) : MaximumPacketSize(x) >= MaxChunks
<1> DEFINE sizes == {MaxPacketSize(x, q) : q \in Queues(x)}
<1>1. MaxChunks \in Nat /\ NumData[x] \in Nat
  BY SwitchAssumption
<1>2. sizes \subseteq {1, MaxChunks} /\ 1 \in sizes
  BY QueueNumbers DEF MaxPacketSize
<1>3. \A q \in DataQueues(x) : MaxChunks \in sizes
  BY QueueNumbers DEF MaxPacketSize
<1> HIDE DEF sizes
<1>4. \E m \in sizes : \A n \in sizes : m >= n
  <2>1. \A m \in sizes : m = 1 \/ m = MaxChunks
    BY <1>2
  <2>2. QED
    BY <1>1, <1>2, <2>1
<1>5. Max(sizes) \in sizes /\ \A n \in sizes : Max(sizes) >= n
  BY <1>4 DEF Max
<1>6. MaximumPacketSize(x) = Max(sizes)
  BY DEF MaximumPacketSize, sizes
<1>7. Max(sizes) \in Nat
  <2> DEFINE m == Max(sizes)
  <2>1. m \in sizes
    BY <1>5
  <2> HIDE DEF m
  <2>2. m = 1 \/ m = MaxChunks
    BY <1>2, <2>1
  <2>3. QED
    BY <1>1, <2>2 DEF m
<1>8. Max(sizes) >= 1
  BY <1>2, <1>5
<1>9. QED
  BY <1>3, <1>5, <1>6, <1>7, <1>8

\* Nothing is left of a packet of the first queue when the platforms start.
LEMMA Zeros ==
  ASSUME NEW x \in Side
  PROVE  0 \in Queues(x) /\ 0 \in 0..Max({1, MaxChunks})
<1>1. 0 \in Queues(x)
  BY QueueNumbers
<1> DEFINE m == Max({1, MaxChunks})
<1>2. m \in Nat
  BY Largest
<1> HIDE DEF m
<1>3. 0 \in 0..m
  BY <1>2
<1>4. QED
  BY <1>1, <1>3 DEF m

\* With room for a packet in a refill, a packet and its header cost what they say.
LEMMA SizesFit ==
  ASSUME PacketsFit, NEW x \in Side
  PROVE  /\ MaximumPacketSize(x) <= ReturnThreshold
         /\ ReturnThreshold >= 1 /\ FifoSize >= 2
         /\ \A q \in DataQueues(x) : MaxChunks <= ReturnThreshold
BY Sizes, LargestPacket DEF PacketsFit

-----------------------------------------------------------------------------
(* Counting the credits in a queue of chunks.                              *)

\* The credits for queue q in chunk c.
Amount(c, q) == IF c.kind = "credit" /\ c.idx = q THEN c.amnt ELSE 0

\* A chunk says how many credits it has.
LEMMA AmountType ==
  ASSUME NEW c \in Chunks, NEW q
  PROVE  Amount(c, q) \in Nat /\ c.amnt \in Nat
BY Sizes DEF Chunks, Amount

\* The credits of one chunk.
LEMMA CreditsOfOne ==
  ASSUME NEW n, NEW a \in Nat
  PROVE  /\ IsFiniteSet({n} \X (1..a))
         /\ Cardinality({n} \X (1..a)) = a
<1> DEFINE name == [k \in 1..a |-> <<n, k>>]
<1>1. name \in Injection(1..a, {n} \X (1..a))
  <2>1. \A k \in 1..a : name[k] = <<n, k>> /\ <<n, k>> \in {n} \X (1..a)
    OBVIOUS
  <2>2. name \in [1..a -> {n} \X (1..a)]
    BY <2>1
  <2>3. \A j, k \in 1..a : name[j] = name[k] => j = k
    BY <2>1
  <2> HIDE DEF name
  <2>4. QED
    BY <2>2, <2>3 DEF Injection, IsInjective
<1>2. name \in Surjection(1..a, {n} \X (1..a))
  <2>1. \A k \in 1..a : name[k] = <<n, k>> /\ <<n, k>> \in {n} \X (1..a)
    OBVIOUS
  <2>2. name \in [1..a -> {n} \X (1..a)]
    BY <2>1
  <2>3. \A e \in {n} \X (1..a) : e[2] \in 1..a /\ e = <<n, e[2]>>
    OBVIOUS
  <2>4. \A e \in {n} \X (1..a) : \E k \in 1..a : name[k] = e
    BY <2>1, <2>3
  <2> HIDE DEF name
  <2>5. QED
    BY <2>2, <2>4 DEF Surjection
<1>3. ExistsBijection(1..a, {n} \X (1..a))
  BY <1>1, <1>2 DEF ExistsBijection, Bijection
<1>4. IsFiniteSet(1..a) /\ Cardinality(1..a) = a
  BY FS_Interval
<1>5. QED
  BY <1>3, <1>4, FS_Bijection

\* A credit is named by the position of its chunk and its number in it.
LEMMA CreditsAre ==
  ASSUME NEW s \in Seq(Chunks), NEW q
  PROVE  \A t : t \in CreditsIn(s, q) <=>
                  \E n \in 1..Len(s) : t \in {n} \X (1..Amount(s[n], q))
<1>1. DOMAIN s = 1..Len(s) /\ \A n \in 1..Len(s) : s[n] \in Chunks
  BY LenProperties, ElementOfSeq
<1>2. \A t : \A n \in 1..Len(s) :
        t \in {n} \X (1..Amount(s[n], q)) =>
          s[n].kind = "credit" /\ s[n].idx = q /\ t \in {n} \X (1..s[n].amnt)
  BY DEF Amount
<1>3. QED
  BY <1>1, <1>2 DEF CreditsIn, Amount

\* There are finitely many.
LEMMA CreditCountType ==
  ASSUME NEW s \in Seq(Chunks), NEW q
  PROVE  IsFiniteSet(CreditsIn(s, q)) /\ CreditCount(s, q) \in Nat
<1> DEFINE all == (1..Len(s)) \X (1..(2 * FifoSize))
<1>1. Len(s) \in Nat /\ \A n \in 1..Len(s) : s[n] \in Chunks
  BY LenProperties, ElementOfSeq
<1>2. \A n \in 1..Len(s) : Amount(s[n], q) \in 0..(2 * FifoSize)
  BY <1>1, Sizes DEF Chunks, Amount
<1>3. \A t \in CreditsIn(s, q) : t \in all
  <2>1. TAKE t \in CreditsIn(s, q)
  <2>2. PICK n \in 1..Len(s) : t \in {n} \X (1..Amount(s[n], q))
    BY CreditsAre
  <2>3. 1..Amount(s[n], q) \subseteq 1..(2 * FifoSize)
    BY <1>2, Sizes
  <2>4. QED
    BY <2>2, <2>3
<1>4. IsFiniteSet(1..Len(s)) /\ IsFiniteSet(1..(2 * FifoSize))
  BY <1>1, FS_Interval, Sizes
<1>5. IsFiniteSet(all)
  BY <1>4, FS_Product
<1> HIDE DEF all
<1>6. IsFiniteSet(CreditsIn(s, q))
  BY <1>3, <1>5, FS_Subset
<1>7. QED
  BY <1>6, FS_CardinalityType DEF CreditCount

\* An empty queue has no credits.
LEMMA CreditsOfEmpty ==
  ASSUME NEW q PROVE CreditCount(<<>>, q) = 0
<1>1. CreditsIn(<<>>, q) = {}
  BY DEF CreditsIn
<1>2. QED
  BY <1>1, FS_EmptySet DEF CreditCount

\* A chunk that is put in brings its credits.
LEMMA CreditsOfAppend ==
  ASSUME NEW s \in Seq(Chunks), NEW c \in Chunks, NEW q
  PROVE  CreditCount(Append(s, c), q) = CreditCount(s, q) + Amount(c, q)
<1> DEFINE t == Append(s, c)
           new == {Len(s) + 1} \X (1..Amount(c, q))
<1>1. /\ t \in Seq(Chunks) /\ Len(s) \in Nat /\ Len(t) = Len(s) + 1
      /\ \A n \in 1..Len(s) : t[n] = s[n]
      /\ t[Len(s) + 1] = c
  BY LenProperties, AppendProperties
<1>2. Amount(c, q) \in Nat
  BY AmountType
<1>3. IsFiniteSet(new) /\ Cardinality(new) = Amount(c, q)
  BY <1>2, CreditsOfOne
<1>4. IsFiniteSet(CreditsIn(s, q)) /\ CreditCount(s, q) \in Nat
  BY CreditCountType
<1> HIDE DEF t
<1>5. \A e : e \in CreditsIn(t, q) <=> e \in CreditsIn(s, q) \/ e \in new
  BY <1>1, CreditsAre, SMTT(30)
<1>6. CreditsIn(t, q) = CreditsIn(s, q) \cup new
  BY <1>5
<1>7. CreditsIn(s, q) \cap new = {}
  <2>1. ASSUME NEW e \in CreditsIn(s, q), e \in new PROVE FALSE
    <3>1. PICK n \in 1..Len(s) : e \in {n} \X (1..Amount(s[n], q))
      BY <2>1, CreditsAre
    <3>2. e[1] = n /\ e[1] = Len(s) + 1
      BY <2>1, <3>1
    <3>3. QED
      BY <1>1, <3>2
  <2>2. QED
    BY <2>1
<1> HIDE DEF new
<1>8. Cardinality(CreditsIn(s, q) \cup new) =
        Cardinality(CreditsIn(s, q)) + Cardinality(new) - Cardinality(CreditsIn(s, q) \cap new)
  BY <1>3, <1>4, FS_Union
<1>9. Cardinality(CreditsIn(s, q) \cap new) = 0
  BY <1>7, FS_EmptySet
<1>10. CreditCount(t, q) = CreditCount(s, q) + Amount(c, q)
  BY <1>2, <1>3, <1>4, <1>6, <1>8, <1>9 DEF CreditCount
<1>11. QED
  BY <1>10 DEF t

\* A chunk that is taken out takes its credits with it.
LEMMA CreditsOfTail ==
  ASSUME NEW s \in Seq(Chunks), s # <<>>, NEW q
  PROVE  CreditCount(s, q) = CreditCount(Tail(s), q) + Amount(Head(s), q)
<1> DEFINE t == Tail(s)
           first == {1} \X (1..Amount(Head(s), q))
           rest == {e \in CreditsIn(s, q) : e[1] # 1}
           shift == [e \in CreditsIn(t, q) |-> <<e[1] + 1, e[2]>>]
<1>1. /\ Head(s) \in Chunks /\ t \in Seq(Chunks) /\ Len(t) = Len(s) - 1
      /\ \A n \in 1..Len(t) : t[n] = s[n + 1]
      /\ Len(s) \in Nat \ {0} /\ Head(s) = s[1]
  BY HeadTailProperties, LenProperties, EmptySeq
<1>2. Amount(Head(s), q) \in Nat
  BY <1>1, AmountType
<1>3. IsFiniteSet(first) /\ Cardinality(first) = Amount(Head(s), q)
  BY <1>2, CreditsOfOne
<1> HIDE DEF t
<1>4. IsFiniteSet(CreditsIn(t, q)) /\ CreditCount(t, q) \in Nat
  BY <1>1, CreditCountType
<1>5. \A n, k : <<n, k>> \in CreditsIn(t, q) <=>
                  n \in 1..(Len(s) - 1) /\ k \in 1..Amount(s[n + 1], q)
  BY <1>1, CreditsAre, SMTT(30)
<1>6. \A n, k : <<n, k>> \in CreditsIn(s, q) <=>
                  n \in 1..Len(s) /\ k \in 1..Amount(s[n], q)
  BY <1>1, CreditsAre, SMTT(30)
<1>7. /\ \A e \in CreditsIn(t, q) : e = <<e[1], e[2]>>
      /\ \A e \in CreditsIn(s, q) : e = <<e[1], e[2]>>
  <2>1. \A n, T : \A e \in {n} \X T : e = <<e[1], e[2]>>
    OBVIOUS
  <2>2. \A e \in CreditsIn(t, q) : e = <<e[1], e[2]>>
    BY <1>1, <2>1, CreditsAre
  <2>3. \A e \in CreditsIn(s, q) : e = <<e[1], e[2]>>
    BY <1>1, <2>1, CreditsAre
  <2>4. QED
    BY <2>2, <2>3
<1>8. ASSUME NEW e \in CreditsIn(t, q)
      PROVE  <<e[1] + 1, e[2]>> \in rest /\ e[1] \in Nat
  <2>1. e[1] \in 1..(Len(s) - 1) /\ e[2] \in 1..Amount(s[e[1] + 1], q)
    BY <1>5, <1>7
  <2>2. QED
    BY <1>1, <1>6, <2>1
<1>9. ASSUME NEW e \in rest
      PROVE  <<e[1] - 1, e[2]>> \in CreditsIn(t, q) /\ e = <<(e[1] - 1) + 1, e[2]>>
  <2>1. e[1] \in 2..Len(s) /\ e[2] \in 1..Amount(s[e[1]], q)
    BY <1>1, <1>6, <1>7
  <2>2. e[1] - 1 \in 1..(Len(s) - 1) /\ (e[1] - 1) + 1 = e[1]
    BY <1>1, <2>1
  <2>3. QED
    BY <1>5, <1>7, <2>1, <2>2
<1>10. CreditsIn(s, q) = rest \cup first /\ rest \cap first = {}
  <2>1. \A e \in rest \cup first : e \in CreditsIn(s, q)
    BY <1>1, <1>6
  <2>2. ASSUME NEW e \in CreditsIn(s, q), e[1] = 1 PROVE e \in first
    BY <1>1, <1>6, <1>7, <2>2
  <2>3. QED
    BY <2>1, <2>2
<1> HIDE DEF rest, first
<1>11. shift \in Injection(CreditsIn(t, q), rest)
  <2>1. \A d, e \in CreditsIn(t, q) :
          <<d[1] + 1, d[2]>> = <<e[1] + 1, e[2]>> => d = e
    <3>1. TAKE d, e \in CreditsIn(t, q)
    <3>2. HAVE <<d[1] + 1, d[2]>> = <<e[1] + 1, e[2]>>
    <3>3. d[1] + 1 = e[1] + 1 /\ d[2] = e[2]
      BY <3>2
    <3>4. d[1] \in Nat /\ e[1] \in Nat
      BY <1>8
    <3>5. d[1] = e[1]
      BY <3>3, <3>4
    <3>6. QED
      BY <1>7, <3>3, <3>5
  <2>2. shift \in [CreditsIn(t, q) -> rest]
    BY <1>8
  <2>3. \A e \in CreditsIn(t, q) : shift[e] = <<e[1] + 1, e[2]>>
    OBVIOUS
  <2> HIDE DEF shift
  <2>4. QED
    BY <2>1, <2>2, <2>3 DEF Injection, IsInjective
<1>12. shift \in Surjection(CreditsIn(t, q), rest)
  <2>1. shift \in [CreditsIn(t, q) -> rest]
    BY <1>8
  <2>2. ASSUME NEW e \in rest PROVE \E d \in CreditsIn(t, q) : shift[d] = e
    <3> DEFINE d == <<e[1] - 1, e[2]>>
    <3>1. d \in CreditsIn(t, q) /\ shift[d] = <<d[1] + 1, d[2]>>
      BY <1>9
    <3>2. <<d[1] + 1, d[2]>> = e
      BY <1>9
    <3> HIDE DEF shift, d
    <3>3. QED
      BY <3>1, <3>2
  <2> HIDE DEF shift
  <2>3. QED
    BY <2>1, <2>2 DEF Surjection
<1>13. ExistsBijection(CreditsIn(t, q), rest)
  BY <1>11, <1>12 DEF ExistsBijection, Bijection
<1>14. IsFiniteSet(rest) /\ Cardinality(rest) = Cardinality(CreditsIn(t, q))
  BY <1>4, <1>13, FS_Bijection
<1>15. Cardinality(rest \cup first) =
         Cardinality(rest) + Cardinality(first) - Cardinality(rest \cap first)
  BY <1>3, <1>14, FS_Union
<1>16. Cardinality(rest \cap first) = 0
  BY <1>10, FS_EmptySet
<1>17. CreditCount(s, q) = CreditCount(t, q) + Amount(Head(s), q)
  BY <1>2, <1>3, <1>4, <1>10, <1>14, <1>15, <1>16 DEF CreditCount
<1>18. QED
  BY <1>17 DEF t

\* A slot has the credits of the chunk in it.
LEMMA CreditsOfSlot ==
  ASSUME NEW slot \in Chunks \cup {None}, NEW q
  PROVE  CreditCount(AsSeq(slot), q) = IF slot = None THEN 0 ELSE Amount(slot, q)
<1>1. CASE slot = None
  BY <1>1, CreditsOfEmpty DEF AsSeq
<1>2. CASE slot # None
  <2>1. slot \in Chunks /\ AsSeq(slot) = Append(<<>>, slot) /\ <<>> \in Seq(Chunks)
    BY <1>2 DEF AsSeq
  <2>2. CreditCount(Append(<<>>, slot), q) = CreditCount(<<>>, q) + Amount(slot, q)
    BY <2>1, CreditsOfAppend
  <2>3. QED
    BY <1>2, <2>1, <2>2, CreditsOfEmpty, AmountType
<1>3. QED
  BY <1>1, <1>2

\* If all batches of a queue are above a threshold, their credits are none or
\* above it too.
LEMMA CreditsAbove ==
  ASSUME NEW s \in Seq(Chunks), NEW q, NEW least \in Nat,
         \A n \in 1..Len(s) : Amount(s[n], q) = 0 \/ Amount(s[n], q) > least
  PROVE  CreditCount(s, q) = 0 \/ CreditCount(s, q) > least
<1>1. IsFiniteSet(CreditsIn(s, q)) /\ CreditCount(s, q) \in Nat
  BY CreditCountType
<1>2. ASSUME NEW e \in CreditsIn(s, q) PROVE CreditCount(s, q) > least
  <2>1. PICK n \in 1..Len(s) : e \in {n} \X (1..Amount(s[n], q))
    BY CreditsAre
  <2> DEFINE a == Amount(s[n], q)
  <2>2. a \in Nat
    BY ElementOfSeq, AmountType
  <2>3. a > least
    BY <2>1, <2>2
  <2>4. {n} \X (1..a) \in SUBSET CreditsIn(s, q)
    BY CreditsAre
  <2> HIDE DEF a
  <2>5. Cardinality({n} \X (1..a)) = a
    BY <2>2, CreditsOfOne
  <2>6. Cardinality({n} \X (1..a)) <= CreditCount(s, q)
    BY <1>1, <2>4, FS_Subset DEF CreditCount
  <2>7. QED
    BY <1>1, <2>2, <2>3, <2>5, <2>6
<1>3. CASE CreditsIn(s, q) = {}
  BY <1>3, FS_EmptySet DEF CreditCount
<1>4. QED
  BY <1>2, <1>3

-----------------------------------------------------------------------------
(* The invariant.                                                          *)

\* The chunks that come to the flow control port of x.
FcChunks(x) == {Header(RxFc(x), 1)} \cup BatchesFor(x)

\* Every place that credits pass holds chunks of one kind only.
Contents(x) ==
  /\ bodyFIFO[x] \in Seq(BatchesFor(Peer(x)))
  /\ sendSize[x] \in BatchesFor(Peer(x)) \cup {None}
  /\ portRead[x] \in FcChunks(x) \cup {None}
  /\ buffer[x][RxFc(x)] \in Seq(FcChunks(x))
  /\ \A q \in DataQueues(Peer(x)) : buffer[x][q] \in Seq({DataChunk(q)})

Kind(isHeader) == IF isHeader THEN "header" ELSE "credit"

\* Chunks that the flow control port returns in this cycle.
AtHand(x) == IF portRead[x] = None THEN 0 ELSE 1

\* The ingress is inside a flow control packet.
Inside(x) == rxActiveQueue[x] = RxFc(x) /\ rxChunksRemaining[x] # 0

\* Headers and bodies take turns from deqHeader through the buffer to the ingress.
Alternates(x) ==
  /\ rxActiveQueue[x] = RxFc(x) => rxChunksRemaining[x] <= 1
  /\ portRead[x] # None => portRead[x].kind = Kind(deqHeader[x])
  /\ \A n \in 1..Len(buffer[x][RxFc(x)]) :
       buffer[x][RxFc(x)][n].kind = Kind(deqHeader[x] <=> (n + AtHand(x)) % 2 = 1)
  /\ Inside(x) <=>
       (deqHeader[x] <=> (Len(buffer[x][RxFc(x)]) + AtHand(x)) % 2 = 1)

\* Where the credits of queue q of x are.
Sum(x, q) ==
  portCredits[x][q] + InFlight(x, q) + Stored(x, q) + free[Peer(x)][q] + Returning(x, q)

\* The credits of a data queue are all there; those of the flow control queue are
\* but for turns of the counters.
Accounted(x) ==
  /\ \A q \in Queues(x) : Sum(x, q) % CreditMod = FifoSize
  /\ \A q \in DataQueues(x) : Sum(x, q) = FifoSize

\* A queue that may be chosen, and one that was chosen in the last cycle, can pay
\* for the largest packet.
Affords(x) ==
  \A q \in DataQueues(x) :
    bufferAvailable[x][q] \/ newMsgQIdx[x] = q
      => portCredits[x][q] >= MaximumPacketSize(x) + 1

\* All registers exist on both sides.
Domains ==
  /\ DOMAIN wire = Side /\ DOMAIN headerFIFO = Side /\ DOMAIN bodyFIFO = Side
  /\ DOMAIN portRead = Side /\ DOMAIN request = Side /\ DOMAIN portCredits = Side
  /\ DOMAIN bufferAvailable = Side /\ DOMAIN requestChunksRemaining = Side
  /\ DOMAIN requestActiveQueue = Side /\ DOMAIN deqHeader = Side
  /\ DOMAIN newMsgQIdx = Side /\ DOMAIN buffer = Side /\ DOMAIN free = Side
  /\ DOMAIN rxChunksRemaining = Side /\ DOMAIN rxActiveQueue = Side
  /\ DOMAIN idxRR = Side /\ DOMAIN sendSize = Side /\ DOMAIN lastRead = Side

IInv ==
  /\ TypeOK /\ Domains /\ PacketsAreWhole
  /\ \A x \in Side : Contents(x) /\ Alternates(x) /\ Accounted(x) /\ Affords(x)

\* Chunks are made of queues and counts that exist.
LEMMA ChunkTypes ==
  ASSUME NEW x \in Side, NEW q \in Queues(x)
  PROVE  /\ DataChunk(q) \in Chunks
         /\ \A k \in 0..(2 * FifoSize) : Header(q, k) \in Chunks /\ Credit(q, k) \in Chunks
         /\ BatchesFor(x) \subseteq Chunks
         /\ FcChunks(x) \subseteq Chunks
<1>1. q \in UNION {Queues(z) : z \in Side}
  OBVIOUS
<1>2. RxFc(x) \in UNION {Queues(z) : z \in Side}
  BY Peers, QueueNumbers DEF RxFc
<1>3. 0 \in 0..(2 * FifoSize) /\ 1 \in 0..(2 * FifoSize)
  BY Sizes
<1>4. BatchesFor(x) \subseteq Chunks
  BY DEF BatchesFor
<1>5. Header(RxFc(x), 1) \in Chunks
  BY <1>2, <1>3 DEF Chunks, Header
<1>6. QED
  BY <1>1, <1>3, <1>4, <1>5 DEF Chunks, Header, Credit, DataChunk, FcChunks

\* A batch is a credit chunk of a queue that exists, above the threshold.
LEMMA BatchFacts ==
  ASSUME NEW x \in Side, NEW c \in BatchesFor(x)
  PROVE  /\ c \in Chunks /\ c # None /\ c.kind = "credit" /\ c.idx \in Queues(x)
         /\ c.amnt \in (ReturnThreshold + 1)..(CreditMod - 1)
         /\ \A q : Amount(c, q) = IF c.idx = q THEN c.amnt ELSE 0
<1>1. c \in Chunks /\ c.amnt \in Nat
  BY AmountType DEF BatchesFor
<1>2. c # None
  BY <1>1, SwitchAssumption
<1>3. QED
  BY <1>1, <1>2, Sizes DEF BatchesFor, Amount

-----------------------------------------------------------------------------
(* Initially all credits are with the sender.                              *)

\* Nothing is on its way.
LEMMA InitSum ==
  ASSUME Init, NEW x \in Side, NEW q \in Queues(x)
  PROVE  Sum(x, q) = FifoSize
<1>1. Peer(x) \in Side /\ RxFc(x) \in RxQueues(x) /\ q \in RxQueues(Peer(x))
  BY Peers, QueueNumbers DEF RxFc, RxQueues
<1>2. /\ portCredits[x][q] = FifoSize /\ wire[x] = <<>> /\ requestChunksRemaining[x] = 0
      /\ buffer[Peer(x)][q] = <<>> /\ free[Peer(x)][q] = 0
      /\ portRead[x] = None /\ buffer[x][RxFc(x)] = <<>> /\ wire[Peer(x)] = <<>>
      /\ bodyFIFO[Peer(x)] = <<>> /\ sendSize[Peer(x)] = None
  BY <1>1 DEF Init, SharedInit, EgressInit, IngressInit
<1>3. InFlight(x, q) = 0
  <2>1. Carried(x, wire[x], q) = {}
    BY <1>2 DEF Carried
  <2>2. Cardinality(Carried(x, wire[x], q)) = 0
    BY <2>1, FS_EmptySet
  <2>3. QED
    BY <1>2, <2>2 DEF InFlight
<1>4. Returning(x, q) = 0
  BY <1>2, CreditsOfEmpty DEF Returning, AsSeq
<1>5. Stored(x, q) = 0
  BY <1>2 DEF Stored
<1>6. QED
  BY <1>2, <1>3, <1>4, <1>5, Sizes DEF Sum

\* The registers are set.
LEMMA InitType ==
  ASSUME Init PROVE TypeOK /\ Domains
<1> USE DEF Init, SharedInit, EgressInit, IngressInit
<1>1. Domains
  BY DEF Domains
<1>2. EgressTypeOK
  <2>1. ASSUME NEW x \in Side
        PROVE  /\ request[x] \in [DataQueues(x) -> 0..MaxChunks \cup {None}]
               /\ portCredits[x] \in [Queues(x) -> 0..(CreditMod - 1)]
               /\ bufferAvailable[x] \in [Queues(x) -> BOOLEAN]
    BY Sizes
  <2>2. ASSUME NEW x \in Side
        PROVE  /\ requestChunksRemaining[x] \in 0..Max({1, MaxChunks})
               /\ requestActiveQueue[x] \in Queues(x)
               /\ deqHeader[x] \in BOOLEAN
               /\ newMsgQIdx[x] \in Queues(x) \cup {None}
    BY Zeros
  <2>3. QED
    BY <2>1, <2>2 DEF EgressTypeOK
<1>3. IngressTypeOK
  <2>1. ASSUME NEW x \in Side
        PROVE  /\ buffer[x] \in [RxQueues(x) -> Seq(Chunks)]
               /\ free[x] \in [RxQueues(x) -> 0..(CreditMod - 1)]
               /\ sendSize[x] \in Chunks \cup {None}
    BY Sizes
  <2>2. ASSUME NEW x \in Side
        PROVE  /\ rxChunksRemaining[x] \in 0..Max({1, MaxChunks})
               /\ rxActiveQueue[x] \in RxQueues(x)
               /\ idxRR[x] \in RxQueues(x)
               /\ lastRead[x] \in RxQueues(x)
    BY Peers, Zeros DEF RxQueues
  <2>3. QED
    BY <2>1, <2>2 DEF IngressTypeOK
<1>4. QED
  BY <1>1, <1>2, <1>3, Sizes DEF TypeOK, FifofDepth

\* The initial states satisfy the invariant.
LEMMA InitInv ==
  ASSUME PacketsFit, Init PROVE IInv
<1>1. TypeOK /\ Domains
  BY InitType
<1>2. ASSUME NEW x \in Side
      PROVE  Framed(x, wire[x], Receives(x), Sending(x))
  <2> DEFINE r == [queue |-> 0, left |-> 0]
             at == [n \in 0..0 |-> r]
  <2>1. wire[x] = <<>> /\ Receives(x) = r /\ Sending(x) = r
    BY Peers DEF Init, SharedInit, EgressInit, IngressInit, Receives, Sending
  <2>2. r \in Readers(x)
    BY Zeros DEF Readers
  <2>3. at \in [0..0 -> Readers(x)] /\ at[0] = r
    BY <2>2
  <2> HIDE DEF at
  <2>4. QED
    BY <2>1, <2>3 DEF Framed
<1>3. ASSUME NEW x \in Side
      PROVE  Contents(x) /\ Alternates(x) /\ Accounted(x) /\ Affords(x)
  <2>1. /\ Peer(x) \in Side /\ RxFc(x) \in RxQueues(x)
        /\ \A q \in DataQueues(Peer(x)) : q \in RxQueues(x)
    BY Peers, QueueNumbers DEF RxFc, RxQueues
  <2>2. Contents(x)
    BY <2>1 DEF Init, SharedInit, IngressInit, Contents
  <2>3. Alternates(x)
    <3>1. /\ portRead[x] = None /\ buffer[x][RxFc(x)] = <<>> /\ deqHeader[x] = TRUE
          /\ rxChunksRemaining[x] = 0
      BY <2>1 DEF Init, SharedInit, EgressInit, IngressInit
    <3>2. Len(buffer[x][RxFc(x)]) = 0 /\ AtHand(x) = 0 /\ (0 + 0) % 2 = 0
      BY <3>1 DEF AtHand
    <3>3. QED
      BY <3>1, <3>2 DEF Alternates, Inside
  <2>4. Accounted(x)
    <3>1. FifoSize % CreditMod = FifoSize
      BY Sizes, ModBelow
    <3>2. QED
      BY <3>1, InitSum, QueueNumbers, Sizes DEF Accounted
  <2>5. Affords(x)
    <3>1. \A q \in DataQueues(x) : portCredits[x][q] = FifoSize
      BY QueueNumbers DEF Init, EgressInit
    <3>2. MaximumPacketSize(x) + 1 <= FifoSize
      BY SizesFit, Sizes, LargestPacket
    <3>3. QED
      BY <3>1, <3>2, Sizes, LargestPacket DEF Affords
  <2>6. QED
    BY <2>2, <2>3, <2>4, <2>5
<1>4. QED
  BY <1>1, <1>2, <1>3 DEF IInv, PacketsAreWhole

-----------------------------------------------------------------------------
(* Reading the wire.                                                       *)

\* A chunk at the end of the wire takes the reader a step further.
LEMMA FramedAppend ==
  ASSUME NEW x, NEW s \in Seq(Chunks), NEW c \in Chunks,
         NEW a, NEW b, NEW d \in Readers(x), Framed(x, s, a, b), Reads(x, b, c, d)
  PROVE  Framed(x, Append(s, c), a, d)
<1>1. PICK at \in [0..Len(s) -> Readers(x)] :
        /\ at[0] = a /\ at[Len(s)] = b
        /\ \A n \in 1..Len(s) : Reads(x, at[n - 1], s[n], at[n])
  BY DEF Framed
<1> DEFINE t == Append(s, c)
           next == [n \in 0..(Len(s) + 1) |-> IF n <= Len(s) THEN at[n] ELSE d]
<1>2. /\ Len(s) \in Nat /\ Len(t) = Len(s) + 1
      /\ \A n \in 1..Len(s) : t[n] = s[n]
      /\ t[Len(s) + 1] = c
  BY LenProperties, AppendProperties
<1> HIDE DEF t
<1>3. /\ next \in [0..(Len(s) + 1) -> Readers(x)]
      /\ \A n \in 0..Len(s) : next[n] = at[n]
      /\ next[Len(s) + 1] = d
  BY <1>2
<1> HIDE DEF next
<1>4. ASSUME NEW n \in 1..(Len(s) + 1)
      PROVE  Reads(x, next[n - 1], t[n], next[n])
  <2>1. CASE n = Len(s) + 1
    <3>1. next[n - 1] = b /\ t[n] = c /\ next[n] = d
      BY <1>1, <1>2, <1>3, <2>1
    <3>2. QED
      BY <3>1
  <2>2. CASE n \in 1..Len(s)
    <3>1. n - 1 \in 0..Len(s) /\ n \in 0..Len(s)
      BY <1>2, <2>2
    <3>2. next[n - 1] = at[n - 1] /\ t[n] = s[n] /\ next[n] = at[n]
      BY <1>2, <1>3, <2>2, <3>1
    <3>3. QED
      BY <1>1, <2>2, <3>2
  <2>3. QED
    BY <1>2, <2>1, <2>2
<1>5. next[0] = a /\ next[Len(t)] = d
  BY <1>1, <1>2, <1>3
<1>6. Framed(x, t, a, d)
  BY <1>2, <1>3, <1>4, <1>5 DEF Framed
<1>7. QED
  BY <1>6 DEF t

\* A reader who takes the first chunk goes on from there.
LEMMA FramedTail ==
  ASSUME NEW x, NEW s \in Seq(Chunks), s # <<>>, NEW a, NEW b, Framed(x, s, a, b)
  PROVE  \E d \in Readers(x) : Reads(x, a, Head(s), d) /\ Framed(x, Tail(s), d, b)
<1>1. PICK at \in [0..Len(s) -> Readers(x)] :
        /\ at[0] = a /\ at[Len(s)] = b
        /\ \A n \in 1..Len(s) : Reads(x, at[n - 1], s[n], at[n])
  BY DEF Framed
<1> DEFINE t == Tail(s)
           next == [n \in 0..(Len(s) - 1) |-> at[n + 1]]
<1>2. /\ Len(s) \in Nat \ {0} /\ Len(t) = Len(s) - 1
      /\ \A n \in 1..(Len(s) - 1) : t[n] = s[n + 1]
      /\ Head(s) = s[1]
  BY HeadTailProperties, EmptySeq
<1> HIDE DEF t
<1>3. /\ next \in [0..(Len(s) - 1) -> Readers(x)]
      /\ \A n \in 0..(Len(s) - 1) : next[n] = at[n + 1]
  BY <1>2
<1> HIDE DEF next
<1>4. ASSUME NEW n \in 1..(Len(s) - 1)
      PROVE  Reads(x, next[n - 1], t[n], next[n])
  <2>1. n - 1 \in 0..(Len(s) - 1) /\ n \in 0..(Len(s) - 1) /\ n + 1 \in 1..Len(s)
        /\ (n - 1) + 1 = n /\ (n + 1) - 1 = n
    BY <1>2
  <2>2. next[n - 1] = at[n] /\ t[n] = s[n + 1] /\ next[n] = at[n + 1]
    BY <1>2, <1>3, <2>1
  <2>3. Reads(x, at[(n + 1) - 1], s[n + 1], at[n + 1])
    BY <1>1, <2>1
  <2>4. QED
    BY <2>1, <2>2, <2>3
<1>5. /\ 1 \in 1..Len(s) /\ 1 \in 0..Len(s) /\ 1 - 1 = 0
      /\ 0 \in 0..(Len(s) - 1) /\ Len(s) - 1 \in 0..(Len(s) - 1) /\ (Len(s) - 1) + 1 = Len(s)
      /\ 0 + 1 = 1
  BY <1>2
<1>6. next[0] = at[1] /\ next[Len(t)] = b /\ at[1] \in Readers(x)
  BY <1>1, <1>2, <1>3, <1>5
<1>7. Framed(x, t, at[1], b)
  BY <1>2, <1>3, <1>4, <1>6 DEF Framed
<1>8. Reads(x, at[0], s[1], at[1])
  BY <1>1, <1>5
<1>9. QED
  BY <1>1, <1>2, <1>6, <1>7, <1>8 DEF t

\* A reading begins and ends at a reader.
LEMMA FramedReader ==
  ASSUME NEW x, NEW s \in Seq(Chunks), NEW a, NEW b, Framed(x, s, a, b)
  PROVE  a \in Readers(x) /\ b \in Readers(x)
<1>1. Len(s) \in Nat
  BY LenProperties
<1>2. 0 \in 0..Len(s) /\ Len(s) \in 0..Len(s)
  BY <1>1
<1>3. QED
  BY <1>2 DEF Framed

\* What a chunk tells its reader.
LEMMA ReadsFacts ==
  ASSUME NEW x \in Side, NEW a \in Readers(x), NEW c \in Chunks, NEW b \in Readers(x),
         Reads(x, a, c, b)
  PROVE  /\ b.queue = IF a.left = 0 THEN c.idx ELSE a.queue
         /\ b.left = IF a.left = 0 THEN c.amnt ELSE a.left - 1
         /\ b = [queue |-> b.queue, left |-> b.left]
         /\ b.queue \in Queues(x) /\ b.left \in 0..Max({1, MaxChunks})
         /\ Carrier(x, c) = b.queue
         /\ b.queue = Fc(x) =>
              /\ a.left = 0 => c = Header(Fc(x), 1) /\ b.left = 1
              /\ a.left # 0 => c \in BatchesFor(Peer(x))
         /\ b.queue # Fc(x) => c.kind # "credit" /\ c.idx = b.queue
<1>1. /\ b = [queue |-> b.queue, left |-> b.left]
      /\ b.queue \in Queues(x) /\ b.left \in 0..Max({1, MaxChunks})
  BY DEF Readers
<1>2. CASE a.left = 0
  <2>1. c = Header(b.queue, b.left) /\ (b.queue = Fc(x) => b.left = 1)
    BY <1>2 DEF Reads
  <2>2. c.idx = b.queue /\ c.amnt = b.left /\ c.kind = "header"
    BY <2>1 DEF Header
  <2>3. QED
    BY <1>1, <1>2, <2>1, <2>2 DEF Carrier
<1>3. CASE a.left # 0
  <2>1. c \in Bodies(x, a.queue) /\ b = [a EXCEPT !.left = @ - 1]
    BY <1>3 DEF Reads
  <2>2. b.queue = a.queue /\ b.left = a.left - 1
    BY <2>1 DEF Readers
  <2>3. CASE a.queue = Fc(x)
    <3>1. c \in BatchesFor(Peer(x)) /\ c.kind = "credit"
      BY <2>1, <2>3 DEF Bodies, BatchesFor
    <3>2. QED
      BY <1>1, <1>3, <2>2, <2>3, <3>1 DEF Carrier
  <2>4. CASE a.queue # Fc(x)
    <3>1. c = DataChunk(a.queue)
      BY <2>1, <2>4 DEF Bodies
    <3>2. c.kind = "data" /\ c.idx = a.queue
      BY <3>1 DEF DataChunk
    <3>3. QED
      BY <1>1, <1>3, <2>2, <2>4, <3>2 DEF Carrier
  <2>5. QED
    BY <2>3, <2>4
<1>4. QED
  BY <1>2, <1>3

-----------------------------------------------------------------------------
(* A cycle of x in which the packet of queue s starts (None if none does)  *)
(* and queue idx is read (None if none is).                                *)

Starts(x, s) ==
  s # None => /\ s \in Queues(x) /\ MayStart(x, s)
              /\ SingleCycleArb \/ s = newMsgQIdx[x]
              /\ s # Fc(x) => portCredits[x][s] >= MaximumPacketSize(x) + 1

CycleOf(x, winner, s, idx) ==
  /\ DeqRequest(x, s) /\ CountChunks(x, s) /\ AccountCredits(x, s) /\ ReadPort(x)
  /\ newMsgQIdx' = [newMsgQIdx EXCEPT ![x] = IF SingleCycleArb THEN None ELSE winner]
  /\ IngressCycle(x, idx) /\ SharedCycle(x, s, idx)

Ticks(x, winner, s, idx) ==
  /\ winner \in Winners(x) /\ Starts(x, s) /\ idx \in NotEmpty(x) \cup {None}
  /\ CycleOf(x, winner, s, idx)

\* The round robin arbiter picks one of the requests.
LEMMA ArbitratePicks ==
  ASSUME NEW x \in Side, NEW ready \in Requests(x), lastRead[x] \in RxQueues(x)
  PROVE  Arbitrate(x, ready) \in NotEmpty(x) \cup {None}
<1> DEFINE n == Cardinality(RxQueues(x))
           distance(q) == (q - lastRead[x] - 1) % n
           D == {distance(q) : q \in ready}
<1>1. Peer(x) \in Side /\ ready \subseteq RxQueues(x) /\ ready \subseteq NotEmpty(x)
  BY Peers DEF Requests, NotEmpty
<1>2. RxQueues(x) = 0..NumData[Peer(x)] /\ NumData[Peer(x)] \in Nat
  BY <1>1, QueueNumbers DEF RxQueues
<1>3. n = NumData[Peer(x)] + 1
  BY <1>2, FS_Interval
<1>4. lastRead[x] \in Int /\ \A q \in ready : q \in Int
  BY <1>1, <1>2
<1> HIDE DEF n
<1>5. \A q \in ready : distance(q) \in Nat
  BY <1>2, <1>3, <1>4
<1> HIDE DEF distance
<1>6. CASE ready # {}
  <2>1. D \in SUBSET Nat /\ D # {}
    BY <1>5, <1>6
  <2> HIDE DEF D
  <2>2. PICK d \in D : \A e \in D : d <= e
    BY <2>1, LeastNat
  <2>3. \E q \in ready : \A r \in ready : distance(q) <= distance(r)
    BY <2>2 DEF D
  <2>4. (CHOOSE q \in ready : \A r \in ready : distance(q) <= distance(r)) \in ready
    BY <2>3
  <2>5. Arbitrate(x, ready) \in ready
    BY <1>6, <2>4 DEF Arbitrate, distance, n
  <2>6. QED
    BY <1>1, <2>5
<1>7. CASE ready = {}
  BY <1>7 DEF Arbitrate
<1>8. QED
  BY <1>6, <1>7

\* A queue that may be chosen can pay.
LEMMA WinnersPay ==
  ASSUME IInv, NEW x \in Side, NEW winner \in Winners(x), winner # None
  PROVE  /\ winner \in Queues(x)
         /\ newMsgQIdx[x] # winner \/ SingleCycleArb
         /\ winner # Fc(x) => portCredits[x][winner] >= MaximumPacketSize(x) + 1
<1>1. winner \in Reqs(x)
  BY DEF Winners
<1>2. /\ winner \in Queues(x) /\ NotLocked(x, winner)
      /\ BypassFlowcontrol(x, winner) \/ bufferAvailable[x][winner]
  BY <1>1 DEF Reqs
<1>3. winner # Fc(x) => winner \in DataQueues(x) /\ bufferAvailable[x][winner]
  BY <1>2, QueueNumbers DEF BypassFlowcontrol
<1>4. QED
  BY <1>2, <1>3 DEF IInv, Affords, NotLocked

\* Whatever the arbiters choose, a tick is such a cycle.
LEMMA TickIsCycle ==
  ASSUME IInv, NEW x \in Side, Tick(x)
  PROVE  \E winner \in Winners(x) : \E s, idx : Ticks(x, winner, s, idx)
<1>1. PICK winner \in Winners(x), ready \in Requests(x) :
        Cycle(x, winner, Arbitrate(x, ready))
  BY DEF Tick
<1> DEFINE s == Starting(x, winner)
           idx == Arbitrate(x, ready)
<1>2. idx \in NotEmpty(x) \cup {None}
  BY ArbitratePicks DEF IInv, TypeOK, IngressTypeOK
<1>3. CycleOf(x, winner, s, idx)
  BY <1>1 DEF Cycle, EgressCycle, CycleOf
<1>4. Starts(x, s)
  <2>1. SUFFICES ASSUME s # None PROVE Starts(x, s)
    BY DEF Starts
  <2>2. s = (IF SingleCycleArb THEN winner ELSE newMsgQIdx[x]) /\ MayStart(x, s)
    BY <2>1 DEF Starting
  <2> HIDE DEF s
  <2>3. CASE SingleCycleArb
    BY <2>1, <2>2, <2>3, WinnersPay DEF Starts
  <2>4. CASE ~SingleCycleArb
    <3>1. s = newMsgQIdx[x] /\ s \in Queues(x)
      BY <2>1, <2>2, <2>4 DEF IInv, TypeOK, EgressTypeOK
    <3>2. s # Fc(x) => portCredits[x][s] >= MaximumPacketSize(x) + 1
      BY <3>1, QueueNumbers DEF IInv, Affords
    <3>3. QED
      BY <2>2, <2>4, <3>1, <3>2 DEF Starts
  <2>5. QED
    BY <2>3, <2>4
<1>5. QED
  BY <1>2, <1>3, <1>4 DEF Ticks

\* The header of the packet that starts.
LEMMA StartedHeader ==
  ASSUME IInv, PacketsFit, NEW x \in Side, NEW s \in Queues(x), Starts(x, s)
  PROVE  /\ FirstHeader(x, s) \in Chunks
         /\ FirstHeader(x, s) = Header(s, FirstHeader(x, s).amnt)
         /\ FirstHeader(x, s).amnt \in 0..ReturnThreshold
         /\ FirstHeader(x, s).amnt \in 0..Max({1, MaxChunks})
         /\ s = Fc(x) => FirstHeader(x, s).amnt = 1
         /\ s # Fc(x) => /\ FirstHeader(x, s).amnt + 1 <= portCredits[x][s]
                         /\ FirstHeader(x, s).amnt <= MaxChunks
         /\ PacketCost(FirstHeader(x, s)) = FirstHeader(x, s).amnt + 1
         /\ FirstHeader(x, s).amnt + 1 \in 1..(CreditMod - 1)
<1> DEFINE k == IF s = Fc(x) THEN 1 ELSE request[x][s]
           m == Max({1, MaxChunks})
<1>1. s # None
  BY QueueNumbers, SwitchAssumption
<1>2. NotEmptyHeader(x, s) /\ (s # Fc(x) => portCredits[x][s] >= MaximumPacketSize(x) + 1)
  BY <1>1 DEF Starts, MayStart
<1>3. FirstHeader(x, s) = Header(s, k)
  BY DEF FirstHeader
<1>4. FirstHeader(x, s).amnt = k
  BY <1>3 DEF Header
<1>5. s # Fc(x) => /\ k \in 0..MaxChunks /\ MaxChunks <= ReturnThreshold
                   /\ MaximumPacketSize(x) >= MaxChunks
                   /\ portCredits[x][s] \in Nat
  <2>1. SUFFICES ASSUME s # Fc(x)
                 PROVE  /\ k \in 0..MaxChunks /\ MaxChunks <= ReturnThreshold
                        /\ MaximumPacketSize(x) >= MaxChunks
                        /\ portCredits[x][s] \in Nat
    OBVIOUS
  <2>2. s \in DataQueues(x)
    BY <2>1, QueueNumbers
  <2>3. request[x][s] \in 0..MaxChunks \cup {None} /\ request[x][s] # None
    BY <1>2, <2>1, <2>2 DEF IInv, TypeOK, EgressTypeOK, NotEmptyHeader
  <2>4. portCredits[x][s] \in Nat
    BY Sizes DEF IInv, TypeOK, EgressTypeOK
  <2>5. QED
    BY <2>1, <2>2, <2>3, <2>4, SizesFit, LargestPacket
<1>6. m \in Nat /\ m >= 1 /\ m >= MaxChunks
  BY Largest
<1>7. ReturnThreshold >= 1
  BY SizesFit
<1> HIDE DEF k, m
<1>8. s = Fc(x) => k = 1
  BY DEF k
<1>9. k \in 0..ReturnThreshold /\ k \in 0..m
  BY <1>5, <1>6, <1>7, <1>8, Sizes
<1>10. k + 1 \in 1..(CreditMod - 1) /\ k \in 0..(2 * FifoSize)
  BY <1>7, <1>9, Sizes
<1>11. Header(s, k) \in Chunks
  BY <1>10, ChunkTypes
<1>12. (k + 1) % CreditMod = k + 1
  BY <1>10, Sizes, ModBelow
<1>13. s # Fc(x) => k + 1 <= portCredits[x][s] /\ k <= MaxChunks
  BY <1>2, <1>5, LargestPacket, Sizes
<1>14. QED
  BY <1>3, <1>4, <1>8, <1>9, <1>10, <1>11, <1>12, <1>13 DEF PacketCost, m

\* What the registers of a side hold before a cycle.
LEMMA SideTypes ==
  ASSUME IInv, NEW x \in Side
  PROVE  /\ wire[x] \in Seq(Chunks) /\ Len(wire[x]) \in Nat
         /\ bodyFIFO[x] \in Seq(Chunks) /\ bodyFIFO[x] \in Seq(BatchesFor(Peer(x)))
         /\ sendSize[x] \in Chunks \cup {None}
         /\ sendSize[x] \in BatchesFor(Peer(x)) \cup {None}
         /\ portRead[x] \in Chunks \cup {None}
         /\ portRead[x] \in FcChunks(x) \cup {None}
         /\ \A q \in RxQueues(x) : /\ buffer[x][q] \in Seq(Chunks) /\ Len(buffer[x][q]) \in Nat
                                   /\ free[x][q] \in 0..(CreditMod - 1)
         /\ Sending(x) \in Readers(x) /\ Receives(x) \in Readers(x)
<1>1. wire[x] \in Seq(Chunks) /\ Len(wire[x]) \in Nat
  BY LenProperties DEF IInv, TypeOK
<1>2. Sending(x) \in Readers(x) /\ Receives(x) \in Readers(x)
  BY <1>1, FramedReader DEF IInv, PacketsAreWhole
<1>3. \A q \in RxQueues(x) : /\ buffer[x][q] \in Seq(Chunks)
                             /\ free[x][q] \in 0..(CreditMod - 1)
  BY DEF IInv, TypeOK, IngressTypeOK
<1>4. \A q \in RxQueues(x) : Len(buffer[x][q]) \in Nat
  BY <1>3, LenProperties
<1>5. QED
  BY <1>1, <1>2, <1>3, <1>4 DEF IInv, TypeOK, IngressTypeOK, Contents

\* The packet that the egress is in, as a reader of its wire.
LEMMA SenderContinues ==
  ASSUME IInv, PacketsFit, NEW x \in Side, NEW winner, NEW s, NEW idx,
         Ticks(x, winner, s, idx)
  PROVE  \/ /\ s = None /\ ~Continuing(x) /\ Written(x, s) = <<>>
            /\ Sending(x)' = Sending(x)
         \/ /\ s # None /\ s \in Queues(x) /\ Written(x, s) = <<FirstHeader(x, s)>>
            /\ FirstHeader(x, s) \in Chunks /\ LinkReady(x) /\ ~Continuing(x)
            /\ requestChunksRemaining[x] = 0
            /\ Sending(x)' = [queue |-> s, left |-> FirstHeader(x, s).amnt]
            /\ Sending(x)' \in Readers(x)
            /\ Reads(x, Sending(x), FirstHeader(x, s), Sending(x)')
         \/ \E c \in Chunks :
              /\ s = None /\ Continuing(x) /\ LinkReady(x) /\ Written(x, s) = <<c>>
              /\ Sending(x)' = [Sending(x) EXCEPT !.left = @ - 1]
              /\ Sending(x)' \in Readers(x)
              /\ Reads(x, Sending(x), c, Sending(x)')
              /\ requestActiveQueue[x] = Fc(x) => bodyFIFO[x] # <<>> /\ c = Head(bodyFIFO[x])
              /\ requestActiveQueue[x] # Fc(x) => c = DataChunk(requestActiveQueue[x])
<1>1. /\ DOMAIN requestActiveQueue = Side /\ DOMAIN requestChunksRemaining = Side
      /\ requestActiveQueue[x] \in Queues(x)
      /\ requestChunksRemaining[x] \in 0..Max({1, MaxChunks})
  BY DEF IInv, Domains, TypeOK, EgressTypeOK
<1>2. /\ requestChunksRemaining' = [requestChunksRemaining EXCEPT ![x] =
           IF s # None THEN FirstHeader(x, s).amnt ELSE IF Continuing(x) THEN @ - 1 ELSE @]
      /\ requestActiveQueue' = [requestActiveQueue EXCEPT ![x] = IF s # None THEN s ELSE @]
  BY DEF Ticks, CycleOf, CountChunks
<1>3. /\ requestChunksRemaining'[x] =
           IF s # None THEN FirstHeader(x, s).amnt
           ELSE IF Continuing(x) THEN requestChunksRemaining[x] - 1
           ELSE requestChunksRemaining[x]
      /\ requestActiveQueue'[x] = IF s # None THEN s ELSE requestActiveQueue[x]
  BY <1>1, <1>2
<1>4. Sending(x)' = [queue |-> requestActiveQueue'[x], left |-> requestChunksRemaining'[x]]
  BY DEF Sending
<1>5. CASE s # None
  <2>1. s \in Queues(x) /\ MayStart(x, s) /\ Starts(x, s)
    BY <1>5 DEF Ticks, Starts
  <2>2. /\ FirstHeader(x, s) \in Chunks
        /\ FirstHeader(x, s) = Header(s, FirstHeader(x, s).amnt)
        /\ FirstHeader(x, s).amnt \in 0..Max({1, MaxChunks})
        /\ s = Fc(x) => FirstHeader(x, s).amnt = 1
    BY <2>1, StartedHeader
  <2>3. requestChunksRemaining[x] = 0 /\ LinkReady(x) /\ ~Continuing(x)
    BY <2>1 DEF MayStart, Continuing
  <2>4. Sending(x)' = [queue |-> s, left |-> FirstHeader(x, s).amnt]
    BY <1>3, <1>4, <1>5
  <2>5. Sending(x)' \in Readers(x)
    BY <2>1, <2>2, <2>4 DEF Readers
  <2>6. Reads(x, Sending(x), FirstHeader(x, s), Sending(x)')
    <3>1. Sending(x).left = 0
      BY <2>3 DEF Sending
    <3>2. Sending(x)'.queue = s /\ Sending(x)'.left = FirstHeader(x, s).amnt
      BY <2>4
    <3>3. QED
      BY <2>2, <3>1, <3>2 DEF Reads
  <2>7. Written(x, s) = <<FirstHeader(x, s)>>
    BY <1>5 DEF Written
  <2>8. QED
    BY <1>5, <2>1, <2>2, <2>3, <2>4, <2>5, <2>6, <2>7
<1>6. CASE s = None /\ ~Continuing(x)
  BY <1>3, <1>4, <1>6 DEF Written, Sending
<1>7. CASE s = None /\ Continuing(x)
  <2> DEFINE q == requestActiveQueue[x]
             c == IF q = Fc(x) THEN Head(bodyFIFO[x]) ELSE DataChunk(q)
  <2>1. /\ requestChunksRemaining[x] # 0 /\ LinkReady(x)
        /\ q = Fc(x) => bodyFIFO[x] # <<>>
    BY <1>7 DEF Continuing
  <2>2. Written(x, s) = <<c>>
    BY <1>7 DEF Written
  <2>3. c \in Bodies(x, q) /\ c \in Chunks
    <3>1. CASE q = Fc(x)
      <4>1. bodyFIFO[x] \in Seq(BatchesFor(Peer(x))) /\ bodyFIFO[x] # <<>>
        BY <2>1, <3>1, SideTypes
      <4>2. Head(bodyFIFO[x]) \in BatchesFor(Peer(x))
        BY <4>1, HeadTailProperties
      <4>3. QED
        BY <3>1, <4>2 DEF Bodies, BatchesFor
    <3>2. CASE q # Fc(x)
      BY <1>1, <3>2, ChunkTypes DEF Bodies
    <3>3. QED
      BY <3>1, <3>2
  <2>4. requestChunksRemaining[x] - 1 \in 0..Max({1, MaxChunks})
    <3> DEFINE m == Max({1, MaxChunks})
    <3>1. m \in Nat
      BY Largest
    <3> HIDE DEF m
    <3>2. requestChunksRemaining[x] \in 0..m
      BY <1>1 DEF m
    <3>3. requestChunksRemaining[x] - 1 \in 0..m
      BY <2>1, <3>1, <3>2
    <3>4. QED
      BY <3>3 DEF m
  <2>5. Sending(x)' = [queue |-> q, left |-> requestChunksRemaining[x] - 1]
    BY <1>3, <1>4, <1>7
  <2>6. Sending(x)' = [Sending(x) EXCEPT !.left = @ - 1]
    BY <2>5 DEF Sending
  <2>7. Sending(x)' \in Readers(x)
    BY <1>1, <2>4, <2>5 DEF Readers
  <2>8. Reads(x, Sending(x), c, Sending(x)')
    <3>1. Sending(x).left # 0 /\ Sending(x).queue = q
      BY <2>1 DEF Sending
    <3> HIDE DEF c, q
    <3>2. QED
      BY <2>3, <2>6, <3>1 DEF Reads
  <2>9. QED
    BY <1>7, <2>1, <2>2, <2>3, <2>6, <2>7, <2>8
<1>8. QED
  BY <1>5, <1>6, <1>7

\* The ingress takes the first chunk of its wire for what it is.
LEMMA ReceiverContinues ==
  ASSUME IInv, NEW x \in Side, NEW winner, NEW s, NEW idx, Ticks(x, winner, s, idx)
  PROVE  /\ ~Receiving(x) => Receives(Peer(x))' = Receives(Peer(x))
         /\ Receiving(x) =>
              /\ wire[Peer(x)] # <<>> /\ Arrived(x) \in Chunks
              /\ Receives(Peer(x))' \in Readers(Peer(x))
              /\ Reads(Peer(x), Receives(Peer(x)), Arrived(x), Receives(Peer(x))')
              /\ Framed(Peer(x), Tail(wire[Peer(x)]), Receives(Peer(x))', Sending(Peer(x)))
              /\ Target(x) = Receives(Peer(x))'.queue
<1> DEFINE y == Peer(x)
<1>1. y \in Side /\ Peer(y) = x
  BY Peers
<1>2. /\ DOMAIN rxActiveQueue = Side /\ DOMAIN rxChunksRemaining = Side
      /\ wire[y] \in Seq(Chunks) /\ Framed(y, wire[y], Receives(y), Sending(y))
  BY <1>1, SideTypes DEF IInv, Domains, PacketsAreWhole
<1>3. CountReceived(x)
  BY DEF Ticks, CycleOf, IngressCycle
<1>4. /\ rxChunksRemaining'[x] = IF ~Receiving(x) THEN rxChunksRemaining[x]
                                 ELSE IF rxChunksRemaining[x] = 0 THEN Arrived(x).amnt
                                 ELSE rxChunksRemaining[x] - 1
      /\ rxActiveQueue'[x] = IF Receiving(x) THEN Target(x) ELSE rxActiveQueue[x]
  BY <1>2, <1>3 DEF CountReceived
<1>5. /\ Receives(y)' = [queue |-> rxActiveQueue'[x], left |-> rxChunksRemaining'[x]]
      /\ Receives(y).queue = rxActiveQueue[x] /\ Receives(y).left = rxChunksRemaining[x]
      /\ Receives(y) = [queue |-> rxActiveQueue[x], left |-> rxChunksRemaining[x]]
  BY <1>1 DEF Receives
<1>6. CASE ~Receiving(x)
  BY <1>4, <1>5, <1>6
<1>7. CASE Receiving(x)
  <2>1. wire[y] # <<>> /\ Arrived(x) = Head(wire[y])
    BY <1>7 DEF Receiving, Arrived
  <2>2. PICK d \in Readers(y) :
          Reads(y, Receives(y), Arrived(x), d) /\ Framed(y, Tail(wire[y]), d, Sending(y))
    BY <1>2, <2>1, FramedTail
  <2>3. Arrived(x) \in Chunks
    BY <1>2, <2>1, HeadTailProperties
  <2>4. Receives(y) \in Readers(y)
    BY <1>1, SideTypes
  <2>5. /\ d.queue = IF Receives(y).left = 0 THEN Arrived(x).idx ELSE Receives(y).queue
        /\ d.left = IF Receives(y).left = 0 THEN Arrived(x).amnt ELSE Receives(y).left - 1
        /\ d = [queue |-> d.queue, left |-> d.left]
    BY <1>1, <2>2, <2>3, <2>4, ReadsFacts
  <2>6. d.queue = rxActiveQueue'[x] /\ d.left = rxChunksRemaining'[x] /\ d.queue = Target(x)
    BY <1>4, <1>5, <1>7, <2>5 DEF Target
  <2>7. Receives(y)' = d
    BY <1>5, <2>5, <2>6
  <2>8. QED
    BY <1>7, <2>1, <2>2, <2>3, <2>6, <2>7
<1>8. QED
  BY <1>6, <1>7

\* The two wires of a cycle: one is written, the other read.
LEMMA WireMoves ==
  ASSUME IInv, NEW x \in Side, NEW winner, NEW s, NEW idx, Ticks(x, winner, s, idx)
  PROVE  /\ wire'[x] = wire[x] \o Written(x, s)
         /\ wire'[Peer(x)] = IF Receiving(x) THEN Tail(wire[Peer(x)]) ELSE wire[Peer(x)]
         /\ Receives(x)' = Receives(x) /\ Sending(Peer(x))' = Sending(Peer(x))
<1>1. Peer(x) \in Side /\ Peer(x) # x
  BY Peers
<1>2. DOMAIN wire = Side
  BY DEF IInv, Domains
<1>3. wire' = [wire EXCEPT
        ![x] = @ \o Written(x, s), ![Peer(x)] = IF Receiving(x) THEN Tail(@) ELSE @]
  BY DEF Ticks, CycleOf, SharedCycle
<1>4. wire'[x] = wire[x] \o Written(x, s)
  BY <1>1, <1>2, <1>3
<1>5. wire'[Peer(x)] = IF Receiving(x) THEN Tail(wire[Peer(x)]) ELSE wire[Peer(x)]
  BY <1>1, <1>2, <1>3
<1>6. /\ rxActiveQueue'[Peer(x)] = rxActiveQueue[Peer(x)]
      /\ rxChunksRemaining'[Peer(x)] = rxChunksRemaining[Peer(x)]
  BY <1>1 DEF Ticks, CycleOf, IngressCycle, CountReceived, IInv, Domains
<1>7. /\ requestActiveQueue'[Peer(x)] = requestActiveQueue[Peer(x)]
      /\ requestChunksRemaining'[Peer(x)] = requestChunksRemaining[Peer(x)]
  BY <1>1 DEF Ticks, CycleOf, CountChunks, IInv, Domains
<1>8. QED
  BY <1>4, <1>5, <1>6, <1>7 DEF Receives, Sending

\* An addition to a queue of nothing or of one chunk.
LEMMA ConcatOne ==
  ASSUME NEW S, NEW t \in Seq(S)
  PROVE  /\ t \o <<>> = t
         /\ \A c \in S : t \o <<c>> = Append(t, c) /\ Append(t, c) \in Seq(S)
                         /\ Len(Append(t, c)) = Len(t) + 1
BY ConcatEmptySeq, AppendIsConcat, AppendProperties

\* Packets stay whole.
LEMMA PacketsStayWhole ==
  ASSUME IInv, PacketsFit, NEW x \in Side, NEW winner, NEW s, NEW idx,
         Ticks(x, winner, s, idx)
  PROVE  PacketsAreWhole'
<1> DEFINE y == Peer(x)
<1>1. y \in Side /\ Peer(y) = x /\ y # x /\ \A z \in Side : z = x \/ z = y
  BY Peers
<1>2. /\ wire[x] \in Seq(Chunks) /\ wire[y] \in Seq(Chunks)
      /\ Sending(x) \in Readers(x) /\ Receives(x) \in Readers(x)
      /\ Framed(x, wire[x], Receives(x), Sending(x))
      /\ Framed(y, wire[y], Receives(y), Sending(y))
  BY <1>1, SideTypes DEF IInv, PacketsAreWhole
<1>3. Framed(x, wire'[x], Receives(x)', Sending(x)')
  <2>1. CASE Written(x, s) = <<>> /\ Sending(x)' = Sending(x)
    <3>1. wire'[x] = wire[x] /\ Receives(x)' = Receives(x)
      BY <1>2, <2>1, WireMoves, ConcatOne
    <3>2. QED
      BY <1>2, <2>1, <3>1
  <2>2. CASE \E c \in Chunks : /\ Written(x, s) = <<c>> /\ Sending(x)' \in Readers(x)
                               /\ Reads(x, Sending(x), c, Sending(x)')
    <3>1. PICK c \in Chunks : /\ Written(x, s) = <<c>> /\ Sending(x)' \in Readers(x)
                              /\ Reads(x, Sending(x), c, Sending(x)')
      BY <2>2
    <3>2. wire'[x] = Append(wire[x], c) /\ Receives(x)' = Receives(x)
      <4>1. wire[x] \o <<c>> = Append(wire[x], c)
        BY <1>2, ConcatOne
      <4>2. wire'[x] = wire[x] \o Written(x, s) /\ Receives(x)' = Receives(x)
        BY WireMoves
      <4>3. QED
        BY <3>1, <4>1, <4>2
    <3>3. Framed(x, Append(wire[x], c), Receives(x), Sending(x)')
      BY <1>2, <3>1, FramedAppend
    <3>4. QED
      BY <3>2, <3>3
  <2>3. QED
    BY <2>1, <2>2, SenderContinues
<1>4. Framed(y, wire'[y], Receives(y)', Sending(y)')
  <2>1. Sending(y)' = Sending(y)
    BY WireMoves
  <2>2. CASE Receiving(x)
    <3>1. wire'[y] = Tail(wire[y])
      BY <2>2, WireMoves
    <3>2. Framed(y, Tail(wire[y]), Receives(y)', Sending(y))
      BY <2>2, ReceiverContinues
    <3>3. QED
      BY <2>1, <3>1, <3>2
  <2>3. CASE ~Receiving(x)
    <3>1. wire'[y] = wire[y] /\ Receives(y)' = Receives(y)
      BY <2>3, WireMoves, ReceiverContinues
    <3>2. QED
      BY <1>2, <2>1, <3>1
  <2>4. QED
    BY <2>2, <2>3
<1>5. QED
  BY <1>1, <1>3, <1>4 DEF PacketsAreWhole

-----------------------------------------------------------------------------
(* What a cycle of x does to the counts of the channels that x sends on.   *)

\* Chunks that queue q of x starts in the cycle.
Paid(x, s, q) == IF s = q /\ s # None THEN FirstHeader(x, q).amnt + 1 ELSE 0

\* Credits that the cycle adds to queue q of x.
Refilled(x, q) ==
  IF Refilling(x) /\ portRead[x].idx = q THEN portRead[x].amnt ELSE 0

\* Chunks that travel for queue q of x.
ChunksFor(x, q) == {c \in Chunks : Carrier(x, c) = q}

\* The chunks of a queue on its wire are counted as places.
LEMMA CarriedArePlaces ==
  ASSUME NEW x, NEW q, NEW t \in Seq(Chunks)
  PROVE  Carried(x, t, q) = Places(t, ChunksFor(x, q))
<1>1. DOMAIN t = 1..Len(t) /\ \A n \in 1..Len(t) : t[n] \in Chunks
  BY LenProperties, ElementOfSeq
<1>2. QED
  BY <1>1 DEF Places, Carried, ChunksFor

\* Chunks set out when their packet is paid for.
LEMMA InFlightOfSender ==
  ASSUME IInv, PacketsFit, NEW x \in Side, NEW winner, NEW s, NEW idx,
         Ticks(x, winner, s, idx), NEW q \in Queues(x)
  PROVE  /\ InFlight(x, q)' = InFlight(x, q) + Paid(x, s, q)
         /\ InFlight(x, q) \in Nat
<1> DEFINE T == ChunksFor(x, q)
           share(r) == IF r.queue = q THEN r.left ELSE 0
<1>1. wire[x] \in Seq(Chunks) /\ Sending(x) \in Readers(x)
  BY SideTypes
<1>2. InFlight(x, q) = Cardinality(Places(wire[x], T)) + share(Sending(x))
  <2>1. Carried(x, wire[x], q) = Places(wire[x], T)
    BY <1>1, CarriedArePlaces
  <2> HIDE DEF T
  <2>2. QED
    BY <2>1 DEF InFlight, Sending
<1>3. wire'[x] \in Seq(Chunks) =>
        InFlight(x, q)' = Cardinality(Places(wire'[x], T)) + share(Sending(x)')
  <2>1. wire'[x] \in Seq(Chunks) =>
          Carried(x, wire'[x], q) = Places(wire'[x], T)
    BY CarriedArePlaces
  <2> HIDE DEF T
  <2>2. QED
    BY <2>1 DEF InFlight, Sending
<1>4. Cardinality(Places(wire[x], T)) \in Nat
  BY <1>1, PlacesBounded
<1>5. \A r \in Readers(x) : r.left \in Nat /\ share(r) \in Nat
  BY Largest DEF Readers
<1>6. InFlight(x, q) \in Nat
  <2>1. share(Sending(x)) \in Nat
    BY <1>1, <1>5
  <2> HIDE DEF share, T
  <2>2. QED
    BY <1>2, <1>4, <2>1
<1>7. wire'[x] = wire[x] \o Written(x, s)
  BY WireMoves
<1>8. CASE Written(x, s) = <<>> /\ Sending(x)' = Sending(x) /\ s = None
  <2>1. wire'[x] = wire[x] /\ Paid(x, s, q) = 0
    BY <1>1, <1>7, <1>8, ConcatOne DEF Paid
  <2> HIDE DEF T, share
  <2>2. QED
    BY <1>1, <1>2, <1>3, <1>4, <1>5, <1>8, <2>1
<1>9. ASSUME NEW c \in Chunks, Written(x, s) = <<c>>, Sending(x)' \in Readers(x),
             Reads(x, Sending(x), c, Sending(x)'),
             Sending(x).left = 0 => s # None /\ c = FirstHeader(x, s) /\ c.idx = s,
             Sending(x).left # 0 => s = None
      PROVE  InFlight(x, q)' = InFlight(x, q) + Paid(x, s, q)
  <2> DEFINE a == Sending(x)
             b == Sending(x)'
             one == IF b.queue = q THEN 1 ELSE 0
  <2>1. wire'[x] = Append(wire[x], c) /\ wire'[x] \in Seq(Chunks)
    <3>1. wire[x] \o <<c>> = Append(wire[x], c) /\ Append(wire[x], c) \in Seq(Chunks)
      BY <1>1, ConcatOne
    <3>2. QED
      BY <1>7, <1>9, <3>1
  <2>2. /\ b.queue = IF a.left = 0 THEN c.idx ELSE a.queue
        /\ b.left = IF a.left = 0 THEN c.amnt ELSE a.left - 1
        /\ Carrier(x, c) = b.queue
    BY <1>1, <1>9, ReadsFacts
  <2>3. Cardinality(Places(wire'[x], T)) = Cardinality(Places(wire[x], T)) + one
    <3>1. c \in T <=> b.queue = q
      BY <2>2 DEF ChunksFor
    <3> HIDE DEF T, b
    <3>2. QED
      BY <1>1, <2>1, <3>1, PlacesOfAppend
  <2>4. a.left \in Nat /\ b.left \in Nat
    BY <1>1, <1>5, <1>9
  <2>5. one + share(b) = share(a) + Paid(x, s, q)
    <3>1. CASE a.left = 0
      <4>1. b.queue = s /\ b.left = FirstHeader(x, s).amnt /\ s # None
        BY <1>9, <2>2, <3>1
      <4>2. share(a) = 0
        BY <3>1
      <4>3. QED
        BY <2>4, <4>1, <4>2 DEF Paid
    <3>2. CASE a.left # 0
      <4>1. b.queue = a.queue /\ b.left = a.left - 1 /\ Paid(x, s, q) = 0
        BY <1>9, <2>2, <3>2 DEF Paid
      <4>2. QED
        BY <2>4, <4>1
    <3>3. QED
      BY <3>1, <3>2
  <2>6. InFlight(x, q)' = Cardinality(Places(wire'[x], T)) + share(b)
    BY <1>3, <2>1
  <2>7. share(a) \in Nat /\ share(b) \in Nat /\ one \in Nat
    BY <1>1, <1>5, <1>9
  <2>8. Paid(x, s, q) \in Int
    BY <2>5, <2>7, <2>2, <2>4, <1>9, AmountType DEF Paid
  <2> HIDE DEF T, share, one, a, b
  <2>9. InFlight(x, q) = Cardinality(Places(wire[x], T)) + share(a)
    BY <1>2 DEF a
  <2>10. QED
    BY <1>4, <2>3, <2>5, <2>6, <2>7, <2>8, <2>9
<1>10. CASE /\ s # None /\ s \in Queues(x) /\ Written(x, s) = <<FirstHeader(x, s)>>
           /\ FirstHeader(x, s) \in Chunks
           /\ requestChunksRemaining[x] = 0 /\ Sending(x)' \in Readers(x)
           /\ Reads(x, Sending(x), FirstHeader(x, s), Sending(x)')
  <2>1. Sending(x).left = 0 /\ FirstHeader(x, s).idx = s
    BY <1>10 DEF Sending, FirstHeader, Header
  <2>2. QED
    BY <1>9, <1>10, <1>6, <2>1
<1>11. CASE \E c \in Chunks :
              /\ s = None /\ Continuing(x) /\ Written(x, s) = <<c>>
              /\ Sending(x)' \in Readers(x) /\ Reads(x, Sending(x), c, Sending(x)')
  <2>1. Sending(x).left # 0
    BY <1>11 DEF Sending, Continuing
  <2>2. QED
    BY <1>9, <1>11, <1>6, <2>1
<1>12. QED
  BY <1>8, <1>10, <1>11, <1>6, SenderContinues

\* The credits in a slot.
SlotAmount(slot, q) == IF slot = None THEN 0 ELSE Amount(slot, q)

\* What a queue of chunks loses at its head and gains at its end.
LEMMA CreditsMove ==
  ASSUME NEW t \in Seq(Chunks), NEW take \in BOOLEAN, take => t # <<>>,
         NEW slot \in Chunks \cup {None}, NEW q
  PROVE  LET rest == IF take THEN Tail(t) ELSE t
         IN  /\ rest \o AsSeq(slot) \in Seq(Chunks)
             /\ CreditCount(rest \o AsSeq(slot), q) =
                  CreditCount(t, q) - (IF take THEN Amount(Head(t), q) ELSE 0)
                  + SlotAmount(slot, q)
<1> DEFINE rest == IF take THEN Tail(t) ELSE t
           gone == IF take THEN Amount(Head(t), q) ELSE 0
<1>1. rest \in Seq(Chunks) /\ gone \in Nat
  BY HeadTailProperties, AmountType
<1>2. CreditCount(t, q) = CreditCount(rest, q) + gone /\ CreditCount(rest, q) \in Nat
  <2>1. CreditCount(rest, q) \in Nat
    <3> HIDE DEF rest
    <3>1. QED
      BY <1>1, CreditCountType
  <2>2. CASE take
    BY <2>1, <2>2, CreditsOfTail
  <2>3. CASE ~take
    BY <2>1, <2>3
  <2>4. QED
    BY <2>2, <2>3
<1> HIDE DEF rest, gone
<1>3. /\ rest \o AsSeq(slot) \in Seq(Chunks)
      /\ CreditCount(rest \o AsSeq(slot), q) = CreditCount(rest, q) + SlotAmount(slot, q)
  <2>1. CASE slot = None
    <3>1. rest \o AsSeq(slot) = rest
      BY <1>1, <2>1, ConcatOne DEF AsSeq
    <3>2. QED
      BY <1>1, <1>2, <2>1, <3>1 DEF SlotAmount
  <2>2. CASE slot # None
    <3>1. slot \in Chunks
      BY <2>2
    <3>2. rest \o <<slot>> = Append(rest, slot) /\ Append(rest, slot) \in Seq(Chunks)
      BY <1>1, <3>1, ConcatOne
    <3>3. CreditCount(Append(rest, slot), q) = CreditCount(rest, q) + Amount(slot, q)
      BY <1>1, <3>1, CreditsOfAppend
    <3>4. QED
      BY <2>2, <3>2, <3>3 DEF AsSeq, SlotAmount
  <2>3. QED
    BY <2>1, <2>2
<1>4. SlotAmount(slot, q) \in Nat
  BY AmountType DEF SlotAmount
<1>5. QED
  BY <1>1, <1>2, <1>3, <1>4 DEF rest, gone

\* Credits of a data queue or of the flow control queue come in at the flow control
\* port only.
LEMMA PortMoves ==
  ASSUME IInv, NEW x \in Side, NEW winner, NEW s, NEW idx, Ticks(x, winner, s, idx)
  PROVE  LET fc == RxFc(x)
             slot == IF Receiving(x) /\ Target(x) = fc THEN Arrived(x) ELSE None
             rest == IF idx = fc THEN Tail(buffer[x][fc]) ELSE buffer[x][fc]
         IN  /\ fc \in RxQueues(x) /\ fc # None
             /\ idx = fc => buffer[x][fc] # <<>>
             /\ slot \in Chunks \cup {None}
             /\ slot \in FcChunks(x) \cup {None}
             /\ buffer'[x][fc] = rest \o AsSeq(slot)
             /\ portRead'[x] = IF idx = fc THEN Head(buffer[x][fc]) ELSE None
<1> DEFINE y == Peer(x)
           fc == RxFc(x)
           slot == IF Receiving(x) /\ Target(x) = fc THEN Arrived(x) ELSE None
           rest == IF idx = fc THEN Tail(buffer[x][fc]) ELSE buffer[x][fc]
<1>1. /\ y \in Side /\ Peer(y) = x /\ fc \in RxQueues(x) /\ fc = Fc(y) /\ fc \in Nat
      /\ RxQueues(x) = Queues(y)
  BY Peers, QueueNumbers DEF RxFc, RxQueues
<1>2. fc # None
  BY <1>1, SwitchAssumption
<1>3. idx = fc => buffer[x][fc] # <<>>
  BY <1>2 DEF Ticks, NotEmpty
<1>4. portRead'[x] = IF idx = fc THEN Head(buffer[x][fc]) ELSE None
  BY DEF Ticks, CycleOf, SharedCycle, IInv, Domains
<1>5. buffer[x][fc] \in Seq(FcChunks(x)) /\ FcChunks(x) \subseteq Chunks
  <2>1. x \in Side /\ 0 \in Queues(x)
    BY Zeros
  <2>2. QED
    BY <2>1, ChunkTypes DEF IInv, Contents
<1>6. Receiving(x) /\ Target(x) = fc => Arrived(x) \in FcChunks(x) /\ Arrived(x) \in Chunks
  <2>1. SUFFICES ASSUME Receiving(x), Target(x) = fc
                 PROVE  Arrived(x) \in FcChunks(x) /\ Arrived(x) \in Chunks
    OBVIOUS
  <2>2. /\ Arrived(x) \in Chunks /\ Receives(y) \in Readers(y) /\ Receives(y)' \in Readers(y)
        /\ Reads(y, Receives(y), Arrived(x), Receives(y)')
        /\ Receives(y)'.queue = fc
    BY <1>1, <2>1, ReceiverContinues, SideTypes
  <2>3. \/ Arrived(x) = Header(Fc(y), 1)
        \/ Arrived(x) \in BatchesFor(Peer(y))
    BY <1>1, <2>2, ReadsFacts
  <2>4. QED
    BY <1>1, <2>2, <2>3 DEF FcChunks
<1>7. buffer'[x][fc] = IF Receiving(x) /\ Target(x) = fc
                       THEN Append(rest, Arrived(x)) ELSE rest
  <2>1. EnqDeq(x, idx)
    BY DEF Ticks, CycleOf, IngressCycle
  <2>2. buffer'[x][fc] = IF Receiving(x) /\ Target(x) = fc
                         THEN Append(rest, Kept(x, Arrived(x))) ELSE rest
    BY <1>1, <2>1 DEF EnqDeq, IInv, Domains
  <2>3. QED
    BY <2>2 DEF Kept
<1>8. rest \in Seq(Chunks)
  <2>1. buffer[x][fc] \in Seq(Chunks)
    BY <1>1, SideTypes
  <2>2. QED
    BY <1>3, <2>1, HeadTailProperties
<1>9. buffer'[x][fc] = rest \o AsSeq(slot)
  <2>1. CASE Receiving(x) /\ Target(x) = fc
    <3>1. slot = Arrived(x) /\ slot \in Chunks /\ slot # None
      BY <1>6, <2>1, SwitchAssumption
    <3> HIDE DEF rest, slot
    <3>2. rest \o <<slot>> = Append(rest, slot)
      BY <1>8, <3>1, ConcatOne
    <3>3. QED
      BY <1>7, <2>1, <3>1, <3>2 DEF AsSeq
  <2>2. CASE ~(Receiving(x) /\ Target(x) = fc)
    <3>1. slot = None
      BY <2>2
    <3> HIDE DEF rest, slot
    <3>2. QED
      BY <1>7, <1>8, <2>2, <3>1, ConcatOne DEF AsSeq
  <2>3. QED
    BY <2>1, <2>2
<1>10. slot \in Chunks \cup {None} /\ slot \in FcChunks(x) \cup {None}
  BY <1>6
<1>11. QED
  BY <1>1, <1>2, <1>3, <1>4, <1>9, <1>10

\* The port returns a batch exactly when credits are added.
LEMMA RefilledIs ==
  ASSUME IInv, NEW x \in Side, NEW q
  PROVE  SlotAmount(portRead[x], q) = Refilled(x, q)
<1>1. portRead[x] # None => portRead[x].kind = Kind(deqHeader[x])
  BY DEF IInv, Alternates
<1>2. CASE portRead[x] = None
  BY <1>2 DEF SlotAmount, Refilled, Refilling
<1>3. CASE portRead[x] # None /\ deqHeader[x]
  <2>1. portRead[x].kind = "header"
    BY <1>1, <1>3 DEF Kind
  <2>2. QED
    BY <1>3, <2>1 DEF SlotAmount, Amount, Refilled, Refilling
<1>4. CASE portRead[x] # None /\ ~deqHeader[x]
  <2>1. portRead[x].kind = "credit"
    BY <1>1, <1>4 DEF Kind
  <2>2. QED
    BY <1>4, <2>1 DEF SlotAmount, Amount, Refilled, Refilling
<1>5. QED
  BY <1>2, <1>3, <1>4

\* Credits on their way to x move on, and only those that are added arrive.
LEMMA ReturningOfSender ==
  ASSUME IInv, NEW x \in Side, NEW winner, NEW s, NEW idx,
         Ticks(x, winner, s, idx), NEW q \in Queues(x)
  PROVE  /\ Returning(x, q)' = Returning(x, q) - Refilled(x, q)
         /\ Returning(x, q) \in Nat /\ Refilled(x, q) \in Nat
         /\ CreditCount(AsSeq(portRead[x]), q) = Refilled(x, q)
<1> DEFINE y == Peer(x)
           fc == RxFc(x)
           slot == IF Receiving(x) /\ Target(x) = fc THEN Arrived(x) ELSE None
           rest == IF idx = fc THEN Tail(buffer[x][fc]) ELSE buffer[x][fc]
           read == IF idx = fc THEN Amount(Head(buffer[x][fc]), q) ELSE 0
           came == IF Receiving(x) THEN Amount(Arrived(x), q) ELSE 0
<1>1. y \in Side /\ Peer(y) = x /\ y # x /\ fc = Fc(y)
  BY Peers DEF RxFc
<1>2. /\ fc \in RxQueues(x) /\ fc # None
      /\ idx = fc => buffer[x][fc] # <<>>
      /\ slot \in Chunks \cup {None}
      /\ buffer'[x][fc] = rest \o AsSeq(slot)
      /\ portRead'[x] = IF idx = fc THEN Head(buffer[x][fc]) ELSE None
  BY PortMoves
<1>3. /\ buffer[x][fc] \in Seq(Chunks) /\ wire[y] \in Seq(Chunks) /\ bodyFIFO[y] \in Seq(Chunks)
      /\ sendSize[y] \in Chunks \cup {None} /\ portRead[x] \in Chunks \cup {None}
  BY <1>1, <1>2, SideTypes
<1>4. bodyFIFO'[y] = bodyFIFO[y] /\ sendSize'[y] = sendSize[y]
  BY <1>1 DEF Ticks, CycleOf, SharedCycle, IngressCycle, ReturnCredits, IInv, Domains
<1>5. CreditCount(AsSeq(portRead[x]), q) = Refilled(x, q)
  BY <1>3, CreditsOfSlot, RefilledIs DEF SlotAmount
<1>6. read \in Nat
  BY <1>2, <1>3, HeadTailProperties, AmountType
<1>7. CreditCount(AsSeq(portRead'[x]), q) = read
  <2>1. portRead'[x] \in Chunks \cup {None}
    BY <1>2, <1>3, HeadTailProperties
  <2>2. CreditCount(AsSeq(portRead'[x]), q) = SlotAmount(portRead'[x], q)
    BY <2>1, CreditsOfSlot DEF SlotAmount
  <2>3. CASE idx = fc
    <3>1. Head(buffer[x][fc]) \in Chunks
      BY <1>2, <1>3, <2>3, HeadTailProperties
    <3>2. Head(buffer[x][fc]) # None
      BY <3>1, SwitchAssumption
    <3>3. QED
      BY <1>2, <2>2, <2>3, <3>2 DEF SlotAmount
  <2>4. CASE idx # fc
    BY <1>2, <2>2, <2>4 DEF SlotAmount
  <2>5. QED
    BY <2>3, <2>4
<1>8. CreditCount(buffer'[x][fc], q) =
        CreditCount(buffer[x][fc], q) - read + SlotAmount(slot, q)
  <2> DEFINE take == idx = fc
             t == buffer[x][fc]
  <2>1. take \in BOOLEAN /\ (take => t # <<>>) /\ t \in Seq(Chunks)
    BY <1>2, <1>3
  <2>2. /\ buffer'[x][fc] = (IF take THEN Tail(t) ELSE t) \o AsSeq(slot)
        /\ read = IF take THEN Amount(Head(t), q) ELSE 0
    BY <1>2
  <2> HIDE DEF slot, take, t, read
  <2>3. CreditCount((IF take THEN Tail(t) ELSE t) \o AsSeq(slot), q) =
          CreditCount(t, q) - (IF take THEN Amount(Head(t), q) ELSE 0)
          + SlotAmount(slot, q)
    BY <1>2, <2>1, CreditsMove
  <2>4. QED
    BY <2>2, <2>3 DEF t
<1>9. /\ CreditCount(wire'[y], q) = CreditCount(wire[y], q) - came
      /\ came \in Nat /\ SlotAmount(slot, q) = came
  <2>1. CASE ~Receiving(x)
    <3>1. wire'[y] = wire[y]
      BY <2>1, WireMoves
    <3>2. CreditCount(wire[y], q) \in Nat
      BY <1>3, CreditCountType
    <3>3. QED
      BY <2>1, <3>1, <3>2 DEF SlotAmount
  <2>2. CASE Receiving(x)
    <3>1. /\ wire[y] # <<>> /\ Arrived(x) \in Chunks /\ Arrived(x) = Head(wire[y])
          /\ Reads(y, Receives(y), Arrived(x), Receives(y)')
          /\ Receives(y) \in Readers(y) /\ Receives(y)' \in Readers(y)
          /\ Target(x) = Receives(y)'.queue
      BY <1>1, <2>2, ReceiverContinues, SideTypes DEF Arrived
    <3>2. wire'[y] = Tail(wire[y])
      BY <2>2, WireMoves
    <3>3. CreditCount(wire[y], q) = CreditCount(Tail(wire[y]), q) + Amount(Arrived(x), q)
      BY <1>3, <3>1, CreditsOfTail
    <3>4. Target(x) # fc => Arrived(x).kind # "credit"
      BY <1>1, <3>1, ReadsFacts
    <3>5. Arrived(x) # None /\ Amount(Arrived(x), q) \in Nat
      BY <3>1, SwitchAssumption, AmountType
    <3>6. Target(x) # fc => Amount(Arrived(x), q) = 0
      BY <3>4 DEF Amount
    <3>7. SlotAmount(slot, q) = came
      BY <2>2, <3>5, <3>6 DEF SlotAmount
    <3>8. Tail(wire[y]) \in Seq(Chunks)
      BY <1>3, <3>1, HeadTailProperties
    <3>9. CreditCount(Tail(wire[y]), q) \in Nat
      BY <3>8, CreditCountType
    <3>10. QED
      BY <2>2, <3>2, <3>3, <3>5, <3>7, <3>9
  <2>3. QED
    BY <2>1, <2>2
<1>10. /\ CreditCount(buffer[x][fc], q) \in Nat /\ CreditCount(wire[y], q) \in Nat
       /\ CreditCount(bodyFIFO[y], q) \in Nat
       /\ CreditCount(AsSeq(sendSize[y]), q) \in Nat /\ Refilled(x, q) \in Nat
  <2>1. AsSeq(sendSize[y]) \in Seq(Chunks) /\ AsSeq(portRead[x]) \in Seq(Chunks)
    BY <1>3 DEF AsSeq
  <2>2. CreditCount(AsSeq(portRead[x]), q) \in Nat
    BY <2>1, CreditCountType
  <2>3. QED
    BY <1>3, <1>5, <2>1, <2>2, CreditCountType
<1> HIDE DEF read, came, slot, rest
<1>11. Returning(x, q) =
         Refilled(x, q) + CreditCount(buffer[x][fc], q) + CreditCount(wire[y], q)
         + CreditCount(bodyFIFO[y], q) + CreditCount(AsSeq(sendSize[y]), q)
  BY <1>5 DEF Returning
<1>12. Returning(x, q)' =
         CreditCount(AsSeq(portRead'[x]), q) + CreditCount(buffer'[x][fc], q)
         + CreditCount(wire'[y], q) + CreditCount(bodyFIFO'[y], q)
         + CreditCount(AsSeq(sendSize'[y]), q)
  BY DEF Returning
<1>13. Returning(x, q)' =
         read + (CreditCount(buffer[x][fc], q) - read + came)
         + (CreditCount(wire[y], q) - came)
         + CreditCount(bodyFIFO[y], q) + CreditCount(AsSeq(sendSize[y]), q)
  BY <1>4, <1>7, <1>8, <1>9, <1>12
<1>14. QED
  BY <1>5, <1>6, <1>9, <1>10, <1>11, <1>13

\* What is added was a batch.
LEMMA RefillFacts ==
  ASSUME IInv, NEW x \in Side
  PROVE  /\ Refilling(x) => portRead[x] \in BatchesFor(x) /\ portRead[x].idx \in Queues(x)
         /\ \A q : /\ Refilled(x, q) \in 0..(CreditMod - 1)
                   /\ Refilled(x, q) = 0 \/ Refilled(x, q) > ReturnThreshold
<1>1. Refilling(x) => portRead[x] \in BatchesFor(x)
  <2>1. SUFFICES ASSUME Refilling(x) PROVE portRead[x] \in BatchesFor(x)
    OBVIOUS
  <2>2. portRead[x] \in FcChunks(x) /\ portRead[x].kind = "credit"
    BY <2>1, SideTypes DEF Refilling, IInv, Alternates, Kind
  <2>3. Header(RxFc(x), 1).kind = "header"
    BY DEF Header
  <2>4. QED
    BY <2>2, <2>3 DEF FcChunks
<1>2. Refilling(x) => /\ portRead[x].idx \in Queues(x)
                      /\ portRead[x].amnt \in (ReturnThreshold + 1)..(CreditMod - 1)
  BY <1>1, BatchFacts
<1>3. QED
  BY <1>1, <1>2, Sizes DEF Refilled

\* The credits on a wire are batches.
LEMMA BatchesOnWire ==
  ASSUME NEW x \in Side, NEW t \in Seq(Chunks), NEW a, NEW b, Framed(x, t, a, b),
         NEW n \in 1..Len(t), t[n].kind = "credit"
  PROVE  t[n] \in BatchesFor(Peer(x))
<1>1. Len(t) \in Nat /\ t[n] \in Chunks
  BY LenProperties, ElementOfSeq
<1>2. PICK at \in [0..Len(t) -> Readers(x)] : Reads(x, at[n - 1], t[n], at[n])
  BY DEF Framed
<1>3. n - 1 \in 0..Len(t) /\ n \in 0..Len(t)
  BY <1>1
<1>4. at[n - 1] \in Readers(x) /\ at[n] \in Readers(x)
  BY <1>3
<1>5. /\ at[n].queue = Fc(x) =>
           /\ at[n - 1].left = 0 => t[n] = Header(Fc(x), 1)
           /\ at[n - 1].left # 0 => t[n] \in BatchesFor(Peer(x))
      /\ at[n].queue # Fc(x) => t[n].kind # "credit"
  BY <1>1, <1>2, <1>4, ReadsFacts
<1>6. Header(Fc(x), 1).kind = "header"
  BY DEF Header
<1>7. QED
  BY <1>5, <1>6

\* The credits on their way to a queue are batches that the port returns now, and
\* others that are still to come.
LEMMA ReturningInBatches ==
  ASSUME IInv, NEW x \in Side, NEW q \in Queues(x)
  PROVE  \E rest \in Nat : /\ Returning(x, q) = Refilled(x, q) + rest
                           /\ rest = 0 \/ rest > ReturnThreshold
<1> DEFINE y == Peer(x)
           inBuffer == CreditCount(buffer[x][RxFc(x)], q)
           onWire == CreditCount(wire[y], q)
           inFIFO == CreditCount(bodyFIFO[y], q)
           inSlot == CreditCount(AsSeq(sendSize[y]), q)
           Above(n) == n \in Nat /\ (n = 0 \/ n > ReturnThreshold)
<1>1. /\ y \in Side /\ Peer(y) = x /\ RxFc(x) \in RxQueues(x)
      /\ 0 \in Queues(x) /\ 0 \in Queues(y)
  BY Peers, QueueNumbers, Zeros DEF RxFc, RxQueues
<1>2. ASSUME NEW t \in Seq(Chunks),
             \A n \in 1..Len(t) : t[n].kind = "credit" => t[n] \in BatchesFor(x)
      PROVE  Above(CreditCount(t, q))
  <2>1. \A n \in 1..Len(t) : Amount(t[n], q) = 0 \/ Amount(t[n], q) > ReturnThreshold
    <3>1. SUFFICES ASSUME NEW n \in 1..Len(t)
                   PROVE  Amount(t[n], q) = 0 \/ Amount(t[n], q) > ReturnThreshold
      OBVIOUS
    <3>2. CASE t[n] \in BatchesFor(x)
      BY <3>2, BatchFacts, Sizes
    <3>3. CASE t[n].kind # "credit"
      BY <3>3 DEF Amount
    <3>4. QED
      BY <1>2, <3>2, <3>3
  <2>2. ReturnThreshold \in Nat
    BY Sizes
  <2>3. CreditCount(t, q) = 0 \/ CreditCount(t, q) > ReturnThreshold
    BY <2>1, <2>2, CreditsAbove
  <2>4. QED
    BY <2>3, CreditCountType
<1>3. Above(inBuffer)
  <2> DEFINE t == buffer[x][RxFc(x)]
  <2>1. t \in Seq(Chunks) /\ t \in Seq(FcChunks(x))
    BY <1>1, SideTypes DEF IInv, Contents
  <2>2. Header(RxFc(x), 1).kind = "header"
    BY DEF Header
  <2> HIDE DEF t
  <2>3. \A n \in 1..Len(t) : t[n].kind = "credit" => t[n] \in BatchesFor(x)
    BY <2>1, <2>2, ElementOfSeq DEF FcChunks
  <2> HIDE DEF Above
  <2>4. Above(CreditCount(t, q))
    BY <1>2, <2>1, <2>3
  <2>5. QED
    BY <2>4 DEF t
<1>4. Above(onWire)
  <2>1. wire[y] \in Seq(Chunks) /\ Framed(y, wire[y], Receives(y), Sending(y))
    BY <1>1, SideTypes DEF IInv, PacketsAreWhole
  <2>2. \A n \in 1..Len(wire[y]) : wire[y][n].kind = "credit" => wire[y][n] \in BatchesFor(x)
    BY <1>1, <2>1, BatchesOnWire
  <2> HIDE DEF Above
  <2>3. QED
    BY <1>2, <2>1, <2>2
<1>5. Above(inFIFO)
  <2>1. bodyFIFO[y] \in Seq(Chunks) /\ bodyFIFO[y] \in Seq(BatchesFor(x))
    BY <1>1, SideTypes
  <2>2. \A n \in 1..Len(bodyFIFO[y]) : bodyFIFO[y][n] \in BatchesFor(x)
    BY <2>1, ElementOfSeq
  <2> HIDE DEF Above
  <2>3. QED
    BY <1>2, <2>1, <2>2
<1>6. Above(inSlot)
  <2>1. sendSize[y] \in BatchesFor(x) \cup {None} /\ sendSize[y] \in Chunks \cup {None}
    BY <1>1, SideTypes
  <2>2. AsSeq(sendSize[y]) \in Seq(Chunks)
    BY <2>1 DEF AsSeq
  <2>3. \A n \in 1..Len(AsSeq(sendSize[y])) : AsSeq(sendSize[y])[n] \in BatchesFor(x)
    BY <2>1 DEF AsSeq
  <2> HIDE DEF Above
  <2>4. QED
    BY <1>2, <2>2, <2>3
<1>7. CreditCount(AsSeq(portRead[x]), q) = Refilled(x, q)
  BY SideTypes, CreditsOfSlot, RefilledIs DEF SlotAmount
<1>8. Returning(x, q) = Refilled(x, q) + inBuffer + onWire + inFIFO + inSlot
  BY <1>7 DEF Returning
<1>9. Refilled(x, q) \in Nat /\ ReturnThreshold \in Nat
  BY RefillFacts, Sizes
<1> HIDE DEF inBuffer, onWire, inFIFO, inSlot
<1> DEFINE rest == inBuffer + onWire + inFIFO + inSlot
<1>10. rest \in Nat /\ (rest = 0 \/ rest > ReturnThreshold)
  BY <1>3, <1>4, <1>5, <1>6, <1>9
<1>11. Returning(x, q) = Refilled(x, q) + rest
  BY <1>3, <1>4, <1>5, <1>6, <1>8, <1>9
<1>12. QED
  BY <1>10, <1>11

\* The credits of x and the bits that the arbiter trusts.
LEMMA CreditsOfSender ==
  ASSUME IInv, PacketsFit, NEW x \in Side, NEW winner, NEW s, NEW idx,
         Ticks(x, winner, s, idx)
  PROVE  /\ portCredits'[x] \in [Queues(x) -> 0..(CreditMod - 1)]
         /\ bufferAvailable'[x] \in [Queues(x) -> BOOLEAN]
         /\ s # None => ~Refilling(x)
         /\ \A q \in Queues(x) :
              /\ portCredits'[x][q] =
                   (portCredits[x][q] - Paid(x, s, q) + Refilled(x, q)) % CreditMod
              /\ bufferAvailable'[x][q] =
                   IF s = q THEN portCredits'[x][q] >= MaximumPacketSize(x) + 1
                   ELSE IF Refilling(x) /\ portRead[x].idx = q
                   THEN portCredits'[x][q] >= MaximumPacketSize(x)
                   ELSE bufferAvailable[x][q]
<1>1. /\ portCredits[x] \in [Queues(x) -> 0..(CreditMod - 1)]
      /\ bufferAvailable[x] \in [Queues(x) -> BOOLEAN]
      /\ DOMAIN portCredits = Side /\ DOMAIN bufferAvailable = Side
  BY DEF IInv, Domains, TypeOK, EgressTypeOK
<1>2. CreditMod \in Nat \ {0} /\ MaximumPacketSize(x) \in Nat /\ \A q \in Queues(x) : q # None
  BY Sizes, LargestPacket, QueueNumbers, SwitchAssumption
<1>3. AccountCredits(x, s)
  BY DEF Ticks, CycleOf
<1>5. ASSUME NEW q \in Queues(x)
      PROVE  /\ portCredits[x][q] \in 0..(CreditMod - 1)
             /\ portCredits[x][q] % CreditMod = portCredits[x][q]
  BY <1>1, <1>2, ModBelow
<1>6. CASE s # None
  <2>1. Starts(x, s) /\ s \in Queues(x) /\ ~Refilling(x)
    BY <1>6 DEF Ticks, Starts, MayStart, Refilling
  <2> DEFINE cost == PacketCost(FirstHeader(x, s))
             count == (portCredits[x][s] - cost) % CreditMod
             room == count >= MaximumPacketSize(x) + 1
  <2>2. cost = FirstHeader(x, s).amnt + 1 /\ cost \in 1..(CreditMod - 1)
    BY <2>1, StartedHeader
  <2>3. \A q \in Queues(x) :
          Refilled(x, q) = 0 /\ Paid(x, s, q) = IF s = q THEN cost ELSE 0
    BY <1>6, <2>1, <2>2 DEF Refilled, Paid
  <2>4. /\ portCredits' = [portCredits EXCEPT ![x][s] = count]
        /\ bufferAvailable' = [bufferAvailable EXCEPT ![x][s] = room]
        /\ room \in BOOLEAN
    BY <1>3, <1>6 DEF AccountCredits, NewCount, RoomAfterSend
  <2> HIDE DEF cost
  <2>5. count \in 0..(CreditMod - 1)
    BY <1>2, <1>5, <2>1, <2>2
  <2>6. /\ portCredits'[x] \in [Queues(x) -> 0..(CreditMod - 1)]
        /\ bufferAvailable'[x] \in [Queues(x) -> BOOLEAN]
        /\ \A q \in Queues(x) :
             /\ portCredits'[x][q] = IF q = s THEN count ELSE portCredits[x][q]
             /\ bufferAvailable'[x][q] = IF q = s THEN room ELSE bufferAvailable[x][q]
    <3>1. /\ portCredits'[x] = [portCredits[x] EXCEPT ![s] = count]
          /\ bufferAvailable'[x] = [bufferAvailable[x] EXCEPT ![s] = room]
      BY <1>1, <2>4
    <3> HIDE DEF count, room
    <3>2. /\ portCredits'[x] \in [Queues(x) -> 0..(CreditMod - 1)]
          /\ \A q \in Queues(x) : portCredits'[x][q] = IF q = s THEN count ELSE portCredits[x][q]
      BY <1>1, <2>1, <2>5, <3>1
    <3>3. /\ bufferAvailable'[x] \in [Queues(x) -> BOOLEAN]
          /\ \A q \in Queues(x) : bufferAvailable'[x][q] = IF q = s THEN room ELSE bufferAvailable[x][q]
      BY <1>1, <2>1, <2>4, <3>1
    <3>4. QED
      BY <3>2, <3>3
  <2>8. ASSUME NEW q \in Queues(x)
        PROVE  portCredits'[x][q] =
                 (portCredits[x][q] - Paid(x, s, q) + Refilled(x, q)) % CreditMod
    <3>1. CASE q = s
      <4>1. portCredits[x][q] - cost + 0 = portCredits[x][q] - cost
        BY <1>5, <2>2
      <4>2. QED
        BY <2>3, <2>6, <3>1, <4>1
    <3>2. CASE q # s
      <4>1. portCredits[x][q] - 0 + 0 = portCredits[x][q]
        BY <1>5
      <4>2. QED
        BY <1>5, <2>3, <2>6, <3>2, <4>1
    <3>3. QED
      BY <3>1, <3>2
  <2>9. QED
    <3> HIDE DEF count
    <3>1. QED
      BY <2>1, <2>6, <2>8
<1>7. CASE s = None /\ Refilling(x)
  <2> DEFINE p == portRead[x].idx
             amount == portRead[x].amnt
             count == (amount + portCredits[x][p]) % CreditMod
             room == count >= MaximumPacketSize(x)
  <2>1. p \in Queues(x) /\ amount \in 0..(CreditMod - 1)
    <3>1. portRead[x] \in BatchesFor(x)
      BY <1>7, RefillFacts
    <3>2. QED
      BY <3>1, BatchFacts, Sizes
  <2>2. \A q \in Queues(x) :
          Paid(x, s, q) = 0 /\ Refilled(x, q) = IF p = q THEN amount ELSE 0
    BY <1>7 DEF Refilled, Paid
  <2>3. /\ portCredits' = [portCredits EXCEPT ![x][p] = count]
        /\ bufferAvailable' = [bufferAvailable EXCEPT ![x][p] = room]
        /\ room \in BOOLEAN
    BY <1>3, <1>7 DEF AccountCredits, CreditsNext, RoomAfterRefill
  <2> HIDE DEF p, amount
  <2>4. count \in 0..(CreditMod - 1)
    BY <1>2, <1>5, <2>1
  <2>5. /\ portCredits'[x] \in [Queues(x) -> 0..(CreditMod - 1)]
        /\ bufferAvailable'[x] \in [Queues(x) -> BOOLEAN]
        /\ \A q \in Queues(x) :
             /\ portCredits'[x][q] = IF q = p THEN count ELSE portCredits[x][q]
             /\ bufferAvailable'[x][q] = IF q = p THEN room ELSE bufferAvailable[x][q]
    <3>1. /\ portCredits'[x] = [portCredits[x] EXCEPT ![p] = count]
          /\ bufferAvailable'[x] = [bufferAvailable[x] EXCEPT ![p] = room]
      BY <1>1, <2>3
    <3> HIDE DEF count, room
    <3>2. /\ portCredits'[x] \in [Queues(x) -> 0..(CreditMod - 1)]
          /\ \A q \in Queues(x) : portCredits'[x][q] = IF q = p THEN count ELSE portCredits[x][q]
      BY <1>1, <2>1, <2>4, <3>1
    <3>3. /\ bufferAvailable'[x] \in [Queues(x) -> BOOLEAN]
          /\ \A q \in Queues(x) : bufferAvailable'[x][q] = IF q = p THEN room ELSE bufferAvailable[x][q]
      BY <1>1, <2>1, <2>3, <3>1
    <3>4. QED
      BY <3>2, <3>3
  <2>6. ASSUME NEW q \in Queues(x)
        PROVE  portCredits'[x][q] =
                 (portCredits[x][q] - Paid(x, s, q) + Refilled(x, q)) % CreditMod
    <3>1. CASE q = p
      <4>1. portCredits[x][q] - 0 + amount = amount + portCredits[x][q]
        BY <1>5, <2>1
      <4>2. QED
        BY <2>2, <2>5, <3>1, <4>1
    <3>2. CASE q # p
      <4>1. portCredits[x][q] - 0 + 0 = portCredits[x][q]
        BY <1>5
      <4>2. QED
        BY <1>5, <2>2, <2>5, <3>2, <4>1
    <3>3. QED
      BY <3>1, <3>2
  <2>7. QED
    <3> HIDE DEF count
    <3>1. QED
      BY <1>2, <1>7, <2>5, <2>6 DEF p
<1>8. CASE s = None /\ ~Refilling(x)
  <2>1. portCredits' = portCredits /\ bufferAvailable' = bufferAvailable
    BY <1>3, <1>8 DEF AccountCredits
  <2>2. ASSUME NEW q \in Queues(x)
        PROVE  portCredits'[x][q] =
                 (portCredits[x][q] - Paid(x, s, q) + Refilled(x, q)) % CreditMod
    <3>1. Paid(x, s, q) = 0 /\ Refilled(x, q) = 0
      BY <1>8 DEF Paid, Refilled
    <3>2. portCredits[x][q] - 0 + 0 = portCredits[x][q]
      BY <1>5
    <3>3. QED
      BY <1>5, <2>1, <3>1, <3>2
  <2>3. QED
    BY <1>1, <1>2, <1>8, <2>1, <2>2
<1>9. QED
  BY <1>6, <1>7, <1>8

\* The counts of x are the only ones that its cycle writes.
LEMMA CreditsWritten ==
  ASSUME NEW x \in Side, NEW winner, NEW s, NEW idx, Ticks(x, winner, s, idx)
  PROVE  \/ UNCHANGED <<portCredits, bufferAvailable>>
         \/ \E q, count, room : /\ portCredits' = [portCredits EXCEPT ![x][q] = count]
                                /\ bufferAvailable' = [bufferAvailable EXCEPT ![x][q] = room]
<1>1. AccountCredits(x, s)
  BY DEF Ticks, CycleOf
<1>2. CASE s # None
  <2>1. /\ portCredits' = [portCredits EXCEPT ![x][s] = NewCount(x, s)]
        /\ bufferAvailable' =
             [bufferAvailable EXCEPT ![x][s] = RoomAfterSend(x, NewCount(x, s))]
    BY <1>1, <1>2 DEF AccountCredits
  <2>2. QED
    BY <2>1
<1>3. CASE s = None /\ Refilling(x)
  <2>1. /\ portCredits' = [portCredits EXCEPT ![x][portRead[x].idx] = CreditsNext(x)]
        /\ bufferAvailable' =
             [bufferAvailable EXCEPT ![x][portRead[x].idx] = RoomAfterRefill(x, CreditsNext(x))]
    BY <1>1, <1>3 DEF AccountCredits
  <2>2. QED
    BY <2>1
<1>4. CASE s = None /\ ~Refilling(x)
  BY <1>1, <1>4 DEF AccountCredits
<1>5. QED
  BY <1>2, <1>3, <1>4

\* The credits of its peer are not touched.
LEMMA PeerKeeps ==
  ASSUME IInv, NEW x \in Side, NEW winner, NEW s, NEW idx, Ticks(x, winner, s, idx)
  PROVE  LET y == Peer(x)
         IN  /\ portCredits'[y] = portCredits[y] /\ bufferAvailable'[y] = bufferAvailable[y]
             /\ newMsgQIdx'[y] = newMsgQIdx[y] /\ deqHeader'[y] = deqHeader[y]
             /\ request'[y] = request[y] /\ headerFIFO'[y] = headerFIFO[y]
             /\ bodyFIFO'[y] = bodyFIFO[y] /\ portRead'[y] = portRead[y]
             /\ requestChunksRemaining'[y] = requestChunksRemaining[y]
             /\ requestActiveQueue'[y] = requestActiveQueue[y]
             /\ buffer'[y] = buffer[y] /\ free'[y] = free[y] /\ idxRR'[y] = idxRR[y]
             /\ rxChunksRemaining'[y] = rxChunksRemaining[y]
             /\ rxActiveQueue'[y] = rxActiveQueue[y]
             /\ sendSize'[y] = sendSize[y] /\ lastRead'[y] = lastRead[y]
<1> DEFINE y == Peer(x)
<1>1. y \in Side /\ y # x
  BY Peers
<1>2. IInv /\ Domains
  BY DEF IInv
<1>3. /\ portCredits'[y] = portCredits[y] /\ bufferAvailable'[y] = bufferAvailable[y]
  <2>1. \/ UNCHANGED <<portCredits, bufferAvailable>>
        \/ \E q, count, room : /\ portCredits' = [portCredits EXCEPT ![x][q] = count]
                               /\ bufferAvailable' = [bufferAvailable EXCEPT ![x][q] = room]
    BY CreditsWritten
  <2>2. QED
    <3>1. DOMAIN portCredits = Side /\ DOMAIN bufferAvailable = Side
      BY <1>2 DEF Domains
    <3>2. QED
      BY <1>1, <2>1, <3>1
<1>4. /\ newMsgQIdx'[y] = newMsgQIdx[y] /\ deqHeader'[y] = deqHeader[y]
      /\ request'[y] = request[y]
      /\ requestChunksRemaining'[y] = requestChunksRemaining[y]
      /\ requestActiveQueue'[y] = requestActiveQueue[y]
  BY <1>1 DEF Ticks, CycleOf, ReadPort, DeqRequest, CountChunks
<1>5. headerFIFO'[y] = headerFIFO[y] /\ bodyFIFO'[y] = bodyFIFO[y] /\ portRead'[y] = portRead[y]
  BY <1>1 DEF Ticks, CycleOf, SharedCycle
<1>6. /\ buffer'[y] = buffer[y] /\ free'[y] = free[y] /\ idxRR'[y] = idxRR[y]
      /\ rxChunksRemaining'[y] = rxChunksRemaining[y]
      /\ rxActiveQueue'[y] = rxActiveQueue[y]
      /\ sendSize'[y] = sendSize[y] /\ lastRead'[y] = lastRead[y]
  BY <1>1 DEF Ticks, CycleOf, IngressCycle, EnqDeq, CountFree, ReturnCredits, CountReceived
<1>7. QED
  BY <1>3, <1>4, <1>5, <1>6

\* What a queue pays it has.
LEMMA PaidFacts ==
  ASSUME IInv, PacketsFit, NEW x \in Side, NEW winner, NEW s, NEW idx,
         Ticks(x, winner, s, idx), NEW q \in Queues(x)
  PROVE  /\ Paid(x, s, q) \in 0..(CreditMod - 1)
         /\ q \in DataQueues(x) => /\ Paid(x, s, q) <= portCredits[x][q]
                                   /\ Paid(x, s, q) <= MaxChunks + 1
         /\ Refilled(x, q) # 0 => Paid(x, s, q) = 0
<1>1. portCredits[x][q] \in Nat /\ CreditMod \in Nat \ {0} /\ MaxChunks \in Nat
  BY Sizes DEF IInv, TypeOK, EgressTypeOK
<1>2. CASE s = q /\ s # None
  <2>1. Starts(x, q) /\ deqHeader[x]
    BY <1>2 DEF Ticks, Starts, MayStart
  <2>2. /\ FirstHeader(x, q).amnt + 1 \in 1..(CreditMod - 1)
        /\ FirstHeader(x, q).amnt \in 0..ReturnThreshold
        /\ q # Fc(x) => /\ FirstHeader(x, q).amnt + 1 <= portCredits[x][q]
                        /\ FirstHeader(x, q).amnt <= MaxChunks
    BY <2>1, StartedHeader
  <2>3. Paid(x, s, q) = FirstHeader(x, q).amnt + 1 /\ Refilled(x, q) = 0
    BY <1>2, <2>1 DEF Paid, Refilled, Refilling
  <2>4. ReturnThreshold \in Nat /\ (q \in DataQueues(x) => q # Fc(x))
    BY Sizes, QueueNumbers
  <2>5. QED
    BY <1>1, <2>2, <2>3, <2>4
<1>3. CASE ~(s = q /\ s # None)
  BY <1>1, <1>3 DEF Paid
<1>4. QED
  BY <1>2, <1>3

\* The parts of the account of a queue.
LEMMA SumTypes ==
  ASSUME IInv, NEW x \in Side, NEW q \in Queues(x)
  PROVE  /\ portCredits[x][q] \in 0..(CreditMod - 1) /\ InFlight(x, q) \in Nat
         /\ Stored(x, q) \in Nat /\ free[Peer(x)][q] \in 0..(CreditMod - 1)
         /\ Returning(x, q) \in Nat
<1>1. portCredits[x][q] \in 0..(CreditMod - 1)
  BY DEF IInv, TypeOK, EgressTypeOK
<1>2. InFlight(x, q) \in Nat
  <2> DEFINE T == ChunksFor(x, q)
             left == IF requestActiveQueue[x] = q THEN requestChunksRemaining[x] ELSE 0
  <2>1. wire[x] \in Seq(Chunks)
    BY SideTypes
  <2>2. left \in Nat
    BY Largest DEF IInv, TypeOK, EgressTypeOK
  <2>3. Carried(x, wire[x], q) = Places(wire[x], T)
    BY <2>1, CarriedArePlaces
  <2> HIDE DEF T
  <2>4. Cardinality(Places(wire[x], T)) \in Nat
    BY <2>1, PlacesBounded
  <2>5. QED
    BY <2>2, <2>3, <2>4 DEF InFlight
<1>3. Stored(x, q) \in Nat /\ free[Peer(x)][q] \in 0..(CreditMod - 1)
  <2>1. Peer(x) \in Side /\ q \in RxQueues(Peer(x))
    BY Peers DEF RxQueues
  <2>2. QED
    BY <2>1, SideTypes DEF Stored
<1>4. Returning(x, q) \in Nat
  <2>1. PICK rest \in Nat : Returning(x, q) = Refilled(x, q) + rest
    BY ReturningInBatches
  <2>2. Refilled(x, q) \in Nat
    BY RefillFacts, Sizes
  <2>3. QED
    BY <2>1, <2>2
<1>5. QED
  BY <1>1, <1>2, <1>3, <1>4

\* The accounts of the queues of x after the cycle.
LEMMA SenderAccounts ==
  ASSUME IInv, PacketsFit, NEW x \in Side, NEW winner, NEW s, NEW idx,
         Ticks(x, winner, s, idx), NEW q \in Queues(x)
  PROVE  /\ Sum(x, q)' % CreditMod = FifoSize
         /\ Stored(x, q)' = Stored(x, q) /\ free'[Peer(x)][q] = free[Peer(x)][q]
         /\ q \in DataQueues(x) =>
              /\ Sum(x, q)' = FifoSize
              /\ portCredits'[x][q] = portCredits[x][q] - Paid(x, s, q) + Refilled(x, q)
              /\ Refilled(x, q) # 0 => Refilled(x, q) = Returning(x, q)
<1> DEFINE pc == portCredits[x][q]
           pcNext == portCredits'[x][q]
           fly == InFlight(x, q)
           here == Stored(x, q)
           empty == free[Peer(x)][q]
           back == Returning(x, q)
           paid == Paid(x, s, q)
           refill == Refilled(x, q)
           m == CreditMod
<1>1. /\ pc \in 0..(m - 1) /\ fly \in Nat /\ here \in Nat /\ empty \in Nat /\ back \in Nat
  <2>1. pc \in 0..(m - 1) /\ fly \in Nat /\ here \in Nat /\ empty \in 0..(m - 1) /\ back \in Nat
    BY SumTypes
  <2>2. QED
    BY <2>1, Sizes
<1>2. paid \in 0..(m - 1) /\ (refill # 0 => paid = 0) /\ (q \in DataQueues(x) => paid <= pc)
  BY PaidFacts
<1>3. m \in Nat \ {0} /\ FifoSize \in Nat \ {0} /\ m = 2 * FifoSize
      /\ FifoSize <= 2 * ReturnThreshold + 1 /\ ReturnThreshold \in Nat
  BY Sizes
<1>4. PICK rest \in Nat : back = refill + rest /\ (rest = 0 \/ rest > ReturnThreshold)
  BY ReturningInBatches
<1>5. refill \in 0..(m - 1) /\ (refill = 0 \/ refill > ReturnThreshold)
  BY RefillFacts
<1>6. pcNext = (pc - paid + refill) % m
  BY CreditsOfSender
<1>7. InFlight(x, q)' = fly + paid /\ Returning(x, q)' = back - refill
  BY InFlightOfSender, ReturningOfSender
<1>8. Stored(x, q)' = here /\ free'[Peer(x)][q] = empty
  BY PeerKeeps DEF Stored
<1>9. Sum(x, q)' = pcNext + (fly + paid) + here + empty + (back - refill)
  BY <1>7, <1>8 DEF Sum
<1>10. (pc + fly + here + empty + back) % m = FifoSize
       /\ (q \in DataQueues(x) => pc + fly + here + empty + back = FifoSize)
  BY DEF IInv, Accounted, Sum
<1> HIDE DEF pc, pcNext, fly, here, empty, back, paid, refill, m
<1>11. /\ pcNext \in 0..(m - 1)
       /\ pcNext \in {pc - paid + refill, pc - paid + refill + m, pc - paid + refill - m}
  <2> DEFINE n == pc - paid + refill
  <2>1. n \in (-m)..(2 * m - 1)
    BY <1>1, <1>2, <1>3, <1>5
  <2> HIDE DEF n
  <2>2. n % m \in 0..(m - 1) /\ n % m \in {n, n + m, n - m}
    BY <1>3, <2>1, ModNear
  <2>3. pcNext = n % m
    BY <1>6 DEF n
  <2>4. pcNext \in 0..(m - 1) /\ pcNext \in {n, n + m, n - m}
    BY <2>2, <2>3
  <2>5. QED
    BY <1>1, <1>2, <1>3, <1>5, <2>4 DEF n
<1>12. Sum(x, q)' % m = FifoSize
  <2> DEFINE n == pc + fly + here + empty + back
  <2>1. n \in Int
    BY <1>1
  <2>2. Sum(x, q)' \in {n, n + m, n - m}
    BY <1>1, <1>2, <1>3, <1>5, <1>9, <1>11
  <2>3. n % m = FifoSize
    BY <1>10
  <2> HIDE DEF n
  <2>4. (n + m) % m = n % m /\ (n - m) % m = n % m
    BY <1>3, <2>1, ModTurn
  <2>5. QED
    BY <2>2, <2>3, <2>4
<1>13. ASSUME q \in DataQueues(x)
       PROVE  /\ Sum(x, q)' = FifoSize /\ pcNext = pc - paid + refill
              /\ refill # 0 => refill = back
  <2>1. pc - paid + refill \in 0..(m - 1)
    BY <1>1, <1>2, <1>3, <1>4, <1>5, <1>10, <1>13
  <2>2. pcNext = pc - paid + refill
    BY <1>3, <1>6, <2>1, ModBelow
  <2>3. refill # 0 => refill = back
    BY <1>1, <1>3, <1>4, <1>5, <1>10, <1>13
  <2>4. QED
    BY <1>1, <1>2, <1>5, <1>9, <1>10, <1>13, <2>2, <2>3
<1>14. QED
  BY <1>8, <1>12, <1>13 DEF pc, pcNext, here, empty, back, paid, refill, m

-----------------------------------------------------------------------------
(* What a cycle of x does to the counts of the channels that x receives on. *)

\* Chunks that arrive for queue q, are read from it, and slots of it handed back.
Came(x, q) == IF Receiving(x) /\ Target(x) = q THEN 1 ELSE 0

Taken(idx, q) == IF idx = q THEN 1 ELSE 0

Given(x, q) == IF Batching(x) /\ idxRR[x] = q THEN free[x][q] ELSE 0

\* A chunk that arrives was in flight.
LEMMA InFlightOfReceiver ==
  ASSUME IInv, PacketsFit, NEW x \in Side, NEW winner, NEW s, NEW idx,
         Ticks(x, winner, s, idx), NEW q \in Queues(Peer(x))
  PROVE  /\ InFlight(Peer(x), q)' = InFlight(Peer(x), q) - Came(x, q)
         /\ InFlight(Peer(x), q) \in Nat
         /\ Came(x, q) <= InFlight(Peer(x), q)
<1> DEFINE y == Peer(x)
           T == ChunksFor(y, q)
           left == IF requestActiveQueue[y] = q THEN requestChunksRemaining[y] ELSE 0
<1>1. y \in Side /\ Peer(y) = x /\ wire[y] \in Seq(Chunks)
  BY Peers, SideTypes
<1>2. left \in Nat
  <2>1. requestChunksRemaining[y] \in Nat
    BY <1>1, Largest DEF IInv, TypeOK, EgressTypeOK
  <2>2. QED
    BY <2>1
<1>3. left' = left
  BY PeerKeeps
<1>4. Cardinality(Places(wire[y], T)) \in Nat
  BY <1>1, PlacesBounded
<1>5. InFlight(y, q) = Cardinality(Places(wire[y], T)) + left
  <2>1. Carried(y, wire[y], q) = Places(wire[y], T)
    BY <1>1, CarriedArePlaces
  <2> HIDE DEF T, left
  <2>2. QED
    BY <2>1 DEF InFlight, left
<1>6. wire'[y] \in Seq(Chunks) =>
        InFlight(y, q)' = Cardinality(Places(wire'[y], T)) + left
  <2>1. wire'[y] \in Seq(Chunks) => Carried(y, wire'[y], q) = Places(wire'[y], T)
    BY CarriedArePlaces
  <2>2. InFlight(y, q)' = Cardinality(Carried(y, wire'[y], q)) + left'
    BY DEF InFlight
  <2> HIDE DEF T, left
  <2>3. QED
    BY <1>3, <2>1, <2>2
<1>7. CASE ~Receiving(x)
  <2>1. wire'[y] = wire[y] /\ Came(x, q) = 0
    BY <1>7, WireMoves DEF Came
  <2> HIDE DEF T, left
  <2>2. QED
    BY <1>1, <1>2, <1>4, <1>5, <1>6, <2>1
<1>8. CASE Receiving(x)
  <2>1. /\ wire[y] # <<>> /\ Arrived(x) \in Chunks /\ Arrived(x) = Head(wire[y])
        /\ Carrier(y, Arrived(x)) = Target(x)
    <3>1. /\ wire[y] # <<>> /\ Arrived(x) \in Chunks
          /\ Reads(y, Receives(y), Arrived(x), Receives(y)')
          /\ Receives(y) \in Readers(y) /\ Receives(y)' \in Readers(y)
          /\ Target(x) = Receives(y)'.queue
      BY <1>1, <1>8, ReceiverContinues, SideTypes
    <3>2. QED
      BY <1>1, <3>1, ReadsFacts DEF Arrived
  <2>2. wire'[y] = Tail(wire[y]) /\ Tail(wire[y]) \in Seq(Chunks)
    BY <1>1, <1>8, <2>1, WireMoves, HeadTailProperties
  <2>3. Arrived(x) \in T <=> Target(x) = q
    BY <2>1 DEF ChunksFor
  <2> HIDE DEF T, left
  <2>4. Cardinality(Places(wire[y], T)) =
          Cardinality(Places(Tail(wire[y]), T)) + (IF Arrived(x) \in T THEN 1 ELSE 0)
    BY <1>1, <2>1, PlacesOfTail
  <2>5. Cardinality(Places(Tail(wire[y]), T)) \in Nat
    <3> DEFINE t == Tail(wire[y])
    <3>1. t \in Seq(Chunks)
      BY <2>2
    <3> HIDE DEF t
    <3>2. Cardinality(Places(t, T)) \in Nat
      BY <3>1, PlacesBounded
    <3>3. QED
      BY <3>2 DEF t
  <2>6. QED
    BY <1>2, <1>5, <1>6, <1>8, <2>2, <2>3, <2>4, <2>5 DEF Came
<1>9. QED
  BY <1>7, <1>8

\* A chunk is stored where it is sent, and read from where one is stored.
LEMMA BufferOfReceiver ==
  ASSUME IInv, NEW x \in Side, NEW winner, NEW s, NEW idx,
         Ticks(x, winner, s, idx), NEW q \in RxQueues(x)
  PROVE  LET rest == IF idx = q THEN Tail(buffer[x][q]) ELSE buffer[x][q]
             next == IF Receiving(x) /\ Target(x) = q
                     THEN Append(rest, Kept(x, Arrived(x))) ELSE rest
         IN  /\ buffer'[x] \in [RxQueues(x) -> Seq(Chunks)]
             /\ buffer'[x][q] = next
             /\ idx = q => buffer[x][q] # <<>>
             /\ rest \in Seq(Chunks)
             /\ Receiving(x) /\ Target(x) = q => Kept(x, Arrived(x)) \in Chunks
             /\ Len(buffer'[x][q]) = Len(buffer[x][q]) + Came(x, q) - Taken(idx, q)
             /\ Taken(idx, q) <= Len(buffer[x][q])
<1> DEFINE y == Peer(x)
           rest(r) == IF idx = r THEN Tail(buffer[x][r]) ELSE buffer[x][r]
           next(r) == IF Receiving(x) /\ Target(x) = r
                      THEN Append(rest(r), Kept(x, Arrived(x))) ELSE rest(r)
<1>1. y \in Side /\ Peer(y) = x /\ RxQueues(x) = Queues(y)
  BY Peers DEF RxQueues
<1>2. \A r \in RxQueues(x) : r # None
  BY <1>1, QueueNumbers, SwitchAssumption
<1>3. idx # None => idx \in RxQueues(x) /\ buffer[x][idx] # <<>>
  BY DEF Ticks, NotEmpty
<1>4. buffer'[x] = [r \in RxQueues(x) |-> next(r)]
  BY DEF Ticks, CycleOf, IngressCycle, EnqDeq, IInv, Domains
<1>5. ASSUME NEW r \in RxQueues(x), Receiving(x), Target(x) = r
      PROVE  Kept(x, Arrived(x)) \in Chunks
  <2>1. /\ Arrived(x) \in Chunks
        /\ Reads(y, Receives(y), Arrived(x), Receives(y)')
        /\ Receives(y) \in Readers(y) /\ Receives(y)' \in Readers(y)
        /\ Receives(y)'.queue = Target(x)
    BY <1>1, <1>5, ReceiverContinues, SideTypes
  <2>2. Target(x) # Fc(y) => Arrived(x).idx = Target(x)
    BY <1>1, <2>1, ReadsFacts
  <2>3. Target(x) # Fc(y) => DataChunk(Arrived(x).idx) \in Chunks
    BY <1>1, <1>5, <2>2, ChunkTypes
  <2>4. QED
    BY <2>1, <2>3 DEF Kept, RxFc
<1>6. ASSUME NEW r \in RxQueues(x)
      PROVE  /\ rest(r) \in Seq(Chunks) /\ next(r) \in Seq(Chunks)
             /\ Len(next(r)) = Len(buffer[x][r]) + Came(x, r) - Taken(idx, r)
             /\ Taken(idx, r) <= Len(buffer[x][r])
  <2> DEFINE t == buffer[x][r]
  <2>1. t \in Seq(Chunks) /\ (idx = r => t # <<>>) /\ Len(t) \in Nat
    BY <1>2, <1>3, SideTypes
  <2>2. /\ rest(r) \in Seq(Chunks) /\ Len(rest(r)) = Len(t) - Taken(idx, r)
        /\ Taken(idx, r) <= Len(t)
    <3>1. CASE idx = r
      <4>1. Len(t) # 0 /\ Len(Tail(t)) = Len(t) - 1 /\ Tail(t) \in Seq(Chunks)
        BY <2>1, <3>1, EmptySeq, HeadTailProperties
      <4>2. QED
        BY <2>1, <3>1, <4>1 DEF Taken
    <3>2. CASE idx # r
      BY <2>1, <3>2 DEF Taken
    <3>3. QED
      BY <3>1, <3>2
  <2> HIDE DEF t
  <2>3. CASE Receiving(x) /\ Target(x) = r
    <3>1. Kept(x, Arrived(x)) \in Chunks
      BY <1>5, <2>3
    <3>2. next(r) = Append(rest(r), Kept(x, Arrived(x))) /\ Came(x, r) = 1
      BY <2>3 DEF Came
    <3> HIDE DEF rest, next
    <3>3. /\ Append(rest(r), Kept(x, Arrived(x))) \in Seq(Chunks)
          /\ Len(Append(rest(r), Kept(x, Arrived(x)))) = Len(rest(r)) + 1
      BY <2>2, <3>1, AppendProperties
    <3>4. QED
      BY <2>1, <2>2, <3>2, <3>3 DEF t, Taken
  <2>4. CASE ~(Receiving(x) /\ Target(x) = r)
    <3>1. next(r) = rest(r) /\ Came(x, r) = 0
      BY <2>4 DEF Came
    <3> HIDE DEF rest, next
    <3>2. Taken(idx, r) \in 0..1 /\ Len(t) + 0 - Taken(idx, r) = Len(t) - Taken(idx, r)
      BY <2>1 DEF Taken
    <3>3. Len(next(r)) = Len(t) + Came(x, r) - Taken(idx, r)
      BY <2>2, <3>1, <3>2
    <3>4. QED
      BY <2>2, <3>1, <3>3 DEF t
  <2>5. QED
    BY <2>3, <2>4
<1>7. buffer'[x] \in [RxQueues(x) -> Seq(Chunks)] /\ buffer'[x][q] = next(q)
  <2> HIDE DEF next
  <2>1. QED
    BY <1>4, <1>6
<1>8. idx = q => buffer[x][q] # <<>>
  BY <1>2, <1>3
<1>9. QED
  <2> HIDE DEF next, rest
  <2>1. Len(buffer'[x][q]) = Len(buffer[x][q]) + Came(x, q) - Taken(idx, q)
    BY <1>6, <1>7
  <2>2. QED
    BY <1>5, <1>6, <1>7, <1>8, <2>1 DEF next, rest

\* The batch that is put together in a cycle.
LEMMA NewBatch ==
  ASSUME IInv, NEW x \in Side, Batching(x)
  PROVE  /\ Credit(idxRR[x], free[x][idxRR[x]]) \in BatchesFor(Peer(x))
         /\ free[x][idxRR[x]] > ReturnThreshold /\ sendSize[x] = None
         /\ \A q : Amount(Credit(idxRR[x], free[x][idxRR[x]]), q) = Given(x, q)
<1> DEFINE p == idxRR[x]
           k == free[x][p]
<1>1. p \in RxQueues(x) /\ k \in 0..(CreditMod - 1)
  BY DEF IInv, TypeOK, IngressTypeOK
<1>2. k > ReturnThreshold /\ sendSize[x] = None
  BY DEF Batching, Scanning, BatchReady
<1>3. Peer(x) \in Side /\ p \in Queues(Peer(x))
  BY <1>1, Peers DEF RxQueues
<1>4. k \in 0..(2 * FifoSize) /\ k < CreditMod
  BY <1>1, Sizes
<1>5. Credit(p, k) \in Chunks
  BY <1>3, <1>4, ChunkTypes
<1>6. Credit(p, k).kind = "credit" /\ Credit(p, k).idx = p /\ Credit(p, k).amnt = k
  BY DEF Credit
<1>7. Credit(p, k) \in BatchesFor(Peer(x))
  <2> HIDE DEF p, k
  <2>1. QED
    BY <1>2, <1>3, <1>4, <1>5, <1>6 DEF BatchesFor
<1>8. ASSUME NEW q PROVE Amount(Credit(p, k), q) = Given(x, q)
  BY <1>6 DEF Amount, Given
<1>9. QED
  BY <1>2, <1>7, <1>8

\* What x writes takes its credits out of bodyFIFO.
LEMMA WrittenCredits ==
  ASSUME IInv, PacketsFit, NEW x \in Side, NEW winner, NEW s, NEW idx,
         Ticks(x, winner, s, idx), NEW q
  PROVE  LET taking == Continuing(x) /\ requestActiveQueue[x] = Fc(x)
         IN  /\ taking => bodyFIFO[x] # <<>> /\ s = None
             /\ wire'[x] \in Seq(Chunks)
             /\ CreditCount(wire'[x], q) =
                  CreditCount(wire[x], q)
                  + (IF taking THEN Amount(Head(bodyFIFO[x]), q) ELSE 0)
<1> DEFINE taking == Continuing(x) /\ requestActiveQueue[x] = Fc(x)
           moved == IF taking THEN Amount(Head(bodyFIFO[x]), q) ELSE 0
<1>1. wire[x] \in Seq(Chunks) /\ CreditCount(wire[x], q) \in Nat
  BY SideTypes, CreditCountType
<1>2. wire'[x] = wire[x] \o Written(x, s)
  BY WireMoves
<1>3. ASSUME NEW c \in Chunks, Written(x, s) = <<c>>
      PROVE  /\ wire'[x] \in Seq(Chunks)
             /\ CreditCount(wire'[x], q) = CreditCount(wire[x], q) + Amount(c, q)
  <2>1. wire[x] \o <<c>> = Append(wire[x], c) /\ Append(wire[x], c) \in Seq(Chunks)
    BY <1>1, ConcatOne
  <2>2. CreditCount(Append(wire[x], c), q) = CreditCount(wire[x], q) + Amount(c, q)
    BY <1>1, CreditsOfAppend
  <2>3. wire'[x] = Append(wire[x], c)
    BY <1>2, <1>3, <2>1
  <2>4. QED
    BY <2>1, <2>2, <2>3
<1>4. CASE s = None /\ ~Continuing(x) /\ Written(x, s) = <<>>
  <2>1. wire'[x] = wire[x] /\ moved = 0
    BY <1>1, <1>2, <1>4, ConcatOne
  <2> HIDE DEF moved
  <2>2. CreditCount(wire'[x], q) = CreditCount(wire[x], q) + moved
    BY <1>1, <2>1
  <2>3. QED
    BY <1>1, <1>4, <2>1, <2>2 DEF moved
<1>5. CASE /\ s # None /\ Written(x, s) = <<FirstHeader(x, s)>>
           /\ FirstHeader(x, s) \in Chunks /\ ~Continuing(x)
  <2>1. FirstHeader(x, s).kind = "header"
    BY DEF FirstHeader, Header
  <2>2. Amount(FirstHeader(x, s), q) = 0 /\ ~taking
    BY <1>5, <2>1 DEF Amount
  <2>3. /\ wire'[x] \in Seq(Chunks)
        /\ CreditCount(wire'[x], q) = CreditCount(wire[x], q) + 0
    BY <1>3, <1>5, <2>2
  <2>4. QED
    BY <2>2, <2>3
<1>6. CASE \E c \in Chunks :
             /\ s = None /\ Continuing(x) /\ Written(x, s) = <<c>>
             /\ requestActiveQueue[x] = Fc(x) => bodyFIFO[x] # <<>> /\ c = Head(bodyFIFO[x])
             /\ requestActiveQueue[x] # Fc(x) => c = DataChunk(requestActiveQueue[x])
  <2>1. PICK c \in Chunks :
             /\ s = None /\ Continuing(x) /\ Written(x, s) = <<c>>
             /\ requestActiveQueue[x] = Fc(x) => bodyFIFO[x] # <<>> /\ c = Head(bodyFIFO[x])
             /\ requestActiveQueue[x] # Fc(x) => c = DataChunk(requestActiveQueue[x])
    BY <1>6
  <2>2. \A r : DataChunk(r).kind # "credit"
    BY DEF DataChunk
  <2>3. Amount(c, q) = moved
    BY <2>1, <2>2 DEF Amount
  <2>4. /\ wire'[x] \in Seq(Chunks)
        /\ CreditCount(wire'[x], q) = CreditCount(wire[x], q) + moved
    BY <1>3, <2>1, <2>3
  <2>5. QED
    BY <2>1, <2>4
<1>7. QED
  BY <1>4, <1>5, <1>6, SenderContinues

\* Credits on their way to the peer move on, and only the free slots handed back
\* set out.
LEMMA ReturningOfReceiver ==
  ASSUME IInv, PacketsFit, NEW x \in Side, NEW winner, NEW s, NEW idx,
         Ticks(x, winner, s, idx), NEW q \in Queues(Peer(x))
  PROVE  Returning(Peer(x), q)' = Returning(Peer(x), q) + Given(x, q)
<1> DEFINE y == Peer(x)
           taking == Continuing(x) /\ requestActiveQueue[x] = Fc(x)
           moved == IF taking THEN Amount(Head(bodyFIFO[x]), q) ELSE 0
           slot == IF Finishing(x) THEN sendSize[x] ELSE None
           t == bodyFIFO[x]
<1>1. y \in Side /\ Peer(y) = x /\ y # x /\ RxFc(y) = Fc(x) /\ RxFc(y) \in RxQueues(y)
  BY Peers, QueueNumbers DEF RxFc, RxQueues
<1>2. /\ taking \in BOOLEAN /\ (taking => t # <<>>)
      /\ CreditCount(wire'[x], q) = CreditCount(wire[x], q) + moved
  BY WrittenCredits
<1>3. /\ t \in Seq(Chunks) /\ wire[x] \in Seq(Chunks) /\ sendSize[x] \in Chunks \cup {None}
      /\ portRead[y] \in Chunks \cup {None} /\ buffer[y][RxFc(y)] \in Seq(Chunks)
  BY <1>1, SideTypes
<1>4. slot \in Chunks \cup {None}
  BY <1>3
<1>5. bodyFIFO'[x] = (IF taking THEN Tail(t) ELSE t) \o AsSeq(slot)
  <2>1. bodyFIFO'[x] = (IF taking THEN Tail(t) ELSE t)
                       \o (IF Finishing(x) THEN <<sendSize[x]>> ELSE <<>>)
    BY DEF Ticks, CycleOf, SharedCycle, IInv, Domains
  <2>2. AsSeq(slot) = IF Finishing(x) THEN <<sendSize[x]>> ELSE <<>>
    BY DEF AsSeq, Finishing
  <2>3. QED
    BY <2>1, <2>2
<1>6. CreditCount(bodyFIFO'[x], q) = CreditCount(t, q) - moved + SlotAmount(slot, q)
  <2> HIDE DEF taking, t, slot
  <2>1. CreditCount((IF taking THEN Tail(t) ELSE t) \o AsSeq(slot), q) =
          CreditCount(t, q) - (IF taking THEN Amount(Head(t), q) ELSE 0)
          + SlotAmount(slot, q)
    BY <1>2, <1>3, <1>4, CreditsMove
  <2>2. moved = IF taking THEN Amount(Head(t), q) ELSE 0
    BY DEF t
  <2>3. QED
    BY <1>5, <2>1, <2>2
<1>7. /\ sendSize'[x] \in Chunks \cup {None}
      /\ SlotAmount(sendSize'[x], q) =
           SlotAmount(sendSize[x], q) - SlotAmount(slot, q) + Given(x, q)
      /\ Given(x, q) \in Nat
  <2>1. sendSize'[x] = IF Batching(x) THEN Credit(idxRR[x], free[x][idxRR[x]])
                       ELSE IF Finishing(x) THEN None ELSE sendSize[x]
    BY DEF Ticks, CycleOf, IngressCycle, ReturnCredits, IInv, Domains
  <2>2. SlotAmount(sendSize[x], q) \in Nat /\ SlotAmount(None, q) = 0
    BY <1>3, AmountType DEF SlotAmount
  <2>3. CASE Batching(x)
    <3> DEFINE c == Credit(idxRR[x], free[x][idxRR[x]])
    <3>1. /\ c \in BatchesFor(y) /\ sendSize[x] = None
          /\ Amount(c, q) = Given(x, q)
      BY <2>3, NewBatch
    <3> HIDE DEF c
    <3>2. c \in Chunks /\ c # None
      BY <1>1, <3>1, BatchFacts
    <3>3. slot = None /\ sendSize'[x] = c
      BY <2>1, <2>3, <3>1 DEF c
    <3>4. Given(x, q) \in Nat
      BY <3>1, <3>2, AmountType
    <3>5. SlotAmount(c, q) = Given(x, q)
      BY <3>1, <3>2 DEF SlotAmount
    <3> HIDE DEF slot
    <3>6. QED
      BY <2>2, <3>1, <3>2, <3>3, <3>4, <3>5
  <2>4. CASE ~Batching(x) /\ Finishing(x)
    <3>1. slot = sendSize[x] /\ sendSize'[x] = None /\ Given(x, q) = 0
      BY <2>1, <2>4 DEF Given
    <3> HIDE DEF slot
    <3>2. QED
      BY <2>2, <3>1
  <2>5. CASE ~Batching(x) /\ ~Finishing(x)
    <3>1. slot = None /\ sendSize'[x] = sendSize[x] /\ Given(x, q) = 0
      BY <2>1, <2>5 DEF Given
    <3> HIDE DEF slot
    <3>2. QED
      BY <1>3, <2>2, <3>1
  <2>6. QED
    BY <2>3, <2>4, <2>5
<1>8. /\ CreditCount(AsSeq(sendSize[x]), q) = SlotAmount(sendSize[x], q)
      /\ CreditCount(AsSeq(sendSize'[x]), q) = SlotAmount(sendSize'[x], q)
  BY <1>3, <1>7, CreditsOfSlot DEF SlotAmount
<1>9. portRead'[y] = portRead[y] /\ buffer'[y] = buffer[y]
  BY PeerKeeps
<1>10. /\ CreditCount(AsSeq(portRead[y]), q) \in Nat
       /\ CreditCount(buffer[y][RxFc(y)], q) \in Nat
       /\ CreditCount(wire[x], q) \in Nat /\ CreditCount(t, q) \in Nat
  <2>1. AsSeq(portRead[y]) \in Seq(Chunks)
    BY <1>3 DEF AsSeq
  <2> HIDE DEF t
  <2>2. QED
    BY <1>3, <2>1, CreditCountType
<1>11. /\ moved \in Nat /\ SlotAmount(slot, q) \in Nat /\ SlotAmount(sendSize[x], q) \in Nat
  <2>1. moved \in Nat
    <3>1. taking => Head(t) \in Chunks
      BY <1>2, <1>3, HeadTailProperties
    <3>2. QED
      BY <3>1, AmountType
  <2>2. QED
    BY <1>3, <1>4, <2>1, AmountType DEF SlotAmount
<1> HIDE DEF moved, slot, t
<1>12. Returning(y, q) =
         CreditCount(AsSeq(portRead[y]), q) + CreditCount(buffer[y][RxFc(y)], q)
         + CreditCount(wire[x], q) + CreditCount(t, q) + SlotAmount(sendSize[x], q)
  BY <1>1, <1>8 DEF Returning, t
<1>13. Returning(y, q)' =
         CreditCount(AsSeq(portRead[y]), q) + CreditCount(buffer[y][RxFc(y)], q)
         + CreditCount(wire'[x], q) + CreditCount(bodyFIFO'[x], q)
         + SlotAmount(sendSize'[x], q)
  BY <1>1, <1>8, <1>9 DEF Returning
<1>14. QED
  BY <1>2, <1>6, <1>7, <1>10, <1>11, <1>12, <1>13, SMTT(30)

\* What is handed back was free.
LEMMA GivenFacts ==
  ASSUME IInv, NEW x \in Side, NEW winner, NEW s, NEW idx,
         Ticks(x, winner, s, idx), NEW q \in Queues(Peer(x))
  PROVE  /\ Given(x, q) \in 0..free[x][q] /\ Taken(idx, q) \in 0..1
         /\ Given(x, q) # 0 => Given(x, q) = free[x][q] /\ free[x][q] > ReturnThreshold
         /\ free[x][q] \in 0..(CreditMod - 1)
         /\ free'[x] \in [RxQueues(x) -> 0..(CreditMod - 1)]
         /\ free'[x][q] = (free[x][q] - Given(x, q) + Taken(idx, q)) % CreditMod
<1> DEFINE kept(r) == IF Batching(x) /\ idxRR[x] = r THEN 0 ELSE free[x][r]
           next(r) == (kept(r) + (IF idx = r THEN 1 ELSE 0)) % CreditMod
<1>1. q \in RxQueues(x) /\ \A r \in RxQueues(x) : free[x][r] \in 0..(CreditMod - 1)
  BY SideTypes DEF RxQueues
<1>2. CreditMod \in Nat \ {0} /\ ReturnThreshold \in Nat
  BY Sizes
<1>3. free'[x] = [r \in RxQueues(x) |-> next(r)]
  BY DEF Ticks, CycleOf, IngressCycle, CountFree, IInv, Domains
<1>4. \A r \in RxQueues(x) : next(r) \in 0..(CreditMod - 1)
  <2>1. \A r \in RxQueues(x) : kept(r) + (IF idx = r THEN 1 ELSE 0) \in Nat
    BY <1>1, <1>2
  <2> HIDE DEF kept
  <2>2. QED
    BY <1>2, <2>1
<1>5. Given(x, q) # 0 => Given(x, q) = free[x][q] /\ free[x][q] > ReturnThreshold
  BY DEF Given, Batching, BatchReady
<1>6. kept(q) = free[x][q] - Given(x, q)
  BY <1>1, <1>2 DEF Given
<1>7. free'[x][q] = (free[x][q] - Given(x, q) + Taken(idx, q)) % CreditMod
  <2>1. free'[x][q] = next(q)
    BY <1>1, <1>3
  <2> HIDE DEF kept
  <2>2. QED
    BY <1>6, <2>1 DEF Taken
<1>8. Given(x, q) \in 0..free[x][q] /\ Taken(idx, q) \in 0..1
  BY <1>1, <1>2 DEF Given, Taken
<1>9. QED
  BY <1>1, <1>3, <1>4, <1>5, <1>7, <1>8

\* The accounts of the queues that x receives on after the cycle.
LEMMA ReceiverAccounts ==
  ASSUME IInv, PacketsFit, NEW x \in Side, NEW winner, NEW s, NEW idx,
         Ticks(x, winner, s, idx), NEW q \in Queues(Peer(x))
  PROVE  /\ Sum(Peer(x), q)' % CreditMod = FifoSize
         /\ portCredits'[Peer(x)][q] = portCredits[Peer(x)][q]
         /\ Stored(Peer(x), q)' = Stored(Peer(x), q) + Came(x, q) - Taken(idx, q)
         /\ Taken(idx, q) <= Stored(Peer(x), q)
         /\ q \in DataQueues(Peer(x)) =>
              /\ Sum(Peer(x), q)' = FifoSize
              /\ free'[x][q] = free[x][q] - Given(x, q) + Taken(idx, q)
<1> DEFINE y == Peer(x)
           pc == portCredits[y][q]
           fly == InFlight(y, q)
           here == Stored(y, q)
           empty == free[x][q]
           emptyNext == free'[x][q]
           back == Returning(y, q)
           given == Given(x, q)
           came == Came(x, q)
           taken == Taken(idx, q)
           m == CreditMod
<1>1. y \in Side /\ Peer(y) = x /\ q \in RxQueues(x)
  BY Peers DEF RxQueues
<1>2. m \in Nat \ {0} /\ FifoSize \in Nat \ {0} /\ m = 2 * FifoSize
  BY Sizes
<1>3. pc \in 0..(m - 1)
  BY <1>1 DEF IInv, TypeOK, EgressTypeOK
<1>4. fly \in Nat /\ came <= fly /\ InFlight(y, q)' = fly - came
  BY InFlightOfReceiver
<1>5. back \in Nat
  <2>1. PICK rest \in Nat : back = Refilled(y, q) + rest
    BY <1>1, ReturningInBatches
  <2>2. Refilled(y, q) \in Nat
    BY <1>1, RefillFacts, <1>2
  <2> HIDE DEF back
  <2>3. QED
    BY <2>1, <2>2
<1>6. Returning(y, q)' = back + given
  BY ReturningOfReceiver
<1>7. /\ here \in Nat /\ taken <= here /\ Stored(y, q)' = here + came - taken
  <2>1. here = Len(buffer[x][q]) /\ Len(buffer[x][q]) \in Nat
    BY <1>1, SideTypes DEF Stored
  <2>2. /\ Len(buffer'[x][q]) = Len(buffer[x][q]) + Came(x, q) - Taken(idx, q)
        /\ Taken(idx, q) <= Len(buffer[x][q])
    BY <1>1, BufferOfReceiver
  <2>3. Stored(y, q)' = Len(buffer'[x][q])
    BY <1>1 DEF Stored
  <2>4. QED
    BY <2>1, <2>2, <2>3
<1>8. /\ given \in 0..empty /\ taken \in 0..1 /\ empty \in 0..(m - 1)
      /\ emptyNext = (empty - given + taken) % m
  BY GivenFacts
<1>9. came \in 0..1
  BY DEF Came
<1>10. portCredits'[y] = portCredits[y]
  BY PeerKeeps
<1>11. /\ (pc + fly + here + empty + back) % m = FifoSize
       /\ q \in DataQueues(y) => pc + fly + here + empty + back = FifoSize
  BY <1>1 DEF IInv, Accounted, Sum
<1>12. Sum(y, q)' = pc + (fly - came) + (here + came - taken) + emptyNext + (back + given)
  BY <1>1, <1>4, <1>6, <1>7, <1>10 DEF Sum
<1> HIDE DEF pc, fly, here, empty, emptyNext, back, given, came, taken, m
<1> DEFINE n == empty - given + taken
<1>13. n \in 0..m
  BY <1>2, <1>8
<1> HIDE DEF n
<1>14. emptyNext = IF n < m THEN n ELSE n - m
  <2>1. n \in 0..(2 * m - 1)
    BY <1>2, <1>13
  <2>2. n % m = IF n < m THEN n ELSE n - m
    BY <1>2, <2>1, ModOnce
  <2>3. QED
    BY <1>8, <2>2 DEF n
<1>15. Sum(y, q)' % m = FifoSize
  <2> DEFINE total == pc + fly + here + empty + back
  <2>1. total \in Int
    BY <1>2, <1>3, <1>4, <1>5, <1>7, <1>8
  <2>2. Sum(y, q)' \in {total, total - m}
    BY <1>2, <1>3, <1>4, <1>5, <1>7, <1>8, <1>9, <1>12, <1>14 DEF n
  <2>3. total % m = FifoSize
    BY <1>11
  <2> HIDE DEF total
  <2>4. (total - m) % m = total % m
    BY <1>2, <2>1, ModTurn
  <2>5. QED
    BY <2>2, <2>3, <2>4
<1>16. ASSUME q \in DataQueues(y)
       PROVE  Sum(y, q)' = FifoSize /\ emptyNext = empty - given + taken
  <2>1. empty + taken <= FifoSize
    BY <1>2, <1>3, <1>4, <1>5, <1>7, <1>8, <1>11, <1>16
  <2>2. n < m
    BY <1>2, <1>8, <2>1 DEF n
  <2>3. emptyNext = empty - given + taken
    BY <1>14, <2>2 DEF n
  <2>4. given \in Int /\ taken \in Int /\ empty \in Int /\ came \in Int /\ pc \in Int
    BY <1>2, <1>3, <1>8, <1>9
  <2>5. pc + (fly - came) + (here + came - taken) + (empty - given + taken) + (back + given)
          = pc + fly + here + empty + back
    BY <1>4, <1>5, <1>7, <2>4
  <2>6. QED
    BY <1>11, <1>12, <1>16, <2>3, <2>5
<1>17. QED
  BY <1>7, <1>10, <1>15, <1>16 DEF pc, here, empty, emptyNext, given, came, taken, m

-----------------------------------------------------------------------------
(* A cycle keeps the invariant.                                            *)

\* No register disappears.
LEMMA DomainsStay ==
  ASSUME IInv, NEW x \in Side, NEW winner, NEW s, NEW idx, Ticks(x, winner, s, idx)
  PROVE  Domains'
<1>1. Domains
  BY DEF IInv
<1>2. /\ DOMAIN wire' = Side /\ DOMAIN headerFIFO' = Side /\ DOMAIN bodyFIFO' = Side
      /\ DOMAIN portRead' = Side
  BY <1>1 DEF Ticks, CycleOf, SharedCycle, Domains
<1>3. /\ DOMAIN request' = Side /\ DOMAIN requestChunksRemaining' = Side
      /\ DOMAIN requestActiveQueue' = Side /\ DOMAIN deqHeader' = Side
      /\ DOMAIN newMsgQIdx' = Side
  BY <1>1 DEF Ticks, CycleOf, DeqRequest, CountChunks, ReadPort, Domains
<1>4. DOMAIN portCredits' = Side /\ DOMAIN bufferAvailable' = Side
  <2>1. \/ UNCHANGED <<portCredits, bufferAvailable>>
        \/ \E q, count, room : /\ portCredits' = [portCredits EXCEPT ![x][q] = count]
                               /\ bufferAvailable' = [bufferAvailable EXCEPT ![x][q] = room]
    BY CreditsWritten
  <2>2. QED
    <3>1. DOMAIN portCredits = Side /\ DOMAIN bufferAvailable = Side
      BY <1>1 DEF Domains
    <3>2. QED
      BY <2>1, <3>1
<1>5. /\ DOMAIN buffer' = Side /\ DOMAIN free' = Side /\ DOMAIN rxChunksRemaining' = Side
      /\ DOMAIN rxActiveQueue' = Side /\ DOMAIN idxRR' = Side /\ DOMAIN sendSize' = Side
      /\ DOMAIN lastRead' = Side
  BY <1>1 DEF Ticks, CycleOf, IngressCycle, EnqDeq, CountFree, ReturnCredits, CountReceived,
              Domains
<1>6. QED
  BY <1>2, <1>3, <1>4, <1>5 DEF Domains

\* The egress registers of x keep their types.
LEMMA EgressTypesStay ==
  ASSUME IInv, PacketsFit, NEW x \in Side, NEW winner, NEW s, NEW idx,
         Ticks(x, winner, s, idx)
  PROVE  /\ request'[x] \in [DataQueues(x) -> 0..MaxChunks \cup {None}]
         /\ portCredits'[x] \in [Queues(x) -> 0..(CreditMod - 1)]
         /\ bufferAvailable'[x] \in [Queues(x) -> BOOLEAN]
         /\ requestChunksRemaining'[x] \in 0..Max({1, MaxChunks})
         /\ requestActiveQueue'[x] \in Queues(x)
         /\ deqHeader'[x] \in BOOLEAN
         /\ newMsgQIdx'[x] \in Queues(x) \cup {None}
<1>1. Domains /\ EgressTypeOK
  BY DEF IInv, TypeOK
<1>2. request'[x] \in [DataQueues(x) -> 0..MaxChunks \cup {None}]
  <2>1. request[x] \in [DataQueues(x) -> 0..MaxChunks \cup {None}]
    BY <1>1 DEF EgressTypeOK
  <2>2. request' = request \/ request' = [request EXCEPT ![x][s] = None]
    BY DEF Ticks, CycleOf, DeqRequest
  <2>3. QED
    BY <1>1, <2>1, <2>2 DEF Domains
<1>3. portCredits'[x] \in [Queues(x) -> 0..(CreditMod - 1)]
  BY CreditsOfSender
<1>4. bufferAvailable'[x] \in [Queues(x) -> BOOLEAN]
  BY CreditsOfSender
<1>5. /\ requestChunksRemaining'[x] \in 0..Max({1, MaxChunks})
      /\ requestActiveQueue'[x] \in Queues(x)
  <2>1. Sending(x)' \in Readers(x)
    BY SideTypes, SenderContinues
  <2>2. Sending(x)' = [queue |-> requestActiveQueue'[x], left |-> requestChunksRemaining'[x]]
    BY DEF Sending
  <2>3. Sending(x)'.queue \in Queues(x) /\ Sending(x)'.left \in 0..Max({1, MaxChunks})
    BY <2>1 DEF Readers
  <2>4. QED
    BY <2>2, <2>3
<1>6. deqHeader'[x] \in BOOLEAN
  <2>1. deqHeader'[x] = IF portRead[x] # None THEN ~deqHeader[x] ELSE deqHeader[x]
    BY <1>1 DEF Ticks, CycleOf, ReadPort, Domains
  <2>2. deqHeader[x] \in BOOLEAN
    BY <1>1 DEF EgressTypeOK
  <2>3. QED
    BY <2>1, <2>2
<1>7. newMsgQIdx'[x] \in Queues(x) \cup {None}
  <2>1. newMsgQIdx'[x] = IF SingleCycleArb THEN None ELSE winner
    BY <1>1 DEF Ticks, CycleOf, Domains
  <2>2. winner \in Winners(x)
    BY DEF Ticks
  <2>3. winner \in Queues(x) \cup {None}
    BY <2>2, WinnersPay
  <2>4. QED
    BY <2>1, <2>3
<1>8. QED
  BY <1>2, <1>3, <1>4, <1>5, <1>6, <1>7

\* The ingress registers of x keep their types.
LEMMA IngressTypesStay ==
  ASSUME IInv, PacketsFit, NEW x \in Side, NEW winner, NEW s, NEW idx,
         Ticks(x, winner, s, idx)
  PROVE  /\ buffer'[x] \in [RxQueues(x) -> Seq(Chunks)]
         /\ free'[x] \in [RxQueues(x) -> 0..(CreditMod - 1)]
         /\ rxChunksRemaining'[x] \in 0..Max({1, MaxChunks})
         /\ rxActiveQueue'[x] \in RxQueues(x)
         /\ idxRR'[x] \in RxQueues(x)
         /\ sendSize'[x] \in BatchesFor(Peer(x)) \cup {None}
         /\ lastRead'[x] \in RxQueues(x)
<1> DEFINE y == Peer(x)
<1>1. Domains /\ IngressTypeOK
  BY DEF IInv, TypeOK
<1>2. y \in Side /\ Peer(y) = x /\ RxQueues(x) = Queues(y) /\ 0 \in Queues(y) /\ RxFc(x) = Fc(y)
  BY Peers, Zeros DEF RxQueues, RxFc
<1>3. buffer'[x] \in [RxQueues(x) -> Seq(Chunks)]
  BY <1>2, BufferOfReceiver
<1>4. free'[x] \in [RxQueues(x) -> 0..(CreditMod - 1)]
  BY <1>2, GivenFacts
<1>5. rxChunksRemaining'[x] \in 0..Max({1, MaxChunks}) /\ rxActiveQueue'[x] \in RxQueues(x)
  <2>1. Receives(y)' \in Readers(y)
    BY <1>2, SideTypes, ReceiverContinues
  <2>2. Receives(y)' = [queue |-> rxActiveQueue'[x], left |-> rxChunksRemaining'[x]]
    BY <1>2 DEF Receives
  <2>3. Receives(y)'.queue \in Queues(y) /\ Receives(y)'.left \in 0..Max({1, MaxChunks})
    BY <2>1 DEF Readers
  <2>4. QED
    BY <1>2, <2>2, <2>3
<1>6. idxRR'[x] \in RxQueues(x)
  <2>1. idxRR[x] \in Queues(y)
    BY <1>1, <1>2 DEF IngressTypeOK
  <2>2. idxRR'[x] = IF ~Scanning(x) THEN idxRR[x]
                    ELSE IF idxRR[x] = RxFc(x) THEN 0 ELSE idxRR[x] + 1
    BY <1>1 DEF Ticks, CycleOf, IngressCycle, ReturnCredits, Domains
  <2>3. QED
    BY <1>2, <2>1, <2>2, QueueNumbers
<1>7. sendSize'[x] \in BatchesFor(y) \cup {None}
  <2>1. sendSize'[x] = IF Batching(x) THEN Credit(idxRR[x], free[x][idxRR[x]])
                       ELSE IF Finishing(x) THEN None ELSE sendSize[x]
    BY <1>1 DEF Ticks, CycleOf, IngressCycle, ReturnCredits, Domains
  <2>2. sendSize[x] \in BatchesFor(y) \cup {None}
    BY SideTypes
  <2>3. Batching(x) => Credit(idxRR[x], free[x][idxRR[x]]) \in BatchesFor(y)
    BY NewBatch
  <2>4. QED
    BY <2>1, <2>2, <2>3
<1>8. lastRead'[x] \in RxQueues(x)
  <2>1. lastRead'[x] = IF idx = None THEN lastRead[x] ELSE idx
    BY <1>1 DEF Ticks, CycleOf, IngressCycle, Domains
  <2>2. lastRead[x] \in RxQueues(x) /\ idx \in RxQueues(x) \cup {None}
    BY <1>1 DEF IngressTypeOK, Ticks, NotEmpty
  <2>3. QED
    BY <2>1, <2>2
<1>9. QED
  BY <1>3, <1>4, <1>5, <1>6, <1>7, <1>8

\* The queues between the switches keep their types and their bounds.
LEMMA SharedTypesStay ==
  ASSUME IInv, PacketsFit, NEW x \in Side, NEW winner, NEW s, NEW idx,
         Ticks(x, winner, s, idx)
  PROVE  /\ wire'[x] \in Seq(Chunks) /\ Len(wire'[x]) <= LinkDepth
         /\ wire'[Peer(x)] \in Seq(Chunks) /\ Len(wire'[Peer(x)]) <= LinkDepth
         /\ headerFIFO'[x] \in 0..FifofDepth
         /\ bodyFIFO'[x] \in Seq(BatchesFor(Peer(x))) /\ Len(bodyFIFO'[x]) <= FifofDepth
<1> DEFINE y == Peer(x)
<1>1. y \in Side /\ Domains /\ LinkDepth \in Nat
  BY Peers, Sizes DEF IInv
<1>2. wire'[x] \in Seq(Chunks) /\ Len(wire'[x]) <= LinkDepth
  <2>1. /\ wire[x] \in Seq(Chunks) /\ Len(wire[x]) \in Nat /\ Len(wire[x]) <= LinkDepth
    BY SideTypes DEF IInv, TypeOK
  <2>2. \/ Written(x, s) = <<>>
        \/ LinkReady(x) /\ \E c \in Chunks : Written(x, s) = <<c>>
    BY SenderContinues
  <2>3. CASE Written(x, s) = <<>>
    BY <2>1, <2>3, WireMoves, ConcatOne
  <2>4. CASE LinkReady(x) /\ \E c \in Chunks : Written(x, s) = <<c>>
    <3>1. PICK c \in Chunks : Written(x, s) = <<c>>
      BY <2>4
    <3>2. wire[x] \o <<c>> \in Seq(Chunks) /\ Len(wire[x] \o <<c>>) = Len(wire[x]) + 1
      <4>1. wire[x] \o <<c>> = Append(wire[x], c)
        BY <2>1, ConcatOne
      <4>2. Append(wire[x], c) \in Seq(Chunks) /\ Len(Append(wire[x], c)) = Len(wire[x]) + 1
        BY <2>1, ConcatOne
      <4>3. QED
        BY <4>1, <4>2
    <3>3. wire'[x] = wire[x] \o <<c>>
      BY <3>1, WireMoves
    <3>4. Len(wire[x]) < LinkDepth
      BY <2>4 DEF LinkReady
    <3>5. QED
      BY <1>1, <2>1, <3>2, <3>3, <3>4
  <2>5. QED
    BY <2>2, <2>3, <2>4
<1>3. wire'[y] \in Seq(Chunks) /\ Len(wire'[y]) <= LinkDepth
  <2>1. wire[y] \in Seq(Chunks) /\ Len(wire[y]) \in Nat /\ Len(wire[y]) <= LinkDepth
    BY <1>1, SideTypes DEF IInv, TypeOK
  <2>2. wire'[y] = IF Receiving(x) THEN Tail(wire[y]) ELSE wire[y]
    BY WireMoves
  <2>3. CASE Receiving(x)
    <3>1. wire[y] # <<>>
      BY <2>3 DEF Receiving
    <3>2. Tail(wire[y]) \in Seq(Chunks) /\ Len(Tail(wire[y])) = Len(wire[y]) - 1
      BY <2>1, <3>1, HeadTailProperties
    <3>3. QED
      BY <1>1, <2>1, <2>2, <2>3, <3>2
  <2>4. QED
    BY <2>1, <2>2, <2>3
<1>4. headerFIFO'[x] \in 0..FifofDepth
  <2>1. Fc(x) # None
    BY QueueNumbers, SwitchAssumption
  <2>2. headerFIFO'[x] = headerFIFO[x] - (IF s = Fc(x) THEN 1 ELSE 0)
                         + (IF Batching(x) THEN 1 ELSE 0)
    BY <1>1 DEF Ticks, CycleOf, SharedCycle, Domains
  <2>3. Batching(x) => headerFIFO[x] < 2
    BY DEF Batching, Scanning, FifofDepth
  <2>4. headerFIFO[x] \in 0..2 /\ (s = Fc(x) => headerFIFO[x] > 0)
    BY <2>1 DEF IInv, TypeOK, FifofDepth, Ticks, Starts, MayStart, NotEmptyHeader
  <2>5. QED
    BY <2>2, <2>3, <2>4 DEF FifofDepth
<1>5. bodyFIFO'[x] \in Seq(BatchesFor(y)) /\ Len(bodyFIFO'[x]) <= FifofDepth
  <2> DEFINE B == BatchesFor(y)
             t == bodyFIFO[x]
             taking == Continuing(x) /\ requestActiveQueue[x] = Fc(x)
             rest == IF taking THEN Tail(t) ELSE t
  <2>1. t \in Seq(B) /\ Len(t) \in Nat /\ Len(t) <= 2 /\ (taking => t # <<>>)
    <3>1. t \in Seq(B)
      BY SideTypes
    <3>2. Len(t) <= 2 /\ (taking => t # <<>>)
      BY DEF IInv, TypeOK, FifofDepth, Continuing
    <3>3. Len(t) \in Nat
      BY <3>1, LenProperties
    <3>4. QED
      BY <3>1, <3>2, <3>3
  <2>2. bodyFIFO'[x] = rest \o (IF Finishing(x) THEN <<sendSize[x]>> ELSE <<>>)
    BY <1>1 DEF Ticks, CycleOf, SharedCycle, Domains
  <2>3. Finishing(x) => sendSize[x] \in B /\ Len(t) < 2
    BY SideTypes DEF Finishing, FifofDepth
  <2> HIDE DEF B, t, taking
  <2>4. rest \in Seq(B) /\ Len(rest) \in Nat /\ Len(rest) <= Len(t)
    <3>1. CASE taking
      <4>1. Tail(t) \in Seq(B) /\ Len(Tail(t)) = Len(t) - 1 /\ Len(t) # 0
        BY <2>1, <3>1, HeadTailProperties, EmptySeq
      <4>2. QED
        BY <2>1, <3>1, <4>1
    <3>2. CASE ~taking
      BY <2>1, <3>2
    <3>3. QED
      BY <3>1, <3>2
  <2> HIDE DEF rest
  <2>5. CASE Finishing(x)
    <3> DEFINE c == sendSize[x]
    <3>1. c \in B /\ bodyFIFO'[x] = rest \o <<c>>
      BY <2>2, <2>3, <2>5
    <3> HIDE DEF c
    <3>2. rest \o <<c>> = Append(rest, c) /\ Append(rest, c) \in Seq(B)
          /\ Len(Append(rest, c)) = Len(rest) + 1
      BY <2>4, <3>1, ConcatOne
    <3>3. QED
      BY <2>1, <2>3, <2>4, <2>5, <3>1, <3>2 DEF B, FifofDepth
  <2>6. CASE ~Finishing(x)
    <3>1. bodyFIFO'[x] = rest
      BY <2>2, <2>4, <2>6, ConcatOne
    <3>2. QED
      BY <2>1, <2>4, <3>1 DEF B, FifofDepth
  <2>7. QED
    BY <2>5, <2>6
<1>6. QED
  BY <1>2, <1>3, <1>4, <1>5

\* A cycle leaves every register with a value of its type.
LEMMA TypesStay ==
  ASSUME IInv, PacketsFit, NEW x \in Side, NEW winner, NEW s, NEW idx,
         Ticks(x, winner, s, idx)
  PROVE  TypeOK'
<1> DEFINE y == Peer(x)
<1>1. /\ y \in Side /\ \A z \in Side : z = x \/ z = y
      /\ BatchesFor(y) \subseteq Chunks /\ FcChunks(x) \subseteq Chunks
  BY Peers, Zeros, ChunkTypes
<1>2. /\ DOMAIN request' = Side /\ DOMAIN buffer' = Side
  BY DomainsStay DEF Domains
<1>3. EgressTypeOK'
  <2>1. ASSUME NEW z \in Side
        PROVE  /\ request'[z] \in [DataQueues(z) -> 0..MaxChunks \cup {None}]
               /\ portCredits'[z] \in [Queues(z) -> 0..(CreditMod - 1)]
               /\ bufferAvailable'[z] \in [Queues(z) -> BOOLEAN]
               /\ requestChunksRemaining'[z] \in 0..Max({1, MaxChunks})
               /\ requestActiveQueue'[z] \in Queues(z)
               /\ deqHeader'[z] \in BOOLEAN
               /\ newMsgQIdx'[z] \in Queues(z) \cup {None}
    <3>1. CASE z = x
      BY <3>1, EgressTypesStay
    <3>2. CASE z = y
      BY <1>1, <3>2, PeerKeeps DEF IInv, TypeOK, EgressTypeOK
    <3>3. QED
      BY <1>1, <3>1, <3>2
  <2>2. QED
    BY <1>2, <2>1 DEF EgressTypeOK
<1>4. IngressTypeOK'
  <2>1. ASSUME NEW z \in Side
        PROVE  /\ buffer'[z] \in [RxQueues(z) -> Seq(Chunks)]
               /\ free'[z] \in [RxQueues(z) -> 0..(CreditMod - 1)]
               /\ rxChunksRemaining'[z] \in 0..Max({1, MaxChunks})
               /\ rxActiveQueue'[z] \in RxQueues(z)
               /\ idxRR'[z] \in RxQueues(z)
               /\ sendSize'[z] \in Chunks \cup {None}
               /\ lastRead'[z] \in RxQueues(z)
    <3>1. CASE z = x
      BY <1>1, <3>1, IngressTypesStay
    <3>2. CASE z = y
      BY <1>1, <3>2, PeerKeeps DEF IInv, TypeOK, IngressTypeOK
    <3>3. QED
      BY <1>1, <3>1, <3>2
  <2>2. QED
    BY <1>2, <2>1 DEF IngressTypeOK
<1>5. portRead'[x] \in FcChunks(x) \cup {None}
  <2> DEFINE t == buffer[x][RxFc(x)]
  <2>1. idx = RxFc(x) => t # <<>>
    BY PortMoves
  <2>2. t \in Seq(FcChunks(x))
    BY DEF IInv, Contents
  <2>3. portRead'[x] = IF idx = RxFc(x) THEN Head(t) ELSE None
    BY PortMoves
  <2> HIDE DEF t
  <2>4. idx = RxFc(x) => Head(t) \in FcChunks(x)
    BY <2>1, <2>2, HeadTailProperties
  <2>5. QED
    BY <2>3, <2>4
<1>6. ASSUME NEW z \in Side
      PROVE  /\ wire'[z] \in Seq(Chunks) /\ Len(wire'[z]) <= LinkDepth
             /\ headerFIFO'[z] \in 0..FifofDepth
             /\ bodyFIFO'[z] \in Seq(Chunks) /\ Len(bodyFIFO'[z]) <= FifofDepth
             /\ portRead'[z] \in Chunks \cup {None}
  <2>1. CASE z = x
    <3>1. bodyFIFO'[x] \in Seq(Chunks)
      BY <1>1, SharedTypesStay
    <3>2. QED
      BY <1>1, <1>5, <2>1, <3>1, SharedTypesStay
  <2>2. CASE z = y
    BY <1>1, <2>2, PeerKeeps, SharedTypesStay DEF IInv, TypeOK
  <2>3. QED
    BY <1>1, <2>1, <2>2
<1>7. QED
  BY <1>3, <1>4, <1>6 DEF TypeOK

\* Every place still holds chunks of its kind.
LEMMA ContentsStay ==
  ASSUME IInv, PacketsFit, NEW x \in Side, NEW winner, NEW s, NEW idx,
         Ticks(x, winner, s, idx), NEW z \in Side
  PROVE  Contents(z)'
<1> DEFINE y == Peer(x)
           fc == RxFc(x)
<1>1. y \in Side /\ Peer(y) = x /\ (z = x \/ z = y) /\ RxQueues(x) = Queues(y) /\ fc = Fc(y)
  BY Peers DEF RxQueues, RxFc
<1>2. CASE z = y
  <2>1. Contents(y)
    BY <1>1 DEF IInv
  <2>2. QED
    BY <1>2, <2>1, PeerKeeps DEF Contents
<1>3. CASE z = x
  <2>1. bodyFIFO'[x] \in Seq(BatchesFor(y)) /\ sendSize'[x] \in BatchesFor(y) \cup {None}
    BY SharedTypesStay, IngressTypesStay
  <2> DEFINE F == FcChunks(x)
             t == buffer[x][fc]
             slot == IF Receiving(x) /\ Target(x) = fc THEN Arrived(x) ELSE None
             rest == IF idx = fc THEN Tail(t) ELSE t
  <2>2. t \in Seq(F) /\ (idx = fc => t # <<>>) /\ slot \in F \cup {None}
        /\ buffer'[x][fc] = rest \o AsSeq(slot)
        /\ portRead'[x] = IF idx = fc THEN Head(t) ELSE None
    BY PortMoves DEF IInv, Contents
  <2> HIDE DEF F, t, slot
  <2>3. rest \in Seq(F) /\ portRead'[x] \in F \cup {None}
    BY <2>2, HeadTailProperties
  <2> HIDE DEF rest
  <2>4. rest \o AsSeq(slot) \in Seq(F)
    <3>1. CASE slot = None
      BY <2>3, <3>1, ConcatOne DEF AsSeq
    <3>2. CASE slot # None
      <4>1. slot \in F
        BY <2>2, <3>2
      <4>2. rest \o <<slot>> = Append(rest, slot) /\ Append(rest, slot) \in Seq(F)
        BY <2>3, <4>1, ConcatOne
      <4>3. QED
        BY <3>2, <4>2 DEF AsSeq
    <3>3. QED
      BY <3>1, <3>2
  <2>5. ASSUME NEW q \in DataQueues(y) PROVE buffer'[x][q] \in Seq({DataChunk(q)})
    <3> DEFINE D == {DataChunk(q)}
               u == buffer[x][q]
               left == IF idx = q THEN Tail(u) ELSE u
               c == Kept(x, Arrived(x))
    <3>1. q \in RxQueues(x) /\ q # Fc(y)
      BY <1>1, QueueNumbers
    <3>2. u \in Seq(D)
      BY <1>1 DEF IInv, Contents
    <3>3. /\ idx = q => u # <<>>
          /\ buffer'[x][q] = IF Receiving(x) /\ Target(x) = q THEN Append(left, c) ELSE left
      BY <3>1, BufferOfReceiver
    <3>4. Receiving(x) /\ Target(x) = q => c \in D
      <4>1. SUFFICES ASSUME Receiving(x), Target(x) = q PROVE c \in D
        OBVIOUS
      <4>2. /\ Arrived(x) \in Chunks
            /\ Reads(y, Receives(y), Arrived(x), Receives(y)')
            /\ Receives(y) \in Readers(y) /\ Receives(y)' \in Readers(y)
            /\ Receives(y)'.queue = q
        BY <1>1, <4>1, ReceiverContinues, SideTypes
      <4>3. Arrived(x).idx = q
        BY <1>1, <3>1, <4>2, ReadsFacts
      <4>4. QED
        BY <1>1, <3>1, <4>1, <4>3 DEF Kept
    <3> HIDE DEF D, u, c
    <3>5. left \in Seq(D)
      BY <3>2, <3>3, HeadTailProperties
    <3> HIDE DEF left
    <3>6. c \in D => Append(left, c) \in Seq(D)
      BY <3>5, AppendProperties
    <3>7. QED
      BY <3>3, <3>4, <3>5, <3>6 DEF D
  <2>6. QED
    BY <1>3, <2>1, <2>2, <2>3, <2>4, <2>5 DEF Contents, F
<1>4. QED
  BY <1>1, <1>2, <1>3

\* Accounts are still kept.
LEMMA AccountsStay ==
  ASSUME IInv, PacketsFit, NEW x \in Side, NEW winner, NEW s, NEW idx,
         Ticks(x, winner, s, idx), NEW z \in Side
  PROVE  Accounted(z)'
<1>1. /\ z = x \/ z = Peer(x)
      /\ \A q \in DataQueues(x) : q \in Queues(x)
      /\ \A q \in DataQueues(Peer(x)) : q \in Queues(Peer(x))
  BY Peers, QueueNumbers
<1>2. CASE z = x
  BY <1>1, <1>2, SenderAccounts DEF Accounted
<1>3. CASE z = Peer(x)
  BY <1>1, <1>3, ReceiverAccounts DEF Accounted
<1>4. QED
  BY <1>1, <1>2, <1>3

\* The bits that the arbiter trusts still promise enough credits.
LEMMA AffordsStay ==
  ASSUME IInv, PacketsFit, NEW x \in Side, NEW winner, NEW s, NEW idx,
         Ticks(x, winner, s, idx), NEW z \in Side
  PROVE  Affords(z)'
<1>1. z = x \/ z = Peer(x)
  BY Peers
<1>2. CASE z = Peer(x)
  BY <1>2, PeerKeeps DEF IInv, Affords
<1>3. CASE z = x
  <2>1. SUFFICES ASSUME NEW q \in DataQueues(x),
                        bufferAvailable'[x][q] \/ newMsgQIdx'[x] = q
                 PROVE  portCredits'[x][q] >= MaximumPacketSize(x) + 1
    BY <1>3 DEF Affords
  <2> DEFINE enough == MaximumPacketSize(x) + 1
             pc == portCredits[x][q]
             paid == Paid(x, s, q)
             refill == Refilled(x, q)
  <2>2. q \in Queues(x) /\ q # Fc(x) /\ q # None
    BY QueueNumbers, SwitchAssumption
  <2>3. portCredits'[x][q] = pc - paid + refill
    BY <2>2, SenderAccounts
  <2>4. /\ pc \in Nat /\ paid \in Nat /\ refill \in Nat /\ enough \in Nat
        /\ enough <= ReturnThreshold + 1 /\ ReturnThreshold \in Nat /\ paid <= pc
    <3>1. pc \in 0..(CreditMod - 1) /\ CreditMod \in Nat \ {0} /\ ReturnThreshold \in Nat
      BY <2>2, Sizes DEF IInv, TypeOK, EgressTypeOK
    <3>2. paid \in 0..(CreditMod - 1) /\ refill \in 0..(CreditMod - 1) /\ paid <= pc
      BY <2>2, PaidFacts, RefillFacts
    <3>3. enough \in Nat /\ enough <= ReturnThreshold + 1
      BY <3>1, LargestPacket, SizesFit
    <3> HIDE DEF pc, paid, refill, enough
    <3>4. QED
      BY <3>1, <3>2, <3>3
  <2>5. ASSUME bufferAvailable[x][q] \/ newMsgQIdx[x] = q PROVE pc >= enough
    BY <2>5 DEF IInv, Affords
  <2>6. ASSUME s # q, bufferAvailable[x][q] PROVE portCredits'[x][q] >= enough
    <3>1. paid = 0 /\ pc >= enough
      BY <2>5, <2>6 DEF Paid
    <3> HIDE DEF pc, paid, refill, enough
    <3>2. QED
      BY <2>3, <2>4, <3>1
  <2>7. CASE bufferAvailable'[x][q]
    <3>1. bufferAvailable'[x][q] =
            IF s = q THEN portCredits'[x][q] >= enough
            ELSE IF Refilling(x) /\ portRead[x].idx = q
            THEN portCredits'[x][q] >= MaximumPacketSize(x)
            ELSE bufferAvailable[x][q]
      BY <2>2, CreditsOfSender
    <3>2. CASE s = q
      BY <2>7, <3>1, <3>2
    <3>3. CASE s # q /\ Refilling(x) /\ portRead[x].idx = q
      <4>1. refill > ReturnThreshold
        <5>1. portRead[x] \in BatchesFor(x) /\ refill = portRead[x].amnt
          BY <3>3, RefillFacts DEF Refilled
        <5>2. QED
          BY <2>4, <5>1, BatchFacts, Sizes
      <4> HIDE DEF pc, paid, refill, enough
      <4>2. portCredits'[x][q] >= enough
        BY <2>3, <2>4, <4>1
      <4>3. QED
        BY <4>2 DEF enough
    <3>4. CASE s # q /\ ~(Refilling(x) /\ portRead[x].idx = q)
      BY <2>6, <2>7, <3>1, <3>4
    <3>5. QED
      BY <3>2, <3>3, <3>4
  <2>8. CASE newMsgQIdx'[x] = q
    <3>1. newMsgQIdx'[x] = IF SingleCycleArb THEN None ELSE winner
      BY DEF Ticks, CycleOf, IInv, Domains
    <3>2. ~SingleCycleArb /\ winner = q /\ winner \in Winners(x)
      BY <2>2, <2>8, <3>1 DEF Ticks
    <3>3. newMsgQIdx[x] # q
      BY <2>2, <3>2, WinnersPay
    <3>4. s # q
      BY <2>2, <3>2, <3>3 DEF Ticks, Starts
    <3>5. bufferAvailable[x][q]
      BY <2>2, <3>2 DEF Winners, Reqs, BypassFlowcontrol
    <3>6. QED
      BY <2>6, <3>4, <3>5
  <2>9. QED
    BY <2>1, <2>7, <2>8
<1>4. QED
  BY <1>1, <1>2, <1>3

\* A flow control packet is a header and one body.
LEMMA InsideMoves ==
  ASSUME IInv, NEW x \in Side, NEW winner, NEW s, NEW idx, Ticks(x, winner, s, idx)
  PROVE  /\ rxActiveQueue'[x] = RxFc(x) => rxChunksRemaining'[x] <= 1
         /\ Receiving(x) /\ Target(x) = RxFc(x) =>
              Arrived(x).kind = Kind(~Inside(x)) /\ (Inside(x)' <=> ~Inside(x))
         /\ ~(Receiving(x) /\ Target(x) = RxFc(x)) => (Inside(x)' <=> Inside(x))
<1> DEFINE y == Peer(x)
           a == Receives(y)
           b == Receives(y)'
<1>1. y \in Side /\ Peer(y) = x /\ RxFc(x) = Fc(y)
  BY Peers DEF RxFc
<1>2. a = [queue |-> rxActiveQueue[x], left |-> rxChunksRemaining[x]]
      /\ b = [queue |-> rxActiveQueue'[x], left |-> rxChunksRemaining'[x]]
  BY <1>1 DEF Receives
<1>3. a.queue = Fc(y) => a.left \in 0..1
  <2>1. rxChunksRemaining[x] \in Nat
    BY Largest DEF IInv, TypeOK, IngressTypeOK
  <2>2. rxActiveQueue[x] = Fc(y) => rxChunksRemaining[x] <= 1
    BY <1>1 DEF IInv, Alternates
  <2>3. QED
    BY <1>2, <2>1, <2>2
<1>4. /\ Inside(x) <=> a.queue = Fc(y) /\ a.left # 0
      /\ Inside(x)' <=> b.queue = Fc(y) /\ b.left # 0
  BY <1>1, <1>2 DEF Inside
<1>5. CASE ~Receiving(x)
  <2>1. b = a
    BY <1>5, ReceiverContinues
  <2>2. rxActiveQueue'[x] = b.queue /\ rxChunksRemaining'[x] = b.left
    BY <1>2
  <2> HIDE DEF a, b
  <2>3. QED
    BY <1>1, <1>3, <1>4, <1>5, <2>1, <2>2
<1>6. CASE Receiving(x)
  <2>1. /\ Arrived(x) \in Chunks /\ Reads(y, a, Arrived(x), b) /\ Target(x) = b.queue
        /\ a \in Readers(y) /\ b \in Readers(y)
    BY <1>1, <1>6, ReceiverContinues, SideTypes
  <2> HIDE DEF a, b
  <2>2. /\ b.queue = IF a.left = 0 THEN Arrived(x).idx ELSE a.queue
        /\ b.left = IF a.left = 0 THEN Arrived(x).amnt ELSE a.left - 1
        /\ b.queue = Fc(y) =>
             /\ a.left = 0 => Arrived(x) = Header(Fc(y), 1) /\ b.left = 1
             /\ a.left # 0 => Arrived(x) \in BatchesFor(x)
    BY <1>1, <2>1, ReadsFacts
  <2>3. rxActiveQueue'[x] = b.queue /\ rxChunksRemaining'[x] = b.left
    BY <1>2 DEF b
  <2>4. CASE Target(x) = Fc(y) /\ a.left = 0
    <3>1. Arrived(x).kind = "header" /\ b.left = 1 /\ ~Inside(x) /\ Inside(x)'
      BY <1>4, <2>1, <2>2, <2>4 DEF Header
    <3>2. rxChunksRemaining'[x] <= 1
      BY <2>3, <3>1
    <3>3. Arrived(x).kind = Kind(~Inside(x)) /\ (Inside(x)' <=> ~Inside(x))
      BY <3>1 DEF Kind
    <3>4. QED
      BY <1>1, <1>6, <2>4, <3>2, <3>3
  <2>5. CASE Target(x) = Fc(y) /\ a.left # 0
    <3>1. Arrived(x).kind = "credit"
      BY <2>1, <2>2, <2>5 DEF BatchesFor
    <3>2. a.left = 1 /\ b.left = 0 /\ Inside(x) /\ ~Inside(x)'
      BY <1>3, <1>4, <2>1, <2>2, <2>5
    <3>3. rxChunksRemaining'[x] <= 1
      BY <2>3, <3>2
    <3>4. Arrived(x).kind = Kind(~Inside(x)) /\ (Inside(x)' <=> ~Inside(x))
      BY <3>1, <3>2 DEF Kind
    <3>5. QED
      BY <1>1, <1>6, <2>5, <3>3, <3>4
  <2>6. CASE Target(x) # Fc(y)
    <3>1. ~Inside(x)' /\ b.queue # Fc(y)
      BY <1>4, <2>1, <2>6
    <3>2. ~Inside(x)
      BY <1>4, <2>1, <2>2, <2>6
    <3>3. QED
      BY <1>1, <2>3, <2>6, <3>1, <3>2
  <2>7. QED
    BY <2>4, <2>5, <2>6
<1>7. QED
  BY <1>5, <1>6

\* Headers and bodies keep taking turns.
LEMMA TurnsStay ==
  ASSUME IInv, PacketsFit, NEW x \in Side, NEW winner, NEW s, NEW idx,
         Ticks(x, winner, s, idx), NEW z \in Side
  PROVE  Alternates(z)'
<1> DEFINE fc == RxFc(x)
           odd(n) == n % 2 = 1
<1>1. z = x \/ z = Peer(x)
  BY Peers
<1>2. CASE z = Peer(x)
  <2>1. /\ portRead'[z] = portRead[z] /\ deqHeader'[z] = deqHeader[z]
        /\ buffer'[z] = buffer[z] /\ rxActiveQueue'[z] = rxActiveQueue[z]
        /\ rxChunksRemaining'[z] = rxChunksRemaining[z]
    BY <1>2, PeerKeeps
  <2>2. AtHand(z)' = AtHand(z) /\ (Inside(z)' <=> Inside(z))
    BY <2>1 DEF AtHand, Inside
  <2>3. Alternates(z)
    BY DEF IInv
  <2>4. QED
    BY <2>1, <2>2, <2>3 DEF Alternates
<1>3. CASE z = x
  <2> DEFINE t == buffer[x][fc]
             h == deqHeader[x]
             here == AtHand(x)
             taken == IF idx = fc THEN 1 ELSE 0
             came == IF Receiving(x) /\ Target(x) = fc THEN 1 ELSE 0
             slot == IF Receiving(x) /\ Target(x) = fc THEN Arrived(x) ELSE None
             rest == IF idx = fc THEN Tail(t) ELSE t
             next == buffer'[x][fc]
  <2>1. /\ h \in BOOLEAN /\ deqHeader'[x] \in BOOLEAN
        /\ deqHeader'[x] = IF portRead[x] # None THEN ~h ELSE h
    BY TypesStay DEF IInv, TypeOK, EgressTypeOK, Domains, Ticks, CycleOf, ReadPort
  <2>2. here \in 0..1 /\ (here = 0 <=> portRead[x] = None)
    BY DEF AtHand
  <2>3. /\ t \in Seq(Chunks) /\ Len(t) \in Nat
        /\ \A n \in 1..Len(t) : t[n].kind = Kind(h <=> odd(n + here))
        /\ Inside(x) <=> (h <=> odd(Len(t) + here))
    <3>1. t \in Seq(Chunks) /\ Len(t) \in Nat
      BY PortMoves, SideTypes
    <3>2. QED
      BY <3>1 DEF IInv, Alternates
  <2>4. /\ idx = fc => t # <<>>
        /\ slot \in Chunks \cup {None} /\ next = rest \o AsSeq(slot)
        /\ portRead'[x] = IF idx = fc THEN Head(t) ELSE None
    BY PortMoves
  <2> HIDE DEF h, here, t
  <2>5. \A n \in Nat : odd(n + 1) <=> ~odd(n)
    OBVIOUS
  <2>6. odd(1)
    OBVIOUS
  <2> HIDE DEF odd
  <2>7. \A n \in Nat : (h <=> odd(n + here)) <=> (deqHeader'[x] <=> odd(n))
    <3>1. CASE here = 0
      <4>1. \A n \in Nat : n + here = n
        BY <3>1
      <4>2. deqHeader'[x] = h
        BY <2>1, <2>2, <3>1
      <4>3. QED
        BY <4>1, <4>2
    <3>2. CASE here = 1
      <4>1. \A n \in Nat : n + here = n + 1
        BY <3>2
      <4>2. deqHeader'[x] <=> ~h
        BY <2>1, <2>2, <3>2
      <4>3. QED
        BY <2>5, <4>1, <4>2
    <3>3. QED
      BY <2>2, <3>1, <3>2
  <2>8. /\ rest \in Seq(Chunks) /\ Len(rest) = Len(t) - taken /\ Len(rest) \in Nat
        /\ \A n \in 1..Len(rest) : rest[n] = t[n + taken] /\ n + taken \in 1..Len(t)
    <3>1. CASE idx = fc
      <4>1. /\ Tail(t) \in Seq(Chunks) /\ Len(Tail(t)) = Len(t) - 1 /\ Len(t) # 0
            /\ \A n \in 1..Len(Tail(t)) : Tail(t)[n] = t[n + 1]
        BY <2>3, <2>4, <3>1, HeadTailProperties, EmptySeq
      <4>2. QED
        BY <2>3, <3>1, <4>1
    <3>2. CASE idx # fc
      BY <2>3, <3>2
    <3>3. QED
      BY <3>1, <3>2
  <2>9. /\ next \in Seq(Chunks) /\ Len(next) = Len(rest) + came
        /\ \A n \in 1..Len(rest) : next[n] = rest[n]
        /\ came = 1 => next[Len(rest) + 1] = Arrived(x)
    <3> HIDE DEF rest, next
    <3>1. CASE Receiving(x) /\ Target(x) = fc
      <4>1. slot \in Chunks /\ slot = Arrived(x) /\ slot # None /\ came = 1
        <5>1. Arrived(x) \in Chunks
          BY <3>1, ReceiverContinues
        <5>2. QED
          BY <3>1, <5>1, SwitchAssumption
      <4> HIDE DEF slot, came
      <4>2. rest \o <<slot>> = Append(rest, slot)
        BY <2>8, <4>1, ConcatOne
      <4>3. next = Append(rest, slot)
        BY <2>4, <4>1, <4>2 DEF AsSeq
      <4>4. QED
        BY <2>8, <4>1, <4>3, AppendProperties
    <3>2. CASE ~(Receiving(x) /\ Target(x) = fc)
      <4>1. slot = None /\ came = 0
        BY <3>2
      <4> HIDE DEF slot, came
      <4>2. next = rest
        BY <2>4, <2>8, <4>1, ConcatOne DEF AsSeq
      <4>3. QED
        BY <2>8, <4>1, <4>2
    <3>3. QED
      BY <3>1, <3>2
  <2>10. AtHand(x)' = taken /\ taken \in 0..1
    <3>1. idx = fc => Head(t) \in Chunks
      BY <2>3, <2>4, HeadTailProperties
    <3>2. idx = fc => portRead'[x] # None
      BY <2>4, <3>1, SwitchAssumption
    <3>3. QED
      BY <2>4, <3>2 DEF AtHand
  <2>11. portRead'[x] # None => portRead'[x].kind = Kind(deqHeader'[x])
    <3>1. SUFFICES ASSUME portRead'[x] # None
                   PROVE  portRead'[x].kind = Kind(deqHeader'[x])
      OBVIOUS
    <3>2. idx = fc /\ portRead'[x] = Head(t) /\ t # <<>>
      BY <2>4, <3>1
    <3>3. Head(t) = t[1] /\ 1 \in 1..Len(t)
      BY <2>3, <3>2, HeadTailProperties, EmptySeq
    <3>4. (h <=> odd(1 + here)) <=> deqHeader'[x]
      BY <2>1, <2>6, <2>7
    <3>5. t[1].kind = Kind(h <=> odd(1 + here))
      BY <2>3, <3>3
    <3>6. QED
      BY <3>2, <3>3, <3>4, <3>5 DEF Kind
  <2>12. Len(next) + taken = Len(t) + came /\ came \in 0..1
    <3>1. came \in 0..1
      OBVIOUS
    <3> HIDE DEF came, taken, rest, next
    <3>2. QED
      BY <2>3, <2>8, <2>9, <2>10, <3>1
  <2>13. Inside(x)' <=> (deqHeader'[x] <=> odd(Len(next) + taken))
    <3>1. Inside(x) <=> (deqHeader'[x] <=> odd(Len(t)))
      BY <2>3, <2>7
    <3>2. CASE Receiving(x) /\ Target(x) = fc
      <4>1. Inside(x)' <=> ~Inside(x)
        BY <3>2, InsideMoves
      <4>2. Len(next) + taken = Len(t) + 1
        BY <2>12, <3>2
      <4>3. QED
        BY <2>1, <2>3, <2>5, <3>1, <4>1, <4>2
    <3>3. CASE ~(Receiving(x) /\ Target(x) = fc)
      <4>1. Inside(x)' <=> Inside(x)
        BY <3>3, InsideMoves
      <4>2. Len(next) + taken = Len(t)
        <5>1. came = 0
          BY <3>3
        <5> HIDE DEF came, taken, next
        <5>2. QED
          BY <2>3, <2>12, <5>1
      <4>3. QED
        BY <3>1, <4>1, <4>2
    <3>4. QED
      BY <3>2, <3>3
  <2>14. ASSUME NEW n \in 1..Len(next)
         PROVE  next[n].kind = Kind(deqHeader'[x] <=> odd(n + taken))
    <3>1. CASE n \in 1..Len(rest)
      <4>1. next[n] = t[n + taken] /\ n + taken \in 1..Len(t) /\ n + taken \in Nat
        BY <2>3, <2>8, <2>9, <2>10, <3>1
      <4> DEFINE k == n + taken
      <4> HIDE DEF k
      <4>2. t[k].kind = Kind(h <=> odd(k + here))
        BY <2>3, <4>1 DEF k
      <4>3. (h <=> odd(k + here)) <=> (deqHeader'[x] <=> odd(k))
        BY <2>7, <4>1 DEF k
      <4>4. next[n].kind = Kind(deqHeader'[x] <=> odd(k))
        BY <4>1, <4>2, <4>3 DEF Kind, k
      <4>5. QED
        BY <4>4 DEF k
    <3>2. CASE n \notin 1..Len(rest)
      <4>1. n = Len(rest) + 1 /\ came = 1
        <5> HIDE DEF came, rest, next
        <5>1. QED
          BY <2>8, <2>9, <2>12, <2>14, <3>2
      <4>2. n + taken = Len(t) + 1 /\ Receiving(x) /\ Target(x) = fc
        BY <2>3, <2>8, <2>10, <4>1
      <4>3. next[n] = Arrived(x) /\ Arrived(x).kind = Kind(~Inside(x))
        BY <2>9, <4>1, <4>2, InsideMoves
      <4>4. Inside(x) <=> (deqHeader'[x] <=> odd(Len(t)))
        BY <2>3, <2>7
      <4>5. odd(n + taken) <=> ~odd(Len(t))
        BY <2>3, <2>5, <4>2
      <4> HIDE DEF taken, odd
      <4>6. ~Inside(x) <=> (deqHeader'[x] <=> odd(n + taken))
        BY <4>4, <4>5
      <4>7. QED
        BY <4>3, <4>6 DEF Kind
    <3>3. QED
      BY <3>1, <3>2
  <2>15. rxActiveQueue'[x] = fc => rxChunksRemaining'[x] <= 1
    BY InsideMoves
  <2> HIDE DEF taken
  <2>16. QED
    BY <1>3, <2>10, <2>11, <2>13, <2>14, <2>15 DEF Alternates, odd
<1>4. QED
  BY <1>1, <1>2, <1>3

\* A tick keeps the invariant.
LEMMA TickInv ==
  ASSUME IInv, PacketsFit, NEW x \in Side, NEW winner, NEW s, NEW idx,
         Ticks(x, winner, s, idx)
  PROVE  IInv'
<1>1. TypeOK' /\ Domains'
  BY TypesStay, DomainsStay
<1>2. PacketsAreWhole'
  BY PacketsStayWhole
<1>3. ASSUME NEW z \in Side PROVE Contents(z)' /\ Accounted(z)'
  BY ContentsStay, AccountsStay
<1>4. ASSUME NEW z \in Side PROVE Alternates(z)' /\ Affords(z)'
  BY TurnsStay, AffordsStay
<1>5. QED
  BY <1>1, <1>2, <1>3, <1>4 DEF IInv

\* Everything but the requests that wait.
Inner == <<wire, headerFIFO, bodyFIFO, portRead, portCredits, bufferAvailable,
           requestChunksRemaining, requestActiveQueue, deqHeader, newMsgQIdx, buffer, free,
           rxChunksRemaining, rxActiveQueue, idxRR, sendSize, lastRead>>

\* What a channel owns does not depend on the requests that wait.
LEMMA InnerCounts ==
  ASSUME UNCHANGED Inner, NEW x, NEW q
  PROVE  /\ portCredits'[x][q] = portCredits[x][q] /\ InFlight(x, q)' = InFlight(x, q)
         /\ Stored(x, q)' = Stored(x, q) /\ free'[Peer(x)][q] = free[Peer(x)][q]
         /\ Returning(x, q)' = Returning(x, q) /\ Sum(x, q)' = Sum(x, q)
<1> USE DEF Inner
<1>1. InFlight(x, q)' = InFlight(x, q)
  BY DEF InFlight
<1>2. Stored(x, q)' = Stored(x, q)
  BY DEF Stored
<1>3. Returning(x, q)' = Returning(x, q)
  BY DEF Returning
<1>4. QED
  BY <1>1, <1>2, <1>3 DEF Sum

\* Nor does the invariant.
LEMMA InnerInv ==
  ASSUME IInv, UNCHANGED Inner, DOMAIN request' = Side,
         \A x \in Side : request'[x] \in [DataQueues(x) -> 0..MaxChunks \cup {None}]
  PROVE  IInv'
<1>1. TypeOK'
  <2>1. EgressTypeOK'
    BY DEF IInv, TypeOK, EgressTypeOK, Inner
  <2>2. IngressTypeOK'
    BY DEF IInv, TypeOK, IngressTypeOK, Inner
  <2>3. QED
    BY <2>1, <2>2 DEF IInv, TypeOK, Inner
<1>2. Domains'
  BY DEF IInv, Domains, Inner
<1>3. PacketsAreWhole'
  <2>1. \A x \in Side : Sending(x)' = Sending(x) /\ Receives(x)' = Receives(x)
    BY DEF Sending, Receives, Inner
  <2>2. \A x \in Side : wire'[x] = wire[x]
    BY DEF Inner
  <2>3. QED
    BY <2>1, <2>2 DEF IInv, PacketsAreWhole
<1>4. ASSUME NEW x \in Side
      PROVE  Contents(x)' /\ Alternates(x)' /\ Accounted(x)' /\ Affords(x)'
  <2>1. Contents(x)'
    <3>1. UNCHANGED <<bodyFIFO, sendSize, portRead, buffer>>
      BY DEF Inner
    <3>2. Contents(x)' <=> Contents(x)
      BY <3>1 DEF Contents
    <3>3. QED
      BY <3>2 DEF IInv
  <2>2. Alternates(x)'
    <3>1. UNCHANGED <<rxActiveQueue, rxChunksRemaining, portRead, deqHeader, buffer>>
      BY DEF Inner
    <3>2. Alternates(x)' <=> Alternates(x)
      BY <3>1 DEF Alternates, AtHand, Inside
    <3>3. QED
      BY <3>2 DEF IInv
  <2>3. Accounted(x)'
    BY InnerCounts DEF IInv, Accounted
  <2>4. Affords(x)'
    BY DEF IInv, Affords, Inner
  <2>5. QED
    BY <2>1, <2>2, <2>3, <2>4
<1>5. QED
  BY <1>1, <1>2, <1>3, <1>4 DEF IInv

\* A new request changes nothing else.
LEMMA OfferIsInner ==
  ASSUME IInv, NEW x \in Side, Offer(x)
  PROVE  /\ UNCHANGED Inner /\ finish' = finish /\ DOMAIN request' = Side
         /\ \A z \in Side : request'[z] \in [DataQueues(z) -> 0..MaxChunks \cup {None}]
<1>1. PICK q \in DataQueues(x), k \in 0..MaxChunks : NewRequest(x, q, k)
  BY DEF Offer
<1>2. UNCHANGED Inner /\ finish' = finish
  BY <1>1 DEF Offer, NewRequest, Inner, sharedVars, ingressVars
<1>3. /\ DOMAIN request = Side
      /\ \A z \in Side : request[z] \in [DataQueues(z) -> 0..MaxChunks \cup {None}]
  BY DEF IInv, TypeOK, EgressTypeOK
<1>4. request' = [request EXCEPT ![x][q] = k]
  BY <1>1 DEF NewRequest
<1>5. QED
  BY <1>2, <1>3, <1>4

\* Every step keeps the invariant.
LEMMA NextInv ==
  ASSUME IInv, PacketsFit, [Next]_vars PROVE IInv'
<1>1. CASE \E x \in Side : Tick(x)
  BY <1>1, TickIsCycle, TickInv
<1>2. CASE \E x \in Side : Offer(x)
  BY <1>2, OfferIsInner, InnerInv
<1>3. CASE UNCHANGED vars
  <2>1. UNCHANGED Inner /\ request' = request
    BY <1>3 DEF vars, sharedVars, egressVars, ingressVars, Inner
  <2>2. QED
    BY <2>1, InnerInv DEF IInv, TypeOK, EgressTypeOK
<1>4. QED
  BY <1>1, <1>2, <1>3 DEF Next

\* The invariant holds throughout.
THEOREM InvCorrect == PacketsFit => (Spec => []IInv)
<1> SUFFICES ASSUME PacketsFit PROVE Spec => []IInv
  OBVIOUS
<1>1. Init => IInv
  BY InitInv
<1>2. IInv /\ [Next]_vars => IInv'
  BY NextInv
<1>3. QED
  BY <1>1, <1>2, PTL DEF Spec

-----------------------------------------------------------------------------
(* What the invariant says of the properties.                              *)

\* No credit is created or lost, no buffer overruns, and the arbiter's bit is never
\* ahead of the credits.
LEMMA InvBuffers ==
  ASSUME IInv PROVE BuffersAreSound
<1>1. CreditConservation
  BY DEF IInv, Accounted, Sum, CreditConservation
<1>2. BufferNeverOverflows
  <2>1. SUFFICES ASSUME NEW x \in Side, NEW q \in DataQueues(x)
                 PROVE  Stored(x, q) + InFlight(x, q) <= FifoSize
    BY DEF BufferNeverOverflows
  <2>2. q \in Queues(x) /\ CreditMod \in Nat /\ FifoSize \in Nat
    BY QueueNumbers, Sizes
  <2>3. portCredits[x][q] + InFlight(x, q) + Stored(x, q) + free[Peer(x)][q]
          + Returning(x, q) = FifoSize
    BY DEF IInv, Accounted, Sum
  <2>4. /\ portCredits[x][q] \in 0..(CreditMod - 1) /\ InFlight(x, q) \in Nat
        /\ Stored(x, q) \in Nat /\ free[Peer(x)][q] \in 0..(CreditMod - 1)
        /\ Returning(x, q) \in Nat
    BY <2>2, SumTypes
  <2>5. QED
    BY <2>2, <2>3, <2>4
<1>3. BufferAvailableIsSound
  BY DEF IInv, Affords, BufferAvailableIsSound
<1>4. QED
  BY <1>1, <1>2, <1>3 DEF IInv, BuffersAreSound

\* Headers are taken for headers and bodies for bodies.
LEMMA InvStreams ==
  ASSUME IInv PROVE StreamsAreFramed
<1>1. ChunksReachTheirQueue
  <2>1. SUFFICES ASSUME NEW x \in Side, NEW q \in Queues(x), NEW n \in 1..Stored(x, q)
                 PROVE  Carrier(x, buffer[Peer(x)][q][n]) = q
    BY DEF ChunksReachTheirQueue
  <2> DEFINE y == Peer(x)
             t == buffer[y][q]
  <2>2. y \in Side /\ Peer(y) = x /\ RxFc(y) = Fc(x) /\ n \in 1..Len(t)
    BY Peers DEF RxFc, Stored
  <2>3. CASE q = Fc(x)
    <3>1. t \in Seq(FcChunks(y))
      BY <2>2, <2>3 DEF IInv, Contents
    <3>2. t[n] \in FcChunks(y)
      BY <2>2, <3>1, ElementOfSeq
    <3>3. t[n] = Header(Fc(x), 1) \/ t[n].kind = "credit"
      BY <2>2, <3>2 DEF FcChunks, BatchesFor
    <3>4. QED
      BY <2>3, <3>3 DEF Carrier, Header
  <2>4. CASE q # Fc(x)
    <3>1. t \in Seq({DataChunk(q)})
      BY <2>2, <2>4, QueueNumbers DEF IInv, Contents
    <3>2. t[n] = DataChunk(q)
      BY <2>2, <3>1, ElementOfSeq
    <3>3. QED
      BY <3>2 DEF Carrier, DataChunk
  <2>5. QED
    BY <2>3, <2>4
<1>2. FcFraming
  <2>1. SUFFICES ASSUME NEW x \in Side, NEW n \in 1..Len(AtPort(x))
                 PROVE  AtPort(x)[n].kind =
                          IF deqHeader[x] = (n % 2 = 1) THEN "header" ELSE "credit"
    BY DEF FcFraming
  <2> DEFINE t == buffer[x][RxFc(x)]
             first == portRead[x]
  <2>2. /\ deqHeader[x] \in BOOLEAN /\ RxFc(x) \in RxQueues(x)
    BY Peers, QueueNumbers DEF IInv, TypeOK, EgressTypeOK, RxFc, RxQueues
  <2>3. t \in Seq(Chunks) /\ Len(t) \in Nat /\ first \in Chunks \cup {None}
    BY <2>2, SideTypes
  <2>4. /\ first # None => first.kind = Kind(deqHeader[x])
        /\ \A k \in 1..Len(t) : t[k].kind = Kind(deqHeader[x] <=> (k + AtHand(x)) % 2 = 1)
    BY DEF IInv, Alternates
  <2>5. AtPort(x) = AsSeq(first) \o t
    BY DEF AtPort
  <2> HIDE DEF t, first
  <2>6. CASE first = None
    <3>1. AsSeq(first) \o t = t
      BY <2>3, <2>6, ConcatEmptySeq DEF AsSeq
    <3>2. AtPort(x) = t /\ n \in 1..Len(t) /\ AtHand(x) = 0
      BY <2>5, <2>6, <3>1 DEF AtHand, first
    <3>3. t[n].kind = Kind(deqHeader[x] <=> n % 2 = 1)
      <4>1. n + 0 = n
        BY <2>3, <3>2
      <4>2. QED
        BY <2>4, <3>2, <4>1
    <3>4. QED
      BY <2>2, <3>2, <3>3 DEF Kind
  <2>7. CASE first # None
    <3>1. /\ <<first>> \in Seq(Chunks) /\ Len(<<first>>) = 1 /\ <<first>>[1] = first
      BY <2>3, <2>7
    <3>2. /\ AsSeq(first) = <<first>> /\ AtHand(x) = 1
      BY <2>7 DEF AsSeq, AtHand, first
    <3>3. /\ Len(<<first>> \o t) = 1 + Len(t)
          /\ \A k \in 1..(1 + Len(t)) :
               (<<first>> \o t)[k] = IF k <= 1 THEN <<first>>[k] ELSE t[k - 1]
      BY <2>3, <3>1, ConcatProperties
    <3>4. n \in 1..(1 + Len(t)) /\ AtPort(x)[n] = IF n <= 1 THEN <<first>>[n] ELSE t[n - 1]
      BY <2>5, <3>2, <3>3
    <3>5. CASE n = 1
      <4>1. AtPort(x)[n] = first /\ 1 % 2 = 1
        BY <3>1, <3>4, <3>5
      <4>2. QED
        BY <2>2, <2>4, <2>7, <3>5, <4>1 DEF Kind
    <3>6. CASE n # 1
      <4>1. AtPort(x)[n] = t[n - 1] /\ n - 1 \in 1..Len(t) /\ (n - 1) + 1 = n
        BY <2>3, <3>4, <3>6
      <4>2. t[n - 1].kind = Kind(deqHeader[x] <=> n % 2 = 1)
        BY <2>4, <3>2, <4>1
      <4>3. QED
        BY <2>2, <4>1, <4>2 DEF Kind
    <3>7. QED
      BY <3>5, <3>6
  <2>8. QED
    BY <2>6, <2>7
<1>3. QED
  BY <1>1, <1>2 DEF IInv, StreamsAreFramed

\* The flow control of the two switches is sound: one value of its type in every
\* register, every credit in one place, a slot for every chunk that is on its way, and
\* enough credits behind every bit the arbiter trusts.
THEOREM BuffersAreSoundCorrect == PacketsFit => (Spec => []BuffersAreSound)
<1>1. IInv => BuffersAreSound
  BY InvBuffers
<1>2. QED
  BY <1>1, InvCorrect, PTL

\* Headers and bodies are taken for what they are, on the wire, in the buffers and at
\* the flow control port.
THEOREM StreamsAreFramedCorrect == PacketsFit => (Spec => []StreamsAreFramed)
<1>1. IInv => StreamsAreFramed
  BY InvStreams
<1>2. QED
  BY <1>1, InvCorrect, PTL

-----------------------------------------------------------------------------
(* The switches implement the credit protocol.                             *)

\* A channel is a data queue of a side.
LEMMA ChannelFacts ==
  ASSUME NEW c \in Channels
  PROVE  /\ c[1] \in Side /\ c[2] \in DataQueues(c[1]) /\ c[2] \in Queues(c[1])
         /\ Peer(c[1]) \in Side
<1>1. PICK x \in Side : c \in {<<x, q>> : q \in DataQueues(x)}
  BY DEF Channels
<1>2. PICK q \in DataQueues(x) : c = <<x, q>>
  BY <1>1
<1>3. QED
  BY <1>2, QueueNumbers, Peers

\* A channel starts with all its credits at the sender.
LEMMA InitChannel ==
  ASSUME Init, NEW c \in Channels PROVE Credits(c)!Init
<1> DEFINE x == c[1]
           q == c[2]
           y == Peer(x)
<1>1. /\ x \in Side /\ q \in DataQueues(x) /\ q \in Queues(x) /\ y \in Side
      /\ RxFc(x) \in RxQueues(x) /\ q \in RxQueues(y)
  BY ChannelFacts, Peers, QueueNumbers DEF RxFc, RxQueues
<1>2. /\ portCredits[x][q] = FifoSize /\ wire[x] = <<>> /\ requestChunksRemaining[x] = 0
      /\ buffer[y][q] = <<>> /\ free[y][q] = 0
      /\ portRead[x] = None /\ buffer[x][RxFc(x)] = <<>> /\ wire[y] = <<>>
      /\ bodyFIFO[y] = <<>> /\ sendSize[y] = None
  BY <1>1 DEF Init, SharedInit, EgressInit, IngressInit
<1>3. InFlight(x, q) = 0
  <2>1. Carried(x, wire[x], q) = {}
    BY <1>2 DEF Carried
  <2>2. Cardinality(Carried(x, wire[x], q)) = 0
    BY <2>1, FS_EmptySet
  <2>3. QED
    BY <1>2, <2>2 DEF InFlight
<1>4. Returning(x, q) = 0
  BY <1>2, CreditsOfEmpty DEF Returning, AsSeq
<1>5. Stored(x, q) = 0
  BY <1>2 DEF Stored
<1>6. QED
  BY <1>2, <1>3, <1>4, <1>5 DEF Credits!Init

\* A tick of the sender's side pays for a packet or adds credits.
LEMMA TickOfSender ==
  ASSUME IInv, PacketsFit, NEW x \in Side, NEW winner, NEW s, NEW idx,
         Ticks(x, winner, s, idx), NEW c \in Channels, c[1] = x
  PROVE  Credits(c)!Next
<1> DEFINE q == c[2]
           k == Paid(x, s, q)
           refill == Refilled(x, q)
           events == IF refill = 0 THEN {} ELSE {"refill"}
<1>1. q \in DataQueues(x) /\ q \in Queues(x)
  BY ChannelFacts
<1>2. /\ portCredits[x][q] \in Nat /\ InFlight(x, q) \in Nat /\ Stored(x, q) \in Nat
      /\ free[Peer(x)][q] \in Nat /\ Returning(x, q) \in Nat
  BY <1>1, SumTypes, Sizes
<1>3. k \in 0..(MaxChunks + 1) /\ k <= portCredits[x][q] /\ (refill # 0 => k = 0)
      /\ refill \in Nat
  BY <1>1, PaidFacts, RefillFacts, Sizes
<1>4. /\ portCredits'[x][q] = portCredits[x][q] - k + refill
      /\ InFlight(x, q)' = InFlight(x, q) + k
      /\ Stored(x, q)' = Stored(x, q)
      /\ free'[Peer(x)][q] = free[Peer(x)][q]
      /\ Returning(x, q)' = Returning(x, q) - refill
      /\ refill # 0 => refill = Returning(x, q)
  BY <1>1, SenderAccounts, InFlightOfSender, ReturningOfSender
<1> HIDE DEF k, refill, q
<1>5. PICK spent, happens : spent = k /\ happens = events
  OBVIOUS
<1>6. Credits(c)!Step(spent, 0, happens)
  <2>1. Credits(c)!May(spent, 0, happens)
    BY <1>2, <1>3, <1>4, <1>5 DEF q, Credits!May, Credits!MaySend, Credits!MayReturn
  <2>2. QED
    BY <1>2, <1>3, <1>4, <1>5, <2>1 DEF q, Credits!Step, Credits!Free, Credits!On
<1>7. /\ spent \in Credits(c)!Amounts /\ 0 \in Credits(c)!Amounts
      /\ happens \in SUBSET Credits(c)!Events
  BY <1>3, <1>5, Sizes DEF Credits!Amounts, Credits!Events
<1>8. QED
  BY <1>6, <1>7 DEF Credits!Next

\* A tick of the receiver's side stores a chunk, takes one out, hands slots back, or
\* does some of these at once.
LEMMA TickOfReceiver ==
  ASSUME IInv, PacketsFit, NEW x \in Side, NEW winner, NEW s, NEW idx,
         Ticks(x, winner, s, idx), NEW c \in Channels, c[1] = Peer(x)
  PROVE  Credits(c)!Next
<1> DEFINE y == Peer(x)
           q == c[2]
           came == Came(x, q)
           n == Taken(idx, q)
           given == Given(x, q)
           events == (IF came = 0 THEN {} ELSE {"deliver"})
                     \cup (IF given = 0 THEN {} ELSE {"return"})
<1>1. y \in Side /\ Peer(y) = x /\ q \in DataQueues(y) /\ q \in Queues(y)
  BY ChannelFacts, Peers
<1>2. /\ portCredits[y][q] \in Nat /\ InFlight(y, q) \in Nat /\ Stored(y, q) \in Nat
      /\ free[x][q] \in Nat /\ Returning(y, q) \in Nat
  <2>1. /\ portCredits[y][q] \in 0..(CreditMod - 1) /\ InFlight(y, q) \in Nat
        /\ Stored(y, q) \in Nat /\ free[Peer(y)][q] \in 0..(CreditMod - 1)
        /\ Returning(y, q) \in Nat
    BY <1>1, SumTypes
  <2>2. QED
    BY <1>1, <2>1, Sizes
<1>3. /\ came \in 0..1 /\ came <= InFlight(y, q)
      /\ n \in 0..1 /\ n <= Stored(y, q)
      /\ given \in Nat /\ (given # 0 => given = free[x][q] /\ free[x][q] > ReturnThreshold)
  <2>1. came \in 0..1
    BY DEF Came
  <2>2. n \in 0..1 /\ given \in 0..free[x][q]
        /\ (given # 0 => given = free[x][q] /\ free[x][q] > ReturnThreshold)
    BY <1>1, GivenFacts
  <2>3. came <= InFlight(y, q) /\ n <= Stored(y, q)
    BY <1>1, InFlightOfReceiver, ReceiverAccounts
  <2>4. QED
    BY <1>2, <2>1, <2>2, <2>3
<1>4. /\ portCredits'[y][q] = portCredits[y][q]
      /\ InFlight(y, q)' = InFlight(y, q) - came
      /\ Stored(y, q)' = Stored(y, q) + came - n
      /\ free'[x][q] = free[x][q] - given + n
      /\ Returning(y, q)' = Returning(y, q) + given
  BY <1>1, ReceiverAccounts, InFlightOfReceiver, ReturningOfReceiver
<1> HIDE DEF came, n, given, q, y
<1>5. PICK taken, happens : taken = n /\ happens = events
  OBVIOUS
<1>6. Credits(c)!Step(0, taken, happens)
  <2>1. c[1] = y /\ c[2] = q /\ Peer(y) = x
    BY <1>1 DEF y, q
  <2>2. /\ "deliver" \in happens <=> came # 0
        /\ "return" \in happens <=> given # 0
        /\ "refill" \notin happens
    BY <1>5
  <2>3. Credits(c)!May(0, taken, happens)
    BY <1>2, <1>3, <1>5, <2>1, <2>2, Sizes DEF Credits!May, Credits!MaySend, Credits!MayReturn
  <2>4. came = (IF "deliver" \in happens THEN 1 ELSE 0)
        /\ given = (IF "return" \in happens THEN free[x][q] ELSE 0)
    BY <1>3, <2>2
  <2>5. QED
    BY <1>2, <1>3, <1>4, <1>5, <2>1, <2>2, <2>3, <2>4 DEF Credits!Step, Credits!Free, Credits!On
<1>7. /\ taken \in Credits(c)!Amounts /\ 0 \in Credits(c)!Amounts
      /\ happens \in SUBSET Credits(c)!Events
  BY <1>3, <1>5, Sizes DEF Credits!Amounts, Credits!Events
<1>8. QED
  BY <1>6, <1>7 DEF Credits!Next

\* Every step of the switches is a step of the protocol on each channel.
LEMMA ChannelStep ==
  ASSUME IInv, PacketsFit, [Next]_vars, NEW c \in Channels
  PROVE  Credits(c)!Next \/ UNCHANGED Credits(c)!vars
<1>1. c[1] \in Side /\ c[2] \in Queues(c[1])
  BY ChannelFacts
<1>2. ASSUME UNCHANGED Inner PROVE UNCHANGED Credits(c)!vars
  <2>1. /\ portCredits'[c[1]][c[2]] = portCredits[c[1]][c[2]]
        /\ InFlight(c[1], c[2])' = InFlight(c[1], c[2])
        /\ Stored(c[1], c[2])' = Stored(c[1], c[2])
        /\ free'[Peer(c[1])][c[2]] = free[Peer(c[1])][c[2]]
        /\ Returning(c[1], c[2])' = Returning(c[1], c[2])
    BY <1>2, InnerCounts
  <2>2. QED
    BY <2>1 DEF Credits!vars
<1>3. ASSUME NEW x \in Side, Tick(x) PROVE Credits(c)!Next
  <2>1. PICK winner, s, idx : Ticks(x, winner, s, idx)
    BY <1>3, TickIsCycle
  <2>2. c[1] = x \/ c[1] = Peer(x)
    BY <1>1, Peers
  <2>3. CASE c[1] = x
    BY <2>1, <2>3, TickOfSender
  <2>4. CASE c[1] = Peer(x)
    BY <2>1, <2>4, TickOfReceiver
  <2>5. QED
    BY <2>2, <2>3, <2>4
<1>4. ASSUME NEW x \in Side, Offer(x) PROVE UNCHANGED Credits(c)!vars
  BY <1>2, <1>4, OfferIsInner
<1>5. ASSUME UNCHANGED vars PROVE UNCHANGED Credits(c)!vars
  <2>1. UNCHANGED Inner
    BY <1>5 DEF vars, sharedVars, egressVars, ingressVars, Inner
  <2>2. QED
    BY <1>2, <2>1
<1>6. QED
  BY <1>3, <1>4, <1>5 DEF Next

\* The switches implement the credit protocol on every data channel.
THEOREM ImplementsCreditProtocolCorrect ==
  PacketsFit => (Spec => ImplementsCreditProtocol)
<1> SUFFICES ASSUME PacketsFit PROVE Spec => ImplementsCreditProtocol
  OBVIOUS
<1>1. Init => \A c \in Channels : Credits(c)!Init
  BY InitChannel
<1>2. IInv /\ [Next]_vars =>
        [\A c \in Channels : Credits(c)!Next \/ UNCHANGED Credits(c)!vars]_vars
  BY ChannelStep
<1>3. Spec => []IInv
  BY InvCorrect
<1>4. QED
  BY <1>1, <1>2, <1>3, PTL DEF Spec, ImplementsCreditProtocol

-----------------------------------------------------------------------------
(* Only the flow control queue can stop a switch.                          *)

\* A refill of a data queue neither overflows its credits nor leaves them below
\* the largest packet.
LEMMA RefillOfData ==
  ASSUME IInv, PacketsFit, NEW x \in Side, Refilling(x), portRead[x].idx # Fc(x)
  PROVE  CreditsNext(x) <= FifoSize /\ CreditsNext(x) >= MaximumPacketSize(x)
<1> DEFINE q == portRead[x].idx
           amnt == portRead[x].amnt
           room == MaximumPacketSize(x)
<1>1. q \in Queues(x) /\ q \in DataQueues(x)
  BY RefillFacts, QueueNumbers
<1>2. amnt = Refilled(x, q) /\ amnt \in Nat /\ amnt > ReturnThreshold
  <2>1. portRead[x] \in BatchesFor(x)
    BY RefillFacts
  <2>2. amnt \in (ReturnThreshold + 1)..(CreditMod - 1)
    BY <2>1, BatchFacts
  <2>3. QED
    BY <2>2, Sizes DEF Refilled
<1>3. PICK rest \in Nat : Returning(x, q) = Refilled(x, q) + rest
  BY <1>1, ReturningInBatches
<1>4. portCredits[x][q] + InFlight(x, q) + Stored(x, q) + free[Peer(x)][q]
        + Returning(x, q) = FifoSize
  BY <1>1 DEF IInv, Accounted, Sum
<1>5. /\ portCredits[x][q] \in 0..(CreditMod - 1) /\ InFlight(x, q) \in Nat
      /\ Stored(x, q) \in Nat /\ free[Peer(x)][q] \in 0..(CreditMod - 1)
  BY <1>1, SumTypes
<1>6. room <= ReturnThreshold /\ room \in Nat
  BY LargestPacket DEF PacketsFit
<1>7. CreditsNext(x) = (amnt + portCredits[x][q]) % CreditMod
  BY DEF CreditsNext
<1> HIDE DEF q, amnt, room
<1>8. amnt + portCredits[x][q] <= FifoSize /\ amnt + portCredits[x][q] \in Nat
  BY <1>2, <1>3, <1>4, <1>5, Sizes
<1>9. amnt + portCredits[x][q] \in 0..(CreditMod - 1)
  BY <1>8, Sizes
<1>10. (amnt + portCredits[x][q]) % CreditMod = amnt + portCredits[x][q]
  BY <1>9, Sizes, ModBelow
<1>11. room <= amnt + portCredits[x][q]
  BY <1>2, <1>5, <1>6, Sizes
<1>12. QED
  BY <1>7, <1>8, <1>10, <1>11 DEF room

\* The header at the end of the wire names a queue of the sender.
LEMMA ServicesExist ==
  ASSUME IInv, NEW x \in Side, NEW winner, NEW s, NEW idx, Ticks(x, winner, s, idx)
  PROVE  IngressFinish(x) = {}
<1> DEFINE y == Peer(x)
<1>1. y \in Side /\ Peer(y) = x
  BY Peers
<1>2. ASSUME Receiving(x), rxChunksRemaining[x] = 0
      PROVE  ~(Arrived(x).idx > Cardinality(RxQueues(x)))
  <2>1. /\ Reads(y, Receives(y), Arrived(x), Receives(y)')
        /\ Receives(y) \in Readers(y) /\ Receives(y)' \in Readers(y)
        /\ Arrived(x) \in Chunks
    BY <1>1, <1>2, ReceiverContinues, SideTypes
  <2>2. Receives(y).left = 0
    BY <1>1, <1>2 DEF Receives
  <2>3. /\ Receives(y)'.queue \in Queues(y)
        /\ Receives(y)'.queue = Arrived(x).idx
    BY <1>1, <2>1, <2>2, ReadsFacts
  <2>4. RxQueues(x) = 0..NumData[y] /\ NumData[y] \in Nat
    BY <1>1, QueueNumbers DEF RxQueues
  <2>5. Cardinality(0..NumData[y]) = NumData[y] + 1
    BY <2>4, FS_Interval
  <2>6. Arrived(x).idx \in 0..NumData[y]
    BY <1>1, <2>3, QueueNumbers
  <2>7. QED
    BY <2>4, <2>5, <2>6
<1>3. QED
  BY <1>2 DEF IngressFinish

\* What a data queue starts it can pay.
LEMMA PaysHeader ==
  ASSUME IInv, PacketsFit, NEW x \in Side, NEW winner, NEW s, NEW idx,
         Ticks(x, winner, s, idx), s # None, s # Fc(x)
  PROVE  ~(portCredits[x][s] < PacketCost(FirstHeader(x, s)))
<1>1. Starts(x, s) /\ s \in Queues(x)
  BY DEF Ticks, Starts
<1>2. /\ FirstHeader(x, s).amnt + 1 <= portCredits[x][s]
      /\ PacketCost(FirstHeader(x, s)) = FirstHeader(x, s).amnt + 1
      /\ FirstHeader(x, s).amnt + 1 \in 1..(CreditMod - 1)
  BY <1>1, StartedHeader
<1>3. portCredits[x][s] \in Nat
  BY <1>1, SumTypes, Sizes
<1>4. QED
  BY <1>2, <1>3, Sizes

\* Only a refill of the flow control queue can stop a switch.
LEMMA NextStops ==
  ASSUME IInv, PacketsFit, [Next]_vars PROVE OnlyFlowControlStops
<1>1. ASSUME NEW x \in Side, Tick(x), ~(Refilling(x) /\ portRead[x].idx = Fc(x))
      PROVE  finish' = finish
  <2>1. PICK winner, s, idx : Ticks(x, winner, s, idx)
    BY <1>1, TickIsCycle
  <2>2. finish' = finish \cup EgressFinish(x, s) \cup IngressFinish(x)
    BY <2>1 DEF Ticks, CycleOf, SharedCycle
  <2>3. IngressFinish(x) = {}
    BY <2>1, ServicesExist
  <2>4. s # None /\ ~BypassFlowcontrol(x, s) =>
          ~(portCredits[x][s] < PacketCost(FirstHeader(x, s)))
    BY <2>1, PaysHeader DEF BypassFlowcontrol
  <2>5. Refilling(x) => /\ ~(CreditsNext(x) > FifoSize)
                        /\ ~(CreditsNext(x) < MaximumPacketSize(x))
    <3>1. SUFFICES ASSUME Refilling(x)
                   PROVE  /\ ~(CreditsNext(x) > FifoSize)
                          /\ ~(CreditsNext(x) < MaximumPacketSize(x))
      OBVIOUS
    <3>2. CreditsNext(x) <= FifoSize /\ CreditsNext(x) >= MaximumPacketSize(x)
      BY <1>1, <3>1, RefillOfData
    <3>3. MaximumPacketSize(x) \in Nat /\ FifoSize \in Nat
      BY LargestPacket, Sizes
    <3>4. portRead[x].amnt \in Nat /\ portCredits[x][portRead[x].idx] \in Nat
      BY <3>1, RefillFacts, BatchFacts, SumTypes, AmountType, Sizes
    <3>5. CreditsNext(x) \in Nat
      BY <3>4, Sizes DEF CreditsNext
    <3> DEFINE next == CreditsNext(x)
               room == MaximumPacketSize(x)
    <3> HIDE DEF next, room
    <3>6. ~(next > FifoSize) /\ ~(next < room)
      BY <3>2, <3>3, <3>5 DEF next, room
    <3>7. QED
      BY <3>6 DEF next, room
  <2>6. EgressFinish(x, s) = {}
    BY <2>4, <2>5 DEF EgressFinish
  <2>7. QED
    BY <2>2, <2>3, <2>6
<1>2. ASSUME NEW x \in Side, Offer(x) PROVE finish' = finish
  BY <1>2, OfferIsInner
<1>3. ASSUME UNCHANGED vars PROVE finish' = finish
  BY <1>3 DEF vars, sharedVars
<1>4. QED
  BY <1>1, <1>2, <1>3 DEF Next, OnlyFlowControlStops

\* The switches keep the credit protocol, and no step overruns a buffer, leaves the
\* arbiter's bit ahead of the credits or stops a switch over a data queue.
THEOREM SwitchesKeepProtocolCorrect == PacketsFit => (Spec => SwitchesKeepProtocol)
<1> SUFFICES ASSUME PacketsFit PROVE Spec => SwitchesKeepProtocol
  OBVIOUS
<1>1. Init => \A c \in Channels : Credits(c)!Init
  BY InitChannel
<1>2. IInv => BufferNeverOverflows /\ BufferAvailableIsSound
  BY InvBuffers DEF BuffersAreSound
<1>3. IInv /\ [Next]_vars => OnlyFlowControlStops
  BY NextStops
<1>4. IInv /\ [Next]_vars =>
        \A c \in Channels : Credits(c)!Next \/ UNCHANGED Credits(c)!vars
  BY ChannelStep
<1>5. Spec => []IInv
  BY InvCorrect
<1>6. QED
  BY <1>1, <1>2, <1>3, <1>4, <1>5, PTL DEF Spec, SwitchesKeepProtocol

=============================================================================
