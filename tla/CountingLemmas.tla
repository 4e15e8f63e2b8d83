--------------------------- MODULE CountingLemmas ---------------------------
(***************************************************************************)
(* What the proofs about registers, counters and queues have in common:    *)
(* sums reduced modulo the width of a register, least elements, the number *)
(* of positions of a queue that hold a value of some kind, and sums.       *)
(***************************************************************************)
EXTENDS Sums, Sequences, FiniteSetTheorems, SequenceTheorems,
        WellFoundedInduction, TLAPS

\* A value below the modulus is its own remainder.
LEMMA ModBelow ==
  ASSUME NEW m \in Nat \ {0}, NEW x \in 0..(m - 1)
  PROVE  x % m = x
OBVIOUS

\* One modulus more leaves the remainder alone.
LEMMA ModAbove ==
  ASSUME NEW m \in Nat \ {0}, NEW x \in 0..(m - 1)
  PROVE  (x + m) % m = x
OBVIOUS

\* A sum of two values below the modulus is reduced at most once.
LEMMA ModOnce ==
  ASSUME NEW m \in Nat \ {0}, NEW x \in 0..(2 * m - 1)
  PROVE  x % m = IF x < m THEN x ELSE x - m
<1>1. CASE x < m
  BY <1>1, ModBelow
<1>2. CASE x >= m
  <2>1. x - m \in 0..(m - 1) /\ x = (x - m) + m
    BY <1>2
  <2>2. QED
    BY <1>2, <2>1, ModAbove
<1>3. QED
  BY <1>1, <1>2

\* A count that leaves its range by less than the modulus comes back into it.
LEMMA ModNear ==
  ASSUME NEW m \in Nat \ {0}, NEW x \in (-m)..(2 * m - 1)
  PROVE  /\ x % m \in 0..(m - 1)
         /\ x % m \in {x, x + m, x - m}
<1>1. CASE x >= 0
  <2>1. x \in 0..(2 * m - 1)
    BY <1>1
  <2>2. x % m = IF x < m THEN x ELSE x - m
    BY <2>1, ModOnce
  <2>3. QED
    BY <2>1, <2>2
<1>2. CASE x < 0
  <2>1. x + m \in 0..(m - 1)
    BY <1>2
  <2>2. x % m = x + m
    BY <2>1
  <2>3. QED
    BY <2>1, <2>2
<1>3. QED
  BY <1>1, <1>2

-----------------------------------------------------------------------------

\* Whole turns of a count do not show.
LEMMA ModOfTurns ==
  ASSUME NEW m \in Nat \ {0}, NEW x \in 0..(m - 1), NEW z \in Int
  PROVE  (x + z * m) % m = x
OBVIOUS

\* A turn more or less does not show.
LEMMA ModTurn ==
  ASSUME NEW m \in Nat \ {0}, NEW x \in Int
  PROVE  (x + m) % m = x % m /\ (x - m) % m = x % m
<1> DEFINE r == x % m
           z == x \div m
<1>1. r \in 0..(m - 1) /\ z \in Int /\ x = r + z * m
  OBVIOUS
<1> HIDE DEF r, z
<1>2. x + m = r + (z + 1) * m /\ x - m = r + (z - 1) * m
  BY <1>1
<1>3. (x + m) % m = r /\ (x - m) % m = r
  BY <1>1, <1>2, ModOfTurns
<1>4. QED
  BY <1>3 DEF r

\* Any number of turns, of any count.
LEMMA ModTurns ==
  ASSUME NEW m \in Nat \ {0}, NEW x \in Int, NEW z \in Int
  PROVE  (x + z * m) % m = x % m
<1> DEFINE r == x % m
           k == x \div m
<1>1. r \in 0..(m - 1) /\ k \in Int /\ x = r + k * m
  OBVIOUS
<1> HIDE DEF r, k
<1>2. x + z * m = r + (k + z) * m /\ k + z \in Int
  BY <1>1
<1>3. (x + z * m) % m = r
  BY <1>1, <1>2, ModOfTurns
<1>4. QED
  BY <1>3 DEF r

\* Reducing a part of a sum does not change what the sum reduces to.
LEMMA ModOfPart ==
  ASSUME NEW m \in Nat \ {0}, NEW y \in Int, NEW x \in Int
  PROVE  y % m \in 0..(m - 1) /\ ((y % m) + x) % m = (y + x) % m
<1> DEFINE r == y % m
           k == y \div m
<1>1. r \in 0..(m - 1) /\ k \in Int /\ y = r + k * m
  OBVIOUS
<1> HIDE DEF r, k
<1>2. y + x = (r + x) + k * m /\ r + x \in Int
  BY <1>1
<1>3. (y + x) % m = (r + x) % m
  <2> DEFINE z == r + x
  <2>1. z \in Int /\ k \in Int
    BY <1>1, <1>2
  <2> HIDE DEF z
  <2>2. (z + k * m) % m = z % m
    BY <2>1, ModTurns
  <2>3. QED
    BY <1>2, <2>2 DEF z
<1>4. QED
  BY <1>1, <1>3 DEF r

\* A non-empty set of naturals has a least element.
LEMMA LeastNat ==
  ASSUME NEW T \in SUBSET Nat, T # {}
  PROVE  \E x \in T : \A y \in T : x <= y
<1>1. \E x \in T : \A y \in T : <<y, x>> \notin OpToRel(<, Nat)
  BY NatLessThanWellFounded, WFMin
<1>2. \A x, y \in Nat : <<y, x>> \notin OpToRel(<, Nat) => x <= y
  BY DEF OpToRel
<1>3. QED
  BY <1>1, <1>2

-----------------------------------------------------------------------------
(* Queues.                                                                 *)

\* The positions of s at which a member of T is.
Places(s, T) == {n \in DOMAIN s : s[n] \in T}

\* There are no more of them than the queue is long.
LEMMA PlacesBounded ==
  ASSUME NEW S, NEW s \in Seq(S), NEW T
  PROVE  /\ IsFiniteSet(Places(s, T))
         /\ Cardinality(Places(s, T)) \in 0..Len(s)
<1>1. DOMAIN s = 1..Len(s) /\ Len(s) \in Nat
  BY LenProperties
<1>2. Places(s, T) \in SUBSET (1..Len(s))
  BY <1>1 DEF Places
<1>3. IsFiniteSet(1..Len(s)) /\ Cardinality(1..Len(s)) = Len(s)
  BY <1>1, FS_Interval
<1>4. /\ IsFiniteSet(Places(s, T))
      /\ Cardinality(Places(s, T)) <= Cardinality(1..Len(s))
  BY <1>2, <1>3, FS_Subset
<1>5. Cardinality(Places(s, T)) \in Nat
  BY <1>4, FS_CardinalityType
<1>6. QED
  BY <1>1, <1>3, <1>4, <1>5

\* The empty queue has none.
LEMMA PlacesOfEmpty ==
  ASSUME NEW T PROVE Cardinality(Places(<<>>, T)) = 0
<1>1. Places(<<>>, T) = {}
  BY DEF Places
<1>2. QED
  BY <1>1, FS_EmptySet

\* A word that is put in counts if it is of the kind.
LEMMA PlacesOfAppend ==
  ASSUME NEW S, NEW s \in Seq(S), NEW c \in S, NEW T
  PROVE  Cardinality(Places(Append(s, c), T)) =
           Cardinality(Places(s, T)) + (IF c \in T THEN 1 ELSE 0)
<1>1. /\ DOMAIN s = 1..Len(s) /\ Len(s) \in Nat
      /\ DOMAIN Append(s, c) = 1..(Len(s) + 1)
      /\ \A n \in 1..Len(s) : Append(s, c)[n] = s[n]
      /\ Append(s, c)[Len(s) + 1] = c
  BY LenProperties, AppendProperties
<1>2. IsFiniteSet(Places(s, T)) /\ Cardinality(Places(s, T)) \in Nat
  BY PlacesBounded
<1>3. CASE c \in T
  <2>1. Places(Append(s, c), T) = Places(s, T) \cup {Len(s) + 1}
    BY <1>1, <1>3 DEF Places
  <2>2. Len(s) + 1 \notin Places(s, T)
    BY <1>1 DEF Places
  <2>3. QED
    BY <1>2, <1>3, <2>1, <2>2, FS_AddElement
<1>4. CASE c \notin T
  <2>1. Places(Append(s, c), T) = Places(s, T)
    BY <1>1, <1>4 DEF Places
  <2>2. QED
    BY <1>2, <1>4, <2>1
<1>5. QED
  BY <1>3, <1>4

\* A word that is taken out counted if it was of the kind.
LEMMA PlacesOfTail ==
  ASSUME NEW S, NEW s \in Seq(S), s # <<>>, NEW T
  PROVE  Cardinality(Places(s, T)) =
           Cardinality(Places(Tail(s), T)) + (IF Head(s) \in T THEN 1 ELSE 0)
<1>1. /\ Head(s) \in S /\ Tail(s) \in Seq(S) /\ Len(Tail(s)) = Len(s) - 1
      /\ \A n \in 1..Len(Tail(s)) : Tail(s)[n] = s[n + 1]
      /\ Len(s) \in Nat \ {0} /\ Head(s) = s[1]
      /\ DOMAIN s = 1..Len(s) /\ DOMAIN Tail(s) = 1..(Len(s) - 1)
  BY HeadTailProperties, LenProperties, EmptySeq
<1> DEFINE rest == {n \in Places(s, T) : n # 1}
           shift == [n \in Places(Tail(s), T) |-> n + 1]
<1>2. shift \in Bijection(Places(Tail(s), T), rest)
  <2>1. \A n \in Places(Tail(s), T) : n \in Nat /\ n + 1 \in rest
    BY <1>1 DEF Places
  <2>2. \A n \in rest : n - 1 \in Places(Tail(s), T) /\ (n - 1) + 1 = n
    BY <1>1 DEF Places
  <2> HIDE DEF rest
  <2>3. shift \in Injection(Places(Tail(s), T), rest)
    BY <2>1 DEF Injection, IsInjective
  <2>4. shift \in Surjection(Places(Tail(s), T), rest)
    BY <2>1, <2>2 DEF Surjection
  <2>5. QED
    BY <2>3, <2>4 DEF Bijection
<1>3. /\ IsFiniteSet(Places(Tail(s), T)) /\ Cardinality(Places(Tail(s), T)) \in Nat
  <2> DEFINE t == Tail(s)
  <2>1. t \in Seq(S)
    BY <1>1
  <2> HIDE DEF t
  <2>2. IsFiniteSet(Places(t, T)) /\ Cardinality(Places(t, T)) \in 0..Len(t) /\ Len(t) \in Nat
    BY <2>1, PlacesBounded, LenProperties
  <2>3. QED
    BY <2>2 DEF t
<1>4. ExistsBijection(Places(Tail(s), T), rest)
  BY <1>2 DEF ExistsBijection
<1> HIDE DEF rest
<1>5. IsFiniteSet(rest) /\ Cardinality(rest) = Cardinality(Places(Tail(s), T))
  BY <1>3, <1>4, FS_Bijection
<1>6. Cardinality(rest \cup {1}) = Cardinality(rest) + 1
  BY <1>5, FS_AddElement DEF rest
<1>7. Places(s, T) = IF Head(s) \in T THEN rest \cup {1} ELSE rest
  BY <1>1 DEF Places, rest
<1>8. QED
  BY <1>3, <1>5, <1>6, <1>7

-----------------------------------------------------------------------------
(* Sums (Sums.tla): facts about finite sets do what an induction over the  *)
(* values would.                                                           *)

\* What is a unit of f.
LEMMA UnitsAre ==
  ASSUME NEW S, NEW f \in [S -> Nat]
  PROVE  \A x, k : <<x, k>> \in Units(f) <=> x \in S /\ k \in 1..f[x]
BY DEF Units

\* Every unit is a pair.
LEMMA UnitsArePairs ==
  ASSUME NEW S, NEW f \in [S -> Nat], NEW e \in Units(f)
  PROVE  e = <<e[1], e[2]>> /\ e[1] \in S /\ e[2] \in 1..f[e[1]]
<1>1. PICK x \in S : e \in {x} \X (1..f[x])
  BY DEF Units
<1>2. QED
  BY <1>1

\* The units at one place are as many as its value.
LEMMA UnitsAtOne ==
  ASSUME NEW x, NEW n \in Nat
  PROVE  IsFiniteSet({x} \X (1..n)) /\ Cardinality({x} \X (1..n)) = n
<1>1. IsFiniteSet({x}) /\ Cardinality({x}) = 1
  BY FS_Singleton
<1>2. IsFiniteSet(1..n) /\ Cardinality(1..n) = n
  BY FS_Interval
<1>3. /\ IsFiniteSet({x} \X (1..n))
      /\ Cardinality({x} \X (1..n)) = Cardinality({x}) * Cardinality(1..n)
  <2> DEFINE X == {x}
             N == 1..n
  <2>1. IsFiniteSet(X) /\ IsFiniteSet(N)
    BY <1>1, <1>2
  <2> HIDE DEF X, N
  <2>2. IsFiniteSet(X \X N) /\ Cardinality(X \X N) = Cardinality(X) * Cardinality(N)
    BY <2>1, FS_Product
  <2>3. QED
    BY <2>2 DEF X, N
<1>4. Cardinality({x}) * Cardinality(1..n) = n
  BY <1>1, <1>2
<1>5. QED
  BY <1>3, <1>4

\* There are finitely many units in finitely many places.
LEMMA SumType ==
  ASSUME NEW S, IsFiniteSet(S), NEW f \in [S -> Nat]
  PROVE  IsFiniteSet(Units(f)) /\ SumOf(f) \in Nat
<1> DEFINE sets == {{x} \X (1..f[x]) : x \in S}
           at == [x \in S |-> {x} \X (1..f[x])]
<1>1. IsFiniteSet(sets)
  <2>1. at \in Surjection(S, sets)
    BY DEF Surjection
  <2> HIDE DEF at, sets
  <2>2. QED
    BY <2>1, FS_Surjection
<1>2. \A T \in sets : IsFiniteSet(T)
  <2>1. \A x \in S : IsFiniteSet({x} \X (1..f[x]))
    BY UnitsAtOne
  <2>2. QED
    BY <2>1
<1> HIDE DEF sets
<1>3. IsFiniteSet(UNION sets)
  BY <1>1, <1>2, FS_UNION
<1>4. Units(f) = UNION sets
  BY DEF Units, sets
<1>5. QED
  BY <1>3, <1>4, FS_CardinalityType DEF SumOf

\* A function that is 0 at one place lacks what the other one has there.
LEMMA SumWithout ==
  ASSUME NEW S, IsFiniteSet(S), NEW f \in [S -> Nat], NEW x \in S,
         NEW g \in [S -> Nat], g[x] = 0, \A y \in S \ {x} : g[y] = f[y]
  PROVE  SumOf(f) = SumOf(g) + f[x]
<1> DEFINE here == {x} \X (1..f[x])
<1>1. IsFiniteSet(Units(g)) /\ SumOf(g) \in Nat
  BY SumType
<1>2. IsFiniteSet(here) /\ Cardinality(here) = f[x]
  BY UnitsAtOne
<1>3. Units(f) = Units(g) \cup here
  <2>1. ASSUME NEW e \in Units(f) PROVE e \in Units(g) \cup here
    <3>1. e = <<e[1], e[2]>> /\ e[1] \in S /\ e[2] \in 1..f[e[1]]
      BY <2>1, UnitsArePairs
    <3>2. CASE e[1] = x
      BY <3>1, <3>2
    <3>3. CASE e[1] # x
      BY <3>1, <3>3, UnitsAre
    <3>4. QED
      BY <3>2, <3>3
  <2>2. ASSUME NEW e \in Units(g) PROVE e \in Units(f)
    <3>1. e = <<e[1], e[2]>> /\ e[1] \in S /\ e[2] \in 1..g[e[1]]
      BY <2>2, UnitsArePairs
    <3>2. e[1] # x
      BY <3>1
    <3>3. QED
      BY <3>1, <3>2, UnitsAre
  <2>3. ASSUME NEW e \in here PROVE e \in Units(f)
    <3>1. e = <<x, e[2]>> /\ e[2] \in 1..f[x]
      BY <2>3
    <3>2. QED
      BY <3>1, UnitsAre
  <2>4. QED
    BY <2>1, <2>2, <2>3
<1>4. Units(g) \cap here = {}
  <2>1. ASSUME NEW e \in Units(g), e \in here PROVE FALSE
    <3>1. e[1] = x /\ e[2] \in 1..g[e[1]]
      BY <2>1, UnitsArePairs
    <3>2. QED
      BY <3>1
  <2>2. QED
    BY <2>1
<1> HIDE DEF here
<1>5. Cardinality(Units(g) \cap here) = 0
  BY <1>4, FS_EmptySet
<1>6. Cardinality(Units(g) \cup here) =
        Cardinality(Units(g)) + Cardinality(here) - Cardinality(Units(g) \cap here)
  BY <1>1, <1>2, FS_Union
<1>7. QED
  BY <1>1, <1>2, <1>3, <1>5, <1>6 DEF SumOf

\* A change at one place changes the sum by as much.
LEMMA SumOfChange ==
  ASSUME NEW S, IsFiniteSet(S), NEW f \in [S -> Nat], NEW x \in S,
         NEW g \in [S -> Nat], \A y \in S \ {x} : g[y] = f[y]
  PROVE  SumOf(g) = SumOf(f) - f[x] + g[x]
<1> DEFINE z == [f EXCEPT ![x] = 0]
<1>1. z \in [S -> Nat] /\ z[x] = 0 /\ \A y \in S \ {x} : z[y] = f[y] /\ z[y] = g[y]
  OBVIOUS
<1> HIDE DEF z
<1>2. SumOf(z) \in Nat
  BY <1>1, SumType
<1>3. SumOf(f) = SumOf(z) + f[x]
  BY <1>1, SumWithout
<1>4. SumOf(g) = SumOf(z) + g[x]
  BY <1>1, SumWithout
<1>5. QED
  BY <1>2, <1>3, <1>4

\* No value is above the sum.
LEMMA SumAtLeast ==
  ASSUME NEW S, IsFiniteSet(S), NEW f \in [S -> Nat], NEW x \in S
  PROVE  f[x] <= SumOf(f)
<1> DEFINE z == [f EXCEPT ![x] = 0]
<1>1. z \in [S -> Nat] /\ z[x] = 0 /\ \A y \in S \ {x} : z[y] = f[y]
  OBVIOUS
<1> HIDE DEF z
<1>2. SumOf(z) \in Nat /\ SumOf(f) = SumOf(z) + f[x]
  BY <1>1, SumType, SumWithout
<1>3. QED
  BY <1>2

\* Nothing anywhere makes no sum, and a sum of nothing has nothing anywhere.
LEMMA SumOfZero ==
  ASSUME NEW S, IsFiniteSet(S), NEW f \in [S -> Nat]
  PROVE  (\A x \in S : f[x] = 0) <=> SumOf(f) = 0
<1>1. ASSUME \A x \in S : f[x] = 0 PROVE SumOf(f) = 0
  <2>1. ASSUME NEW e \in Units(f) PROVE FALSE
    BY <1>1, <2>1, UnitsArePairs
  <2>2. Units(f) = {}
    BY <2>1
  <2>3. QED
    BY <2>2, FS_EmptySet DEF SumOf
<1>2. ASSUME SumOf(f) = 0, NEW x \in S PROVE f[x] = 0
  BY <1>2, SumAtLeast
<1>3. QED
  BY <1>1, <1>2

\* The sum of one value is that value.
LEMMA SumOfOne ==
  ASSUME NEW S, IsFiniteSet(S), NEW f \in [S -> Nat], NEW x \in S,
         \A y \in S \ {x} : f[y] = 0
  PROVE  SumOf(f) = f[x]
<1> DEFINE z == [f EXCEPT ![x] = 0]
<1>1. z \in [S -> Nat] /\ z[x] = 0 /\ \A y \in S : z[y] = 0
  OBVIOUS
<1> HIDE DEF z
<1>2. SumOf(z) = 0
  BY <1>1, SumOfZero
<1>3. SumOf(f) = SumOf(z) + f[x]
  BY <1>1, SumWithout
<1>4. QED
  BY <1>2, <1>3

\* Less everywhere is less altogether.
LEMMA SumMonotone ==
  ASSUME NEW S, IsFiniteSet(S), NEW f \in [S -> Nat], NEW g \in [S -> Nat],
         \A x \in S : f[x] <= g[x]
  PROVE  SumOf(f) <= SumOf(g)
<1>1. ASSUME NEW e \in Units(f) PROVE e \in Units(g)
  <2>1. e = <<e[1], e[2]>> /\ e[1] \in S /\ e[2] \in 1..f[e[1]]
    BY <1>1, UnitsArePairs
  <2>2. e[2] \in 1..g[e[1]]
    BY <2>1
  <2>3. QED
    BY <2>1, <2>2, UnitsAre
<1>2. IsFiniteSet(Units(f)) /\ IsFiniteSet(Units(g))
  BY SumType
<1>3. Units(f) \in SUBSET Units(g)
  BY <1>1
<1>4. QED
  BY <1>2, <1>3, FS_Subset DEF SumOf

\* No more than n everywhere is no more than n times the number of places.
LEMMA SumBounded ==
  ASSUME NEW S, IsFiniteSet(S), NEW n \in Nat, NEW f \in [S -> 0..n]
  PROVE  SumOf(f) <= Cardinality(S) * n
<1>1. f \in [S -> Nat]
  OBVIOUS
<1>2. ASSUME NEW e \in Units(f) PROVE e \in S \X (1..n)
  <2>1. e = <<e[1], e[2]>> /\ e[1] \in S /\ e[2] \in 1..f[e[1]]
    BY <1>1, <1>2, UnitsArePairs
  <2>2. f[e[1]] \in 0..n
    BY <2>1
  <2>3. e[2] \in 1..n
    BY <2>1, <2>2
  <2>4. QED
    BY <2>1, <2>3
<1>3. IsFiniteSet(1..n) /\ Cardinality(1..n) = n
  BY FS_Interval
<1>4. IsFiniteSet(S \X (1..n)) /\ Cardinality(S \X (1..n)) = Cardinality(S) * n
  BY <1>3, FS_Product
<1>5. Units(f) \in SUBSET (S \X (1..n))
  BY <1>2
<1>6. Cardinality(Units(f)) <= Cardinality(S \X (1..n))
  BY <1>4, <1>5, FS_Subset
<1>7. QED
  BY <1>4, <1>6 DEF SumOf

\* Two sums add up to the sum of what is in each place.
LEMMA SumOfBoth ==
  ASSUME NEW S, IsFiniteSet(S), NEW f \in [S -> Nat], NEW g \in [S -> Nat],
         NEW h \in [S -> Nat], \A x \in S : h[x] = f[x] + g[x]
  PROVE  SumOf(h) = SumOf(f) + SumOf(g)
<1> DEFINE rest == {e \in Units(h) : e[2] > f[e[1]]}
           shift == [e \in Units(g) |-> <<e[1], e[2] + f[e[1]]>>]
<1>1. /\ IsFiniteSet(Units(f)) /\ SumOf(f) \in Nat
      /\ IsFiniteSet(Units(g)) /\ SumOf(g) \in Nat
  BY SumType
<1>2. ASSUME NEW e \in Units(g)
      PROVE  <<e[1], e[2] + f[e[1]]>> \in rest
  <2>1. e[1] \in S /\ e[2] \in 1..g[e[1]]
    BY <1>2, UnitsArePairs
  <2>2. e[2] + f[e[1]] \in 1..h[e[1]]
    BY <2>1
  <2>3. QED
    BY <2>1, <2>2, UnitsAre
<1>3. ASSUME NEW e \in rest
      PROVE  \E d \in Units(g) : shift[d] = e
  <2>1. e = <<e[1], e[2]>> /\ e[1] \in S /\ e[2] \in 1..h[e[1]] /\ e[2] > f[e[1]]
    BY <1>3, UnitsArePairs
  <2>2. <<e[1], e[2] - f[e[1]]>> \in Units(g)
    <3>1. e[2] - f[e[1]] \in 1..g[e[1]]
      BY <2>1
    <3>2. QED
      BY <2>1, <3>1, UnitsAre
  <2>3. shift[<<e[1], e[2] - f[e[1]]>>] = <<e[1], e[2] - f[e[1]] + f[e[1]]>>
    BY <2>2
  <2>4. e[2] - f[e[1]] + f[e[1]] = e[2]
    BY <2>1
  <2>5. QED
    BY <2>1, <2>2, <2>3, <2>4
<1>4. ASSUME NEW d \in Units(g), NEW e \in Units(g), shift[d] = shift[e]
      PROVE  d = e
  <2>1. /\ d = <<d[1], d[2]>> /\ d[1] \in S /\ d[2] \in 1..g[d[1]]
        /\ e = <<e[1], e[2]>> /\ e[1] \in S /\ e[2] \in 1..g[e[1]]
    BY <1>4, UnitsArePairs
  <2>2. d[1] = e[1] /\ d[2] + f[d[1]] = e[2] + f[e[1]]
    BY <1>4
  <2>3. d[2] = e[2]
    BY <2>1, <2>2
  <2>4. QED
    BY <2>1, <2>2, <2>3
<1>5. \A e \in Units(g) : shift[e] \in rest
  BY <1>2
<1>6. DOMAIN shift = Units(g) /\ shift = [e \in Units(g) |-> shift[e]]
  OBVIOUS
<1>7. \A e \in Units(f) : e \in Units(h)
  <2>1. TAKE e \in Units(f)
  <2>2. e = <<e[1], e[2]>> /\ e[1] \in S /\ e[2] \in 1..f[e[1]]
    BY UnitsArePairs
  <2>3. e[2] \in 1..h[e[1]]
    BY <2>2
  <2>4. QED
    BY <2>2, <2>3, UnitsAre
<1>8. \A e \in Units(h) : e \in Units(f) \/ e \in rest
  <2>1. TAKE e \in Units(h)
  <2>2. e = <<e[1], e[2]>> /\ e[1] \in S /\ e[2] \in 1..h[e[1]]
    BY UnitsArePairs
  <2>3. e[2] \in 1..f[e[1]] \/ e[2] > f[e[1]]
    BY <2>2
  <2>4. QED
    BY <2>2, <2>3, UnitsAre
<1>9. \A e \in Units(f) : e \notin rest
  <2>1. TAKE e \in Units(f)
  <2>2. e[1] \in S /\ e[2] \in 1..f[e[1]]
    BY UnitsArePairs
  <2>3. QED
    BY <2>2
<1>10. rest \subseteq Units(h)
  OBVIOUS
<1> HIDE DEF rest, shift
<1>11. Units(h) = Units(f) \cup rest /\ Units(f) \cap rest = {}
  BY <1>7, <1>8, <1>9, <1>10
<1>12. shift \in Bijection(Units(g), rest)
  <2>1. shift \in [Units(g) -> rest]
    BY <1>5, <1>6
  <2>2. shift \in Injection(Units(g), rest)
    BY <1>4, <2>1 DEF Injection, IsInjective
  <2>3. shift \in Surjection(Units(g), rest)
    BY <1>3, <2>1 DEF Surjection
  <2>4. QED
    BY <2>2, <2>3 DEF Bijection
<1>13. IsFiniteSet(rest) /\ Cardinality(rest) = SumOf(g)
  <2>1. ExistsBijection(Units(g), rest)
    BY <1>12 DEF ExistsBijection
  <2>2. QED
    BY <1>1, <2>1, FS_Bijection DEF SumOf
<1>14. Cardinality(Units(f) \cup rest) =
         Cardinality(Units(f)) + Cardinality(rest) - Cardinality(Units(f) \cap rest)
  BY <1>1, <1>13, FS_Union
<1>15. Cardinality(Units(f) \cap rest) = 0
  BY <1>11, FS_EmptySet
<1>16. QED
  BY <1>1, <1>11, <1>13, <1>14, <1>15 DEF SumOf

\* A queue of numbers is a function with a finite domain.
LEMMA QueueSumType ==
  ASSUME NEW s \in Seq(Nat)
  PROVE  /\ s \in [1..Len(s) -> Nat] /\ IsFiniteSet(1..Len(s)) /\ Len(s) \in Nat
         /\ IsFiniteSet(Units(s)) /\ SumOf(s) \in Nat
<1>1. s \in [1..Len(s) -> Nat] /\ Len(s) \in Nat
  BY LenProperties
<1>2. IsFiniteSet(1..Len(s))
  BY <1>1, FS_Interval
<1>3. QED
  BY <1>1, <1>2, SumType

\* The empty queue has no sum.
LEMMA SumOfEmpty == SumOf(<<>>) = 0
<1>1. Units(<<>>) = {}
  BY DEF Units
<1>2. QED
  BY <1>1, FS_EmptySet DEF SumOf

\* A number that is put in adds to the sum.
LEMMA SumOfAppend ==
  ASSUME NEW s \in Seq(Nat), NEW n \in Nat
  PROVE  Append(s, n) \in Seq(Nat) /\ SumOf(Append(s, n)) = SumOf(s) + n
<1> DEFINE t == Append(s, n)
           new == {Len(s) + 1} \X (1..n)
<1>1. /\ t \in Seq(Nat) /\ Len(s) \in Nat /\ Len(t) = Len(s) + 1
      /\ \A k \in 1..Len(s) : t[k] = s[k]
      /\ t[Len(s) + 1] = n
  BY LenProperties, AppendProperties
<1> HIDE DEF t
<1>2. s \in [1..Len(s) -> Nat] /\ t \in [1..(Len(s) + 1) -> Nat]
  BY <1>1, QueueSumType
<1>0. /\ \A x \in 1..Len(s) : \A k \in 1..s[x] : <<x, k>> \in Units(s)
      /\ \A x \in 1..(Len(s) + 1) : \A k \in 1..t[x] : <<x, k>> \in Units(t)
  BY <1>2, UnitsAre
<1>3. IsFiniteSet(Units(s)) /\ SumOf(s) \in Nat
  BY QueueSumType
<1>4. IsFiniteSet(new) /\ Cardinality(new) = n
  BY UnitsAtOne
<1>5. ASSUME NEW e \in Units(t) PROVE e \in Units(s) \/ e \in new
  <2>1. e = <<e[1], e[2]>> /\ e[1] \in 1..(Len(s) + 1) /\ e[2] \in 1..t[e[1]]
    BY <1>2, <1>5, UnitsArePairs
  <2>2. CASE e[1] = Len(s) + 1
    BY <1>1, <2>1, <2>2
  <2>3. CASE e[1] # Len(s) + 1
    <3>1. e[1] \in 1..Len(s) /\ e[2] \in 1..s[e[1]]
      BY <1>1, <2>1, <2>3
    <3>2. QED
      BY <1>0, <2>1, <3>1
  <2>4. QED
    BY <2>2, <2>3
<1>6. ASSUME NEW e \in Units(s) PROVE e \in Units(t) /\ e \notin new
  <2>1. e = <<e[1], e[2]>> /\ e[1] \in 1..Len(s) /\ e[2] \in 1..s[e[1]]
    BY <1>2, <1>6, UnitsArePairs
  <2>2. e[1] \in 1..(Len(s) + 1) /\ e[2] \in 1..t[e[1]] /\ e[1] # Len(s) + 1
    BY <1>1, <2>1
  <2>3. e \in Units(t)
    BY <1>0, <2>1, <2>2
  <2>4. QED
    BY <2>2, <2>3
<1>7. ASSUME NEW e \in new PROVE e \in Units(t)
  <2>1. e = <<Len(s) + 1, e[2]>> /\ e[2] \in 1..n
    BY <1>7
  <2>2. Len(s) + 1 \in 1..(Len(s) + 1) /\ e[2] \in 1..t[Len(s) + 1]
    BY <1>1, <2>1
  <2>3. QED
    BY <1>0, <2>1, <2>2
<1> HIDE DEF new
<1>8. Units(t) = Units(s) \cup new /\ Units(s) \cap new = {}
  BY <1>5, <1>6, <1>7
<1>9. Cardinality(Units(s) \cup new) =
        Cardinality(Units(s)) + Cardinality(new) - Cardinality(Units(s) \cap new)
  BY <1>3, <1>4, FS_Union
<1>10. Cardinality(Units(s) \cap new) = 0
  BY <1>8, FS_EmptySet
<1>11. SumOf(t) = SumOf(s) + n
  BY <1>3, <1>4, <1>8, <1>9, <1>10 DEF SumOf
<1>12. QED
  BY <1>1, <1>11 DEF t

\* A number that is taken out takes its part of the sum with it.
LEMMA SumOfTail ==
  ASSUME NEW s \in Seq(Nat), s # <<>>
  PROVE  /\ Head(s) \in Nat /\ Tail(s) \in Seq(Nat) /\ SumOf(Tail(s)) \in Nat
         /\ SumOf(s) = SumOf(Tail(s)) + Head(s)
<1> DEFINE t == Tail(s)
           first == {1} \X (1..Head(s))
           rest == {e \in Units(s) : e[1] # 1}
           shift == [e \in Units(t) |-> <<e[1] + 1, e[2]>>]
<1>1. /\ Head(s) \in Nat /\ t \in Seq(Nat) /\ Len(t) = Len(s) - 1
      /\ \A k \in 1..Len(t) : t[k] = s[k + 1]
      /\ Len(s) \in Nat \ {0} /\ Head(s) = s[1]
  BY HeadTailProperties, LenProperties, EmptySeq
<1> HIDE DEF t
<1>2. s \in [1..Len(s) -> Nat] /\ t \in [1..(Len(s) - 1) -> Nat]
  BY <1>1, QueueSumType
<1>0. /\ \A x \in 1..Len(s) : \A k \in 1..s[x] : <<x, k>> \in Units(s)
      /\ \A x \in 1..(Len(s) - 1) : \A k \in 1..t[x] : <<x, k>> \in Units(t)
  BY <1>2, UnitsAre
<1>3. IsFiniteSet(Units(t)) /\ SumOf(t) \in Nat
  BY <1>1, QueueSumType
<1>4. IsFiniteSet(first) /\ Cardinality(first) = Head(s)
  BY <1>1, UnitsAtOne
<1>5. ASSUME NEW e \in Units(t)
      PROVE  <<e[1] + 1, e[2]>> \in rest /\ shift[e] = <<e[1] + 1, e[2]>>
             /\ e = <<e[1], e[2]>> /\ e[1] \in Nat
  <2>1. e = <<e[1], e[2]>> /\ e[1] \in 1..(Len(s) - 1) /\ e[2] \in 1..t[e[1]]
    BY <1>2, <1>5, UnitsArePairs
  <2>2. e[1] + 1 \in 1..Len(s) /\ e[2] \in 1..s[e[1] + 1] /\ e[1] + 1 # 1
    <3> DEFINE j == e[1]
    <3>1. j \in 1..(Len(s) - 1) /\ j \in 1..Len(t)
      BY <1>1, <2>1
    <3> HIDE DEF j
    <3>2. j + 1 \in 1..Len(s) /\ j + 1 # 1
      BY <1>1, <3>1
    <3>3. t[j] = s[j + 1]
      BY <1>1, <3>1
    <3>4. QED
      BY <2>1, <3>2, <3>3 DEF j
  <2>3. <<e[1] + 1, e[2]>> \in Units(s)
    BY <1>0, <2>2
  <2>4. QED
    BY <1>5, <2>1, <2>2, <2>3
<1>6. ASSUME NEW e \in rest
      PROVE  \E d \in Units(t) : shift[d] = e
  <2>1. e = <<e[1], e[2]>> /\ e[1] \in 1..Len(s) /\ e[2] \in 1..s[e[1]] /\ e[1] # 1
    BY <1>2, <1>6, UnitsArePairs
  <2>2. e[1] - 1 \in 1..(Len(s) - 1) /\ e[2] \in 1..t[e[1] - 1] /\ (e[1] - 1) + 1 = e[1]
    <3>1. e[1] - 1 \in 1..(Len(s) - 1) /\ (e[1] - 1) + 1 = e[1]
      <4> DEFINE j == e[1]
                 n == Len(s)
      <4>1. j \in 1..n /\ j # 1 /\ n \in Nat
        BY <1>1, <2>1
      <4> HIDE DEF j, n
      <4>2. j - 1 \in 1..(n - 1) /\ (j - 1) + 1 = j
        BY <4>1
      <4>3. QED
        BY <4>2 DEF j, n
    <3>2. t[e[1] - 1] = s[(e[1] - 1) + 1]
      BY <1>1, <3>1
    <3>3. QED
      BY <2>1, <3>1, <3>2
  <2>3. <<e[1] - 1, e[2]>> \in Units(t)
    BY <1>0, <2>2
  <2>4. shift[<<e[1] - 1, e[2]>>] = <<(e[1] - 1) + 1, e[2]>>
    BY <2>3
  <2>5. QED
    BY <2>1, <2>2, <2>3, <2>4
<1>7. ASSUME NEW e \in Units(s) PROVE e \in first \/ e \in rest
  <2>1. e = <<e[1], e[2]>> /\ e[1] \in 1..Len(s) /\ e[2] \in 1..s[e[1]]
    BY <1>2, <1>7, UnitsArePairs
  <2>2. CASE e[1] = 1
    BY <1>1, <2>1, <2>2
  <2>3. CASE e[1] # 1
    BY <2>3
  <2>4. QED
    BY <2>2, <2>3
<1>8. ASSUME NEW e \in first PROVE e \in Units(s) /\ e \notin rest
  <2>1. e = <<1, e[2]>> /\ e[1] = 1 /\ e[2] \in 1..s[1] /\ 1 \in 1..Len(s)
    BY <1>1, <1>8
  <2>2. QED
    BY <1>0, <2>1
<1>9. rest \subseteq Units(s) /\ DOMAIN shift = Units(t) /\ shift = [e \in Units(t) |-> shift[e]]
  OBVIOUS
<1> HIDE DEF first, rest, shift
<1>10. Units(s) = first \cup rest /\ first \cap rest = {}
  BY <1>7, <1>8, <1>9
<1>11. ASSUME NEW d \in Units(t), NEW e \in Units(t), shift[d] = shift[e]
       PROVE  d = e
  <2>1. /\ shift[d] = <<d[1] + 1, d[2]>> /\ d = <<d[1], d[2]>> /\ d[1] \in Nat
        /\ shift[e] = <<e[1] + 1, e[2]>> /\ e = <<e[1], e[2]>> /\ e[1] \in Nat
    BY <1>5
  <2>2. <<d[1] + 1, d[2]>> = <<e[1] + 1, e[2]>>
    BY <1>11, <2>1
  <2>3. d[1] = e[1]
    BY <2>1, <2>2
  <2>4. QED
    BY <2>1, <2>2, <2>3
<1>12. shift \in Bijection(Units(t), rest)
  <2>1. shift \in [Units(t) -> rest]
    BY <1>5, <1>9
  <2>2. shift \in Injection(Units(t), rest)
    BY <1>11, <2>1 DEF Injection, IsInjective
  <2>3. shift \in Surjection(Units(t), rest)
    BY <1>6, <2>1 DEF Surjection
  <2>4. QED
    BY <2>2, <2>3 DEF Bijection
<1>13. IsFiniteSet(rest) /\ Cardinality(rest) = SumOf(t)
  <2>1. ExistsBijection(Units(t), rest)
    BY <1>12 DEF ExistsBijection
  <2>2. QED
    BY <1>3, <2>1, FS_Bijection DEF SumOf
<1>14. Cardinality(first \cup rest) =
         Cardinality(first) + Cardinality(rest) - Cardinality(first \cap rest)
  BY <1>4, <1>13, FS_Union
<1>15. Cardinality(first \cap rest) = 0
  BY <1>10, FS_EmptySet
<1>16. SumOf(s) = SumOf(t) + Head(s)
  BY <1>1, <1>3, <1>4, <1>10, <1>13, <1>14, <1>15 DEF SumOf
<1>17. QED
  BY <1>1, <1>3, <1>16 DEF t

=============================================================================
