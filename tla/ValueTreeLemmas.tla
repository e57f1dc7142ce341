--------------------------- MODULE ValueTreeLemmas ---------------------------
(***************************************************************************)
(* What the traversals need to know of trees: what a set of nodes weighs   *)
(* when a node joins it, that part of a tree weighs no more than the tree, *)
(* and that a walk which schedules what every visited node holds visits    *)
(* the whole tree.                                                         *)
(***************************************************************************)
EXTENDS ValueTrees, FiniteSetTheorems, SequenceTheorems, TLAPS

\* A set of numbers has a least one.
LEMMA LeastNatural ==
  ASSUME NEW S \in SUBSET Nat, S # {}
  PROVE  \E x \in S : \A y \in S : x <= y
<1>1. PICK x \in S : \A y \in S : ~(<<y, x>> \in OpToRel(<, Nat))
  BY NatLessThanWellFounded, WFMin
<1>2. \A y \in S : ~(y < x)
  BY <1>1 DEF OpToRel
<1>3. QED
  BY <1>2

\* A set that holds 0 and, up to n, with a number the next one holds all up to n.
LEMMA UpTo ==
  ASSUME NEW n \in Nat, NEW S, 0 \in S, \A i \in 1 .. n : i - 1 \in S => i \in S
  PROVE  \A i \in 0 .. n : i \in S
<1> SUFFICES ASSUME NEW j \in 0 .. n, j \notin S PROVE FALSE
  OBVIOUS
<1> DEFINE Missing == {i \in 0 .. n : i \notin S}
<1>1. PICK x \in Missing : \A y \in Missing : x <= y
  <2>1. Missing \in SUBSET Nat /\ j \in Missing
    OBVIOUS
  <2>2. QED
    BY <2>1, LeastNatural
<1>2. x \in 1 .. n /\ x - 1 \in S
  BY <1>1
<1>3. QED
  BY <1>1, <1>2

\* A finite set of numbers is bounded: bound its elements one after another.
LEMMA FiniteBounded ==
  ASSUME NEW S \in SUBSET Nat, IsFiniteSet(S)
  PROVE  \E b \in Nat : \A x \in S : x <= b
<1>1. PICK n \in Nat : ExistsSurjection(1 .. n, S)
  BY FS_NatSurjection
<1>2. PICK f \in [1 .. n -> S] : \A x \in S : \E i \in 1 .. n : f[i] = x
  BY <1>1 DEF ExistsSurjection, Surjection
<1>3. \A i \in 1 .. n : f[i] \in Nat
  BY <1>2
<1> DEFINE Below(m, b) == \A i \in 1 .. m : f[i] <= b
           Bounded == {m \in 0 .. n : \E b \in Nat : Below(m, b)}
<1>4. 0 \in Bounded
  BY <1>1
<1>5. ASSUME NEW m \in 1 .. n, m - 1 \in Bounded PROVE m \in Bounded
  <2>1. PICK b \in Nat : \A i \in 1 .. m - 1 : f[i] <= b
    BY <1>5
  <2>2. f[m] \in Nat
    BY <1>3
  <2> DEFINE c == IF f[m] <= b THEN b ELSE f[m]
  <2>3. c \in Nat /\ b <= c /\ f[m] <= c
    BY <2>1, <2>2
  <2> HIDE DEF c
  <2>4. ASSUME NEW i \in 1 .. m PROVE f[i] <= c
    <3>1. f[i] \in Nat
      BY <1>3
    <3>2. i \in 1 .. m - 1 \/ i = m
      OBVIOUS
    <3>3. QED
      BY <2>1, <2>3, <3>1, <3>2
  <2>5. c \in Nat /\ Below(m, c) /\ m \in 0 .. n
    BY <2>3, <2>4
  <2> HIDE DEF Below
  <2>6. QED
    BY <2>5
<1>6. n \in Bounded
  <2> HIDE DEF Bounded
  <2>1. QED
    BY <1>1, <1>4, <1>5, UpTo
<1>7. PICK b \in Nat : \A i \in 1 .. n : f[i] <= b
  BY <1>6
<1>8. QED
  BY <1>2, <1>7

\* Max is what its name says: of a finite non-empty set of numbers, one that no
\* other exceeds.
LEMMA MaxIsGreatest ==
  ASSUME NEW S \in SUBSET Nat, IsFiniteSet(S), S # {}
  PROVE  Max(S) \in S /\ \A x \in S : x <= Max(S)
<1> DEFINE Bounds == {b \in Nat : \A x \in S : x <= b}
<1>1. PICK b \in Bounds : \A c \in Bounds : b <= c
  <2>1. Bounds \in SUBSET Nat /\ Bounds # {}
    BY FiniteBounded
  <2> HIDE DEF Bounds
  <2>2. QED
    BY <2>1, LeastNatural
<1>2. b \in S
  <2> SUFFICES ASSUME b \notin S PROVE FALSE
    OBVIOUS
  <2>1. b # 0
    <3>1. PICK x \in S : TRUE
      OBVIOUS
    <3>2. x \in Nat /\ x <= b /\ x # b
      BY <1>1
    <3>3. QED
      BY <3>2
  <2>2. b - 1 \in Bounds
    BY <1>1, <2>1
  <2>3. QED
    BY <1>1, <2>2
<1>3. \E x \in S : \A y \in S : x >= y
  BY <1>1, <1>2
<1>4. Max(S) \in S /\ \A y \in S : Max(S) >= y
  BY <1>3 DEF Max
<1>5. QED
  BY <1>4

\* Max is the only such element.
LEMMA MaxIs ==
  ASSUME NEW S \in SUBSET Nat, IsFiniteSet(S), NEW m \in S, \A x \in S : x <= m
  PROVE  Max(S) = m
<1>1. Max(S) \in S /\ \A x \in S : x <= Max(S)
  BY MaxIsGreatest
<1>2. Max(S) \in Nat /\ m \in Nat /\ m <= Max(S) /\ Max(S) <= m
  BY <1>1
<1>3. QED
  BY <1>2

\* The values of a function on a finite set are finitely many.
LEMMA FiniteValues ==
  ASSUME NEW S, IsFiniteSet(S), NEW f
  PROVE  IsFiniteSet({f[x] : x \in S})
<1> DEFINE T == {f[x] : x \in S}
           g == [x \in S |-> f[x]]
<1>1. g \in Surjection(S, T)
  BY DEF Surjection
<1>2. QED
  BY <1>1, FS_Surjection

\* As many values as numbers, when no two numbers share one.
LEMMA DistinctValues ==
  ASSUME NEW n \in Nat, NEW f, \A i, j \in 1 .. n : f[i] = f[j] => i = j,
         NEW T, \A i \in 1 .. n : f[i] \in T, \A x \in T : \E i \in 1 .. n : x = f[i]
  PROVE  IsFiniteSet(T) /\ Cardinality(T) = n
<1> DEFINE g == [i \in 1 .. n |-> f[i]]
<1>1. g \in Bijection(1 .. n, T)
  BY DEF Bijection, Injection, Surjection, IsInjective
<1>2. ExistsBijection(1 .. n, T)
  BY <1>1 DEF ExistsBijection
<1>3. QED
  BY <1>2, FS_CountingElements, FS_NatBijection

\* Sets that share nothing count together as much as apart.
LEMMA DisjointUnion ==
  ASSUME NEW S, NEW T, IsFiniteSet(S), IsFiniteSet(T), S \cap T = {}
  PROVE  /\ IsFiniteSet(S \cup T)
         /\ Cardinality(S \cup T) = Cardinality(S) + Cardinality(T)
<1> DEFINE a == Cardinality(S)
           b == Cardinality(T)
<1>1. a \in Nat /\ b \in Nat /\ Cardinality(S \cap T) = 0
  BY FS_CardinalityType, FS_EmptySet
<1>2. IsFiniteSet(S \cup T) /\ Cardinality(S \cup T) = a + b - Cardinality(S \cap T)
  BY FS_Union
<1> HIDE DEF a, b
<1>3. Cardinality(S \cup T) = a + b - 0
  BY <1>1, <1>2
<1>4. a + b - 0 = a + b
  BY <1>1
<1>5. QED
  BY <1>2, <1>3, <1>4 DEF a, b

-----------------------------------------------------------------------------
(* Pairs of a node and what f gives it *)

Fibres(f, S) == UNION {{i} \X f[i] : i \in S}

\* Finitely many nodes with finitely much each make finitely many pairs.
LEMMA FibresFinite ==
  ASSUME NEW S, IsFiniteSet(S), NEW f, \A i \in S : IsFiniteSet(f[i])
  PROVE  IsFiniteSet(Fibres(f, S))
<1> DEFINE g == [i \in S |-> {i} \X f[i]]
           T == {g[i] : i \in S}
<1>1. IsFiniteSet(T)
  <2> HIDE DEF g
  <2>1. QED
    BY FiniteValues
<1>2. \A X \in T : IsFiniteSet(X)
  <2> SUFFICES ASSUME NEW i \in S PROVE IsFiniteSet({i} \X f[i])
    OBVIOUS
  <2>1. QED
    BY FS_Singleton, FS_Product
<1>3. Fibres(f, S) = UNION T
  BY DEF Fibres
<1> HIDE DEF T
<1>4. QED
  BY <1>1, <1>2, <1>3, FS_UNION

\* A further node adds the pairs of its own.
LEMMA FibresAdd ==
  ASSUME NEW S, IsFiniteSet(S), NEW f, \A i \in S : IsFiniteSet(f[i]),
         NEW j, j \notin S, IsFiniteSet(f[j])
  PROVE  Cardinality(Fibres(f, S \cup {j})) =
           Cardinality(Fibres(f, S)) + Cardinality(f[j])
<1>1. IsFiniteSet(Fibres(f, S))
  BY FibresFinite
<1>2. /\ IsFiniteSet({j} \X f[j])
      /\ Cardinality({j} \X f[j]) = Cardinality(f[j])
  <2>1. /\ IsFiniteSet({j}) /\ Cardinality({j}) = 1
        /\ Cardinality(f[j]) \in Nat
    BY FS_Singleton, FS_CardinalityType
  <2>2. /\ IsFiniteSet({j} \X f[j])
        /\ Cardinality({j} \X f[j]) = Cardinality({j}) * Cardinality(f[j])
    BY <2>1, FS_Product
  <2>3. QED
    BY <2>1, <2>2
<1>3. Fibres(f, S \cup {j}) = Fibres(f, S) \cup ({j} \X f[j])
  BY DEF Fibres
<1>4. Fibres(f, S) \cap ({j} \X f[j]) = {}
  BY DEF Fibres
<1>5. QED
  BY <1>1, <1>2, <1>3, <1>4, DisjointUnion

-----------------------------------------------------------------------------
(* Weights *)

\* What a node holds is a sequence of nodes.
LEMMA KidsType ==
  ASSUME NEW t, HasFields(t), NEW i \in NodesOf(t)
  PROVE  /\ t.kids[i] \in Seq(NodesOf(t))
         /\ Len(t.kids[i]) \in Nat
         /\ DOMAIN t.kids[i] = 1 .. Len(t.kids[i])
         /\ \A k \in 1 .. Len(t.kids[i]) : t.kids[i][k] \in NodesOf(t)
<1>1. t.kids[i] \in Seq(NodesOf(t))
  BY DEF HasFields
<1>2. QED
  BY <1>1, LenProperties, ElementOfSeq

\* The numbers from one, and from zero, up to n.
LEMMA Counted ==
  ASSUME NEW n \in Nat
  PROVE  /\ IsFiniteSet(1 .. n) /\ Cardinality(1 .. n) = n
         /\ IsFiniteSet(0 .. n) /\ Cardinality(0 .. n) = n + 1
<1>1. IsFiniteSet(1 .. n) /\ Cardinality(1 .. n) = IF 1 > n THEN 0 ELSE n - 1 + 1
  BY FS_Interval
<1>2. IsFiniteSet(0 .. n) /\ Cardinality(0 .. n) = IF 0 > n THEN 0 ELSE n - 0 + 1
  BY FS_Interval
<1>3. QED
  BY <1>1, <1>2

\* The places and the bytes of some nodes are pairs of finitely many kinds.
LEMMA AsFibres ==
  ASSUME NEW t, HasFields(t)
  PROVE  \E places, bytes :
           /\ \A i \in NodesOf(t) :
                /\ IsFiniteSet(places[i]) /\ Cardinality(places[i]) = Len(t.kids[i])
                /\ IsFiniteSet(bytes[i]) /\ Cardinality(bytes[i]) = t.text[i] + 1
           /\ \A S \in SUBSET NodesOf(t) : /\ PlacesIn(t, S) = Fibres(places, S)
                                           /\ BytesIn(t, S) = Fibres(bytes, S)
<1> DEFINE places == [i \in NodesOf(t) |-> 1 .. Len(t.kids[i])]
           bytes == [i \in NodesOf(t) |-> 0 .. t.text[i]]
<1>1. ASSUME NEW i \in NodesOf(t)
      PROVE  /\ IsFiniteSet(places[i]) /\ Cardinality(places[i]) = Len(t.kids[i])
             /\ IsFiniteSet(bytes[i]) /\ Cardinality(bytes[i]) = t.text[i] + 1
  <2>1. Len(t.kids[i]) \in Nat /\ t.text[i] \in Nat
    BY KidsType DEF HasFields
  <2>2. QED
    BY <2>1, Counted
<1>2. ASSUME NEW S \in SUBSET NodesOf(t)
      PROVE  PlacesIn(t, S) = Fibres(places, S) /\ BytesIn(t, S) = Fibres(bytes, S)
  <2>1. \A i \in S : {i} \X DOMAIN t.kids[i] = {i} \X places[i]
    BY KidsType
  <2>2. \A i \in S : {i} \X (0 .. t.text[i]) = {i} \X bytes[i]
    OBVIOUS
  <2> HIDE DEF places, bytes
  <2>3. QED
    BY <2>1, <2>2 DEF PlacesIn, BytesIn, Fibres
<1> HIDE DEF places, bytes
<1>3. QED
  BY <1>1, <1>2

\* What is counted of a set of nodes is finite.
LEMMA PartsFinite ==
  ASSUME NEW t, HasFields(t), NEW S \in SUBSET NodesOf(t)
  PROVE  /\ IsFiniteSet(S)
         /\ IsFiniteSet(PlacesIn(t, S))
         /\ IsFiniteSet(BytesIn(t, S))
         /\ IsFiniteSet({0} \cup {t.level[i] : i \in S})
         /\ {0} \cup {t.level[i] : i \in S} \in SUBSET Nat
<1>1. IsFiniteSet(S)
  BY FS_Subset DEF HasFields
<1>2. IsFiniteSet(PlacesIn(t, S)) /\ IsFiniteSet(BytesIn(t, S))
  BY <1>1, AsFibres, FibresFinite
<1>3. IsFiniteSet({0} \cup {t.level[i] : i \in S})
  <2>1. IsFiniteSet({t.level[i] : i \in S})
    BY <1>1, FiniteValues
  <2>2. IsFiniteSet({0})
    BY FS_Singleton
  <2>3. QED
    BY <2>1, <2>2, FS_Union
<1>4. {0} \cup {t.level[i] : i \in S} \in SUBSET Nat
  BY DEF HasFields
<1>5. QED
  BY <1>1, <1>2, <1>3, <1>4

\* A weight is made of numbers, and its depth is the deepest level.
LEMMA WeightType ==
  ASSUME NEW t, HasFields(t), NEW S \in SUBSET NodesOf(t)
  PROVE  /\ Weight(t, S) \in [depth : Nat, nodes : Nat, items : Nat, bytes : Nat]
         /\ Weight(t, S).depth \in {0} \cup {t.level[i] : i \in S}
         /\ \A i \in S : t.level[i] <= Weight(t, S).depth
<1>1. /\ Cardinality(S) \in Nat
      /\ Cardinality(PlacesIn(t, S)) \in Nat
      /\ Cardinality(BytesIn(t, S)) \in Nat
  BY PartsFinite, FS_CardinalityType
<1> DEFINE L == {0} \cup {t.level[i] : i \in S}
<1>2. Max(L) \in L /\ (\A x \in L : x <= Max(L)) /\ L \in SUBSET Nat
  <2>1. IsFiniteSet(L) /\ L \in SUBSET Nat /\ L # {}
    BY PartsFinite
  <2> HIDE DEF L
  <2>2. QED
    BY <2>1, MaxIsGreatest
<1>3. Weight(t, S).depth = Max(L)
  BY DEF Weight
<1>4. \A i \in S : t.level[i] \in L
  OBVIOUS
<1>5. Max(L) \in Nat
  BY <1>2
<1>6. Weight(t, S) \in [depth : Nat, nodes : Nat, items : Nat, bytes : Nat]
  BY <1>1, <1>5 DEF Weight
<1>7. QED
  BY <1>2, <1>3, <1>4, <1>6

\* Nothing weighs nothing.
LEMMA WeightNone ==
  ASSUME NEW t, HasFields(t)
  PROVE  Weight(t, {}) = [depth |-> 0, nodes |-> 0, items |-> 0, bytes |-> 0]
<1>1. PlacesIn(t, {}) = {} /\ BytesIn(t, {}) = {}
  BY DEF PlacesIn, BytesIn
<1>2. Cardinality({}) = 0
  BY FS_EmptySet
<1>3. Weight(t, {}).depth = 0
  BY WeightType
<1>4. QED
  BY <1>1, <1>2, <1>3 DEF Weight

\* A node adds itself, its children as items, its tag and its payload.
LEMMA WeightAdd ==
  ASSUME NEW t, HasFields(t), NEW S \in SUBSET NodesOf(t),
         NEW i \in NodesOf(t), i \notin S
  PROVE  Weight(t, S \cup {i}) =
           [depth |-> IF t.level[i] > Weight(t, S).depth
                      THEN t.level[i] ELSE Weight(t, S).depth,
            nodes |-> Weight(t, S).nodes + 1,
            items |-> Weight(t, S).items + Len(t.kids[i]),
            bytes |-> Weight(t, S).bytes + 1 + t.text[i]]
<1> DEFINE T == S \cup {i}
<1>1. T \in SUBSET NodesOf(t) /\ IsFiniteSet(S)
  BY PartsFinite
<1>2. Cardinality(T) = Cardinality(S) + 1
  BY <1>1, FS_AddElement
<1>3. /\ Cardinality(PlacesIn(t, T)) = Cardinality(PlacesIn(t, S)) + Len(t.kids[i])
      /\ Cardinality(BytesIn(t, T)) = Cardinality(BytesIn(t, S)) + (t.text[i] + 1)
  <2>1. PICK places, bytes :
          /\ \A j \in NodesOf(t) :
               /\ IsFiniteSet(places[j]) /\ Cardinality(places[j]) = Len(t.kids[j])
               /\ IsFiniteSet(bytes[j]) /\ Cardinality(bytes[j]) = t.text[j] + 1
          /\ \A U \in SUBSET NodesOf(t) : /\ PlacesIn(t, U) = Fibres(places, U)
                                          /\ BytesIn(t, U) = Fibres(bytes, U)
    BY AsFibres
  <2>2. Cardinality(Fibres(places, T)) =
          Cardinality(Fibres(places, S)) + Cardinality(places[i])
    BY <1>1, <2>1, FibresAdd
  <2>3. Cardinality(Fibres(bytes, T)) =
          Cardinality(Fibres(bytes, S)) + Cardinality(bytes[i])
    BY <1>1, <2>1, FibresAdd
  <2> HIDE DEF T
  <2>4. QED
    BY <1>1, <2>1, <2>2, <2>3
<1>4. Weight(t, T).depth = IF t.level[i] > Weight(t, S).depth
                           THEN t.level[i] ELSE Weight(t, S).depth
  <2>1. /\ Weight(t, T).depth \in {0} \cup {t.level[j] : j \in T}
        /\ \A j \in T : t.level[j] <= Weight(t, T).depth
        /\ Weight(t, T).depth \in Nat
    BY <1>1, WeightType
  <2>2. /\ Weight(t, S).depth \in {0} \cup {t.level[j] : j \in S}
        /\ \A j \in S : t.level[j] <= Weight(t, S).depth
        /\ Weight(t, S).depth \in Nat
    BY WeightType
  <2>3. \A j \in T : t.level[j] \in Nat /\ t.level[j] > 0
    BY <1>1 DEF HasFields
  <2> DEFINE d == Weight(t, S).depth
             e == Weight(t, T).depth
  <2> HIDE DEF d, e
  <2>4. d \in Nat /\ e \in Nat /\ t.level[i] \in Nat /\ t.level[i] > 0
    BY <2>1, <2>2, <2>3 DEF d, e
  <2>5. t.level[i] <= e
    BY <2>1 DEF e
  <2>6. d <= e
    <3>1. CASE d = 0
      BY <3>1, <2>4
    <3>2. CASE d # 0
      <4>1. PICK j \in S : t.level[j] = d
        BY <3>2, <2>2 DEF d
      <4>2. QED
        BY <4>1, <2>1 DEF e
    <3>3. QED
      BY <3>1, <3>2
  <2>7. e = t.level[i] \/ e <= d
    <3>1. CASE e = 0
      BY <3>1, <2>4
    <3>2. CASE e # 0
      <4>1. PICK j \in T : t.level[j] = e
        BY <3>2, <2>1 DEF e
      <4>2. j = i \/ (j \in S /\ e <= d)
        BY <4>1, <2>2 DEF d
      <4>3. QED
        BY <4>1, <4>2
    <3>3. QED
      BY <3>1, <3>2
  <2>8. e = IF t.level[i] > d THEN t.level[i] ELSE d
    BY <2>4, <2>5, <2>6, <2>7
  <2>9. QED
    BY <2>8 DEF d, e
<1>5. /\ Cardinality(BytesIn(t, S)) \in Nat /\ t.text[i] \in Nat
  BY PartsFinite, FS_CardinalityType DEF HasFields
<1>6. /\ Weight(t, T).nodes = Weight(t, S).nodes + 1
      /\ Weight(t, T).items = Weight(t, S).items + Len(t.kids[i])
      /\ Weight(t, T).bytes = Weight(t, S).bytes + 1 + t.text[i]
  BY <1>2, <1>3, <1>5 DEF Weight
<1> HIDE DEF T
<1>7. Weight(t, T) = [depth |-> Weight(t, T).depth, nodes |-> Weight(t, T).nodes,
                      items |-> Weight(t, T).items, bytes |-> Weight(t, T).bytes]
  BY DEF Weight
<1>8. Weight(t, T) =
        [depth |-> IF t.level[i] > Weight(t, S).depth
                   THEN t.level[i] ELSE Weight(t, S).depth,
         nodes |-> Weight(t, S).nodes + 1,
         items |-> Weight(t, S).items + Len(t.kids[i]),
         bytes |-> Weight(t, S).bytes + 1 + t.text[i]]
  BY <1>4, <1>6, <1>7
<1>9. QED
  BY <1>8 DEF T

\* Part of a tree, and nodes beside it of which only the tag is charged, weigh
\* no more than the tree.
LEMMA WeightWithin ==
  ASSUME NEW t, HasFields(t), NEW S \in SUBSET NodesOf(t),
         NEW W \in SUBSET NodesOf(t), S \cap W = {}
  PROVE  /\ Cardinality(W) \in Nat
         /\ Measure(t) \in [depth : Nat, nodes : Nat, items : Nat, bytes : Nat]
         /\ Weight(t, S).nodes + Cardinality(W) <= Measure(t).nodes
         /\ Weight(t, S).items <= Measure(t).items
         /\ Weight(t, S).bytes + Cardinality(W) <= Measure(t).bytes
         /\ Weight(t, S).depth <= Measure(t).depth
<1> DEFINE N == NodesOf(t)
<1>1. N \in SUBSET NodesOf(t)
  OBVIOUS
<1>2. /\ IsFiniteSet(S) /\ IsFiniteSet(W) /\ IsFiniteSet(N)
      /\ IsFiniteSet(PlacesIn(t, N)) /\ IsFiniteSet(BytesIn(t, N))
      /\ IsFiniteSet(BytesIn(t, S))
  BY <1>1, PartsFinite
<1>3. /\ Weight(t, S) \in [depth : Nat, nodes : Nat, items : Nat, bytes : Nat]
      /\ Weight(t, N) \in [depth : Nat, nodes : Nat, items : Nat, bytes : Nat]
      /\ Weight(t, S).depth \in {0} \cup {t.level[i] : i \in S}
      /\ \A i \in N : t.level[i] <= Weight(t, N).depth
  BY <1>1, WeightType
<1>4. Cardinality(S \cup W) = Cardinality(S) + Cardinality(W)
  BY <1>2, DisjointUnion
<1>5. Cardinality(S \cup W) <= Cardinality(N)
  BY <1>2, FS_Subset
<1>6. Cardinality(PlacesIn(t, S)) <= Cardinality(PlacesIn(t, N))
  <2>1. PlacesIn(t, S) \in SUBSET PlacesIn(t, N)
    BY DEF PlacesIn
  <2>2. QED
    BY <1>2, <2>1, FS_Subset
<1>7. Cardinality(BytesIn(t, S)) + Cardinality(W) <= Cardinality(BytesIn(t, N))
  <2> DEFINE tags == W \X {0}
  <2>1. IsFiniteSet(tags) /\ Cardinality(tags) = Cardinality(W)
    <3>1. IsFiniteSet({0}) /\ Cardinality({0}) = 1 /\ Cardinality(W) \in Nat
      BY <1>2, FS_Singleton, FS_CardinalityType
    <3>2. IsFiniteSet(tags) /\ Cardinality(tags) = Cardinality(W) * Cardinality({0})
      BY <1>2, <3>1, FS_Product
    <3>3. QED
      BY <3>1, <3>2
  <2>2. BytesIn(t, S) \cup tags \in SUBSET BytesIn(t, N)
    <3>1. \A i \in W : <<i, 0>> \in {i} \X (0 .. t.text[i])
      BY DEF HasFields
    <3>2. QED
      BY <3>1 DEF BytesIn
  <2>3. BytesIn(t, S) \cap tags = {}
    BY DEF BytesIn
  <2> HIDE DEF tags
  <2>4. Cardinality(BytesIn(t, S) \cup tags) = Cardinality(BytesIn(t, S)) + Cardinality(W)
    BY <1>2, <2>1, <2>3, DisjointUnion
  <2>5. QED
    BY <1>2, <2>2, <2>4, FS_Subset
<1>8. Weight(t, S).depth <= Weight(t, N).depth
  <2>1. CASE Weight(t, S).depth = 0
    BY <2>1, <1>3
  <2>2. CASE Weight(t, S).depth # 0
    <3>1. PICK i \in S : Weight(t, S).depth = t.level[i]
      BY <2>2, <1>3
    <3>2. QED
      BY <3>1, <1>3
  <2>3. QED
    BY <2>1, <2>2
<1>9. Cardinality(W) \in Nat
  BY <1>2, FS_CardinalityType
<1> HIDE DEF N
<1>10. QED
  <2>1. Measure(t) = Weight(t, N)
    BY DEF Measure, N
  <2>2. /\ Weight(t, S).nodes = Cardinality(S) /\ Weight(t, N).nodes = Cardinality(N)
        /\ Weight(t, S).items = Cardinality(PlacesIn(t, S))
        /\ Weight(t, N).items = Cardinality(PlacesIn(t, N))
        /\ Weight(t, S).bytes = Cardinality(BytesIn(t, S))
        /\ Weight(t, N).bytes = Cardinality(BytesIn(t, N))
    BY DEF Weight
  <2>3. QED
    BY <1>3, <1>4, <1>5, <1>6, <1>7, <1>8, <1>9, <2>1, <2>2

-----------------------------------------------------------------------------
(* Walks *)

\* Where a walk stands: of a tree, V was visited and P is to be visited, which
\* are the root and whatever the visited nodes hold.
Frontier(t, V, P) ==
  /\ V \in SUBSET NodesOf(t) /\ P \in SUBSET NodesOf(t)
  /\ V \cap P = {}
  /\ 1 \in V \cup P
  /\ \A p \in PlacesIn(t, NodesOf(t)) : At(t, p) \in V \cup P <=> p[1] \in V

\* What a node holds.
Held(t, i) == {t.kids[i][k] : k \in 1 .. Len(t.kids[i])}

\* The places of a tree and the nodes in them.
LEMMA PlaceOf ==
  ASSUME NEW t, HasFields(t), NEW i \in NodesOf(t), NEW k \in 1 .. Len(t.kids[i])
  PROVE  /\ <<i, k>> \in PlacesIn(t, NodesOf(t))
         /\ <<i, k>>[1] = i /\ At(t, <<i, k>>) = t.kids[i][k]
         /\ t.kids[i][k] \in NodesOf(t)
BY KidsType DEF PlacesIn, At

\* ... of which there are no others.
LEMMA PlacesAre ==
  ASSUME NEW t, HasFields(t), NEW p \in PlacesIn(t, NodesOf(t))
  PROVE  \E i \in NodesOf(t) : \E k \in 1 .. Len(t.kids[i]) :
           p = <<i, k>> /\ p[1] = i /\ At(t, p) = t.kids[i][k]
<1>1. PICK i \in NodesOf(t) : p \in {i} \X DOMAIN t.kids[i]
  BY DEF PlacesIn
<1>2. PICK k \in 1 .. Len(t.kids[i]) : p = <<i, k>>
  BY <1>1, KidsType
<1>3. QED
  BY <1>2 DEF At

\* The root is nobody's child, and a node is the child of one only, once.
LEMMA KidsDistinct ==
  ASSUME NEW t, IsTree(t), NEW i \in NodesOf(t), NEW k \in 1 .. Len(t.kids[i])
  PROVE  /\ t.kids[i][k] # 1
         /\ t.level[t.kids[i][k]] = t.level[i] + 1
         /\ \A j \in NodesOf(t) : \A l \in 1 .. Len(t.kids[j]) :
              t.kids[i][k] = t.kids[j][l] => i = j /\ k = l
<1>0. HasFields(t)
  BY DEF IsTree
<1>1. t.level[t.kids[i][k]] = t.level[i] + 1
  <2> DEFINE p == <<i, k>>
  <2>1. p \in PlacesIn(t, NodesOf(t)) /\ p[1] = i /\ At(t, p) = t.kids[i][k]
    BY <1>0, PlaceOf
  <2> HIDE DEF p
  <2>2. t.level[At(t, p)] = t.level[p[1]] + 1
    BY <2>1 DEF IsTree
  <2>3. QED
    BY <2>1, <2>2
<1>2. t.level[i] \in Nat \ {0} /\ t.level[1] = 1
  BY DEF IsTree, HasFields
<1>3. ASSUME NEW j \in NodesOf(t), NEW l \in 1 .. Len(t.kids[j]),
             t.kids[i][k] = t.kids[j][l]
      PROVE  i = j /\ k = l
  <2> DEFINE p == <<i, k>>
             q == <<j, l>>
  <2>1. /\ p \in PlacesIn(t, NodesOf(t)) /\ At(t, p) = t.kids[i][k]
        /\ q \in PlacesIn(t, NodesOf(t)) /\ At(t, q) = t.kids[j][l]
    BY <1>0, PlaceOf
  <2> HIDE DEF p, q
  <2>2. p = q
    BY <1>3, <2>1 DEF IsTree
  <2>3. QED
    BY <2>2 DEF p, q
<1>4. QED
  BY <1>1, <1>2, <1>3

\* A set with the root and with what its nodes hold is the whole tree: of the
\* nodes it lacked, one on the least level would be held by a node it has.
LEMMA ClosedIsAll ==
  ASSUME NEW t, IsTree(t), NEW S \in SUBSET NodesOf(t), 1 \in S,
         \A i \in S : \A k \in 1 .. Len(t.kids[i]) : t.kids[i][k] \in S
  PROVE  S = NodesOf(t)
<1>0. HasFields(t)
  BY DEF IsTree
<1> SUFFICES ASSUME NodesOf(t) \ S # {} PROVE FALSE
  OBVIOUS
<1> DEFINE levels == {t.level[i] : i \in NodesOf(t) \ S}
<1>1. PICK n \in levels : \A m \in levels : n <= m
  <2>1. levels \in SUBSET Nat /\ levels # {}
    BY <1>0 DEF HasFields
  <2> HIDE DEF levels
  <2>2. QED
    BY <2>1, LeastNatural
<1>2. PICK j \in NodesOf(t) \ S : t.level[j] = n
  BY <1>1
<1>3. PICK p \in PlacesIn(t, NodesOf(t)) : At(t, p) = j
  BY <1>2 DEF IsTree
<1>4. PICK i \in NodesOf(t) : \E k \in 1 .. Len(t.kids[i]) : t.kids[i][k] = j
  BY <1>0, <1>3, PlacesAre
<1>5. t.level[j] = t.level[i] + 1
  BY <1>4, KidsDistinct
<1>6. i \in S
  <2>1. t.level[i] \in Nat
    BY <1>0 DEF HasFields
  <2>2. ~(n <= t.level[i])
    BY <1>2, <1>5, <2>1
  <2>3. QED
    BY <1>1, <2>2
<1>7. QED
  BY <1>2, <1>4, <1>6

\* A walk starts at the root.
LEMMA FrontierStart ==
  ASSUME NEW t, IsTree(t)
  PROVE  Frontier(t, {}, {1})
<1>1. HasFields(t)
  BY DEF IsTree
<1>2. \A p \in PlacesIn(t, NodesOf(t)) : At(t, p) # 1
  BY <1>1, PlacesAre, KidsDistinct
<1>3. QED
  BY <1>1, <1>2 DEF Frontier, HasFields

\* It goes on by visiting a node and scheduling what it holds, none of which it
\* has met before.
LEMMA FrontierStep ==
  ASSUME NEW t, IsTree(t), NEW V, NEW P, Frontier(t, V, P), NEW i \in P
  PROVE  /\ Held(t, i) \in SUBSET NodesOf(t)
         /\ Held(t, i) \cap (V \cup P) = {}
         /\ IsFiniteSet(Held(t, i)) /\ Cardinality(Held(t, i)) = Len(t.kids[i])
         /\ Frontier(t, V \cup {i}, (P \ {i}) \cup Held(t, i))
<1> DEFINE held == {t.kids[i][k] : k \in 1 .. Len(t.kids[i])}
<1>0. HasFields(t) /\ i \in NodesOf(t) /\ i \notin V
  BY DEF IsTree, Frontier
<1>1. held \in SUBSET NodesOf(t)
  BY <1>0, KidsType
<1>2. held \cap (V \cup P) = {}
  <2> SUFFICES ASSUME NEW k \in 1 .. Len(t.kids[i]), t.kids[i][k] \in V \cup P
               PROVE  FALSE
    OBVIOUS
  <2> DEFINE p == <<i, k>>
  <2>1. p \in PlacesIn(t, NodesOf(t)) /\ p[1] = i /\ At(t, p) = t.kids[i][k]
    BY <1>0, PlaceOf
  <2> HIDE DEF p
  <2>2. i \in V
    BY <2>1 DEF Frontier
  <2>3. QED
    BY <1>0, <2>2
<1>3. IsFiniteSet(held) /\ Cardinality(held) = Len(t.kids[i])
  <2>1. Len(t.kids[i]) \in Nat
    BY <1>0, KidsType
  <2>2. \A k, l \in 1 .. Len(t.kids[i]) : t.kids[i][k] = t.kids[i][l] => k = l
    BY <1>0, KidsDistinct
  <2> DEFINE f == t.kids[i]
             n == Len(t.kids[i])
  <2>3. /\ n \in Nat /\ \A k, l \in 1 .. n : f[k] = f[l] => k = l
        /\ \A k \in 1 .. n : f[k] \in held
        /\ \A x \in held : \E k \in 1 .. n : x = f[k]
    BY <2>1, <2>2
  <2> HIDE DEF held, f, n
  <2>4. IsFiniteSet(held) /\ Cardinality(held) = n
    BY <2>3, DistinctValues, Zenon
  <2>5. QED
    BY <2>4 DEF n
<1>4. Frontier(t, V \cup {i}, (P \ {i}) \cup held)
  <2>1. ASSUME NEW p \in PlacesIn(t, NodesOf(t))
        PROVE  At(t, p) \in (V \cup {i}) \cup ((P \ {i}) \cup held)
                 <=> p[1] \in V \cup {i}
    <3>1. PICK j \in NodesOf(t) : \E k \in 1 .. Len(t.kids[j]) :
            p[1] = j /\ At(t, p) = t.kids[j][k]
      BY <1>0, PlacesAre
    <3>2. At(t, p) \in held <=> j = i
      <4>1. ASSUME At(t, p) \in held PROVE j = i
        <5>1. \E l \in 1 .. Len(t.kids[i]) : t.kids[i][l] = At(t, p)
          BY <4>1
        <5>2. QED
          BY <1>0, <3>1, <5>1, KidsDistinct
      <4>2. QED
        BY <3>1, <4>1
    <3>3. At(t, p) \in V \cup P <=> j \in V
      BY <3>1 DEF Frontier
    <3> HIDE DEF held
    <3>4. QED
      BY <3>1, <3>2, <3>3
  <2> HIDE DEF held
  <2>2. QED
    BY <1>0, <1>1, <1>2, <2>1 DEF Frontier
<1>5. held = Held(t, i)
  BY DEF Held
<1> HIDE DEF held
<1>6. QED
  BY <1>1, <1>2, <1>3, <1>4, <1>5

\* When nothing is left to visit the walk has visited the whole tree.
LEMMA FrontierEnd ==
  ASSUME NEW t, IsTree(t), NEW V, Frontier(t, V, {})
  PROVE  V = NodesOf(t)
<1>0. HasFields(t) /\ V \in SUBSET NodesOf(t)
  BY DEF IsTree, Frontier
<1>1. ASSUME NEW i \in V, NEW k \in 1 .. Len(t.kids[i]) PROVE t.kids[i][k] \in V
  <2> DEFINE p == <<i, k>>
  <2>1. p \in PlacesIn(t, NodesOf(t)) /\ p[1] = i /\ At(t, p) = t.kids[i][k]
    BY <1>0, PlaceOf
  <2> HIDE DEF p
  <2>2. At(t, p) \in V \cup {}
    BY <2>1 DEF Frontier
  <2>3. QED
    BY <2>1, <2>2
<1>2. 1 \in V
  BY DEF Frontier
<1>3. QED
  BY <1>0, <1>1, <1>2, ClosedIsAll

-----------------------------------------------------------------------------
(* Sequences, whatever they are made of *)

ElementsOf(s) == {s[k] : k \in 1 .. Len(s)}
IsList(s) == s \in Seq(ElementsOf(s))

\* A sequence of anything is a list.
LEMMA ListIn ==
  ASSUME NEW S, NEW s \in Seq(S)
  PROVE  IsList(s)
<1> DEFINE T == ElementsOf(s)
           n == Len(s)
<1>1. n \in Nat /\ s = [k \in 1 .. n |-> s[k]]
  BY LenProperties
<1>2. \A k \in 1 .. n : s[k] \in T
  BY DEF ElementsOf
<1> HIDE DEF T, n
<1>3. [k \in 1 .. n |-> s[k]] \in Seq(T)
  BY <1>1, <1>2, IsASeq
<1>4. QED
  BY <1>1, <1>3 DEF T, IsList

\* What a list is.
LEMMA ListIs ==
  ASSUME NEW s, IsList(s)
  PROVE  /\ Len(s) \in Nat /\ DOMAIN s = 1 .. Len(s)
         /\ \A k \in 1 .. Len(s) : s[k] \in ElementsOf(s)
<1> DEFINE T == ElementsOf(s)
<1>1. s \in Seq(T)
  BY DEF IsList
<1> HIDE DEF T
<1>2. Len(s) \in Nat /\ DOMAIN s = 1 .. Len(s)
  BY <1>1, LenProperties
<1>3. QED
  BY <1>2 DEF ElementsOf

\* Two lists share a set of elements.
LEMMA ListsTogether ==
  ASSUME NEW s, NEW t, IsList(s), IsList(t)
  PROVE  \E S : s \in Seq(S) /\ t \in Seq(S)
<1> DEFINE A == ElementsOf(s)
           B == ElementsOf(t)
           S == A \cup B
<1>1. s \in Seq(A) /\ t \in Seq(B)
  BY DEF IsList
<1> HIDE DEF A, B
<1>2. s \in Seq(S)
  BY <1>1, SeqMonotonic
<1>3. t \in Seq(S)
  BY <1>1, SeqMonotonic
<1>4. QED
  BY <1>2, <1>3

\* Lists of the same elements are the same.
LEMMA ListsEqual ==
  ASSUME NEW s, NEW t, IsList(s), IsList(t), Len(s) = Len(t),
         \A k \in 1 .. Len(s) : s[k] = t[k]
  PROVE  s = t
<1>1. PICK S : s \in Seq(S) /\ t \in Seq(S)
  BY ListsTogether
<1>2. QED
  BY <1>1, SeqEqual

\* One list after another.
LEMMA ListConcat ==
  ASSUME NEW s, NEW t, IsList(s), IsList(t)
  PROVE  /\ IsList(s \o t)
         /\ Len(s \o t) = Len(s) + Len(t)
         /\ \A k \in 1 .. Len(s) : (s \o t)[k] = s[k]
         /\ \A k \in 1 .. Len(t) : (s \o t)[Len(s) + k] = t[k]
<1>1. PICK S : s \in Seq(S) /\ t \in Seq(S)
  BY ListsTogether
<1> DEFINE a == Len(s)
           b == Len(t)
           u == s \o t
<1>2. /\ u \in Seq(S) /\ Len(u) = a + b
      /\ \A k \in 1 .. a + b : u[k] = IF k <= a THEN s[k] ELSE t[k - a]
  BY <1>1, ConcatProperties
<1>3. a \in Nat /\ b \in Nat
  BY <1>1, LenProperties
<1>4. IsList(u)
  BY <1>2, ListIn
<1> HIDE DEF a, b, u
<1>5. \A k \in 1 .. a : u[k] = s[k]
  BY <1>2, <1>3
<1>6. ASSUME NEW k \in 1 .. b PROVE u[a + k] = t[k]
  <2>1. a + k \in 1 .. a + b /\ ~(a + k <= a) /\ (a + k) - a = k
    BY <1>3
  <2>2. QED
    BY <1>2, <2>1
<1>7. QED
  BY <1>2, <1>4, <1>5, <1>6 DEF a, b, u

\* A list and one element more.
LEMMA ListAppend ==
  ASSUME NEW s, IsList(s), NEW x
  PROVE  /\ IsList(Append(s, x))
         /\ Len(Append(s, x)) = Len(s) + 1
         /\ \A k \in 1 .. Len(s) : Append(s, x)[k] = s[k]
         /\ Append(s, x)[Len(s) + 1] = x
<1> DEFINE A == ElementsOf(s)
           S == A \cup {x}
           n == Len(s)
           u == Append(s, x)
<1>1. s \in Seq(A)
  BY DEF IsList
<1> HIDE DEF A
<1>2. s \in Seq(S) /\ x \in S
  BY <1>1, SeqMonotonic
<1> HIDE DEF S
<1>3. /\ u \in Seq(S) /\ Len(u) = n + 1
      /\ \A k \in 1 .. n : u[k] = s[k]
      /\ u[n + 1] = x
  BY <1>2, AppendProperties
<1>4. IsList(u)
  BY <1>3, ListIn
<1>5. QED
  BY <1>3, <1>4

\* Part of a list.
LEMMA ListPart ==
  ASSUME NEW s, IsList(s), NEW a \in Nat \ {0}, NEW b \in Nat, a <= b + 1, b <= Len(s)
  PROVE  /\ IsList(SubSeq(s, a, b))
         /\ Len(SubSeq(s, a, b)) = b + 1 - a
         /\ \A k \in 1 .. b + 1 - a : SubSeq(s, a, b)[k] = s[a + k - 1]
<1> DEFINE S == ElementsOf(s)
           n == Len(s)
           u == SubSeq(s, a, b)
<1>1. n \in Nat /\ \A k \in 1 .. n : s[k] \in S
  BY ListIs
<1>2. \A k \in a .. b : s[k] \in S
  BY <1>1
<1> HIDE DEF S
<1>3. /\ u \in Seq(S) /\ Len(u) = IF a <= b THEN b - a + 1 ELSE 0
      /\ \A k \in 1 .. b - a + 1 : u[k] = s[a + k - 1]
  BY <1>2, SubSeqProperties
<1>4. IsList(u)
  BY <1>3, ListIn
<1> HIDE DEF u
<1>5. Len(u) = b + 1 - a /\ b - a + 1 = b + 1 - a
  BY <1>3
<1>6. QED
  BY <1>3, <1>4, <1>5 DEF u

\* Its beginning.
LEMMA ListStart ==
  ASSUME NEW s, IsList(s), NEW n \in Nat, n <= Len(s)
  PROVE  /\ IsList(SubSeq(s, 1, n)) /\ Len(SubSeq(s, 1, n)) = n
         /\ \A k \in 1 .. n : SubSeq(s, 1, n)[k] = s[k]
<1> DEFINE a == 1
<1>1. a \in Nat \ {0} /\ a <= n + 1 /\ n + 1 - a = n /\ \A k \in 1 .. n : a + k - 1 = k
  OBVIOUS
<1> HIDE DEF a
<1>2. /\ IsList(SubSeq(s, a, n))
      /\ Len(SubSeq(s, a, n)) = n + 1 - a
      /\ \A k \in 1 .. n + 1 - a : SubSeq(s, a, n)[k] = s[a + k - 1]
  BY <1>1, ListPart
<1>3. /\ IsList(SubSeq(s, a, n)) /\ Len(SubSeq(s, a, n)) = n
      /\ \A k \in 1 .. n : SubSeq(s, a, n)[k] = s[k]
  BY <1>1, <1>2
<1>4. QED
  BY <1>3 DEF a

\* Reversing a sequence keeps its length and its elements.
LEMMA Reversed ==
  ASSUME NEW S, NEW s \in Seq(S)
  PROVE  /\ Len(s) \in Nat
         /\ Reverse(s) \in Seq(S) /\ Len(Reverse(s)) = Len(s)
         /\ \A k \in 1 .. Len(s) : /\ Reverse(s)[k] = s[Len(s) - k + 1]
                                   /\ Len(s) - k + 1 \in 1 .. Len(s)
<1>1. Len(s) \in Nat /\ \A i \in 1 .. Len(s) : s[i] \in S
  BY ElementOfSeq, LenProperties
<1>2. Reverse(s) = [i \in 1 .. Len(s) |-> s[(Len(s) - i) + 1]]
  BY DEF Reverse
<1>3. \A i \in 1 .. Len(s) : s[(Len(s) - i) + 1] \in S
  BY <1>1
<1>4. [i \in 1 .. Len(s) |-> s[(Len(s) - i) + 1]] \in Seq(S)
  BY <1>1, <1>3, IsASeq
<1>5. Reverse(s) \in Seq(S) /\ Len(Reverse(s)) = Len(s)
  BY <1>1, <1>2, <1>4, LenProperties
<1>6. QED
  BY <1>1, <1>2, <1>5

-----------------------------------------------------------------------------
(* Subtrees *)

\* A subtree is its root and the subtrees of what the root holds.
LEMMA SubtreeIs ==
  ASSUME NEW t, HasFields(t), NEW i \in NodesOf(t)
  PROVE  Subtree(t, i) =
           {i} \cup UNION {Subtree(t, t.kids[i][k]) : k \in 1 .. Len(t.kids[i])}
<1> DEFINE below == UNION {Subtree(t, t.kids[i][k]) : k \in 1 .. Len(t.kids[i])}
           N == NodesOf(t)
<1>1. ASSUME NEW S \in SUBSET N, Closed(t, S), NEW x \in S,
             NEW k \in 1 .. Len(t.kids[x])
      PROVE  t.kids[x][k] \in S
  BY <1>1, KidsType DEF Closed, ToSet
<1>2. ASSUME NEW S \in SUBSET N,
             \A x \in S : \A k \in 1 .. Len(t.kids[x]) : t.kids[x][k] \in S
      PROVE  Closed(t, S)
  BY <1>2, KidsType DEF Closed, ToSet
<1>3. \A j \in N : Subtree(t, j) \in SUBSET N /\ j \in Subtree(t, j)
  BY DEF Subtree
<1>4. \A k \in 1 .. Len(t.kids[i]) : t.kids[i][k] \in N
  BY KidsType
<1>5. ASSUME NEW j \in N PROVE Closed(t, Subtree(t, j))
  <2> SUFFICES ASSUME NEW x \in Subtree(t, j), NEW k \in 1 .. Len(t.kids[x])
               PROVE  t.kids[x][k] \in Subtree(t, j)
    BY <1>2, <1>3
  <2>1. x \in N /\ t.kids[x][k] \in N
    BY <1>3, KidsType
  <2>2. ASSUME NEW S \in SUBSET N, j \in S, Closed(t, S) PROVE t.kids[x][k] \in S
    <3>1. x \in S
      BY <2>2 DEF Subtree
    <3>2. QED
      BY <1>1, <2>2, <3>1
  <2>3. QED
    BY <2>1, <2>2 DEF Subtree
<1>6. below \in SUBSET N
  BY <1>3, <1>4
<1>7. {i} \cup below \subseteq Subtree(t, i)
  <2>1. ASSUME NEW k \in 1 .. Len(t.kids[i]), NEW j \in Subtree(t, t.kids[i][k])
        PROVE  j \in Subtree(t, i)
    <3>1. j \in N
      BY <1>3, <1>4
    <3>2. ASSUME NEW S \in SUBSET N, i \in S, Closed(t, S) PROVE j \in S
      <4>1. t.kids[i][k] \in S
        BY <1>1, <3>2
      <4>2. QED
        BY <3>2, <4>1 DEF Subtree
    <3>3. QED
      BY <3>1, <3>2 DEF Subtree
  <2>2. QED
    BY <1>3, <2>1
<1>8. Subtree(t, i) \subseteq {i} \cup below
  <2> DEFINE S == {i} \cup below
  <2>1. ASSUME NEW x \in S, NEW k \in 1 .. Len(t.kids[x]) PROVE t.kids[x][k] \in S
    <3>1. CASE x = i
      BY <1>3, <1>4, <3>1
    <3>2. CASE x # i
      <4>1. PICK l \in 1 .. Len(t.kids[i]) : x \in Subtree(t, t.kids[i][l])
        BY <3>2
      <4>2. t.kids[x][k] \in Subtree(t, t.kids[i][l])
        BY <1>1, <1>3, <1>4, <1>5, <4>1
      <4>3. QED
        BY <4>2
    <3>3. QED
      BY <3>1, <3>2
  <2>2. S \in SUBSET N /\ i \in S
    BY <1>6
  <2> HIDE DEF S
  <2>3. Closed(t, S)
    BY <1>2, <2>1, <2>2
  <2>4. Subtree(t, i) \subseteq S
    BY <2>2, <2>3 DEF Subtree
  <2>5. QED
    BY <2>4 DEF S
<1>9. QED
  BY <1>7, <1>8

-----------------------------------------------------------------------------
(* Verdicts *)

\* What FirstFailure names is the reason of a check that fails.
LEMMA FailureFails ==
  ASSUME NEW checks, NEW n \in Nat, DOMAIN checks = 1 .. n, ~AllHold(checks)
  PROVE  \E k \in 1 .. n : ~checks[k][1] /\ FirstFailure(checks) = checks[k][2]
<1> DEFINE failing == {k \in 1 .. n : ~checks[k][1]}
<1>1. failing \in SUBSET Nat /\ failing # {}
  BY DEF AllHold
<1>2. PICK k \in failing : \A l \in failing : k <= l
  <2> HIDE DEF failing
  <2>1. QED
    BY <1>1, LeastNatural
<1>3. Min(failing) \in failing
  BY <1>2 DEF Min
<1>4. FirstFailure(checks) = checks[Min(failing)][2]
  BY DEF FirstFailure
<1>5. QED
  BY <1>3, <1>4

\* Which limits a tree is over.
LEMMA OverrunsAre ==
  ASSUME NEW t, NEW l
  PROVE  /\ Measure(t).depth > DepthLimit(l) <=> "depth" \in Overruns(t, l)
         /\ Measure(t).nodes > l.nodes <=> "nodes" \in Overruns(t, l)
         /\ Measure(t).items > l.items <=> "items" \in Overruns(t, l)
         /\ Measure(t).bytes > l.bytes <=> "bytes" \in Overruns(t, l)
         /\ (\E i \in NodesOf(t) : t.kind[i] = "string" /\ t.text[i] > l.string)
               <=> "string" \in Overruns(t, l)
         /\ (\E i \in NodesOf(t) : t.kind[i] = "bad") <=> "leaf" \in Overruns(t, l)
         /\ Overruns(t, l) \subseteq {"depth", "nodes", "items", "bytes", "string", "leaf"}
BY DEF Overruns
=============================================================================
