------------------------ MODULE GraphConversionProofs ------------------------
(***************************************************************************)
(* For every tree and every limit: the counter of pending values is right, *)
(* an accepted conversion has the shape of its input, a rejected one hands *)
(* all but a leaf in hand to the drain, and what either answers is what a  *)
(* look at the whole graph would answer.                                   *)
(***************************************************************************)
EXTENDS GraphConversion, ValueTreeLemmas

-----------------------------------------------------------------------------
(* The pending stack *)

ValueEntries(t) == [work : {"value"}, node : NodesOf(t), depth : Nat]
FinishEntries(t) == [work : {"finish"}, start : Nat, node : NodesOf(t)]
Entries(t) == ValueEntries(t) \cup FinishEntries(t)

\* The values among the entries, and their nodes.
Waiting(s) == {k \in 1 .. Len(s) : s[k].work = "value"}
Named(s) == {s[k].node : k \in Waiting(s)}

\* Of what entry h will finish entry k is a part: h is the next marker below k.
Holds(s, h, k) ==
  /\ h < k /\ s[h].work = "finish"
  /\ \A m \in 1 .. Len(s) : h < m /\ m < k => s[m].work = "value"

\* Which part: those above k are still to be converted.
Part(t, s, h, k) == Len(t.kids[s[h].node]) + h + 1 - k

\* A stack of open containers: between a marker and the next one are the parts
\* of the first that were not begun; a marker starts where its own value goes.
Nested(t, s) ==
  /\ s \in Seq(Entries(t))
  /\ \A k \in 1 .. Len(s) :
       /\ s[k].work = "value" => s[k].depth = t.level[s[k].node]
       /\ s[k].work = "finish" => t.kids[s[k].node] # <<>>
  /\ s # <<>> => s[1].node = 1 /\ (s[1].work = "finish" => s[1].start = 0)
  /\ \A k \in 2 .. Len(s) : \E h \in 1 .. Len(s) : Holds(s, h, k)
  /\ \A h, k \in 1 .. Len(s) : Holds(s, h, k) =>
       /\ Part(t, s, h, k) \in 1 .. Len(t.kids[s[h].node])
       /\ s[k].node = t.kids[s[h].node][Part(t, s, h, k)]
       /\ s[k].work = "finish" => s[k].start + 1 = s[h].start + Part(t, s, h, k)

\* The value made of the top entry goes to place p.
Lands(t, s, p) ==
  /\ Len(s) = 1 => p = 1
  /\ \A h \in 1 .. Len(s) :
       Holds(s, h, Len(s)) => p = s[h].start + Part(t, s, h, Len(s))

\* There are n finished values: those below the place of the top entry, and
\* under a marker on top all it collects.
Ready(t, s, n) ==
  s # <<>> =>
    LET top == s[Len(s)]
    IN  IF top.work = "value" THEN Lands(t, s, n + 1)
        ELSE n = top.start + Len(t.kids[top.node])

\* The finished values above a marker and below the next are the parts it has.
Filled(t, s, done) ==
  \A h \in 1 .. Len(s) : s[h].work = "finish" =>
    \A p \in 1 .. Len(done) :
      /\ s[h].start < p
      /\ \A k \in 1 .. Len(s) : h < k /\ s[k].work = "finish" => p <= s[k].start
      => done[p] = Image(t)[t.kids[s[h].node][p - s[h].start]]

\* The leaves under a node; every leaf is under a pending value or in a
\* finished one.
LeavesIn(t, i) == {j \in Subtree(t, i) : t.kids[j] = <<>>}
LeavesDone(done) == UNION {done[p].leaves : p \in 1 .. Len(done)}
Covered(t, s, done) ==
  LeavesIn(t, 1) = (UNION {LeavesIn(t, j) : j \in Named(s)}) \cup LeavesDone(done)

Shape ==
  /\ tree \in Trees
  /\ verdict = "running" =>
       /\ Nested(tree, pending)
       /\ IsList(values)
       /\ Ready(tree, pending, Len(values))
       /\ Filled(tree, pending, values)
       /\ Covered(tree, pending, values)
       /\ pending = <<>> => values = <<Image(tree)[1]>>
       /\ pendingValues = Cardinality(Waiting(pending))
  /\ verdict = "accepted" => values = <<Image(tree)[1]>>

\* Different entries for different nodes, those of the tree not yet visited.
Walked(V) ==
  /\ Frontier(tree, V, Named(pending))
  /\ metrics = Weight(tree, V)
  /\ \A i \in V : tree.kind[i] # "bad"

Distinct(s) == \A k, l \in Waiting(s) : s[k].node = s[l].node => k = l

WithinLimits ==
  /\ metrics.depth <= DepthLimit(limits)
  /\ metrics.nodes <= limits.nodes
  /\ metrics.items <= limits.items
  /\ metrics.bytes <= limits.bytes

Metered ==
  /\ limits \in LimitSets
  /\ verdict = "running" =>
       /\ Distinct(pending)
       /\ \E V \in SUBSET NodesOf(tree) : Walked(V)
       /\ WithinLimits

IInv == Shape /\ Metered

-----------------------------------------------------------------------------
(* Images *)

\* What a node becomes, given its parts, or what all nodes become.
Assembled(t, i, parts) ==
  [kind |-> t.kind[i],
   label |-> IF t.kind[i] = "array" /\ t.kids[i] # <<>> THEN 0 ELSE i,
   kids |-> parts,
   leaves |-> IF t.kids[i] = <<>> THEN {i}
              ELSE UNION {parts[k].leaves : k \in DOMAIN parts}]
Made(t, f, i) == Assembled(t, i, [k \in DOMAIN t.kids[i] |-> f[t.kids[i][k]]])

\* The nodes below the first b levels, and an image of those.
Below(t, b) == {i \in NodesOf(t) : t.level[i] > b}
Images(t, b, g) == g = [i \in Below(t, b) |-> Made(t, g, i)]

\* An image of some levels gives one of a level more: parts are one below.
LEMMA ImageStep ==
  ASSUME NEW t, IsTree(t), NEW b \in Nat, NEW g, Images(t, b + 1, g)
  PROVE  \E f : Images(t, b, f)
<1> DEFINE D == Below(t, b)
           E == Below(t, b + 1)
           f == [i \in D |-> Made(t, g, i)]
<1>0. HasFields(t)
  BY DEF IsTree
<1>1. E \subseteq D
  BY <1>0 DEF Below, HasFields
<1>2. \A i \in E : f[i] = g[i]
  <2>1. \A i \in E : g[i] = Made(t, g, i)
    BY DEF Images
  <2>2. QED
    BY <1>1, <2>1
<1>3. ASSUME NEW i \in D, NEW k \in DOMAIN t.kids[i] PROVE t.kids[i][k] \in E
  <2>1. i \in NodesOf(t) /\ t.level[i] > b /\ t.level[i] \in Nat
    BY <1>0 DEF Below, HasFields
  <2>2. k \in 1 .. Len(t.kids[i]) /\ t.kids[i][k] \in NodesOf(t)
    BY <1>0, <2>1, KidsType
  <2>3. t.level[t.kids[i][k]] = t.level[i] + 1
    BY <2>1, <2>2, KidsDistinct
  <2>4. QED
    BY <2>1, <2>2, <2>3 DEF Below
<1>4. ASSUME NEW i \in D PROVE Made(t, g, i) = Made(t, f, i)
  <2> HIDE DEF f, E, D
  <2>1. \A k \in DOMAIN t.kids[i] : f[t.kids[i][k]] = g[t.kids[i][k]]
    BY <1>2, <1>3
  <2>2. [k \in DOMAIN t.kids[i] |-> f[t.kids[i][k]]]
          = [k \in DOMAIN t.kids[i] |-> g[t.kids[i][k]]]
    BY <2>1
  <2>3. QED
    BY <2>2 DEF Made
<1>5. f = [i \in D |-> Made(t, f, i)]
  <2>1. \A i \in D : f[i] = Made(t, f, i)
    BY <1>4
  <2>2. f = [i \in D |-> f[i]]
    OBVIOUS
  <2> HIDE DEF f
  <2>3. QED
    BY <2>1, <2>2
<1>6. QED
  BY <1>5 DEF Images

\* The recursion of Image has a solution, from the deepest level up.
LEMMA ImageIs ==
  ASSUME NEW t, IsTree(t), NEW i \in NodesOf(t)
  PROVE  Image(t)[i] = Made(t, Image(t), i)
<1> DEFINE N == NodesOf(t)
           L == {0} \cup {t.level[j] : j \in N}
<1>0. HasFields(t)
  BY DEF IsTree
<1>1. PICK b \in Nat : \A x \in L : x <= b
  <2>1. N \in SUBSET NodesOf(t)
    OBVIOUS
  <2>2. IsFiniteSet(L) /\ L \in SUBSET Nat
    BY <1>0, <2>1, PartsFinite
  <2> HIDE DEF L
  <2>3. QED
    BY <2>2, FiniteBounded
<1> DEFINE Solved == {d \in 0 .. b : \E g : Images(t, b - d, g)}
<1>2. 0 \in Solved
  <2>1. Below(t, b) = {}
    <3>1. ASSUME NEW j \in N PROVE ~(t.level[j] > b)
      <4>1. t.level[j] \in Nat
        BY <1>0 DEF HasFields
      <4>2. t.level[j] <= b
        BY <1>1
      <4>3. QED
        BY <4>1, <4>2
    <3>2. QED
      BY <3>1 DEF Below
  <2>2. b - 0 = b
    BY <1>1
  <2> DEFINE none == [j \in {} |-> 0]
  <2>3. none = [j \in {} |-> Made(t, none, j)]
    OBVIOUS
  <2> HIDE DEF none
  <2>4. Images(t, b, none)
    BY <2>1, <2>3 DEF Images
  <2>5. QED
    BY <1>1, <2>2, <2>4
<1>3. ASSUME NEW d \in 1 .. b, d - 1 \in Solved PROVE d \in Solved
  <2>1. PICK g : Images(t, b - (d - 1), g)
    BY <1>3
  <2>2. b - (d - 1) = (b - d) + 1 /\ b - d \in Nat
    BY <1>1
  <2>3. \E f : Images(t, b - d, f)
    BY <2>1, <2>2, ImageStep
  <2>4. QED
    BY <1>1, <2>3
<1>4. b \in Solved
  <2> HIDE DEF Solved
  <2>1. b \in 0 .. b
    BY <1>1
  <2>2. QED
    BY <1>1, <1>2, <1>3, <2>1, UpTo
<1>5. PICK g : g = [j \in N |-> Made(t, g, j)]
  <2>1. PICK g : Images(t, b - b, g)
    BY <1>4
  <2>2. b - b = 0
    BY <1>1
  <2>3. Below(t, 0) = N
    BY <1>0 DEF Below, HasFields
  <2>4. QED
    BY <2>1, <2>2, <2>3 DEF Images
<1>6. Image(t) = CHOOSE f : f = [j \in N |-> Made(t, f, j)]
  BY DEF Image, Made, Assembled
<1>7. Image(t) = [j \in N |-> Made(t, Image(t), j)]
  <2> DEFINE Is(f) == f = [j \in N |-> Made(t, f, j)]
  <2>1. Is(g) /\ Image(t) = CHOOSE f : Is(f)
    BY <1>5, <1>6
  <2> HIDE DEF Is
  <2>2. Is(Image(t))
    BY <2>1
  <2>3. QED
    BY <2>2 DEF Is
<1> DEFINE h == Image(t)
<1>8. h = [j \in N |-> Made(t, h, j)]
  BY <1>7
<1> HIDE DEF h
<1>9. h[i] = Made(t, h, i)
  BY <1>8
<1>10. QED
  BY <1>9 DEF h

-----------------------------------------------------------------------------
(* Popping an entry, and opening a container *)

TopOf(s) == s[Len(s)]
Under(s) == SubSeq(s, 1, Len(s) - 1)
PartWork(t, i, depth) ==
  LET children == Reverse(t.kids[i])
  IN  [k \in DOMAIN children |-> ValueWork(children[k], depth + 1)]
Opened(t, s, start) ==
  Append(Under(s), FinishWork(start, TopOf(s).node))
    \o PartWork(t, TopOf(s).node, TopOf(s).depth)

\* What an entry of a stack is.
LEMMA EntryIs ==
  ASSUME NEW t, NEW s \in Seq(Entries(t)), NEW k \in 1 .. Len(s)
  PROVE  /\ s[k].node \in NodesOf(t)
         /\ s[k].work = "value" \/ s[k].work = "finish"
         /\ s[k].work = "value" => s[k].depth \in Nat
         /\ s[k].work = "finish" => s[k].start \in Nat
<1>1. s[k] \in ValueEntries(t) \/ s[k] \in FinishEntries(t)
  BY ElementOfSeq DEF Entries
<1>2. QED
  BY <1>1 DEF ValueEntries, FinishEntries

\* Below the top the stack without it is the same.
LEMMA UnderIs ==
  ASSUME NEW t, NEW s \in Seq(Entries(t)), s # <<>>
  PROVE  /\ Len(s) \in Nat \ {0}
         /\ Under(s) \in Seq(Entries(t)) /\ Len(Under(s)) = Len(s) - 1
         /\ \A k \in 1 .. Len(s) - 1 : Under(s)[k] = s[k]
<1> DEFINE S == Entries(t)
           m == Len(s) - 1
<1>1. m \in Nat /\ Len(s) = m + 1 /\ Len(s) \in Nat \ {0}
  BY EmptySeq
<1>2. \A k \in 1 .. m : s[k] \in S
  BY <1>1, ElementOfSeq
<1> HIDE DEF m, S
<1>3. /\ SubSeq(s, 1, m) \in Seq(S)
      /\ Len(SubSeq(s, 1, m)) = IF 1 <= m THEN m - 1 + 1 ELSE 0
      /\ \A k \in 1 .. m - 1 + 1 : SubSeq(s, 1, m)[k] = s[1 + k - 1]
  BY <1>1, <1>2, SubSeqProperties
<1>4. /\ SubSeq(s, 1, m) \in Seq(S) /\ Len(SubSeq(s, 1, m)) = m
      /\ \A k \in 1 .. m : SubSeq(s, 1, m)[k] = s[k]
  BY <1>1, <1>3
<1>5. QED
  BY <1>1, <1>4 DEF m, S, Under

\* The work on the parts of a container, the last part first.
LEMMA PartWorkIs ==
  ASSUME NEW t, HasFields(t), NEW i \in NodesOf(t), NEW depth \in Nat
  PROVE  LET q == Len(t.kids[i])
         IN  /\ PartWork(t, i, depth) \in Seq(Entries(t))
             /\ Len(PartWork(t, i, depth)) = q
             /\ \A k \in 1 .. q : /\ q + 1 - k \in 1 .. q
                                  /\ PartWork(t, i, depth)[k]
                                       = ValueWork(t.kids[i][q + 1 - k], depth + 1)
<1> DEFINE q == Len(t.kids[i])
           S == Entries(t)
           children == Reverse(t.kids[i])
           w == PartWork(t, i, depth)
<1>1. /\ t.kids[i] \in Seq(NodesOf(t)) /\ q \in Nat
      /\ \A k \in 1 .. q : t.kids[i][k] \in NodesOf(t)
  BY KidsType
<1>2. /\ children \in Seq(NodesOf(t)) /\ Len(children) = q
      /\ \A k \in 1 .. q : children[k] = t.kids[i][q - k + 1]
  BY <1>1, Reversed
<1>3. DOMAIN children = 1 .. q
  BY <1>2, LenProperties
<1>4. ASSUME NEW k \in 1 .. q
      PROVE  /\ q + 1 - k \in 1 .. q
             /\ children[k] = t.kids[i][q + 1 - k]
             /\ ValueWork(children[k], depth + 1) \in S
  <2>1. q + 1 - k \in 1 .. q /\ q - k + 1 = q + 1 - k
    BY <1>1
  <2>2. children[k] \in NodesOf(t)
    BY <1>1, <1>2, <2>1
  <2>3. ValueWork(children[k], depth + 1) \in ValueEntries(t)
    BY <2>2 DEF ValueWork, ValueEntries
  <2>4. QED
    BY <1>2, <2>1, <2>3 DEF Entries
<1>5. w = [k \in 1 .. q |-> ValueWork(children[k], depth + 1)]
  BY <1>3 DEF PartWork
<1> HIDE DEF q, S, children, w
<1>6. [k \in 1 .. q |-> ValueWork(children[k], depth + 1)] \in Seq(S)
  BY <1>1, <1>4, IsASeq
<1>7. w \in Seq(S) /\ Len(w) = q
  BY <1>1, <1>5, <1>6, LenProperties
<1>8. \A k \in 1 .. q : w[k] = ValueWork(t.kids[i][q + 1 - k], depth + 1)
  BY <1>4, <1>5
<1>9. QED
  BY <1>4, <1>7, <1>8 DEF q, S, w

\* The marker of an opened container takes its place, its parts come above.
IsOpened(t, s, start, r) ==
  LET n == Len(s)
      i == TopOf(s).node
      q == Len(t.kids[i])
  IN  /\ n \in Nat \ {0} /\ q \in Nat /\ i \in NodesOf(t)
      /\ r \in Seq(Entries(t)) /\ Len(r) = n + q
      /\ \A k \in 1 .. n - 1 : r[k] = s[k]
      /\ r[n] = FinishWork(start, i)
      /\ \A k \in 1 .. q :
           /\ q + 1 - k \in 1 .. q
           /\ r[n + k] = ValueWork(t.kids[i][q + 1 - k], TopOf(s).depth + 1)

\* That is what Opened does.
LEMMA OpenedIs ==
  ASSUME NEW t, HasFields(t), NEW s \in Seq(Entries(t)), s # <<>>,
         TopOf(s).work = "value", NEW start \in Nat
  PROVE  IsOpened(t, s, start, Opened(t, s, start))
<1> DEFINE S == Entries(t)
           n == Len(s)
           i == TopOf(s).node
           q == Len(t.kids[i])
           d == TopOf(s).depth
           u == Under(s)
           f == FinishWork(start, i)
           a == Append(u, f)
           w == PartWork(t, i, d)
           r == Opened(t, s, start)
<1>1. /\ n \in Nat \ {0} /\ u \in Seq(S) /\ Len(u) = n - 1
      /\ \A k \in 1 .. n - 1 : u[k] = s[k]
  BY UnderIs
<1>2. i \in NodesOf(t) /\ d \in Nat /\ q \in Nat
  <2>1. n \in 1 .. n
    BY <1>1
  <2>2. i \in NodesOf(t) /\ d \in Nat
    BY <2>1, EntryIs DEF TopOf
  <2>3. QED
    BY <2>2, KidsType
<1>3. f \in S
  BY <1>2 DEF FinishWork, FinishEntries, Entries
<1>4. /\ w \in Seq(S) /\ Len(w) = q
      /\ \A k \in 1 .. q : /\ q + 1 - k \in 1 .. q
                           /\ w[k] = ValueWork(t.kids[i][q + 1 - k], d + 1)
  BY <1>2, PartWorkIs
<1>5. r = a \o w
  BY DEF Opened
<1> HIDE DEF S, n, u, f, w, r, i, d, q
<1>6. /\ a \in Seq(S) /\ Len(a) = (n - 1) + 1
      /\ \A k \in 1 .. n - 1 : a[k] = u[k]
      /\ a[n - 1 + 1] = f
  BY <1>1, <1>3, AppendProperties
<1> HIDE DEF a
<1>7. a \in Seq(S) /\ Len(a) = n /\ a[n] = f
  BY <1>1, <1>6
<1>8. IsList(a) /\ IsList(w)
  BY <1>4, <1>7, ListIn
<1>9. /\ Len(r) = n + q
      /\ \A k \in 1 .. n : r[k] = a[k]
      /\ \A k \in 1 .. q : r[n + k] = w[k]
  <2>1. /\ Len(a \o w) = Len(a) + Len(w)
        /\ \A k \in 1 .. Len(a) : (a \o w)[k] = a[k]
        /\ \A k \in 1 .. Len(w) : (a \o w)[Len(a) + k] = w[k]
    BY <1>8, ListConcat
  <2>2. Len(a) = n /\ Len(w) = q
    BY <1>4, <1>7
  <2>3. QED
    BY <1>5, <2>1, <2>2
<1>10. r \in Seq(S)
  BY <1>4, <1>5, <1>7, ConcatProperties
<1>11. \A k \in 1 .. n - 1 : r[k] = s[k]
  <2>1. \A k \in 1 .. n - 1 : k \in 1 .. n
    BY <1>1
  <2>2. QED
    BY <1>1, <1>6, <1>9, <2>1
<1>12. r[n] = f
  BY <1>1, <1>7, <1>9
<1>13. QED
  BY <1>1, <1>2, <1>4, <1>9, <1>10, <1>11, <1>12 DEF S, n, i, q, d, f, r, IsOpened

-----------------------------------------------------------------------------
(* Nesting *)

\* What holds what depends only on the entries up to there.
LEMMA HoldsAgree ==
  ASSUME NEW s, NEW r, Len(s) \in Nat, Len(r) \in Nat,
         NEW m \in Nat, m <= Len(s), m <= Len(r), \A k \in 1 .. m : s[k] = r[k],
         NEW h \in 1 .. m, NEW k \in 1 .. m + 1
  PROVE  Holds(s, h, k) <=> Holds(r, h, k)
<1>1. \A l \in Nat : h < l /\ l < k => l \in 1 .. m /\ l \in 1 .. Len(s) /\ l \in 1 .. Len(r)
  OBVIOUS
<1>2. s[h] = r[h] /\ 1 .. Len(s) \subseteq Nat /\ 1 .. Len(r) \subseteq Nat
  OBVIOUS
<1>3. QED
  BY <1>1, <1>2 DEF Holds

\* A stack that agrees with a nested one, and is no longer, is nested.
LEMMA NestedUnder ==
  ASSUME NEW t, NEW s, Nested(t, s), s # <<>>
  PROVE  Nested(t, Under(s))
<1> DEFINE n == Len(s)
           r == Under(s)
<1>0. s \in Seq(Entries(t))
  BY DEF Nested
<1>1. /\ n \in Nat \ {0} /\ r \in Seq(Entries(t)) /\ Len(r) = n - 1
      /\ \A k \in 1 .. n - 1 : r[k] = s[k]
  BY <1>0, UnderIs
<1> HIDE DEF r
<1>2. ASSUME NEW h \in 1 .. n - 1, NEW k \in 1 .. n - 1
      PROVE  /\ h \in 1 .. n /\ k \in 1 .. n /\ r[h] = s[h] /\ r[k] = s[k]
             /\ Holds(r, h, k) <=> Holds(s, h, k)
             /\ Part(t, r, h, k) = Part(t, s, h, k)
  <2>1. h \in 1 .. n /\ k \in 1 .. n /\ r[h] = s[h] /\ r[k] = s[k]
    BY <1>1
  <2> DEFINE m == n - 1
  <2>2. m \in Nat /\ m <= n /\ m <= Len(r) /\ k \in 1 .. m + 1 /\ h \in 1 .. m
        /\ Len(s) = n /\ n \in Nat /\ Len(r) \in Nat /\ \A l \in 1 .. m : s[l] = r[l]
    BY <1>1
  <2> HIDE DEF m, n
  <2>3. Holds(s, h, k) <=> Holds(r, h, k)
    BY <2>2, HoldsAgree
  <2>4. QED
    BY <2>1, <2>3 DEF Part
<1>3. \A k \in 1 .. Len(r) :
        /\ r[k].work = "value" => r[k].depth = t.level[r[k].node]
        /\ r[k].work = "finish" => t.kids[r[k].node] # <<>>
  BY <1>1, <1>2 DEF Nested
<1>4. r # <<>> => r[1].node = 1 /\ (r[1].work = "finish" => r[1].start = 0)
  <2> SUFFICES ASSUME r # <<>> PROVE r[1].node = 1 /\ (r[1].work = "finish" => r[1].start = 0)
    OBVIOUS
  <2>1. Len(r) \in Nat \ {0}
    BY <1>1, EmptySeq
  <2>2. 1 \in 1 .. n - 1
    BY <1>1, <2>1
  <2>3. r[1] = s[1]
    BY <1>2, <2>2
  <2>4. QED
    BY <2>3 DEF Nested
<1>5. \A k \in 2 .. Len(r) : \E h \in 1 .. Len(r) : Holds(r, h, k)
  <2> SUFFICES ASSUME NEW k \in 2 .. n - 1 PROVE \E h \in 1 .. n - 1 : Holds(r, h, k)
    BY <1>1
  <2>1. k \in 2 .. n /\ k \in 1 .. n - 1
    BY <1>1
  <2>2. PICK h \in 1 .. n : Holds(s, h, k)
    BY <2>1 DEF Nested
  <2>3. h \in 1 .. n - 1
    BY <1>1, <2>1, <2>2 DEF Holds
  <2>4. QED
    BY <1>2, <2>1, <2>2, <2>3
<1>6. \A h, k \in 1 .. Len(r) : Holds(r, h, k) =>
        /\ Part(t, r, h, k) \in 1 .. Len(t.kids[r[h].node])
        /\ r[k].node = t.kids[r[h].node][Part(t, r, h, k)]
        /\ r[k].work = "finish" => r[k].start + 1 = r[h].start + Part(t, r, h, k)
  <2> SUFFICES ASSUME NEW h \in 1 .. n - 1, NEW k \in 1 .. n - 1, Holds(r, h, k)
               PROVE  /\ Part(t, r, h, k) \in 1 .. Len(t.kids[r[h].node])
                      /\ r[k].node = t.kids[r[h].node][Part(t, r, h, k)]
                      /\ r[k].work = "finish" =>
                           r[k].start + 1 = r[h].start + Part(t, r, h, k)
    BY <1>1
  <2>1. /\ h \in 1 .. n /\ k \in 1 .. n /\ r[h] = s[h] /\ r[k] = s[k]
        /\ Holds(s, h, k) /\ Part(t, r, h, k) = Part(t, s, h, k)
    BY <1>2
  <2>2. /\ Part(t, s, h, k) \in 1 .. Len(t.kids[s[h].node])
        /\ s[k].node = t.kids[s[h].node][Part(t, s, h, k)]
        /\ s[k].work = "finish" => s[k].start + 1 = s[h].start + Part(t, s, h, k)
    BY <2>1 DEF Nested
  <2>3. QED
    BY <2>1, <2>2
<1>7. Nested(t, r)
  BY <1>1, <1>3, <1>4, <1>5, <1>6 DEF Nested
<1>8. QED
  BY <1>7 DEF r

\* Once a value has landed the stack without its entry is ready.
LEMMA ReadyUnder ==
  ASSUME NEW t, HasFields(t), NEW s, Nested(t, s), s # <<>>, NEW p \in Nat, Lands(t, s, p)
  PROVE  Ready(t, Under(s), p)
<1> DEFINE n == Len(s)
           r == Under(s)
<1>0. s \in Seq(Entries(t))
  BY DEF Nested
<1>1. /\ n \in Nat \ {0} /\ r \in Seq(Entries(t)) /\ Len(r) = n - 1
      /\ \A k \in 1 .. n - 1 : r[k] = s[k]
  BY <1>0, UnderIs
<1> HIDE DEF r
<1> SUFFICES ASSUME r # <<>> PROVE Ready(t, r, p)
  BY DEF Ready, r
<1> DEFINE m == n - 1
<1>2. /\ m \in 1 .. n /\ n = m + 1 /\ m \in Nat \ {0} /\ Len(r) = m
      /\ r[m] = s[m] /\ n \in 2 .. n /\ n \in 1 .. n
  <2>1. Len(r) \in Nat \ {0}
    BY <1>1, EmptySeq
  <2>2. m \in Nat \ {0}
    BY <1>1, <2>1
  <2>3. QED
    BY <1>1, <2>2
<1>3. ASSUME NEW h \in 1 .. n, Holds(s, h, n)
      PROVE  p = s[h].start + Part(t, s, h, n)
  BY <1>3 DEF Lands
<1>4. CASE s[m].work = "finish"
  <2>1. Holds(s, m, n)
    BY <1>1, <1>2, <1>4 DEF Holds
  <2>2. p = s[m].start + Part(t, s, m, n)
    BY <1>2, <1>3, <2>1
  <2>3. s[m].node \in NodesOf(t)
    BY <1>0, <1>2, EntryIs
  <2>4. Len(t.kids[s[m].node]) \in Nat
    BY <2>3, KidsType
  <2>5. Part(t, s, m, n) = Len(t.kids[s[m].node])
    BY <1>2, <2>4 DEF Part
  <2>6. QED
    BY <1>2, <1>4, <2>2, <2>5 DEF Ready
<1>5. CASE s[m].work = "value"
  <2>1. PICK h \in 1 .. n : Holds(s, h, n)
    BY <1>2 DEF Nested
  <2>2. h \in 1 .. n - 1 /\ h < m
    BY <1>2, <1>5, <2>1 DEF Holds
  <2>3. Len(r) # 1
    BY <1>2, <2>2
  <2>4. ASSUME NEW l \in 1 .. m, Holds(r, l, m)
        PROVE  p + 1 = r[l].start + Part(t, r, l, m)
    <3>1. /\ l \in 1 .. n /\ l < m /\ r[l] = s[l] /\ s[l].work = "finish"
          /\ \A k \in 1 .. m : l < k /\ k < m => s[k].work = "value"
      <4>1. /\ l < m /\ r[l].work = "finish"
            /\ \A k \in 1 .. m : l < k /\ k < m => r[k].work = "value"
        BY <1>2, <2>4 DEF Holds
      <4>2. \A k \in 1 .. m : k \in 1 .. n /\ r[k] = s[k]
        BY <1>1, <1>2
      <4> HIDE DEF m, n
      <4>3. QED
        BY <4>1, <4>2
    <3>2. Holds(s, l, n)
      <4>1. \A k \in 1 .. n : l < k /\ k < n => s[k].work = "value"
        BY <1>2, <1>5, <3>1
      <4>2. QED
        BY <1>2, <3>1, <4>1 DEF Holds
    <3>3. p = s[l].start + Part(t, s, l, n)
      BY <1>3, <3>1, <3>2
    <3>4. s[l].node \in NodesOf(t) /\ s[l].start \in Nat
      BY <1>0, <3>1, EntryIs
    <3>5. Len(t.kids[s[l].node]) \in Nat
      BY <3>4, KidsType
    <3>6. Part(t, r, l, m) = Part(t, s, l, n) + 1 /\ Part(t, s, l, n) \in Int
      BY <1>2, <3>1, <3>5 DEF Part
    <3> DEFINE a == Part(t, r, l, m)
               b == Part(t, s, l, n)
    <3>7. a = b + 1 /\ b \in Int /\ p = s[l].start + b /\ s[l].start \in Int /\ r[l] = s[l]
      BY <3>1, <3>3, <3>4, <3>6
    <3> HIDE DEF a, b
    <3>8. p + 1 = r[l].start + a
      BY <3>7
    <3>9. QED
      BY <3>8 DEF a
  <2>5. Lands(t, r, p + 1)
    BY <1>2, <2>3, <2>4 DEF Lands
  <2>6. QED
    BY <1>2, <1>5, <2>5 DEF Ready
<1>6. s[m].work = "value" \/ s[m].work = "finish"
  BY <1>0, <1>2, EntryIs
<1>7. QED
  BY <1>4, <1>5, <1>6

\* A container that is opened where its value will go leaves the stack nested,
\* and ready for its first part.
LEMMA NestedOpened ==
  ASSUME NEW t, IsTree(t), NEW s, Nested(t, s), s # <<>>,
         TopOf(s).work = "value", t.kids[TopOf(s).node] # <<>>,
         NEW start \in Nat, Lands(t, s, start + 1)
  PROVE  /\ Nested(t, Opened(t, s, start))
         /\ Ready(t, Opened(t, s, start), start)
<1> DEFINE n == Len(s)
           i == TopOf(s).node
           q == Len(t.kids[i])
           r == Opened(t, s, start)
           d == TopOf(s).depth + 1
<1>0. HasFields(t) /\ s \in Seq(Entries(t))
  BY DEF IsTree, Nested
<1>1. /\ n \in Nat \ {0} /\ q \in Nat /\ i \in NodesOf(t)
      /\ r \in Seq(Entries(t)) /\ Len(r) = n + q
      /\ \A k \in 1 .. n - 1 : r[k] = s[k]
      /\ r[n] = FinishWork(start, i)
      /\ \A k \in 1 .. q : /\ q + 1 - k \in 1 .. q
                           /\ r[n + k] = ValueWork(t.kids[i][q + 1 - k], d)
  <2>1. IsOpened(t, s, start, r)
    BY <1>0, OpenedIs
  <2>2. QED
    BY <2>1 DEF IsOpened
<1>2. q > 0
  <2>1. t.kids[i] \in Seq(NodesOf(t)) /\ t.kids[i] # <<>>
    BY <1>0, <1>1, KidsType
  <2>2. QED
    BY <2>1, EmptySeq
<1>3. s[n].node = i /\ s[n].work = "value" /\ d = t.level[i] + 1
  <2>1. s[n] = TopOf(s) /\ n \in 1 .. n
    BY <1>1 DEF TopOf
  <2>2. s[n].depth = t.level[s[n].node]
    BY <2>1 DEF Nested
  <2>3. QED
    BY <2>1, <2>2
<1>4. r[n].work = "finish" /\ r[n].start = start /\ r[n].node = i
  BY <1>1 DEF FinishWork
<1> HIDE DEF n, i, q, r, d
<1>5. ASSUME NEW k \in 1 .. q
      PROVE  /\ r[n + k].work = "value" /\ r[n + k].node = t.kids[i][q + 1 - k]
             /\ r[n + k].depth = d
  <2> DEFINE e == r[n + k]
             j == t.kids[i][q + 1 - k]
  <2>1. e = ValueWork(j, d)
    BY <1>1
  <2> HIDE DEF e, j
  <2>2. e.work = "value" /\ e.node = j /\ e.depth = d
    BY <2>1 DEF ValueWork
  <2>3. QED
    BY <2>2 DEF e, j
<1>6. ASSUME NEW k \in 1 .. n + q
      PROVE  (k \in 1 .. n - 1 /\ r[k] = s[k]) \/ k = n \/ (k - n \in 1 .. q /\ k = n + (k - n))
  BY <1>1
<1>7. ASSUME NEW k \in 1 .. n, NEW h \in 1 .. n - 1
      PROVE  /\ Holds(r, h, k) <=> Holds(s, h, k)
             /\ r[h] = s[h] /\ h \in 1 .. n /\ Part(t, r, h, k) = Part(t, s, h, k)
  <2> DEFINE m == n - 1
  <2>1. /\ Len(s) = n /\ n \in Nat /\ Len(r) \in Nat /\ m \in Nat /\ m <= n /\ m <= Len(r)
        /\ (\A l \in 1 .. m : s[l] = r[l]) /\ h \in 1 .. m /\ k \in 1 .. m + 1
    BY <1>1 DEF n
  <2> HIDE DEF m
  <2>2. Holds(s, h, k) <=> Holds(r, h, k)
    BY <2>1, HoldsAgree
  <2>3. r[h] = s[h] /\ h \in 1 .. n
    BY <1>1
  <2>4. QED
    BY <2>2, <2>3 DEF Part
<1>8. ASSUME NEW k \in 1 .. q, NEW h \in 1 .. n + q
      PROVE  Holds(r, h, n + k) <=> h = n
  <2>1. /\ n + k \in 1 .. n + q /\ n \in 1 .. n + q /\ Len(r) = n + q /\ n < n + k
        /\ n \in Nat /\ q \in Nat
    BY <1>1
  <2>2. ASSUME h = n PROVE Holds(r, h, n + k)
    <3>1. ASSUME NEW m \in 1 .. n + q, n < m, m < n + k PROVE r[m].work = "value"
      <4>1. m - n \in 1 .. q /\ m = n + (m - n)
        BY <2>1, <3>1
      <4>2. QED
        BY <1>5, <4>1
    <3>2. QED
      BY <1>4, <2>1, <2>2, <3>1 DEF Holds
  <2>3. ASSUME Holds(r, h, n + k) PROVE h = n
    <3>1. ~(h < n)
      BY <1>4, <2>1, <2>3 DEF Holds
    <3>2. ~(h > n)
      <4>1. ASSUME h > n PROVE FALSE
        <5>1. h - n \in 1 .. q /\ h = n + (h - n)
          BY <2>1, <4>1
        <5>2. r[h].work = "value"
          BY <1>5, <5>1
        <5>3. QED
          BY <2>3, <5>2 DEF Holds
      <4>2. QED
        BY <4>1
    <3>3. QED
      BY <2>1, <3>1, <3>2
  <2>4. QED
    BY <2>2, <2>3
<1>9. ASSUME NEW k \in 1 .. n + q
      PROVE  /\ r[k].work = "value" => r[k].depth = t.level[r[k].node]
             /\ r[k].work = "finish" => t.kids[r[k].node] # <<>>
  <2>1. CASE k \in 1 .. n - 1 /\ r[k] = s[k]
    <3>1. k \in 1 .. Len(s)
      BY <1>1, <2>1 DEF n
    <3>2. QED
      BY <2>1, <3>1 DEF Nested
  <2>2. CASE k = n
    BY <1>4, <2>2 DEF i
  <2>3. CASE k - n \in 1 .. q /\ k = n + (k - n)
    <3>1. /\ r[k].work = "value" /\ r[k].depth = d
          /\ r[k].node = t.kids[i][q + 1 - (k - n)] /\ q + 1 - (k - n) \in 1 .. q
      BY <1>1, <1>5, <2>3
    <3> DEFINE c == q + 1 - (k - n)
    <3>a. c \in 1 .. Len(t.kids[i]) /\ r[k].node = t.kids[i][c]
      BY <3>1 DEF q
    <3> HIDE DEF c
    <3>2. t.level[r[k].node] = t.level[i] + 1
      BY <1>1, <3>a, KidsDistinct
    <3>3. QED
      BY <1>3, <3>1, <3>2
  <2>4. QED
    BY <1>6, <2>1, <2>2, <2>3
<1>10. r[1].node = 1 /\ (r[1].work = "finish" => r[1].start = 0)
  <2>0. s[1].node = 1 /\ (s[1].work = "finish" => s[1].start = 0)
    BY DEF Nested
  <2>1. CASE n = 1
    <3>1. start + 1 = 1
      BY <2>1 DEF Lands, n
    <3>2. QED
      BY <1>3, <1>4, <2>0, <2>1, <3>1
  <2>2. CASE n # 1
    <3>1. r[1] = s[1]
      BY <1>1, <2>2
    <3>2. QED
      BY <2>0, <3>1
  <2>3. QED
    BY <2>1, <2>2
<1>11. ASSUME NEW k \in 2 .. n + q PROVE \E h \in 1 .. n + q : Holds(r, h, k)
  <2>1. CASE k <= n
    <3>1. k \in 2 .. Len(s) /\ k \in 1 .. n
      BY <1>1, <2>1 DEF n
    <3>2. PICK h \in 1 .. Len(s) : Holds(s, h, k)
      BY <3>1 DEF Nested
    <3>3. h \in 1 .. n - 1 /\ h \in 1 .. n + q
      BY <1>1, <3>1, <3>2 DEF Holds, n
    <3>4. QED
      BY <1>7, <3>1, <3>2, <3>3
  <2>2. CASE k > n
    <3>1. k - n \in 1 .. q /\ k = n + (k - n) /\ n \in 1 .. n + q
      BY <1>1, <2>2
    <3>2. QED
      BY <1>8, <3>1
  <2>3. QED
    BY <1>1, <2>1, <2>2
<1>12. ASSUME NEW h \in 1 .. n + q, NEW k \in 1 .. n + q, Holds(r, h, k)
       PROVE  /\ Part(t, r, h, k) \in 1 .. Len(t.kids[r[h].node])
              /\ r[k].node = t.kids[r[h].node][Part(t, r, h, k)]
              /\ r[k].work = "finish" => r[k].start + 1 = r[h].start + Part(t, r, h, k)
  <2>1. CASE k \in 1 .. n
    <3>1. h \in 1 .. n - 1
      BY <1>1, <1>12, <2>1 DEF Holds
    <3>2. /\ Holds(s, h, k) /\ r[h] = s[h] /\ h \in 1 .. n
          /\ Part(t, r, h, k) = Part(t, s, h, k)
      BY <1>7, <1>12, <2>1, <3>1
    <3>3. /\ Part(t, s, h, k) \in 1 .. Len(t.kids[s[h].node])
          /\ s[k].node = t.kids[s[h].node][Part(t, s, h, k)]
          /\ s[k].work = "finish" => s[k].start + 1 = s[h].start + Part(t, s, h, k)
      BY <2>1, <3>2 DEF Nested, n
    <3>4. CASE k = n
      <4>1. start + 1 = s[h].start + Part(t, s, h, n)
        BY <3>2, <3>4 DEF Lands, n
      <4>2. QED
        BY <1>3, <1>4, <3>2, <3>3, <3>4, <4>1
    <3>5. CASE k # n
      <4>1. r[k] = s[k]
        BY <1>1, <2>1, <3>5
      <4>2. QED
        BY <3>2, <3>3, <4>1
    <3>6. QED
      BY <3>4, <3>5
  <2>2. CASE k - n \in 1 .. q /\ k = n + (k - n)
    <3>1. h = n
      BY <1>8, <1>12, <2>2
    <3>2. Part(t, r, h, k) = q + 1 - (k - n)
      <4>1. Part(t, r, h, k) = q + n + 1 - k
        BY <1>4, <3>1 DEF Part, q
      <4>2. QED
        BY <1>1, <4>1
    <3>3. q + 1 - (k - n) \in 1 .. q /\ r[k].node = t.kids[i][q + 1 - (k - n)]
          /\ r[k].work = "value"
      BY <1>1, <1>5, <2>2
    <3>4. QED
      BY <1>4, <3>1, <3>2, <3>3 DEF q
  <2>3. QED
    BY <1>1, <1>6, <2>1, <2>2
<1>13. Nested(t, r)
  BY <1>1, <1>9, <1>10, <1>11, <1>12 DEF Nested
<1>14. Ready(t, r, start)
  <2>1. q \in 1 .. q /\ Len(r) = n + q /\ n + q # 1 /\ n \in 1 .. n + q
    BY <1>1, <1>2
  <2>2. r[n + q].work = "value"
    BY <1>5, <2>1
  <2>3. ASSUME NEW h \in 1 .. n + q, Holds(r, h, n + q)
        PROVE  start + 1 = r[h].start + Part(t, r, h, n + q)
    <3>1. h = n
      BY <1>8, <2>1, <2>3
    <3>2. Part(t, r, h, n + q) = 1
      <4>1. Part(t, r, h, n + q) = q + n + 1 - (n + q)
        BY <1>4, <3>1 DEF Part, q
      <4>2. QED
        BY <1>1, <4>1
    <3>3. QED
      BY <1>4, <3>1, <3>2
  <2>4. Lands(t, r, start + 1)
    BY <2>1, <2>3 DEF Lands
  <2>5. QED
    BY <2>1, <2>2, <2>4 DEF Ready
<1>15. QED
  BY <1>13, <1>14 DEF r

-----------------------------------------------------------------------------
(* The values among the entries *)

\* Popping a value leaves one less, popping a marker leaves them all.
LEMMA WaitingUnder ==
  ASSUME NEW t, NEW s \in Seq(Entries(t)), s # <<>>
  PROVE  /\ Waiting(Under(s)) = Waiting(s) \ {Len(s)}
         /\ Len(s) \in Waiting(s) <=> TopOf(s).work = "value"
         /\ IsFiniteSet(Waiting(s)) /\ Cardinality(Waiting(s)) \in Nat
         /\ Cardinality(Waiting(Under(s))) =
              Cardinality(Waiting(s)) - (IF TopOf(s).work = "value" THEN 1 ELSE 0)
         /\ \A k \in Waiting(s) : Under(s)[k] = s[k] \/ k = Len(s)
<1> DEFINE n == Len(s)
           r == Under(s)
           W == Waiting(s)
<1>1. /\ n \in Nat \ {0} /\ Len(r) = n - 1 /\ \A k \in 1 .. n - 1 : r[k] = s[k]
  BY UnderIs
<1>2. TopOf(s) = s[n] /\ n \in 1 .. n /\ \A k \in 1 .. n : k = n \/ k \in 1 .. n - 1
  BY <1>1 DEF TopOf
<1> HIDE DEF r, n
<1>3. Waiting(r) = W \ {n}
  BY <1>1, <1>2 DEF Waiting, n
<1>4. n \in W <=> TopOf(s).work = "value"
  BY <1>2 DEF Waiting, n
<1>5. IsFiniteSet(W)
  <2>1. W \subseteq 1 .. n
    BY DEF Waiting, n
  <2>2. IsFiniteSet(1 .. n)
    BY <1>1, Counted
  <2>3. QED
    BY <2>1, <2>2, FS_Subset
<1>6. Cardinality(W) \in Nat
  BY <1>5, FS_CardinalityType
<1> HIDE DEF W
<1>7. Cardinality(W \ {n}) = IF n \in W THEN Cardinality(W) - 1 ELSE Cardinality(W)
  BY <1>5, FS_RemoveElement
<1>8. \A k \in W : r[k] = s[k] \/ k = n
  BY <1>1, <1>2 DEF W, Waiting, n
<1>9. Cardinality(Waiting(r)) = Cardinality(W) - (IF TopOf(s).work = "value" THEN 1 ELSE 0)
  BY <1>3, <1>4, <1>6, <1>7
<1>10. QED
  BY <1>3, <1>4, <1>5, <1>6, <1>8, <1>9 DEF W, n, r

\* Opening a container puts its parts in its place.
LEMMA WaitingOpened ==
  ASSUME NEW t, HasFields(t), NEW s \in Seq(Entries(t)), s # <<>>,
         TopOf(s).work = "value", NEW start \in Nat
  PROVE  LET n == Len(s)
             q == Len(t.kids[TopOf(s).node])
             r == Opened(t, s, start)
         IN  /\ Waiting(r) = Waiting(Under(s)) \cup {n + k : k \in 1 .. q}
             /\ Cardinality(Waiting(r)) = Cardinality(Waiting(s)) - 1 + q
<1> DEFINE n == Len(s)
           i == TopOf(s).node
           q == Len(t.kids[i])
           r == Opened(t, s, start)
           u == Under(s)
           d == TopOf(s).depth + 1
           above == {n + k : k \in 1 .. q}
<1>1. /\ n \in Nat \ {0} /\ q \in Nat /\ i \in NodesOf(t)
      /\ r \in Seq(Entries(t)) /\ Len(r) = n + q
      /\ \A k \in 1 .. n - 1 : r[k] = s[k]
      /\ r[n] = FinishWork(start, i)
      /\ \A k \in 1 .. q : /\ q + 1 - k \in 1 .. q
                           /\ r[n + k] = ValueWork(t.kids[i][q + 1 - k], d)
  <2>1. IsOpened(t, s, start, r)
    BY OpenedIs
  <2>2. QED
    BY <2>1 DEF IsOpened
<1>2. Len(u) = n - 1 /\ \A k \in 1 .. n - 1 : u[k] = s[k]
  BY UnderIs
<1>3. r[n].work = "finish"
  BY <1>1 DEF FinishWork
<1> HIDE DEF n, i, q, r, d, u
<1>4. ASSUME NEW k \in 1 .. q PROVE r[n + k].work = "value"
  <2> DEFINE e == r[n + k]
             j == t.kids[i][q + 1 - k]
  <2>1. e = ValueWork(j, d)
    BY <1>1
  <2> HIDE DEF e, j
  <2>2. e.work = "value"
    BY <2>1 DEF ValueWork
  <2>3. QED
    BY <2>2 DEF e
<1>5. Waiting(r) = Waiting(u) \cup above
  <2>1. ASSUME NEW k \in Waiting(r) PROVE k \in Waiting(u) \cup above
    <3>1. k \in 1 .. n + q /\ r[k].work = "value"
      BY <1>1 DEF Waiting
    <3>2. k # n
      BY <1>3, <3>1
    <3>3. CASE k < n
      <4>1. k \in 1 .. n - 1
        BY <1>1, <3>1, <3>3
      <4>2. QED
        BY <1>1, <1>2, <3>1, <4>1 DEF Waiting
    <3>4. CASE k > n
      <4>1. k - n \in 1 .. q /\ k = n + (k - n)
        BY <1>1, <3>1, <3>4
      <4>2. QED
        BY <4>1
    <3>5. QED
      BY <1>1, <3>1, <3>2, <3>3, <3>4
  <2>2. ASSUME NEW k \in Waiting(u) PROVE k \in Waiting(r)
    <3>1. k \in 1 .. n - 1 /\ u[k].work = "value"
      BY <1>2 DEF Waiting
    <3>2. k \in 1 .. n + q
      BY <1>1, <3>1
    <3>3. QED
      BY <1>1, <1>2, <3>1, <3>2 DEF Waiting
  <2>3. ASSUME NEW k \in 1 .. q PROVE n + k \in Waiting(r)
    <3>1. n + k \in 1 .. n + q
      BY <1>1
    <3>2. QED
      BY <1>1, <1>4, <3>1 DEF Waiting
  <2>4. QED
    BY <2>1, <2>2, <2>3
<1>6. IsFiniteSet(above) /\ Cardinality(above) = q
  <2> DEFINE a == n + 1
             b == n + q
  <2>1. above = a .. b
    <3>1. \A x \in a .. b : x - n \in 1 .. q /\ x = n + (x - n)
      BY <1>1
    <3>2. \A k \in 1 .. q : n + k \in a .. b
      BY <1>1
    <3>3. QED
      BY <3>1, <3>2
  <2>2. a \in Int /\ b \in Int /\ (IF a > b THEN 0 ELSE b - a + 1) = q
    BY <1>1
  <2> HIDE DEF a, b, above
  <2>3. QED
    BY <2>1, <2>2, FS_Interval
<1>7. Waiting(u) \cap above = {}
  <2>1. \A k \in Waiting(u) : k \in 1 .. n - 1
    BY <1>2 DEF Waiting
  <2>2. QED
    BY <1>1, <2>1
<1>8. /\ IsFiniteSet(Waiting(u)) /\ Cardinality(Waiting(s)) \in Nat
      /\ Cardinality(Waiting(u)) = Cardinality(Waiting(s)) - 1
  <2>1. /\ IsFiniteSet(Waiting(s)) /\ Cardinality(Waiting(s)) \in Nat
        /\ Waiting(Under(s)) = Waiting(s) \ {Len(s)}
        /\ Cardinality(Waiting(Under(s))) = Cardinality(Waiting(s)) - 1
    BY WaitingUnder
  <2>2. IsFiniteSet(Waiting(Under(s)))
    BY <2>1, FS_Subset
  <2>3. QED
    BY <2>1, <2>2 DEF u
<1> HIDE DEF above
<1>9. Cardinality(Waiting(r)) = Cardinality(Waiting(s)) - 1 + q
  BY <1>1, <1>5, <1>6, <1>7, <1>8, DisjointUnion
<1>10. QED
  BY <1>5, <1>9 DEF above, n, i, q, r, u

\* The nodes of the values when the top entry is popped.
LEMMA NamedUnder ==
  ASSUME NEW t, NEW s \in Seq(Entries(t)), s # <<>>
  PROVE  /\ TopOf(s).work = "value" => Named(s) = Named(Under(s)) \cup {TopOf(s).node}
         /\ TopOf(s).work # "value" => Named(s) = Named(Under(s))
<1> DEFINE n == Len(s)
           u == Under(s)
           W == Waiting(s)
           U == Waiting(u)
<1>1. /\ U = W \ {n}
      /\ n \in W <=> TopOf(s).work = "value"
      /\ \A k \in W : u[k] = s[k] \/ k = n
  BY WaitingUnder
<1>2. TopOf(s) = s[n]
  BY DEF TopOf
<1>3. Named(s) = {s[k].node : k \in W} /\ Named(u) = {u[k].node : k \in U}
  BY DEF Named
<1> HIDE DEF n, u, W, U
<1>4. \A k \in U : k \in W /\ u[k] = s[k]
  BY <1>1
<1>5. \A k \in W : k = n \/ k \in U
  BY <1>1
<1>6. CASE TopOf(s).work = "value"
  BY <1>1, <1>2, <1>3, <1>4, <1>5, <1>6 DEF u
<1>7. CASE TopOf(s).work # "value"
  <2>1. W = U
    BY <1>1, <1>7
  <2>2. QED
    BY <1>3, <1>4, <1>7, <2>1 DEF u
<1>8. QED
  BY <1>6, <1>7

\* ... and when a container is opened.
LEMMA NamedOpened ==
  ASSUME NEW t, HasFields(t), NEW s \in Seq(Entries(t)), s # <<>>,
         TopOf(s).work = "value", NEW start \in Nat
  PROVE  Named(Opened(t, s, start)) = Named(Under(s)) \cup Held(t, TopOf(s).node)
<1> DEFINE n == Len(s)
           i == TopOf(s).node
           q == Len(t.kids[i])
           r == Opened(t, s, start)
           u == Under(s)
           d == TopOf(s).depth + 1
           U == Waiting(u)
<1>1. /\ n \in Nat \ {0} /\ q \in Nat /\ i \in NodesOf(t)
      /\ r \in Seq(Entries(t)) /\ Len(r) = n + q
      /\ \A k \in 1 .. n - 1 : r[k] = s[k]
      /\ r[n] = FinishWork(start, i)
      /\ \A k \in 1 .. q : /\ q + 1 - k \in 1 .. q
                           /\ r[n + k] = ValueWork(t.kids[i][q + 1 - k], d)
  <2>1. IsOpened(t, s, start, r)
    BY OpenedIs
  <2>2. QED
    BY <2>1 DEF IsOpened
<1>2. Waiting(r) = U \cup {n + k : k \in 1 .. q}
  BY WaitingOpened
<1>3. \A k \in U : r[k] = u[k]
  <2>1. \A k \in 1 .. n - 1 : u[k] = s[k]
    BY UnderIs
  <2>2. \A k \in U : k \in 1 .. n - 1
    BY UnderIs DEF Waiting
  <2>3. QED
    BY <1>1, <2>1, <2>2
<1>4. Named(r) = {r[k].node : k \in Waiting(r)} /\ Named(u) = {u[k].node : k \in U}
  BY DEF Named
<1>5. Held(t, i) = {t.kids[i][k] : k \in 1 .. q}
  BY DEF Held
<1> HIDE DEF n, i, q, r, d, u, U
<1>6. ASSUME NEW k \in 1 .. q PROVE r[n + k].node = t.kids[i][q + 1 - k]
  <2> DEFINE e == r[n + k]
             j == t.kids[i][q + 1 - k]
  <2>1. e = ValueWork(j, d)
    BY <1>1
  <2> HIDE DEF e, j
  <2>2. e.node = j
    BY <2>1 DEF ValueWork
  <2>3. QED
    BY <2>2 DEF e, j
<1>7. Named(r) \subseteq Named(u) \cup Held(t, i)
  <2> SUFFICES ASSUME NEW k \in Waiting(r) PROVE r[k].node \in Named(u) \cup Held(t, i)
    BY <1>4
  <2>1. CASE k \in U
    BY <1>3, <1>4, <2>1
  <2>2. CASE k \in {n + l : l \in 1 .. q}
    <3>1. PICK l \in 1 .. q : k = n + l
      BY <2>2
    <3>2. q + 1 - l \in 1 .. q /\ r[k].node = t.kids[i][q + 1 - l]
      BY <1>1, <1>6, <3>1
    <3>3. QED
      BY <1>5, <3>2
  <2>3. QED
    BY <1>2, <2>1, <2>2
<1>8. Named(u) \subseteq Named(r)
  BY <1>2, <1>3, <1>4
<1>9. Held(t, i) \subseteq Named(r)
  <2> SUFFICES ASSUME NEW k \in 1 .. q PROVE t.kids[i][k] \in Named(r)
    BY <1>5
  <2> DEFINE l == q + 1 - k
  <2>1. l \in 1 .. q /\ q + 1 - l = k
    BY <1>1
  <2> HIDE DEF l
  <2>2. r[n + l].node = t.kids[i][k] /\ n + l \in Waiting(r)
    BY <1>2, <1>6, <2>1
  <2>3. QED
    BY <1>4, <2>2
<1>10. QED
  BY <1>7, <1>8, <1>9 DEF i, r, u

-----------------------------------------------------------------------------
(* The finished values *)

\* A value that lands where it belongs is the part the marker below it wants,
\* or the whole.
LEMMA Landing ==
  ASSUME NEW t, IsTree(t), NEW s, Nested(t, s), s # <<>>,
         NEW p \in Nat \ {0}, Lands(t, s, p),
         TopOf(s).work = "finish" => TopOf(s).start + 1 = p,
         NEW done, Filled(t, s, done), Len(done) \in Nat, p - 1 <= Len(done),
         NEW now, IsList(now), Len(now) = p,
         \A k \in 1 .. p - 1 : now[k] = done[k],
         now[p] = Image(t)[TopOf(s).node]
  PROVE  /\ Filled(t, Under(s), now)
         /\ Ready(t, Under(s), p)
         /\ Under(s) = <<>> => now = <<Image(t)[1]>>
<1> DEFINE n == Len(s)
           u == Under(s)
<1>0. HasFields(t) /\ s \in Seq(Entries(t)) /\ TopOf(s) = s[n]
  BY DEF IsTree, Nested, TopOf
<1>1. /\ n \in Nat \ {0} /\ u \in Seq(Entries(t)) /\ Len(u) = n - 1
      /\ \A k \in 1 .. n - 1 : u[k] = s[k]
  BY <1>0, UnderIs
<1>2. Ready(t, u, p)
  BY <1>0, ReadyUnder
<1> HIDE DEF u, n
<1>3. u = <<>> => now = <<Image(t)[1]>>
  <2> SUFFICES ASSUME u = <<>> PROVE now = <<Image(t)[1]>>
    OBVIOUS
  <2>1. n = 1
    BY <1>1
  <2>2. p = 1 /\ TopOf(s).node = 1
    BY <1>0, <2>1 DEF Lands, Nested, n
  <2> DEFINE x == Image(t)[1]
             one == <<x>>
  <2>3. one \in Seq({x}) /\ Len(one) = 1 /\ one[1] = x
    OBVIOUS
  <2> HIDE DEF one, x
  <2>4. IsList(one)
    BY <2>3, ListIn
  <2>5. \A k \in 1 .. Len(now) : now[k] = one[k]
    BY <2>2, <2>3 DEF x
  <2>6. Len(now) = Len(one)
    BY <2>2, <2>3
  <2>7. now = one
    BY <2>4, <2>5, <2>6, ListsEqual
  <2>8. QED
    BY <2>7 DEF one, x
<1>4. Filled(t, u, now)
  <2> SUFFICES ASSUME NEW h \in 1 .. n - 1, u[h].work = "finish",
                      NEW x \in 1 .. p, u[h].start < x,
                      \A k \in 1 .. n - 1 : h < k /\ u[k].work = "finish" => x <= u[k].start
               PROVE  now[x] = Image(t)[t.kids[u[h].node][x - u[h].start]]
    BY <1>1 DEF Filled
  <2>1. h \in 1 .. n /\ n \in 1 .. n /\ u[h] = s[h]
    BY <1>1
  <2>2. CASE x < p
    <3>1. x \in 1 .. Len(done) /\ x \in 1 .. p - 1
      BY <2>2
    <3>2. ASSUME NEW k \in 1 .. n, h < k, s[k].work = "finish" PROVE x <= s[k].start
      <4>1. CASE k = n
        <5>1. s[n].start + 1 = p
          BY <1>0, <3>2, <4>1
        <5>2. s[n].start \in Nat
          BY <1>0, <2>1, <3>2, <4>1, EntryIs DEF n
        <5>3. QED
          BY <2>2, <4>1, <5>1, <5>2
      <4>2. CASE k # n
        <5>1. k \in 1 .. n - 1 /\ u[k] = s[k]
          BY <1>1, <4>2
        <5>2. QED
          BY <3>2, <5>1
      <4>3. QED
        BY <4>1, <4>2
    <3>3. done[x] = Image(t)[t.kids[s[h].node][x - s[h].start]]
      BY <2>1, <3>1, <3>2 DEF Filled, n
    <3>4. QED
      BY <2>1, <3>1, <3>3
  <2>3. CASE x = p
    <3>1. n \in 2 .. n
      BY <1>1
    <3>2. PICK g \in 1 .. n : Holds(s, g, n)
      BY <3>1 DEF Nested, n
    <3> DEFINE c == Part(t, s, g, n)
    <3>3. /\ p = s[g].start + c /\ s[n].node = t.kids[s[g].node][c]
          /\ c \in 1 .. Len(t.kids[s[g].node])
      BY <2>1, <3>2 DEF Nested, Lands, n
    <3> HIDE DEF c
    <3>4. s[g].start \in Nat /\ g < n /\ s[g].work = "finish" /\ g \in 1 .. n - 1
      <4>1. g < n /\ s[g].work = "finish"
        BY <3>2 DEF Holds
      <4>2. g \in 1 .. Len(s)
        BY DEF n
      <4>3. s[g].start \in Nat
        BY <1>0, <4>1, <4>2, EntryIs
      <4>4. QED
        BY <1>1, <4>1, <4>3
    <3>5. s[g].start < p /\ p - s[g].start = c
      <4>1. c \in Nat /\ c > 0
        <5>1. s[g].node \in NodesOf(t)
          BY <1>0, EntryIs DEF n
        <5>2. Len(t.kids[s[g].node]) \in Nat
          BY <1>0, <5>1, KidsType
        <5>3. QED
          BY <3>3, <5>2
      <4> DEFINE b == s[g].start
      <4>2. b \in Nat /\ p = b + c
        BY <3>3, <3>4
      <4> HIDE DEF b
      <4>3. b < p /\ p - b = c
        BY <4>1, <4>2
      <4>4. QED
        BY <4>3 DEF b
    <3>6. h = g
      <4>1. ~(h < g)
        <5>1. u[g] = s[g]
          BY <1>1, <3>4
        <5>2. h < g => p <= s[g].start
          BY <2>3, <3>4, <5>1
        <5>3. QED
          BY <3>4, <3>5, <5>2
      <4>2. ~(g < h)
        <5>1. h \in 1 .. Len(s) /\ h < n
          BY <1>1, <2>1 DEF n
        <5>2. g < h => s[h].work = "value"
          BY <3>2, <5>1 DEF Holds
        <5>3. QED
          BY <2>1, <5>2
      <4>3. QED
        BY <1>1, <4>1, <4>2
    <3>7. QED
      BY <1>0, <2>1, <2>3, <3>3, <3>5, <3>6
  <2>4. x < p \/ x = p
    OBVIOUS
  <2>5. QED
    BY <2>2, <2>3, <2>4, Zenon
<1>5. QED
  BY <1>2, <1>3, <1>4 DEF u

\* A marker put on top of all finished values has none of its parts.
LEMMA FilledOpened ==
  ASSUME NEW t, HasFields(t), NEW s \in Seq(Entries(t)), s # <<>>,
         TopOf(s).work = "value", NEW done, Filled(t, s, done), Len(done) \in Nat
  PROVE  Filled(t, Opened(t, s, Len(done)), done)
<1> DEFINE n == Len(s)
           i == TopOf(s).node
           q == Len(t.kids[i])
           start == Len(done)
           r == Opened(t, s, start)
           d == TopOf(s).depth + 1
<1>1. /\ n \in Nat \ {0} /\ q \in Nat /\ i \in NodesOf(t)
      /\ r \in Seq(Entries(t)) /\ Len(r) = n + q
      /\ \A k \in 1 .. n - 1 : r[k] = s[k]
      /\ r[n] = FinishWork(start, i)
      /\ \A k \in 1 .. q : /\ q + 1 - k \in 1 .. q
                           /\ r[n + k] = ValueWork(t.kids[i][q + 1 - k], d)
  <2>1. IsOpened(t, s, start, r)
    BY OpenedIs
  <2>2. QED
    BY <2>1 DEF IsOpened
<1>2. r[n].start = start /\ s[n].work = "value"
  BY <1>1 DEF FinishWork, TopOf
<1> HIDE DEF n, i, q, r, d
<1>3. ASSUME NEW k \in 1 .. q PROVE r[n + k].work = "value"
  <2> DEFINE e == r[n + k]
             j == t.kids[i][q + 1 - k]
  <2>1. e = ValueWork(j, d)
    BY <1>1
  <2> HIDE DEF e, j
  <2>2. e.work = "value"
    BY <2>1 DEF ValueWork
  <2>3. QED
    BY <2>2 DEF e
<1> SUFFICES ASSUME NEW h \in 1 .. n + q, r[h].work = "finish",
                    NEW x \in 1 .. start, r[h].start < x,
                    \A k \in 1 .. n + q : h < k /\ r[k].work = "finish" => x <= r[k].start
             PROVE  done[x] = Image(t)[t.kids[r[h].node][x - r[h].start]]
  BY <1>1 DEF Filled, r
<1>4. h \in 1 .. n - 1
  <2>1. h # n
    BY <1>2
  <2>2. ~(h > n)
    <3>1. ASSUME h > n PROVE FALSE
      <4>1. h - n \in 1 .. q /\ h = n + (h - n)
        BY <1>1, <3>1
      <4>2. QED
        BY <1>3, <4>1
    <3>2. QED
      BY <3>1
  <2>3. QED
    BY <1>1, <2>1, <2>2
<1>5. h \in 1 .. n /\ r[h] = s[h]
  BY <1>1, <1>4
<1>6. ASSUME NEW k \in 1 .. n, h < k, s[k].work = "finish" PROVE x <= s[k].start
  <2>1. k # n
    BY <1>2, <1>6
  <2>2. k \in 1 .. n - 1 /\ k \in 1 .. n + q
    BY <1>1, <2>1
  <2>3. r[k] = s[k]
    BY <1>1, <2>2
  <2>4. QED
    BY <1>6, <2>2, <2>3
<1>7. done[x] = Image(t)[t.kids[s[h].node][x - s[h].start]]
  BY <1>5, <1>6 DEF Filled, n
<1>8. QED
  BY <1>5, <1>7

-----------------------------------------------------------------------------
(* The leaves *)

\* The leaves under a node are itself or those under its parts.
LEMMA LeavesAre ==
  ASSUME NEW t, HasFields(t), NEW i \in NodesOf(t)
  PROVE  /\ t.kids[i] = <<>> => LeavesIn(t, i) = {i}
         /\ t.kids[i] # <<>> => LeavesIn(t, i) = UNION {LeavesIn(t, j) : j \in Held(t, i)}
<1>1. Subtree(t, i) =
        {i} \cup UNION {Subtree(t, t.kids[i][k]) : k \in 1 .. Len(t.kids[i])}
  BY SubtreeIs
<1>2. Subtree(t, i) = {i} \cup UNION {Subtree(t, j) : j \in Held(t, i)}
  BY <1>1 DEF Held
<1>3. t.kids[i] = <<>> => Held(t, i) = {}
  BY DEF Held
<1>4. QED
  BY <1>2, <1>3 DEF LeavesIn

\* What holds while the conversion runs.
LEMMA Assumed ==
  ASSUME Shape
  PROVE  /\ IsTree(tree) /\ HasFields(tree)
         /\ verdict = "running" =>
              /\ pending \in Seq(Entries(tree)) /\ Len(pending) \in Nat
              /\ Len(values) \in Nat
<1>1. IsTree(tree)
  BY TreeAssumption DEF Shape
<1>2. HasFields(tree)
  BY <1>1 DEF IsTree
<1>3. ASSUME verdict = "running"
      PROVE  pending \in Seq(Entries(tree)) /\ Len(pending) \in Nat /\ Len(values) \in Nat
  <2>1. pending \in Seq(Entries(tree)) /\ IsList(values)
    BY <1>3 DEF Shape, Nested
  <2>2. QED
    BY <2>1, ListIs, LenProperties
<1>4. QED
  BY <1>1, <1>2, <1>3

LEMMA InitShape == Init => Shape
<1> SUFFICES ASSUME Init PROVE Shape
  OBVIOUS
<1> DEFINE e == ValueWork(1, 1)
           s == <<e>>
<1>0. /\ tree \in Trees /\ IsTree(tree) /\ HasFields(tree) /\ verdict = "running"
      /\ pending = s /\ pendingValues = 1 /\ values = <<>>
  BY TreeAssumption DEF Init, IsTree
<1>1. e.work = "value" /\ e.node = 1 /\ e.depth = 1
  BY DEF ValueWork
<1>2. e \in Entries(tree)
  BY <1>0 DEF ValueWork, ValueEntries, Entries, HasFields
<1>3. s \in Seq(Entries(tree)) /\ Len(s) = 1 /\ s[1] = e
  BY <1>2
<1> HIDE DEF e, s
<1>4. \A k \in 1 .. Len(s) : k = 1 /\ s[k].work = "value" /\ s[k].node = 1
  BY <1>1, <1>3
<1>5. \A h, k \in 1 .. Len(s) : ~Holds(s, h, k)
  BY <1>4 DEF Holds
<1>6. \A k \in 2 .. Len(s) : FALSE
  BY <1>3
<1>7. tree.level[1] = 1
  BY <1>0 DEF IsTree
<1>8. Nested(tree, s)
  BY <1>1, <1>3, <1>4, <1>5, <1>6, <1>7 DEF Nested
<1>9. IsList(<<>>) /\ Len(<<>>) = 0
  BY EmptySeq, ListIn
<1>10. Ready(tree, s, 0)
  <2>1. Lands(tree, s, 0 + 1)
    BY <1>3, <1>5 DEF Lands
  <2>2. QED
    BY <1>1, <1>3, <2>1 DEF Ready
<1>11. Filled(tree, s, <<>>)
  BY <1>4 DEF Filled
<1>12. Waiting(s) = {1}
  BY <1>3, <1>4 DEF Waiting
<1>13. Cardinality(Waiting(s)) = 1
  BY <1>12, FS_Singleton
<1>14. Covered(tree, s, <<>>)
  <2>1. Named(s) = {1}
    BY <1>1, <1>3, <1>12 DEF Named
  <2>2. LeavesDone(<<>>) = {}
    BY <1>9 DEF LeavesDone
  <2>3. QED
    BY <2>1, <2>2 DEF Covered
<1>15. s # <<>>
  BY <1>3, <1>9
<1>16. QED
  BY <1>0, <1>8, <1>9, <1>10, <1>11, <1>13, <1>14, <1>15 DEF Shape

-----------------------------------------------------------------------------
(* The steps keep the shape *)

\* A leaf becomes its image.
LEMMA LeafImage ==
  ASSUME NEW t, IsTree(t), NEW i \in NodesOf(t), t.kids[i] = <<>>
  PROVE  Image(t)[i] = [kind |-> t.kind[i], label |-> i, kids |-> <<>>, leaves |-> {i}]
<1> DEFINE parts == [k \in DOMAIN t.kids[i] |-> Image(t)[t.kids[i][k]]]
<1>1. Image(t)[i] = Assembled(t, i, parts)
  BY ImageIs DEF Made
<1>2. DOMAIN t.kids[i] = {}
  OBVIOUS
<1>3. parts = <<>>
  BY <1>2
<1> HIDE DEF parts
<1>4. QED
  BY <1>1, <1>3 DEF Assembled

LEMMA ShapeLeaf ==
  ASSUME Shape, ConvertLeaf
  PROVE  Shape'
<1> DEFINE s == pending
           i == Top.node
           p == Len(values) + 1
           leaf == [kind |-> tree.kind[i], label |-> i, kids |-> <<>>, leaves |-> {i}]
           now == Append(values, leaf)
<1>1. /\ verdict = "running" /\ pending # <<>> /\ TopOf(s).work = "value"
      /\ i = TopOf(s).node /\ tree.kids[i] = <<>>
      /\ pending' = Under(s) /\ values' = now /\ pendingValues' = pendingValues - 1
      /\ UNCHANGED <<tree, verdict, drained>>
  BY DEF ConvertLeaf, OnValue, Top, TopOf, Kids, Rest, Under, Taken
<1>2. /\ IsTree(tree) /\ HasFields(tree) /\ s \in Seq(Entries(tree))
      /\ Len(values) \in Nat
  BY <1>1, Assumed
<1>3. /\ Nested(tree, s) /\ IsList(values) /\ Ready(tree, s, Len(values))
      /\ Filled(tree, s, values) /\ Covered(tree, s, values)
      /\ pendingValues = Cardinality(Waiting(s)) /\ tree \in Trees
  BY <1>1 DEF Shape
<1>4. i \in NodesOf(tree)
  <2>1. Len(s) \in 1 .. Len(s)
    BY <1>1, <1>2, EmptySeq
  <2>2. QED
    BY <1>1, <1>2, <2>1, EntryIs DEF TopOf
<1>5. Lands(tree, s, p)
  BY <1>1, <1>3 DEF Ready, TopOf
<1>6. /\ IsList(now) /\ Len(now) = p
      /\ \A k \in 1 .. Len(values) : now[k] = values[k]
      /\ now[p] = leaf
  BY <1>3, ListAppend
<1>7. leaf = Image(tree)[TopOf(s).node]
  BY <1>1, <1>2, <1>4, LeafImage
<1> HIDE DEF leaf, now, s, p, i
<1>8. /\ p \in Nat \ {0} /\ p - 1 = Len(values) /\ p - 1 <= Len(values)
      /\ TopOf(s).work # "finish" /\ s # <<>>
  BY <1>1, <1>2 DEF p, s
<1>9. /\ Filled(tree, Under(s), now) /\ Ready(tree, Under(s), p)
      /\ Under(s) = <<>> => now = <<Image(tree)[1]>>
  <2>1. (\A k \in 1 .. p - 1 : now[k] = values[k]) /\ now[p] = Image(tree)[TopOf(s).node]
    BY <1>6, <1>7, <1>8
  <2>2. QED
    BY <1>2, <1>3, <1>5, <1>6, <1>8, <2>1, Landing
<1>10. Nested(tree, Under(s))
  BY <1>3, <1>8, NestedUnder
<1>11. Cardinality(Waiting(Under(s))) = Cardinality(Waiting(s)) - 1
  BY <1>1, <1>2, <1>8, WaitingUnder
<1>12. Covered(tree, Under(s), now)
  <2>1. Named(s) = Named(Under(s)) \cup {i}
    BY <1>1, <1>2, <1>8, NamedUnder
  <2>2. LeavesIn(tree, i) = {i}
    BY <1>1, <1>2, <1>4, LeavesAre
  <2>3. LeavesDone(now) = LeavesDone(values) \cup {i}
    <3>1. now[p].leaves = {i}
      BY <1>6 DEF leaf
    <3>2. \A k \in 1 .. p : k \in 1 .. Len(values) \/ k = p
      BY <1>2, <1>8
    <3>3. p \in 1 .. p /\ \A k \in 1 .. Len(values) : k \in 1 .. p
      BY <1>2, <1>8
    <3>4. Len(now) = p
      BY <1>6
    <3>5. QED
      BY <1>6, <3>1, <3>2, <3>3, <3>4 DEF LeavesDone
  <2>4. QED
    BY <1>3, <2>1, <2>2, <2>3 DEF Covered
<1>13. Len(now) = p
  BY <1>6
<1>14. QED
  <2> DEFINE u == Under(s)
             m == Cardinality(Waiting(u))
  <2>1. /\ tree' = tree /\ tree \in Trees /\ verdict' = "running"
        /\ pending' = u /\ values' = now /\ pendingValues' = m
    BY <1>1, <1>3, <1>11 DEF s
  <2>2. /\ Nested(tree, u) /\ IsList(now) /\ Ready(tree, u, Len(now))
        /\ Filled(tree, u, now) /\ Covered(tree, u, now)
        /\ u = <<>> => now = <<Image(tree)[1]>>
    BY <1>6, <1>9, <1>10, <1>12, <1>13
  <2>3. m = Cardinality(Waiting(u))
    OBVIOUS
  <2> HIDE DEF u, m
  <2>4. QED
    BY <2>1, <2>2, <2>3 DEF Shape

\* What finishes lands where its marker says.
LEMMA FinishLands ==
  ASSUME NEW t, NEW s, Nested(t, s), s # <<>>, TopOf(s).work = "finish"
  PROVE  /\ TopOf(s).start \in Nat /\ TopOf(s).node \in NodesOf(t)
         /\ t.kids[TopOf(s).node] # <<>>
         /\ Lands(t, s, TopOf(s).start + 1)
<1> DEFINE n == Len(s)
<1>1. s \in Seq(Entries(t))
  BY DEF Nested
<1>2. n \in 1 .. n /\ TopOf(s) = s[n]
  BY <1>1, EmptySeq DEF TopOf
<1> HIDE DEF n
<1>3. s[n].work = "finish"
  BY <1>2
<1>4. s[n].start \in Nat /\ s[n].node \in NodesOf(t)
  BY <1>1, <1>2, <1>3, EntryIs DEF n
<1>5. t.kids[s[n].node] # <<>>
  BY <1>2, <1>3 DEF Nested, n
<1>6. n = 1 => s[n].start + 1 = 1
  BY <1>3, <1>4 DEF Nested
<1>7. \A h \in 1 .. n : Holds(s, h, n) => s[n].start + 1 = s[h].start + Part(t, s, h, n)
  BY <1>2, <1>3 DEF Nested, n
<1>8. Lands(t, s, s[n].start + 1)
  BY <1>6, <1>7 DEF Lands, n
<1>9. QED
  BY <1>2, <1>4, <1>5, <1>8

\* The parts a marker collects are the images of what its container holds.
IsCollected(t, done, start, i, parts) ==
  LET q == Len(t.kids[i])
  IN  /\ q \in Nat /\ Len(done) = start + q
      /\ IsList(parts) /\ Len(parts) = q /\ DOMAIN parts = 1 .. q
      /\ \A k \in 1 .. q : parts[k] = done[start + k]
      /\ Image(t)[i] = Assembled(t, i, parts)

LEMMA Collected ==
  ASSUME NEW t, IsTree(t), NEW s, Nested(t, s), s # <<>>, TopOf(s).work = "finish",
         NEW done, IsList(done), Ready(t, s, Len(done)), Filled(t, s, done)
  PROVE  IsCollected(t, done, TopOf(s).start, TopOf(s).node,
                     SubSeq(done, TopOf(s).start + 1, Len(done)))
<1> DEFINE n == Len(s)
           start == TopOf(s).start
           i == TopOf(s).node
           q == Len(t.kids[i])
           parts == SubSeq(done, start + 1, Len(done))
           images == [k \in DOMAIN t.kids[i] |-> Image(t)[t.kids[i][k]]]
<1>0. HasFields(t)
  BY DEF IsTree
<1>1. start \in Nat /\ i \in NodesOf(t)
  BY FinishLands
<1>2. q \in Nat /\ DOMAIN t.kids[i] = 1 .. q
  BY <1>0, <1>1, KidsType
<1>3. n \in 1 .. n /\ s[n].start = start /\ s[n].node = i /\ s[n].work = "finish"
  <2>1. s \in Seq(Entries(t))
    BY DEF Nested
  <2>2. n \in 1 .. n
    BY <2>1, EmptySeq
  <2>3. QED
    BY <2>2 DEF TopOf
<1>4. Len(done) = start + q
  BY DEF Ready, TopOf
<1> HIDE DEF n, start, i, q, parts
<1>5. /\ IsList(parts) /\ Len(parts) = q
      /\ \A k \in 1 .. q : parts[k] = done[start + k]
  <2> DEFINE a == start + 1
             b == Len(done)
  <2>1. a \in Nat \ {0} /\ b \in Nat /\ a <= b + 1 /\ b <= Len(done) /\ b + 1 - a = q
        /\ \A k \in 1 .. q : a + k - 1 = start + k
    BY <1>1, <1>2, <1>4
  <2>2. parts = SubSeq(done, a, b)
    BY DEF parts
  <2> HIDE DEF a, b
  <2>3. /\ IsList(SubSeq(done, a, b))
        /\ Len(SubSeq(done, a, b)) = b + 1 - a
        /\ \A k \in 1 .. b + 1 - a : SubSeq(done, a, b)[k] = done[a + k - 1]
    BY <2>1, ListPart
  <2>4. QED
    BY <2>1, <2>2, <2>3
<1>6. DOMAIN parts = 1 .. q
  BY <1>5, ListIs
<1>7. ASSUME NEW k \in 1 .. q PROVE parts[k] = Image(t)[t.kids[i][k]]
  <2> DEFINE p == start + k
  <2>1. p \in 1 .. Len(done) /\ start < p /\ p - start = k
    BY <1>1, <1>2, <1>4
  <2> HIDE DEF p
  <2>2. \A m \in 1 .. n : ~(n < m)
    BY <1>3
  <2>3. done[p] = Image(t)[t.kids[i][p - start]]
    BY <1>3, <2>1, <2>2 DEF Filled, n
  <2>4. QED
    BY <1>5, <2>1, <2>3 DEF p
<1>8. parts = images
  <2>1. parts = [k \in 1 .. q |-> parts[k]]
    <3>1. parts \in Seq(ElementsOf(parts))
      BY <1>5 DEF IsList
    <3>2. parts \in [1 .. q -> ElementsOf(parts)]
      BY <1>5, <3>1, LenProperties
    <3>3. QED
      BY <3>2
  <2>2. \A k \in 1 .. q : parts[k] = images[k]
    BY <1>2, <1>7
  <2>3. images = [k \in 1 .. q |-> images[k]]
    BY <1>2
  <2> HIDE DEF images
  <2>4. QED
    BY <2>1, <2>2, <2>3
<1>9. Image(t)[i] = Assembled(t, i, images)
  BY <1>1, ImageIs DEF Made
<1>10. Image(t)[i] = Assembled(t, i, parts)
  BY <1>8, <1>9
<1>11. QED
  BY <1>2, <1>4, <1>5, <1>6, <1>10 DEF start, i, q, parts, IsCollected

LEMMA ShapeFinish ==
  ASSUME Shape, Finish
  PROVE  Shape'
<1> DEFINE s == pending
           i == Top.node
           start == Top.start
           q == Len(tree.kids[i])
           parts == SubSeq(values, start + 1, Len(values))
           some == IF tree.kind[i] = "array" THEN parts ELSE SubSeq(parts, 1, q)
           made == [kind |-> tree.kind[i],
                    label |-> IF tree.kind[i] = "array" THEN 0 ELSE i,
                    kids |-> some,
                    leaves |-> UNION {some[k].leaves : k \in DOMAIN some}]
           below == SubSeq(values, 1, start)
           now == Append(below, made)
           p == start + 1
<1>1. /\ verdict = "running" /\ pending # <<>> /\ TopOf(s).work = "finish"
      /\ i = TopOf(s).node /\ start = TopOf(s).start
      /\ pending' = Under(s) /\ values' = now
      /\ UNCHANGED <<tree, verdict, drained, pendingValues>>
  BY DEF Finish, Top, TopOf, Rest, Under
<1>2. /\ IsTree(tree) /\ HasFields(tree) /\ s \in Seq(Entries(tree))
      /\ Len(values) \in Nat
  BY <1>1, Assumed
<1>3. /\ Nested(tree, s) /\ IsList(values) /\ Ready(tree, s, Len(values))
      /\ Filled(tree, s, values) /\ Covered(tree, s, values)
      /\ pendingValues = Cardinality(Waiting(s)) /\ tree \in Trees
  BY <1>1 DEF Shape
<1> HIDE DEF s, i, start, q, parts, some, made, below, now, p
<1>0. s # <<>>
  BY <1>1 DEF s
<1>4. /\ start \in Nat /\ i \in NodesOf(tree) /\ tree.kids[i] # <<>>
      /\ Lands(tree, s, p)
  BY <1>0, <1>1, <1>3, FinishLands DEF p
<1>5. /\ q \in Nat /\ Len(values) = start + q
      /\ IsList(parts) /\ Len(parts) = q /\ DOMAIN parts = 1 .. q
      /\ \A k \in 1 .. q : parts[k] = values[start + k]
      /\ Image(tree)[i] = Assembled(tree, i, parts)
  <2>1. IsCollected(tree, values, start, i, parts)
    BY <1>0, <1>1, <1>2, <1>3, Collected DEF parts
  <2>2. QED
    BY <2>1 DEF IsCollected, q
<1>6. some = parts
  <2> DEFINE all == SubSeq(parts, 1, q)
  <2>1. q <= Len(parts)
    BY <1>5
  <2>2. IsList(all) /\ Len(all) = q /\ \A k \in 1 .. q : all[k] = parts[k]
    BY <1>5, <2>1, ListStart
  <2> HIDE DEF all
  <2>3. all = parts
    BY <1>5, <2>2, ListsEqual
  <2>4. QED
    BY <2>3 DEF some, all
<1>7. made = Image(tree)[i]
  BY <1>4, <1>5, <1>6 DEF Assembled, made
<1>8. /\ IsList(below) /\ Len(below) = start
      /\ \A k \in 1 .. start : below[k] = values[k]
  <2>1. start <= Len(values)
    BY <1>4, <1>5
  <2>2. QED
    BY <1>3, <1>4, <2>1, ListStart DEF below
<1>9. /\ IsList(now) /\ Len(now) = p
      /\ \A k \in 1 .. start : now[k] = values[k]
      /\ now[p] = made
  BY <1>8, ListAppend DEF now, p
<1>10. p \in Nat \ {0} /\ p - 1 = start /\ p - 1 <= Len(values)
  BY <1>4, <1>5 DEF p
<1>11. /\ Filled(tree, Under(s), now) /\ Ready(tree, Under(s), p)
       /\ Under(s) = <<>> => now = <<Image(tree)[1]>>
  <2>1. (\A k \in 1 .. p - 1 : now[k] = values[k]) /\ now[p] = Image(tree)[TopOf(s).node]
    BY <1>1, <1>7, <1>9, <1>10
  <2>2. TopOf(s).work = "finish" => TopOf(s).start + 1 = p
    BY <1>1 DEF p
  <2>3. QED
    BY <1>0, <1>2, <1>3, <1>4, <1>9, <1>10, <2>1, <2>2, Landing
<1>12. Nested(tree, Under(s))
  BY <1>0, <1>3, NestedUnder
<1>13. Cardinality(Waiting(Under(s))) = Cardinality(Waiting(s))
  BY <1>0, <1>1, <1>2, WaitingUnder
<1>14. LeavesDone(now) = LeavesDone(values)
  <2>1. made.leaves = UNION {parts[k].leaves : k \in 1 .. q}
    BY <1>5, <1>6 DEF made
  <2>2. \A k \in 1 .. q : start + k \in 1 .. Len(values)
    BY <1>4, <1>5
  <2>3. \A k \in 1 .. Len(values) :
          k \in 1 .. start \/ (k - start \in 1 .. q /\ start + (k - start) = k)
    BY <1>4, <1>5
  <2>4. \A k \in 1 .. start : k \in 1 .. Len(values) /\ k \in 1 .. p
    BY <1>4, <1>5, <1>10
  <2>5. \A k \in 1 .. p : k \in 1 .. start \/ k = p
    BY <1>4, <1>10
  <2>6. p \in 1 .. p
    BY <1>10
  <2>7. ASSUME NEW x \in LeavesDone(now) PROVE x \in LeavesDone(values)
    <3>1. PICK k \in 1 .. p : x \in now[k].leaves
      BY <1>9 DEF LeavesDone
    <3>2. CASE k \in 1 .. start
      BY <1>9, <2>4, <3>1, <3>2 DEF LeavesDone
    <3>3. CASE k = p
      <4>1. PICK l \in 1 .. q : x \in parts[l].leaves
        BY <1>9, <2>1, <3>1, <3>3
      <4>2. QED
        BY <1>5, <2>2, <4>1 DEF LeavesDone
    <3>4. QED
      BY <2>5, <3>2, <3>3
  <2>8. ASSUME NEW x \in LeavesDone(values) PROVE x \in LeavesDone(now)
    <3>1. PICK k \in 1 .. Len(values) : x \in values[k].leaves
      BY DEF LeavesDone
    <3>2. CASE k \in 1 .. start
      BY <1>9, <2>4, <3>1, <3>2 DEF LeavesDone
    <3>3. CASE k - start \in 1 .. q /\ start + (k - start) = k
      <4>1. x \in parts[k - start].leaves
        BY <1>5, <3>1, <3>3
      <4>2. x \in now[p].leaves
        BY <1>9, <2>1, <3>3, <4>1
      <4>3. QED
        BY <1>9, <2>6, <4>2 DEF LeavesDone
    <3>4. QED
      BY <2>3, <3>2, <3>3
  <2>9. QED
    BY <2>7, <2>8
<1>15. Covered(tree, Under(s), now)
  <2>1. Named(s) = Named(Under(s))
    BY <1>0, <1>1, <1>2, NamedUnder
  <2>2. QED
    BY <1>3, <1>14, <2>1 DEF Covered
<1>16. QED
  <2> DEFINE u == Under(s)
             m == Cardinality(Waiting(u))
  <2>1. /\ tree' = tree /\ tree \in Trees /\ verdict' = "running"
        /\ pending' = u /\ values' = now /\ pendingValues' = m
    BY <1>1, <1>3, <1>13 DEF s
  <2>2. /\ Nested(tree, u) /\ IsList(now) /\ Ready(tree, u, Len(now))
        /\ Filled(tree, u, now) /\ Covered(tree, u, now)
        /\ u = <<>> => now = <<Image(tree)[1]>>
    BY <1>9, <1>11, <1>12, <1>15
  <2>3. m = Cardinality(Waiting(u))
    OBVIOUS
  <2> HIDE DEF u, m
  <2>4. QED
    BY <2>1, <2>2, <2>3 DEF Shape

LEMMA ShapeSchedule ==
  ASSUME Shape, Schedule
  PROVE  Shape'
<1> DEFINE s == pending
           i == TopOf(s).node
           q == Len(tree.kids[i])
           start == Len(values)
           r == Opened(tree, s, start)
<1>1. /\ verdict = "running" /\ s # <<>> /\ TopOf(s).work = "value"
      /\ tree.kids[i] # <<>>
      /\ pending' = r /\ pendingValues' = pendingValues - 1 + q
      /\ UNCHANGED <<tree, verdict, drained, values>>
  BY DEF Schedule, OnValue, Top, TopOf, Kids, Rest, Under, Taken, ChildWork,
         Opened, PartWork
<1>2. /\ IsTree(tree) /\ HasFields(tree) /\ s \in Seq(Entries(tree))
      /\ start \in Nat
  BY <1>1, Assumed
<1>3. /\ Nested(tree, s) /\ IsList(values) /\ Ready(tree, s, start)
      /\ Filled(tree, s, values) /\ Covered(tree, s, values)
      /\ pendingValues = Cardinality(Waiting(s)) /\ tree \in Trees
  BY <1>1 DEF Shape
<1>4. i \in NodesOf(tree)
  <2>1. Len(s) \in 1 .. Len(s)
    BY <1>1, <1>2, EmptySeq
  <2>2. QED
    BY <1>2, <2>1, EntryIs DEF TopOf
<1>5. Lands(tree, s, start + 1)
  BY <1>1, <1>3 DEF Ready, TopOf
<1>6. Nested(tree, r) /\ Ready(tree, r, start)
  BY <1>1, <1>2, <1>3, <1>5, NestedOpened
<1>7. Filled(tree, r, values)
  BY <1>1, <1>2, <1>3, FilledOpened
<1>8. Cardinality(Waiting(r)) = Cardinality(Waiting(s)) - 1 + q
  BY <1>1, <1>2, WaitingOpened
<1>9. Covered(tree, r, values)
  <2>1. Named(s) = Named(Under(s)) \cup {i}
    BY <1>1, <1>2, NamedUnder
  <2>2. Named(r) = Named(Under(s)) \cup Held(tree, i)
    BY <1>1, <1>2, NamedOpened
  <2>3. LeavesIn(tree, i) = UNION {LeavesIn(tree, j) : j \in Held(tree, i)}
    BY <1>1, <1>2, <1>4, LeavesAre
  <2> HIDE DEF s, r, i
  <2>4. QED
    BY <1>3, <2>1, <2>2, <2>3 DEF Covered
<1>10. r # <<>>
  <2>1. IsOpened(tree, s, start, r)
    BY <1>1, <1>2, OpenedIs
  <2>2. Len(r) # 0
    BY <1>1, <2>1 DEF IsOpened
  <2>3. QED
    BY <2>2
<1>11. QED
  <2> DEFINE m == Cardinality(Waiting(r))
  <2>1. /\ tree' = tree /\ tree \in Trees /\ verdict' = "running"
        /\ pending' = r /\ values' = values /\ pendingValues' = m
    BY <1>1, <1>3, <1>8
  <2>2. m = Cardinality(Waiting(r))
    OBVIOUS
  <2> HIDE DEF r, m
  <2>3. QED
    BY <1>3, <1>6, <1>7, <1>9, <1>10, <2>1, <2>2 DEF Shape

LEMMA ShapeDeliver ==
  ASSUME Shape, Deliver
  PROVE  Shape'
<1>1. /\ tree \in Trees /\ values = <<Image(tree)[1]>> /\ verdict = "running"
      /\ UNCHANGED <<tree, values>>
      /\ verdict' = IF Len(values) = 1 THEN "accepted" ELSE "stack"
  BY DEF Deliver, Shape
<1>2. Len(values) = 1
  BY <1>1
<1>3. verdict' = "accepted"
  BY <1>1, <1>2
<1>4. QED
  BY <1>1, <1>3 DEF Shape

LEMMA ShapeReject ==
  ASSUME Shape, Reject, verdict' \notin {"running", "accepted"}
  PROVE  Shape'
BY DEF Reject, Shape

\* All leaves but one in hand are in the drain when the input is rejected.
LEMMA RejectDrains ==
  ASSUME Shape, Reject
  PROVE  LeavesUnder(1) \ drained' \subseteq {Top.node}
<1> DEFINE s == pending
           u == Under(s)
           i == TopOf(s).node
           held == UNION {LeavesUnder(j) : j \in Current}
<1>1. /\ verdict = "running" /\ s # <<>> /\ TopOf(s).work = "value"
      /\ Rest = u /\ Top.node = i
      /\ pendingValues >= 1 => drained' = Owned \cup held
  BY DEF Reject, OnValue, Top, TopOf, Rest, Under
<1>2. /\ HasFields(tree) /\ IsTree(tree) /\ s \in Seq(Entries(tree))
  BY <1>1, Assumed
<1>3. /\ Covered(tree, s, values) /\ IsList(values)
      /\ pendingValues = Cardinality(Waiting(s))
  BY <1>1 DEF Shape
<1>4. DOMAIN values = 1 .. Len(values)
  BY <1>3, ListIs
<1>5. u \in Seq(Entries(tree)) /\ DOMAIN u = 1 .. Len(u)
  <2>1. u \in Seq(Entries(tree))
    BY <1>1, <1>2, UnderIs
  <2>2. QED
    BY <2>1, LenProperties
<1>6. Named(s) = Named(u) \cup {i}
  BY <1>1, <1>2, NamedUnder
<1>7. pendingValues >= 1
  <2>1. /\ IsFiniteSet(Waiting(s)) /\ pendingValues \in Nat
        /\ Waiting(u) = Waiting(s) \ {Len(s)}
        /\ Cardinality(Waiting(u)) = pendingValues - 1
    BY <1>1, <1>2, <1>3, WaitingUnder
  <2>2. IsFiniteSet(Waiting(u))
    BY <2>1, FS_Difference
  <2>3. Cardinality(Waiting(u)) \in Nat
    BY <2>2, FS_CardinalityType
  <2>4. QED
    BY <2>1, <2>3
<1>8. \A j : LeavesUnder(j) = LeavesIn(tree, j)
  BY DEF LeavesUnder, LeavesIn
<1>9. LeavesUnder(i) \ held \subseteq {i}
  <2>1. CASE Kids = <<>>
    <3>1. tree.kids[i] = <<>> /\ i \in NodesOf(tree)
      <4>1. Len(s) \in 1 .. Len(s)
        BY <1>1, <1>2, EmptySeq
      <4>2. QED
        BY <1>1, <1>2, <2>1, <4>1, EntryIs DEF Kids, TopOf
    <3>2. LeavesIn(tree, i) \subseteq {i}
      BY <1>2, <3>1, LeavesAre
    <3>3. QED
      BY <1>8, <3>2
  <2>2. CASE Kids # <<>>
    <3>1. Current = {i}
      BY <1>1, <2>2 DEF Current
    <3>2. QED
      BY <3>1
  <2>3. QED
    BY <2>1, <2>2
<1> HIDE DEF s, u, i, held
<1>10. Owned = (UNION {LeavesUnder(j) : j \in Named(u)}) \cup LeavesDone(values)
  BY <1>1, <1>4, <1>5 DEF Owned, Named, Waiting, LeavesDone
<1>11. LeavesUnder(1) = (UNION {LeavesUnder(j) : j \in Named(u)}) \cup LeavesUnder(i)
                          \cup LeavesDone(values)
  BY <1>3, <1>6, <1>8 DEF Covered
<1>12. QED
  BY <1>1, <1>7, <1>9, <1>10, <1>11

-----------------------------------------------------------------------------
(* Checks, one list of them after another *)

\* A list of checks whose failures give reasons in R.
Right(checks, R) ==
  /\ IsList(checks)
  /\ \A k \in 1 .. Len(checks) : ~checks[k][1] => checks[k][2] \in R

LEMMA BothHold ==
  ASSUME NEW a, NEW b, IsList(a), IsList(b), AllHold(a \o b)
  PROVE  AllHold(a) /\ AllHold(b)
<1> DEFINE c == a \o b
<1>1. /\ IsList(c) /\ Len(c) = Len(a) + Len(b)
      /\ \A k \in 1 .. Len(a) : c[k] = a[k]
      /\ \A k \in 1 .. Len(b) : c[Len(a) + k] = b[k]
  BY ListConcat
<1>2. /\ DOMAIN a = 1 .. Len(a) /\ DOMAIN b = 1 .. Len(b) /\ DOMAIN c = 1 .. Len(c)
      /\ Len(a) \in Nat /\ Len(b) \in Nat
  BY <1>1, ListIs
<1>3. \A k \in 1 .. Len(c) : c[k][1]
  BY <1>2 DEF AllHold
<1> HIDE DEF c
<1>4. ASSUME NEW k \in 1 .. Len(a) PROVE a[k][1]
  <2>1. k \in 1 .. Len(c) /\ c[k] = a[k]
    BY <1>1, <1>2
  <2>2. QED
    BY <1>3, <2>1
<1>5. ASSUME NEW k \in 1 .. Len(b) PROVE b[k][1]
  <2>1. Len(a) + k \in 1 .. Len(c) /\ c[Len(a) + k] = b[k]
    BY <1>1, <1>2
  <2>2. QED
    BY <1>3, <2>1
<1>6. QED
  BY <1>2, <1>4, <1>5 DEF AllHold

LEMMA BothRight ==
  ASSUME NEW R, NEW a, NEW b, Right(a, R), Right(b, R)
  PROVE  Right(a \o b, R)
<1> DEFINE c == a \o b
<1>0. IsList(a) /\ IsList(b)
  BY DEF Right
<1>1. /\ IsList(c) /\ Len(c) = Len(a) + Len(b)
      /\ \A k \in 1 .. Len(a) : c[k] = a[k]
      /\ \A k \in 1 .. Len(b) : c[Len(a) + k] = b[k]
  BY <1>0, ListConcat
<1>2. Len(a) \in Nat /\ Len(b) \in Nat
  BY <1>0, ListIs
<1> HIDE DEF c
<1>3. ASSUME NEW k \in 1 .. Len(c), ~c[k][1] PROVE c[k][2] \in R
  <2>1. CASE k <= Len(a)
    <3>1. k \in 1 .. Len(a)
      BY <1>1, <1>2, <2>1
    <3>2. c[k] = a[k]
      BY <1>1, <3>1
    <3>3. QED
      BY <1>3, <3>1, <3>2 DEF Right
  <2>2. CASE k > Len(a)
    <3> DEFINE l == k - Len(a)
    <3>1. l \in 1 .. Len(b) /\ k = Len(a) + l
      BY <1>1, <1>2, <2>2
    <3> HIDE DEF l
    <3>2. c[k] = b[l]
      BY <1>1, <3>1
    <3>3. QED
      BY <1>3, <3>1, <3>2 DEF Right
  <2>3. QED
    BY <1>1, <1>2, <2>1, <2>2
<1>4. QED
  BY <1>1, <1>3 DEF Right, c

LEMMA FailureRight ==
  ASSUME NEW R, NEW checks, Right(checks, R), ~AllHold(checks)
  PROVE  FirstFailure(checks) \in R
<1>1. Len(checks) \in Nat /\ DOMAIN checks = 1 .. Len(checks)
  BY ListIs DEF Right
<1>2. PICK k \in 1 .. Len(checks) :
        ~checks[k][1] /\ FirstFailure(checks) = checks[k][2]
  BY <1>1, FailureFails
<1>3. QED
  BY <1>2 DEF Right

\* The lists there are.
LEMMA ShortLists ==
  ASSUME NEW a, NEW b, NEW c, NEW d
  PROVE  /\ IsList(<<a>>) /\ Len(<<a>>) = 1 /\ <<a>>[1] = a
         /\ IsList(<<a, b, c>>) /\ Len(<<a, b, c>>) = 3
         /\ <<a, b, c>>[1] = a /\ <<a, b, c>>[2] = b /\ <<a, b, c>>[3] = c
         /\ IsList(<<a, b, c, d>>) /\ Len(<<a, b, c, d>>) = 4
         /\ <<a, b, c, d>>[1] = a /\ <<a, b, c, d>>[2] = b
         /\ <<a, b, c, d>>[3] = c /\ <<a, b, c, d>>[4] = d
<1>1. <<a>> \in Seq({a}) /\ <<a, b, c>> \in Seq({a, b, c})
      /\ <<a, b, c, d>> \in Seq({a, b, c, d})
  OBVIOUS
<1>2. IsList(<<a>>) /\ IsList(<<a, b, c>>) /\ IsList(<<a, b, c, d>>)
  BY <1>1, ListIn
<1>3. QED
  BY <1>2

\* One, three or four checks: what all of them say, and what they give in failing.
LEMMA OneCheck ==
  ASSUME NEW p \in BOOLEAN,
         NEW w, NEW R
  PROVE  LET s == <<<<p, w>>>>
         IN  /\ IsList(s)
             /\ AllHold(s) => p
             /\ (p \/ w \in R)
                  => Right(s, R)
<1> DEFINE a == <<p, w>>
           s == <<a>>
<1>1. IsList(s) /\ Len(s) = 1 /\ s[1] = a
  BY ShortLists
<1>2. DOMAIN s = 1 .. 1
  BY <1>1, ListIs
<1>3. a[1] = p /\ a[2] = w
  OBVIOUS
<1> HIDE DEF a, s
<1>4. \A k \in 1 .. 1 : k = 1
  OBVIOUS
<1>5. ASSUME p \/ w \in R
      PROVE  Right(s, R)
  <2>1. ~s[1][1] => s[1][2] \in R
    BY <1>1, <1>3, <1>5
  <2>2. QED
    BY <1>1, <1>4, <2>1 DEF Right
<1>6. ASSUME AllHold(s) PROVE p
  <2>1. 1 \in 1 .. 1
    OBVIOUS
  <2>2. s[1][1]
    BY <1>2, <1>6, <2>1 DEF AllHold
  <2>3. QED
    BY <1>1, <1>3, <2>2
<1>7. QED
  BY <1>1, <1>5, <1>6 DEF s, a

LEMMA ThreeChecks ==
  ASSUME NEW p \in BOOLEAN, NEW q \in BOOLEAN, NEW r \in BOOLEAN,
         NEW w, NEW x, NEW y, NEW R
  PROVE  LET s == <<<<p, w>>, <<q, x>>, <<r, y>>>>
         IN  /\ IsList(s)
             /\ AllHold(s) => p /\ q /\ r
             /\ (p \/ w \in R) /\ (q \/ x \in R) /\ (r \/ y \in R)
                  => Right(s, R)
<1> DEFINE a == <<p, w>>
           b == <<q, x>>
           c == <<r, y>>
           s == <<a, b, c>>
<1>1. IsList(s) /\ Len(s) = 3 /\ s[1] = a /\ s[2] = b /\ s[3] = c
  BY ShortLists
<1>2. DOMAIN s = 1 .. 3
  BY <1>1, ListIs
<1>3. /\ a[1] = p /\ a[2] = w /\ b[1] = q /\ b[2] = x
      /\ c[1] = r /\ c[2] = y
  OBVIOUS
<1> HIDE DEF a, b, c, s
<1>4. \A k \in 1 .. 3 : k = 1 \/ k = 2 \/ k = 3
  OBVIOUS
<1>5. ASSUME p \/ w \in R, q \/ x \in R, r \/ y \in R
      PROVE  Right(s, R)
  <2>1. ~s[1][1] => s[1][2] \in R
    BY <1>1, <1>3, <1>5
  <2>2. ~s[2][1] => s[2][2] \in R
    BY <1>1, <1>3, <1>5
  <2>3. ~s[3][1] => s[3][2] \in R
    BY <1>1, <1>3, <1>5
  <2>4. QED
    BY <1>1, <1>4, <2>1, <2>2, <2>3 DEF Right
<1>6. ASSUME AllHold(s) PROVE p /\ q /\ r
  <2>1. 1 \in 1 .. 3 /\ 2 \in 1 .. 3 /\ 3 \in 1 .. 3
    OBVIOUS
  <2>2. s[1][1] /\ s[2][1] /\ s[3][1]
    BY <1>2, <1>6, <2>1 DEF AllHold
  <2>3. QED
    BY <1>1, <1>3, <2>2
<1>7. QED
  BY <1>1, <1>5, <1>6 DEF s, a, b, c

LEMMA FourChecks ==
  ASSUME NEW p \in BOOLEAN, NEW q \in BOOLEAN, NEW r \in BOOLEAN, NEW o \in BOOLEAN,
         NEW w, NEW x, NEW y, NEW z, NEW R
  PROVE  LET s == <<<<p, w>>, <<q, x>>, <<r, y>>, <<o, z>>>>
         IN  /\ IsList(s)
             /\ AllHold(s) => p /\ q /\ r /\ o
             /\ (p \/ w \in R) /\ (q \/ x \in R) /\ (r \/ y \in R) /\ (o \/ z \in R)
                  => Right(s, R)
<1> DEFINE a == <<p, w>>
           b == <<q, x>>
           c == <<r, y>>
           d == <<o, z>>
           s == <<a, b, c, d>>
<1>1. IsList(s) /\ Len(s) = 4 /\ s[1] = a /\ s[2] = b /\ s[3] = c /\ s[4] = d
  BY ShortLists
<1>2. DOMAIN s = 1 .. 4
  BY <1>1, ListIs
<1>3. /\ a[1] = p /\ a[2] = w /\ b[1] = q /\ b[2] = x
      /\ c[1] = r /\ c[2] = y /\ d[1] = o /\ d[2] = z
  OBVIOUS
<1> HIDE DEF a, b, c, d, s
<1>4. \A k \in 1 .. 4 : k = 1 \/ k = 2 \/ k = 3 \/ k = 4
  OBVIOUS
<1>5. ASSUME p \/ w \in R, q \/ x \in R, r \/ y \in R, o \/ z \in R
      PROVE  Right(s, R)
  <2>1. ~s[1][1] => s[1][2] \in R
    BY <1>1, <1>3, <1>5
  <2>2. ~s[2][1] => s[2][2] \in R
    BY <1>1, <1>3, <1>5
  <2>3. ~s[3][1] => s[3][2] \in R
    BY <1>1, <1>3, <1>5
  <2>4. ~s[4][1] => s[4][2] \in R
    BY <1>1, <1>3, <1>5
  <2>5. QED
    BY <1>1, <1>4, <2>1, <2>2, <2>3, <2>4 DEF Right
<1>6. ASSUME AllHold(s) PROVE p /\ q /\ r /\ o
  <2>1. 1 \in 1 .. 4 /\ 2 \in 1 .. 4 /\ 3 \in 1 .. 4 /\ 4 \in 1 .. 4
    OBVIOUS
  <2>2. s[1][1] /\ s[2][1] /\ s[3][1] /\ s[4][1]
    BY <1>2, <1>6, <2>1 DEF AllHold
  <2>3. QED
    BY <1>1, <1>3, <2>2
<1>7. QED
  BY <1>1, <1>5, <1>6 DEF s, a, b, c, d

-----------------------------------------------------------------------------
(* The nodes waited for are as many as the values *)

LEMMA NamedCount ==
  ASSUME NEW t, NEW s \in Seq(Entries(t)), Distinct(s)
  PROVE  /\ IsFiniteSet(Named(s)) /\ Cardinality(Named(s)) = Cardinality(Waiting(s))
         /\ Named(s) \in SUBSET NodesOf(t)
<1> DEFINE W == Waiting(s)
           T == Named(s)
           f == [k \in W |-> s[k].node]
<1>1. IsFiniteSet(W)
  <2>1. Len(s) \in Nat /\ W \subseteq 1 .. Len(s)
    BY LenProperties DEF Waiting
  <2>2. QED
    BY <2>1, Counted, FS_Subset
<1>2. T = {s[k].node : k \in W}
  BY DEF Named
<1>3. f \in Bijection(W, T)
  <2>1. f \in [W -> T] /\ \A y \in T : \E k \in W : f[k] = y
    BY <1>2
  <2>2. \A k, l \in W : f[k] = f[l] => k = l
    BY DEF Distinct
  <2> HIDE DEF W, T, f
  <2>3. f \in Injection(W, T) /\ f \in Surjection(W, T)
    BY <2>1, <2>2 DEF Injection, Surjection, IsInjective
  <2>4. QED
    BY <2>3 DEF Bijection
<1>4. T \in SUBSET NodesOf(t)
  <2>1. \A k \in W : s[k].node \in NodesOf(t)
    BY EntryIs DEF Waiting
  <2>2. QED
    BY <1>2, <2>1
<1> HIDE DEF W, T, f
<1>5. ExistsBijection(W, T)
  BY <1>3 DEF ExistsBijection
<1>6. QED
  BY <1>1, <1>4, <1>5, FS_Bijection DEF W, T

\* They stay distinct when the top entry goes,
LEMMA DistinctUnder ==
  ASSUME NEW t, NEW s \in Seq(Entries(t)), s # <<>>, Distinct(s)
  PROVE  /\ Distinct(Under(s))
         /\ TopOf(s).work = "value" => TopOf(s).node \notin Named(Under(s))
<1> DEFINE n == Len(s)
           u == Under(s)
           W == Waiting(s)
           U == Waiting(u)
<1>1. /\ U = W \ {n}
      /\ n \in W <=> TopOf(s).work = "value"
      /\ \A k \in W : u[k] = s[k] \/ k = n
  BY WaitingUnder
<1>2. TopOf(s) = s[n] /\ Named(u) = {u[k].node : k \in U}
  BY DEF TopOf, Named
<1>3. \A k, l \in W : s[k].node = s[l].node => k = l
  BY DEF Distinct
<1> HIDE DEF n, u, W, U
<1>4. \A k \in U : k \in W /\ k # n /\ u[k] = s[k]
  BY <1>1
<1>5. \A k, l \in U : u[k].node = u[l].node => k = l
  BY <1>3, <1>4
<1>6. n \in W => \A k \in U : u[k].node # s[n].node
  BY <1>3, <1>4
<1>7. QED
  BY <1>1, <1>2, <1>5, <1>6 DEF Distinct, u, U

\* and when a container is opened whose parts were not waited for.
LEMMA DistinctOpened ==
  ASSUME NEW t, IsTree(t), NEW s \in Seq(Entries(t)), s # <<>>, Distinct(s),
         TopOf(s).work = "value", NEW start \in Nat,
         Held(t, TopOf(s).node) \cap Named(s) = {}
  PROVE  Distinct(Opened(t, s, start))
<1> DEFINE n == Len(s)
           i == TopOf(s).node
           q == Len(t.kids[i])
           r == Opened(t, s, start)
           u == Under(s)
           d == TopOf(s).depth + 1
           U == Waiting(u)
<1>0. HasFields(t)
  BY DEF IsTree
<1>1. /\ n \in Nat \ {0} /\ q \in Nat /\ i \in NodesOf(t)
      /\ \A k \in 1 .. n - 1 : r[k] = s[k]
      /\ \A k \in 1 .. q : /\ q + 1 - k \in 1 .. q
                           /\ r[n + k] = ValueWork(t.kids[i][q + 1 - k], d)
  <2>1. IsOpened(t, s, start, r)
    BY <1>0, OpenedIs
  <2>2. QED
    BY <2>1 DEF IsOpened
<1>2. Waiting(r) = U \cup {n + k : k \in 1 .. q}
  BY <1>0, WaitingOpened
<1>3. \A k \in U : r[k] = u[k]
  <2>1. \A k \in 1 .. n - 1 : u[k] = s[k]
    BY UnderIs
  <2>2. \A k \in U : k \in 1 .. n - 1
    BY UnderIs DEF Waiting
  <2>3. QED
    BY <1>1, <2>1, <2>2
<1>4. \A k, l \in U : u[k].node = u[l].node => k = l
  BY DistinctUnder DEF Distinct
<1>5. /\ \A k \in U : u[k].node \notin Held(t, i)
      /\ Held(t, i) = {t.kids[i][k] : k \in 1 .. q}
  <2>1. Named(u) \subseteq Named(s)
    BY NamedUnder, EntryIs
  <2>2. \A k \in U : u[k].node \in Named(u)
    BY DEF Named
  <2>3. QED
    BY <2>1, <2>2 DEF Held
<1>6. \A k, l \in 1 .. q : t.kids[i][k] = t.kids[i][l] => k = l
  BY <1>1, KidsDistinct
<1> HIDE DEF n, i, q, r, d, u, U
<1>7. ASSUME NEW k \in 1 .. q PROVE r[n + k].node = t.kids[i][q + 1 - k]
  <2> DEFINE e == r[n + k]
             j == t.kids[i][q + 1 - k]
  <2>1. e = ValueWork(j, d)
    BY <1>1
  <2> HIDE DEF e, j
  <2>2. e.node = j
    BY <2>1 DEF ValueWork
  <2>3. QED
    BY <2>2 DEF e, j
<1>8. ASSUME NEW k \in U, NEW l \in 1 .. q PROVE r[k].node # r[n + l].node
  <2>1. r[n + l].node \in Held(t, i)
    BY <1>1, <1>5, <1>7
  <2>2. QED
    BY <1>3, <1>5, <2>1
<1>9. ASSUME NEW k \in 1 .. q, NEW l \in 1 .. q, r[n + k].node = r[n + l].node
      PROVE  k = l
  <2> DEFINE a == q + 1 - k
             b == q + 1 - l
  <2>1. a \in 1 .. q /\ b \in 1 .. q /\ t.kids[i][a] = t.kids[i][b]
    BY <1>1, <1>7, <1>9
  <2> HIDE DEF a, b
  <2>2. a = b
    BY <1>6, <2>1
  <2>3. QED
    BY <1>1, <2>2 DEF a, b
<1>10. ASSUME NEW x \in Waiting(r), NEW y \in Waiting(r), r[x].node = r[y].node
       PROVE  x = y
  <2>1. CASE x \in U /\ y \in U
    BY <1>3, <1>4, <1>10, <2>1
  <2>2. CASE x \in U /\ y \notin U
    BY <1>2, <1>8, <1>10, <2>2
  <2>3. CASE x \notin U /\ y \in U
    BY <1>2, <1>8, <1>10, <2>3
  <2>4. CASE x \notin U /\ y \notin U
    <3>1. PICK k \in 1 .. q : x = n + k
      BY <1>2, <2>4
    <3>2. PICK l \in 1 .. q : y = n + l
      BY <1>2, <2>4
    <3>3. QED
      BY <1>9, <1>10, <3>1, <3>2
  <2>5. QED
    BY <2>1, <2>2, <2>3, <2>4
<1>11. QED
  BY <1>10 DEF Distinct, r

-----------------------------------------------------------------------------
(* The value on top of the stack *)

Counters == [depth : Nat, nodes : Nat, items : Nat, bytes : Nat]

LEMMA Limited ==
  ASSUME Metered
  PROVE  /\ limits \in [depth : Nat, nodes : Nat, items : Nat, bytes : Nat, string : Nat]
         /\ DepthLimit(limits) \in Nat
BY LimitAssumption, DepthCeilingAssumption DEF Metered, DepthLimit

\* It was not visited, the counter counts it with those waiting below, and
\* weighing it gives what it weighs together with those visited.
LEMMA Visiting ==
  ASSUME IInv, OnValue, NEW V \in SUBSET NodesOf(tree), Walked(V)
  PROVE  /\ Top.node \in NodesOf(tree) /\ Top.node \in Named(pending) /\ Top.node \notin V
         /\ Top.depth = tree.level[Top.node] /\ Top.depth \in Nat
         /\ Named(Rest) = Named(pending) \ {Top.node}
         /\ IsFiniteSet(Named(Rest)) /\ Taken = Cardinality(Named(Rest))
         /\ Taken \in Nat /\ pendingValues >= 1
         /\ tree.text[Top.node] \in Nat /\ Len(Kids) \in Nat
         /\ Noded \in Counters /\ Itemed \in Counters
         /\ Noded.depth = (IF Top.depth > metrics.depth THEN Top.depth ELSE metrics.depth)
         /\ Noded.nodes = metrics.nodes + 1 /\ Noded.bytes = metrics.bytes + 1
         /\ Noded.items = metrics.items
         /\ Itemed.depth = Noded.depth /\ Itemed.nodes = Noded.nodes
         /\ Itemed.bytes = Noded.bytes /\ Itemed.items = Noded.items + Len(Kids)
         /\ Weighed(Itemed) = Weight(tree, V \cup {Top.node})
         /\ Kids = <<>> => Weighed(Noded) = Weighed(Itemed)
<1> DEFINE s == pending
           i == Top.node
           q == Len(Kids)
<1>0. /\ verdict = "running" /\ s # <<>> /\ TopOf(s).work = "value"
      /\ Top = TopOf(s) /\ Rest = Under(s) /\ Kids = tree.kids[i]
  BY DEF OnValue, Top, TopOf, Rest, Under, Kids
<1>1. /\ IsTree(tree) /\ HasFields(tree) /\ s \in Seq(Entries(tree))
      /\ Nested(tree, s) /\ Distinct(s) /\ pendingValues = Cardinality(Waiting(s))
  BY <1>0, Assumed DEF IInv, Shape, Metered
<1>2. i \in NodesOf(tree) /\ Top.depth = tree.level[i] /\ Top.depth \in Nat
  <2>1. Len(s) \in 1 .. Len(s)
    BY <1>0, <1>1, EmptySeq
  <2>2. i \in NodesOf(tree) /\ Top.depth \in Nat
    BY <1>0, <1>1, <2>1, EntryIs DEF TopOf
  <2>3. Top.depth = tree.level[i]
    BY <1>0, <1>1, <2>1 DEF Nested, TopOf
  <2>4. QED
    BY <2>2, <2>3
<1>3. /\ Named(s) = Named(Rest) \cup {i} /\ i \notin Named(Rest)
      /\ Distinct(Rest) /\ Rest \in Seq(Entries(tree))
  BY <1>0, <1>1, NamedUnder, DistinctUnder, UnderIs
<1>4. i \in Named(s) /\ Named(Rest) = Named(s) \ {i} /\ i \notin V
  BY <1>3 DEF Walked, Frontier
<1>5. /\ IsFiniteSet(Named(Rest)) /\ Taken = Cardinality(Named(Rest))
      /\ Taken \in Nat /\ pendingValues >= 1
  <2>1. IsFiniteSet(Named(Rest)) /\ Cardinality(Named(Rest)) = Cardinality(Waiting(Rest))
    BY <1>1, <1>3, NamedCount
  <2>2. Cardinality(Waiting(Rest)) = pendingValues - 1 /\ pendingValues \in Nat
    BY <1>0, <1>1, WaitingUnder
  <2>3. Cardinality(Named(Rest)) \in Nat
    BY <2>1, FS_CardinalityType
  <2>4. QED
    BY <2>1, <2>2, <2>3 DEF Taken
<1>6. tree.text[i] \in Nat /\ q \in Nat
  BY <1>0, <1>1, <1>2, KidsType DEF HasFields
<1>7. metrics = Weight(tree, V) /\ metrics \in Counters
  BY <1>1, WeightType DEF Walked, Counters
<1> HIDE DEF i, q
<1>8. Noded = [depth |-> IF Top.depth > metrics.depth THEN Top.depth ELSE metrics.depth,
               nodes |-> metrics.nodes + 1, items |-> metrics.items,
               bytes |-> metrics.bytes + 1]
  <2> DEFINE a == metrics.nodes + 1
             b == metrics.bytes + 1
             d == IF Top.depth > metrics.depth THEN Top.depth ELSE metrics.depth
  <2>1. Noded = [metrics EXCEPT !.nodes = a, !.bytes = b, !.depth = d]
    BY DEF Noded, AddNode
  <2> HIDE DEF a, b, d
  <2>2. Noded = [depth |-> d, nodes |-> a, items |-> metrics.items, bytes |-> b]
    BY <1>7, <2>1 DEF Counters
  <2>3. QED
    BY <2>2 DEF a, b, d
<1>9. Itemed = [depth |-> IF Top.depth > metrics.depth THEN Top.depth ELSE metrics.depth,
                nodes |-> metrics.nodes + 1, items |-> metrics.items + q,
                bytes |-> metrics.bytes + 1]
  BY <1>8 DEF Itemed, q
<1>10. Noded \in Counters /\ Itemed \in Counters
  BY <1>2, <1>6, <1>7, <1>8, <1>9 DEF Counters
<1>11. Weighed(Itemed) =
         [depth |-> IF Top.depth > metrics.depth THEN Top.depth ELSE metrics.depth,
          nodes |-> metrics.nodes + 1, items |-> metrics.items + q,
          bytes |-> metrics.bytes + 1 + tree.text[i]]
  BY <1>9 DEF Weighed, i
<1>12. Weight(tree, V \cup {i}) =
         [depth |-> IF tree.level[i] > Weight(tree, V).depth
                    THEN tree.level[i] ELSE Weight(tree, V).depth,
          nodes |-> Weight(tree, V).nodes + 1,
          items |-> Weight(tree, V).items + Len(tree.kids[i]),
          bytes |-> Weight(tree, V).bytes + 1 + tree.text[i]]
  BY <1>1, <1>2, <1>4, WeightAdd
<1>13. Weighed(Itemed) = Weight(tree, V \cup {i})
  BY <1>0, <1>2, <1>7, <1>11, <1>12 DEF q
<1>14. Kids = <<>> => Noded = Itemed
  <2>1. Kids = <<>> => q = 0
    BY DEF q
  <2>2. q = 0 => metrics.items + q = metrics.items
    BY <1>7 DEF Counters
  <2>3. QED
    BY <1>8, <1>9, <2>1, <2>2
<1>15. QED
  BY <1>2, <1>4, <1>5, <1>6, <1>8, <1>9, <1>10, <1>13, <1>14 DEF i, q

-----------------------------------------------------------------------------
(* The checks of a value *)

\* Four lists of checks, one after another.
LEMMA FourParts ==
  ASSUME NEW a, NEW b, NEW c, NEW d, IsList(a), IsList(b), IsList(c), IsList(d), NEW R
  PROVE  LET all == a \o b \o c \o d
         IN  /\ AllHold(all) => AllHold(a) /\ AllHold(b) /\ AllHold(c) /\ AllHold(d)
             /\ Right(a, R) /\ Right(b, R) /\ Right(c, R) /\ Right(d, R)
                  => Right(all, R)
<1> DEFINE ab == a \o b
           abc == ab \o c
           all == abc \o d
<1>1. IsList(ab) /\ IsList(abc)
  BY ListConcat
<1>2. AllHold(ab) => AllHold(a) /\ AllHold(b)
  BY BothHold
<1>3. Right(a, R) /\ Right(b, R) => Right(ab, R)
  BY BothRight
<1> HIDE DEF ab
<1>4. AllHold(abc) => AllHold(ab) /\ AllHold(c)
  BY <1>1, BothHold
<1>5. Right(ab, R) /\ Right(c, R) => Right(abc, R)
  BY BothRight
<1> HIDE DEF abc
<1>6. AllHold(all) => AllHold(abc) /\ AllHold(d)
  BY <1>1, BothHold
<1>7. Right(abc, R) /\ Right(d, R) => Right(all, R)
  BY BothRight
<1>8. /\ AllHold(all) => AllHold(a) /\ AllHold(b) /\ AllHold(c) /\ AllHold(d)
      /\ Right(a, R) /\ Right(b, R) /\ Right(c, R) /\ Right(d, R) => Right(all, R)
  BY <1>2, <1>3, <1>4, <1>5, <1>6, <1>7
<1>9. QED
  BY <1>8 DEF all, abc, ab

\* Counters that pass, or fail for a reason in R.
Within(m) ==
  /\ m.depth <= DepthLimit(limits) /\ m.nodes <= limits.nodes
  /\ m.items <= limits.items /\ m.bytes <= limits.bytes
Excused(m, R) ==
  /\ m.depth <= DepthLimit(limits) \/ "depth" \in R
  /\ m.nodes <= limits.nodes \/ "nodes" \in R
  /\ m.items <= limits.items \/ "items" \in R
  /\ m.bytes <= limits.bytes \/ "bytes" \in R

LEMMA Validated ==
  ASSUME NEW m, NEW R
  PROVE  /\ IsList(Validate(m))
         /\ AllHold(Validate(m)) => Within(m)
         /\ Excused(m, R) => Right(Validate(m), R)
<1> DEFINE p == m.depth <= DepthLimit(limits)
           q == m.nodes <= limits.nodes
           r == m.items <= limits.items
           o == m.bytes <= limits.bytes
           dw == "depth"
           dx == "nodes"
           dy == "items"
           dz == "bytes"
           s == <<<<p, dw>>, <<q, dx>>, <<r, dy>>, <<o, dz>>>>
<1>1. p \in BOOLEAN /\ q \in BOOLEAN /\ r \in BOOLEAN /\ o \in BOOLEAN
  OBVIOUS
<1>2. Validate(m) = s
  BY DEF Validate
<1>3. /\ Within(m) <=> p /\ q /\ r /\ o
      /\ Excused(m, R) <=> (p \/ dw \in R) /\ (q \/ dx \in R) /\ (r \/ dy \in R)
                             /\ (o \/ dz \in R)
  BY DEF Within, Excused
<1> HIDE DEF p, q, r, o, dw, dx, dy, dz
<1>4. /\ IsList(s)
      /\ AllHold(s) => p /\ q /\ r /\ o
      /\ (p \/ dw \in R) /\ (q \/ dx \in R) /\ (r \/ dy \in R) /\ (o \/ dz \in R)
           => Right(s, R)
  BY <1>1, FourChecks
<1>5. QED
  BY <1>2, <1>3, <1>4

\* Children that are refused are too deep, or too many with those waiting.
LEMMA Reserved ==
  ASSUME NEW m, NEW children, NEW depth, NEW others, NEW R
  PROVE  LET s == ReserveChildren(m, children, depth, others)
         IN  /\ IsList(s)
             /\ Excused(m, R)
                  /\ (depth + 1 <= DepthLimit(limits) \/ "depth" \in R)
                  /\ (m.nodes + others + children <= limits.nodes \/ "nodes" \in R)
                  /\ (m.bytes + others + children <= limits.bytes \/ "bytes" \in R)
                  => Right(s, R)
<1> DEFINE p == depth + 1 <= DepthLimit(limits)
           q == m.nodes + others + children <= limits.nodes
           r == m.bytes + others + children <= limits.bytes
           dw == "depth"
           dx == "nodes"
           dy == "bytes"
           s == <<<<p, dw>>, <<q, dx>>, <<r, dy>>>>
           v == Validate(m)
<1>1. p \in BOOLEAN /\ q \in BOOLEAN /\ r \in BOOLEAN
  OBVIOUS
<1>2. ReserveChildren(m, children, depth, others) = v \o s
  BY DEF ReserveChildren
<1>3. IsList(v) /\ (Excused(m, R) => Right(v, R))
  BY Validated
<1> HIDE DEF p, q, r, dw, dx, dy
<1>4. /\ IsList(s)
      /\ (p \/ dw \in R) /\ (q \/ dx \in R) /\ (r \/ dy \in R) => Right(s, R)
  BY <1>1, ThreeChecks
<1> HIDE DEF s, v
<1>5. IsList(v \o s)
  BY <1>3, <1>4, ListConcat
<1>6. Right(v, R) /\ Right(s, R) => Right(v \o s, R)
  BY BothRight
<1>7. /\ IsList(v \o s)
      /\ Excused(m, R) /\ (p \/ dw \in R) /\ (q \/ dx \in R) /\ (r \/ dy \in R)
           => Right(v \o s, R)
  BY <1>3, <1>4, <1>5, <1>6
<1>8. QED
  BY <1>2, <1>7 DEF p, q, r, dw, dx, dy

\* The checks of a leaf and of a container, all of which hold, or give a reason
\* in R.
LEMMA ChecksAre ==
  ASSUME NEW R
  PROVE  /\ AllHold(LeafChecks) =>
              Within(Weighed(Noded)) /\ tree.kind[Top.node] # "bad"
         /\ AllHold(ContainerChecks) => Within(Weighed(Itemed))
         /\ /\ pendingValues >= 1 /\ Excused(Noded, R)
            /\ tree.kind[Top.node] # "bad" \/ "leaf" \in R
            /\ Excused(Weighed(Noded), R)
            => Right(LeafChecks, R)
         /\ /\ pendingValues >= 1 /\ Excused(Noded, R)
            /\ Right(ReserveChildren(Itemed, Len(Kids), Top.depth, Taken), R)
            /\ Excused(Weighed(Itemed), R)
            => Right(ContainerChecks, R)
<1> DEFINE p == pendingValues >= 1
           q == tree.kind[Top.node] # "bad"
           dx == "underflow"
           dy == "leaf"
           a == <<<<p, dx>>>>
           b == Validate(Noded)
           c == <<<<q, dy>>>>
           d == Validate(Weighed(Noded))
           e == ReserveChildren(Itemed, Len(Kids), Top.depth, Taken)
           f == Validate(Weighed(Itemed))
<1>1. p \in BOOLEAN /\ q \in BOOLEAN
  OBVIOUS
<1>2. LeafChecks = a \o b \o c \o d /\ ContainerChecks = a \o b \o e \o f
  BY DEF LeafChecks, ContainerChecks
<1>3. /\ IsList(b) /\ IsList(d) /\ IsList(f) /\ IsList(e)
      /\ AllHold(d) => Within(Weighed(Noded))
      /\ AllHold(f) => Within(Weighed(Itemed))
      /\ Excused(Noded, R) => Right(b, R)
      /\ Excused(Weighed(Noded), R) => Right(d, R)
      /\ Excused(Weighed(Itemed), R) => Right(f, R)
  BY Validated, Reserved
<1> HIDE DEF p, q, dx, dy
<1>4. /\ IsList(a) /\ IsList(c)
      /\ p => Right(a, R)
      /\ AllHold(c) => q
      /\ q \/ dy \in R => Right(c, R)
  BY <1>1, OneCheck
<1> HIDE DEF a, b, c, d, e, f
<1>5. /\ AllHold(a \o b \o c \o d) => AllHold(c) /\ AllHold(d)
      /\ Right(a, R) /\ Right(b, R) /\ Right(c, R) /\ Right(d, R)
           => Right(a \o b \o c \o d, R)
  BY <1>3, <1>4, FourParts
<1>6. /\ AllHold(a \o b \o e \o f) => AllHold(f)
      /\ Right(a, R) /\ Right(b, R) /\ Right(e, R) /\ Right(f, R)
           => Right(a \o b \o e \o f, R)
  BY <1>3, <1>4, FourParts
<1>7. /\ AllHold(LeafChecks) => Within(Weighed(Noded)) /\ q
      /\ AllHold(ContainerChecks) => Within(Weighed(Itemed))
  BY <1>2, <1>3, <1>4, <1>5, <1>6
<1>8. /\ p /\ Excused(Noded, R) /\ (q \/ dy \in R) /\ Excused(Weighed(Noded), R)
           => Right(LeafChecks, R)
      /\ p /\ Excused(Noded, R) /\ Right(e, R) /\ Excused(Weighed(Itemed), R)
           => Right(ContainerChecks, R)
  BY <1>2, <1>3, <1>4, <1>5, <1>6
<1>9. QED
  BY <1>7, <1>8 DEF p, q, dy, e

\* A value that passes can be admitted, and with it the rest is still within
\* its limits.
LEMMA Passing ==
  ASSUME IInv, OnValue, NEW V \in SUBSET NodesOf(tree), Walked(V), AllHold(Checks)
  PROVE  Within(Weighed(Itemed)) /\ tree.kind[Top.node] # "bad"
<1>1. /\ Top.node \in NodesOf(tree)
      /\ Kids = <<>> => Weighed(Noded) = Weighed(Itemed)
  BY Visiting
<1>2. CASE Kids = <<>>
  <2>1. AllHold(LeafChecks)
    BY <1>2 DEF Checks
  <2>2. Within(Weighed(Noded)) /\ tree.kind[Top.node] # "bad"
    BY <2>1, ChecksAre
  <2>3. QED
    BY <1>1, <1>2, <2>2
<1>3. CASE Kids # <<>>
  <2>1. AllHold(ContainerChecks)
    BY <1>3 DEF Checks
  <2>2. Within(Weighed(Itemed))
    BY <2>1, ChecksAre
  <2>3. IsTree(tree)
    BY Assumed DEF IInv
  <2>4. tree.kind[Top.node] \in {"array", "object"}
    BY <1>1, <1>3, <2>3 DEF IsTree, Kids, IsContainer, Containers
  <2>5. QED
    BY <2>2, <2>4
<1>4. QED
  BY <1>2, <1>3

\* What weighs no more than the tree is only over limits the tree is over.
LEMMA Lighter ==
  ASSUME Metered, HasFields(tree), NEW m \in Counters,
         m.depth <= Measure(tree).depth, m.nodes <= Measure(tree).nodes,
         m.items <= Measure(tree).items, m.bytes <= Measure(tree).bytes
  PROVE  Excused(m, Refusals(tree, limits))
<1> DEFINE all == Measure(tree)
           R == Refusals(tree, limits)
<1>1. all \in Counters
  BY WeightType DEF Measure, Counters
<1>2. /\ limits \in [depth : Nat, nodes : Nat, items : Nat, bytes : Nat, string : Nat]
      /\ DepthLimit(limits) \in Nat
  BY Limited
<1>3. /\ all.depth > DepthLimit(limits) => "depth" \in R
      /\ all.nodes > limits.nodes => "nodes" \in R
      /\ all.items > limits.items => "items" \in R
      /\ all.bytes > limits.bytes => "bytes" \in R
  BY OverrunsAre DEF Refusals
<1> HIDE DEF all, R
<1>4. m.depth <= all.depth /\ m.nodes <= all.nodes /\ m.items <= all.items
      /\ m.bytes <= all.bytes
  BY DEF all
<1>5. /\ m.depth \in Nat /\ m.nodes \in Nat /\ m.items \in Nat /\ m.bytes \in Nat
      /\ all.depth \in Nat /\ all.nodes \in Nat /\ all.items \in Nat /\ all.bytes \in Nat
      /\ limits.nodes \in Nat /\ limits.items \in Nat /\ limits.bytes \in Nat
  BY <1>1, <1>2 DEF Counters
<1>6. m.depth <= DepthLimit(limits) \/ "depth" \in R
  BY <1>2, <1>3, <1>4, <1>5
<1>7. m.nodes <= limits.nodes \/ "nodes" \in R
  BY <1>3, <1>4, <1>5
<1>8. m.items <= limits.items \/ "items" \in R
  BY <1>3, <1>4, <1>5
<1>9. m.bytes <= limits.bytes \/ "bytes" \in R
  BY <1>3, <1>4, <1>5
<1>10. QED
  BY <1>6, <1>7, <1>8, <1>9 DEF Excused, R

\* What is in a sum that fits fits.
LEMMA Summed ==
  ASSUME NEW a \in Nat, NEW b \in Nat, NEW k \in Nat, NEW q \in Nat, NEW all \in Nat,
         NEW l \in Nat, (a + b) + (k + q) <= all
  PROVE  /\ a <= all /\ a + b <= all /\ a + k + q <= all
         /\ a + k + q <= l \/ all > l
OBVIOUS

\* A refused value is over a limit the whole tree is over.
LEMMA RejectRight ==
  ASSUME IInv, Reject
  PROVE  verdict' \in Refusals(tree, limits)
<1> DEFINE i == Top.node
           R == Refusals(tree, limits)
           all == Measure(tree)
           q == Len(Kids)
           P == Named(pending)
           W == Named(Rest) \cup Held(tree, i)
<1>0. OnValue /\ ~AllHold(Checks) /\ verdict' = FirstFailure(Checks) /\ verdict = "running"
  BY DEF Reject, OnValue
<1>1. PICK V \in SUBSET NodesOf(tree) : Walked(V)
  BY <1>0 DEF IInv, Metered
<1> DEFINE U == V \cup {i}
           w == Weight(tree, U)
<1>2. IsTree(tree) /\ HasFields(tree) /\ Metered
  BY Assumed DEF IInv
<1>3. /\ i \in NodesOf(tree) /\ i \in P /\ i \notin V
      /\ Top.depth = tree.level[i] /\ Top.depth \in Nat
      /\ Named(Rest) = P \ {i}
      /\ IsFiniteSet(Named(Rest)) /\ Taken = Cardinality(Named(Rest))
      /\ Taken \in Nat /\ pendingValues >= 1
      /\ tree.text[i] \in Nat /\ q \in Nat
      /\ Noded \in Counters /\ Itemed \in Counters
      /\ Itemed.depth = Noded.depth /\ Itemed.nodes = Noded.nodes
      /\ Itemed.bytes = Noded.bytes /\ Itemed.items = Noded.items + q
      /\ Weighed(Itemed) = w
      /\ Kids = <<>> => Weighed(Noded) = w
  BY <1>0, <1>1, Visiting
<1>4. Kids = tree.kids[i]
  BY DEF Kids
<1>5. /\ Frontier(tree, V, P) /\ V \cap P = {}
  BY <1>1 DEF Walked, Frontier
<1>6. /\ Held(tree, i) \in SUBSET NodesOf(tree)
      /\ Held(tree, i) \cap (V \cup P) = {}
      /\ IsFiniteSet(Held(tree, i)) /\ Cardinality(Held(tree, i)) = q
  <2> HIDE DEF i, P, U, w, W
  <2>1. i \in P /\ Frontier(tree, V, P) /\ IsTree(tree)
    BY <1>2, <1>3, <1>5
  <2>2. /\ Held(tree, i) \in SUBSET NodesOf(tree)
        /\ Held(tree, i) \cap (V \cup P) = {}
        /\ IsFiniteSet(Held(tree, i)) /\ Cardinality(Held(tree, i)) = Len(tree.kids[i])
    BY <2>1, FrontierStep
  <2>3. QED
    BY <1>4, <2>2
<1>7. W \in SUBSET NodesOf(tree) /\ U \in SUBSET NodesOf(tree) /\ U \cap W = {}
  BY <1>1, <1>3, <1>5, <1>6 DEF Frontier
<1>8. Cardinality(W) = Taken + q
  <2>1. Named(Rest) \cap Held(tree, i) = {}
    BY <1>3, <1>6
  <2>2. QED
    BY <1>3, <1>6, <2>1, DisjointUnion
<1>9. /\ all \in Counters /\ w \in Counters
      /\ w.nodes + (Taken + q) <= all.nodes
      /\ w.items <= all.items
      /\ w.bytes + (Taken + q) <= all.bytes
      /\ w.depth <= all.depth
  <2> HIDE DEF U, W
  <2>1. /\ Measure(tree) \in [depth : Nat, nodes : Nat, items : Nat, bytes : Nat]
        /\ Weight(tree, U).nodes + Cardinality(W) <= Measure(tree).nodes
        /\ Weight(tree, U).items <= Measure(tree).items
        /\ Weight(tree, U).bytes + Cardinality(W) <= Measure(tree).bytes
        /\ Weight(tree, U).depth <= Measure(tree).depth
    BY <1>2, <1>7, WeightWithin
  <2>2. Weight(tree, U) \in [depth : Nat, nodes : Nat, items : Nat, bytes : Nat]
    BY <1>2, <1>7, WeightType
  <2>3. QED
    BY <1>8, <2>1, <2>2 DEF Counters
<1>10. /\ w.depth = Itemed.depth /\ w.nodes = Itemed.nodes /\ w.items = Itemed.items
       /\ w.bytes = Itemed.bytes + tree.text[i]
  <2> DEFINE v == Weighed(Itemed)
  <2>1. v = [Itemed EXCEPT !.bytes = Itemed.bytes + tree.text[i]]
    BY DEF Weighed
  <2> HIDE DEF v
  <2>2. /\ v.depth = Itemed.depth /\ v.nodes = Itemed.nodes /\ v.items = Itemed.items
        /\ v.bytes = Itemed.bytes + tree.text[i]
    BY <1>3, <2>1 DEF Counters
  <2>3. QED
    BY <1>3, <2>2 DEF v
<1> HIDE DEF i, all, q, w, U, W, P
<1>11. /\ w.depth \in Nat /\ w.nodes \in Nat /\ w.items \in Nat /\ w.bytes \in Nat
       /\ all.depth \in Nat /\ all.nodes \in Nat /\ all.items \in Nat /\ all.bytes \in Nat
       /\ Itemed.depth \in Nat /\ Itemed.nodes \in Nat /\ Itemed.items \in Nat
       /\ Itemed.bytes \in Nat
       /\ Noded.depth \in Nat /\ Noded.nodes \in Nat /\ Noded.items \in Nat
       /\ Noded.bytes \in Nat
  BY <1>3, <1>9 DEF Counters
<1>12. /\ Itemed.nodes <= all.nodes /\ w.nodes <= all.nodes
       /\ \A l \in Nat : Itemed.nodes + Taken + q <= l \/ all.nodes > l
  <2> DEFINE x == Itemed.nodes
             y == all.nodes
             o == 0
  <2>1. /\ x \in Nat /\ o \in Nat /\ Taken \in Nat /\ q \in Nat /\ y \in Nat
        /\ w.nodes = x + o
    BY <1>3, <1>10, <1>11
  <2>2. (x + o) + (Taken + q) <= y
    BY <1>9, <2>1
  <2> HIDE DEF x, y, o
  <2>3. x <= y /\ x + o <= y /\ \A l \in Nat : x + Taken + q <= l \/ y > l
    BY <2>1, <2>2, Summed
  <2>4. QED
    BY <2>1, <2>3 DEF x, y
<1>13. /\ Itemed.bytes <= all.bytes /\ w.bytes <= all.bytes
       /\ \A l \in Nat : Itemed.bytes + Taken + q <= l \/ all.bytes > l
  <2> DEFINE x == Itemed.bytes
             y == all.bytes
             o == tree.text[i]
  <2>1. /\ x \in Nat /\ o \in Nat /\ Taken \in Nat /\ q \in Nat /\ y \in Nat
        /\ w.bytes = x + o
    BY <1>3, <1>10, <1>11
  <2>2. (x + o) + (Taken + q) <= y
    BY <1>9, <2>1
  <2> HIDE DEF x, y, o
  <2>3. x <= y /\ x + o <= y /\ \A l \in Nat : x + Taken + q <= l \/ y > l
    BY <2>1, <2>2, Summed
  <2>4. QED
    BY <2>1, <2>3 DEF x, y
<1>14. Excused(w, R) /\ Excused(Itemed, R) /\ Excused(Noded, R)
  <2>1. /\ Itemed.depth <= all.depth /\ Itemed.items <= all.items
        /\ Noded.depth <= all.depth /\ Noded.nodes <= all.nodes
        /\ Noded.bytes <= all.bytes
    BY <1>3, <1>9, <1>10, <1>12, <1>13
  <2>2. Noded.items <= all.items
    <3> DEFINE x == Noded.items
               y == all.items
    <3>1. x \in Nat /\ y \in Nat /\ q \in Nat /\ x + q <= y
      BY <1>3, <1>11, <2>1
    <3> HIDE DEF x, y
    <3>2. x <= y
      BY <3>1
    <3>3. QED
      BY <3>2 DEF x, y
  <2>3. QED
    BY <1>2, <1>3, <1>9, <1>12, <1>13, <2>1, <2>2, Lighter DEF all
<1>15. tree.kind[i] # "bad" \/ "leaf" \in R
  BY <1>3, OverrunsAre DEF R, Refusals
<1>16. ASSUME Kids # <<>> PROVE Right(ReserveChildren(Itemed, q, Top.depth, Taken), R)
  <2>1. /\ limits \in [depth : Nat, nodes : Nat, items : Nat, bytes : Nat, string : Nat]
        /\ DepthLimit(limits) \in Nat /\ limits.nodes \in Nat /\ limits.bytes \in Nat
    BY <1>2, Limited
  <2>2. /\ all.depth > DepthLimit(limits) => "depth" \in R
        /\ all.nodes > limits.nodes => "nodes" \in R
        /\ all.bytes > limits.bytes => "bytes" \in R
    BY OverrunsAre DEF Refusals, R, all
  <2> HIDE DEF R
  <2>3. Top.depth + 1 <= all.depth
    <3>1. tree.kids[i] \in Seq(NodesOf(tree)) /\ tree.kids[i] # <<>>
      BY <1>2, <1>3, <1>4, <1>16, KidsType
    <3>2. 1 \in 1 .. Len(tree.kids[i])
      BY <3>1, EmptySeq
    <3> DEFINE j == tree.kids[i][1]
    <3>3. tree.level[j] = Top.depth + 1 /\ j \in NodesOf(tree)
      BY <1>2, <1>3, <3>2, KidsDistinct, KidsType
    <3> HIDE DEF j
    <3>4. NodesOf(tree) \in SUBSET NodesOf(tree)
      OBVIOUS
    <3>5. tree.level[j] <= Weight(tree, NodesOf(tree)).depth
      BY <1>2, <3>3, <3>4, WeightType
    <3>6. QED
      BY <3>3, <3>5 DEF all, Measure
  <2>4. Top.depth + 1 <= DepthLimit(limits) \/ "depth" \in R
    <3> DEFINE x == Top.depth
               y == all.depth
               l == DepthLimit(limits)
    <3>1. x \in Nat /\ y \in Nat /\ l \in Nat /\ x + 1 <= y
      BY <1>3, <1>11, <2>1, <2>3
    <3> HIDE DEF x, y, l
    <3>2. x + 1 <= l \/ y > l
      BY <3>1
    <3>3. QED
      BY <2>2, <3>2 DEF x, y, l
  <2>5. Itemed.nodes + Taken + q <= limits.nodes \/ "nodes" \in R
    BY <1>12, <2>1, <2>2
  <2>6. Itemed.bytes + Taken + q <= limits.bytes \/ "bytes" \in R
    BY <1>13, <2>1, <2>2
  <2>7. QED
    BY <1>14, <2>4, <2>5, <2>6, Reserved
<1>17. Right(Checks, R)
  <2> HIDE DEF R
  <2>1. CASE Kids = <<>>
    <3>1. Right(LeafChecks, R)
      BY <1>3, <1>14, <1>15, <2>1, ChecksAre DEF i
    <3>2. QED
      BY <2>1, <3>1 DEF Checks
  <2>2. CASE Kids # <<>>
    <3>1. Right(ContainerChecks, R)
      BY <1>3, <1>14, <1>16, <2>2, ChecksAre DEF q
    <3>2. QED
      BY <2>2, <3>1 DEF Checks
  <2>3. QED
    BY <2>1, <2>2
<1>18. QED
  BY <1>0, <1>17, FailureRight

-----------------------------------------------------------------------------
(* The steps keep the metering *)

LEMMA InitMetered == Init => Metered
<1> SUFFICES ASSUME Init PROVE Metered
  OBVIOUS
<1> DEFINE e == ValueWork(1, 1)
           s == <<e>>
<1>1. /\ IsTree(tree) /\ HasFields(tree) /\ limits \in LimitSets /\ pending = s
      /\ metrics = [depth |-> 0, nodes |-> 0, items |-> 0, bytes |-> 0]
  BY TreeAssumption DEF Init, IsTree
<1>2. e.work = "value" /\ e.node = 1
  BY DEF ValueWork
<1>3. Len(s) = 1 /\ s[1] = e
  OBVIOUS
<1> HIDE DEF e, s
<1>4. Waiting(s) = {1}
  BY <1>2, <1>3 DEF Waiting
<1>5. Named(s) = {1} /\ Distinct(s)
  BY <1>2, <1>3, <1>4 DEF Named, Distinct
<1>6. Walked({})
  BY <1>1, <1>5, FrontierStart, WeightNone DEF Walked
<1>7. limits \in [depth : Nat, nodes : Nat, items : Nat, bytes : Nat, string : Nat]
      /\ DepthLimit(limits) \in Nat
  BY <1>1, LimitAssumption, DepthCeilingAssumption DEF DepthLimit
<1>8. WithinLimits
  BY <1>1, <1>7 DEF WithinLimits
<1>9. QED
  BY <1>1, <1>5, <1>6, <1>8 DEF Metered

\* A value that passes is visited, what it holds waits in its place.
LEMMA MeteredVisit ==
  ASSUME IInv, OnValue, AllHold(Checks), UNCHANGED <<tree, limits, verdict>>,
         metrics' = Weighed(Itemed), Distinct(pending'),
         Named(pending') = Named(Rest) \cup Held(tree, Top.node)
  PROVE  Metered'
<1>1. PICK V \in SUBSET NodesOf(tree) : Walked(V)
  BY DEF IInv, Metered, OnValue
<1>2. IsTree(tree) /\ limits \in LimitSets
  BY Assumed DEF IInv, Metered
<1>3. PICK i \in NodesOf(tree) : i = Top.node
  BY <1>1, Visiting
<1> DEFINE U == V \cup {i}
           P == Named(pending)
<1>4. /\ i \in P /\ Named(Rest) = P \ {i} /\ Weighed(Itemed) = Weight(tree, U)
  BY <1>1, <1>3, Visiting
<1>5. Frontier(tree, U, (P \ {i}) \cup Held(tree, i))
  <2>1. Frontier(tree, V, P)
    BY <1>1 DEF Walked
  <2> HIDE DEF P
  <2>2. QED
    BY <1>2, <1>4, <2>1, FrontierStep
<1>6. \A j \in U : tree.kind[j] # "bad"
  BY <1>1, <1>3, Passing DEF Walked
<1>7. Within(metrics')
  BY <1>1, Passing
<1>8. Walked(U)'
  BY <1>3, <1>4, <1>5, <1>6 DEF Walked
<1>9. U \in SUBSET NodesOf(tree')
  BY <1>1, <1>3
<1>10. WithinLimits'
  BY <1>7 DEF WithinLimits, Within
<1>11. (Distinct(pending))' /\ limits' \in LimitSets
  BY <1>2
<1> HIDE DEF U
<1>12. QED
  BY <1>8, <1>9, <1>10, <1>11 DEF Metered

LEMMA NextMetered ==
  ASSUME IInv, [Next]_vars, Reject => verdict' # "running"
  PROVE  Metered'
<1> DEFINE s == pending
<1>0. Metered /\ Shape
  BY DEF IInv
<1>1. CASE ConvertLeaf
  <2>1. /\ OnValue /\ Kids = <<>> /\ AllHold(Checks) /\ pending' = Rest
        /\ metrics' = Weighed(Noded) /\ UNCHANGED <<tree, limits, verdict>>
    BY <1>1 DEF ConvertLeaf
  <2>2. /\ s # <<>> /\ verdict = "running" /\ Rest = Under(s)
    BY <2>1 DEF OnValue, Rest, Under
  <2>3. s \in Seq(Entries(tree)) /\ Distinct(s)
    BY <1>0, <2>2, Assumed DEF Metered
  <2>4. Distinct(Rest)
    BY <2>2, <2>3, DistinctUnder
  <2>5. Held(tree, Top.node) = {}
    BY <2>1 DEF Held, Kids
  <2>6. metrics' = Weighed(Itemed)
    <3>1. PICK V \in SUBSET NodesOf(tree) : Walked(V)
      BY <1>0, <2>2 DEF Metered
    <3>2. QED
      BY <2>1, <3>1, Visiting
  <2>7. Named(pending') = Named(Rest) \cup Held(tree, Top.node) /\ Distinct(pending')
    BY <2>1, <2>4, <2>5
  <2>8. QED
    BY <2>1, <2>6, <2>7, MeteredVisit
<1>2. CASE Schedule
  <2> DEFINE r == Opened(tree, s, Len(values))
  <2>1. /\ OnValue /\ AllHold(Checks) /\ metrics' = Weighed(Itemed)
        /\ UNCHANGED <<tree, limits, verdict>>
    BY <1>2 DEF Schedule
  <2>2. /\ s # <<>> /\ verdict = "running" /\ TopOf(s).work = "value"
        /\ Top = TopOf(s) /\ Rest = Under(s) /\ pending' = r
    BY <1>2 DEF Schedule, OnValue, Top, TopOf, Kids, Rest, Under, ChildWork,
                Opened, PartWork
  <2>3. /\ s \in Seq(Entries(tree)) /\ Distinct(s) /\ Len(values) \in Nat
        /\ IsTree(tree) /\ HasFields(tree)
    BY <1>0, <2>2, Assumed DEF Metered
  <2>4. Held(tree, Top.node) \cap Named(s) = {}
    <3>1. PICK V \in SUBSET NodesOf(tree) : Walked(V)
      BY <1>0, <2>2 DEF Metered
    <3>2. Top.node \in Named(s)
      BY <2>1, <3>1, Visiting
    <3>3. Frontier(tree, V, Named(s))
      BY <3>1 DEF Walked
    <3> DEFINE i == Top.node
               P == Named(s)
    <3>4. i \in P /\ Frontier(tree, V, P) /\ IsTree(tree)
      BY <2>3, <3>2, <3>3
    <3> HIDE DEF i, P
    <3>5. Held(tree, i) \cap (V \cup P) = {}
      BY <3>4, FrontierStep
    <3>6. QED
      BY <3>5 DEF i, P
  <2>5. Distinct(r)
    BY <2>2, <2>3, <2>4, DistinctOpened
  <2>6. Named(r) = Named(Rest) \cup Held(tree, Top.node)
    BY <2>2, <2>3, NamedOpened
  <2>7. Named(pending') = Named(Rest) \cup Held(tree, Top.node) /\ Distinct(pending')
    BY <2>2, <2>5, <2>6
  <2>8. QED
    BY <2>1, <2>7, MeteredVisit
<1>3. CASE Finish
  <2>1. /\ s # <<>> /\ verdict = "running" /\ TopOf(s).work = "finish"
        /\ pending' = Under(s) /\ UNCHANGED <<tree, limits, verdict, metrics>>
    BY <1>3 DEF Finish, Top, TopOf, Rest, Under
  <2>2. s \in Seq(Entries(tree)) /\ Distinct(s)
    BY <1>0, <2>1, Assumed DEF Metered
  <2>3. Named(pending') = Named(pending) /\ Distinct(pending')
    BY <2>1, <2>2, NamedUnder, DistinctUnder
  <2>4. PICK V \in SUBSET NodesOf(tree) : Walked(V)
    BY <1>0, <2>1 DEF Metered
  <2>5. Walked(V)' /\ V \in SUBSET NodesOf(tree')
    BY <2>1, <2>3, <2>4 DEF Walked
  <2>6. WithinLimits' /\ limits' \in LimitSets
    BY <1>0, <2>1 DEF Metered, WithinLimits
  <2>7. QED
    BY <2>3, <2>5, <2>6 DEF Metered
<1>4. CASE Reject \/ Deliver
  <2>1. verdict' # "running" /\ limits' = limits
    BY <1>4 DEF Reject, Deliver
  <2>2. QED
    BY <1>0, <2>1 DEF Metered
<1>5. CASE UNCHANGED vars
  BY <1>0, <1>5 DEF vars, Metered, Distinct, Waiting, Named, Walked, WithinLimits
<1>6. QED
  BY <1>1, <1>2, <1>3, <1>4, <1>5 DEF Next

-----------------------------------------------------------------------------
(* The inductive invariant *)

LEMMA InitIInv == Init => IInv
BY InitShape, InitMetered DEF IInv

LEMMA NextIInv == IInv /\ [Next]_vars => IInv'
<1> SUFFICES ASSUME IInv, [Next]_vars PROVE IInv'
  OBVIOUS
<1>0. Shape
  BY DEF IInv
<1>1. Reject => verdict' \notin {"running", "accepted"}
  <2>1. Reject => verdict' \in Refusals(tree, limits)
    BY RejectRight
  <2>2. Refusals(tree, limits) \subseteq
          {"depth", "nodes", "items", "bytes", "string", "leaf"}
    BY OverrunsAre DEF Refusals
  <2>3. QED
    BY <2>1, <2>2
<1>2. Shape'
  <2>1. CASE UNCHANGED vars
    BY <1>0, <2>1 DEF Shape, vars
  <2>2. QED
    BY <1>0, <1>1, <2>1, ShapeLeaf, ShapeSchedule, ShapeFinish, ShapeReject,
       ShapeDeliver DEF Next
<1>3. Metered'
  BY <1>1, NextMetered
<1>4. QED
  BY <1>2, <1>3 DEF IInv

LEMMA Invariant == Spec => []IInv
BY InitIInv, NextIInv, PTL DEF Spec

-----------------------------------------------------------------------------
(* Theorems *)

\* The counter of pending values, from which the converter tells whether more
\* can still fit, is the number of values on its stack.
THEOREM PendingTheorem == Spec => []PendingValuesExact
<1>1. IInv => PendingValuesExact
  <2> SUFFICES ASSUME IInv, verdict = "running" PROVE PendingValuesExact
    BY DEF PendingValuesExact
  <2>1. pendingValues = Cardinality(Waiting(pending)) /\ pending \in Seq(Entries(tree))
    BY Assumed DEF IInv, Shape
  <2>2. DOMAIN pending = 1 .. Len(pending)
    BY <2>1, LenProperties
  <2>3. QED
    BY <2>1, <2>2 DEF PendingValuesExact, Waiting
<1>2. QED
  BY <1>1, Invariant, PTL

\* An accepted conversion has the shape of its input: every child under its own
\* container, in order, every object with its own keys.
THEOREM ResultTheorem == Spec => []ResultExact
<1>1. IInv => ResultExact
  BY DEF IInv, Shape, ResultExact
<1>2. QED
  BY <1>1, Invariant, PTL

\* A rejected input hands every leaf it has, converted or not, to the iterative
\* drain, but for one that is in hand.
THEOREM DrainTheorem == Spec => RejectDrainsContainers
<1>1. IInv /\ [Next]_vars => [verdict = "running" /\ verdict' \notin {"running", "accepted"} =>
                                LeavesUnder(1) \ drained' \subseteq {Top.node}]_vars
  <2> SUFFICES ASSUME IInv, Next, verdict = "running", verdict' \notin {"running", "accepted"}
               PROVE  LeavesUnder(1) \ drained' \subseteq {Top.node}
    OBVIOUS
  <2>0. Shape
    BY DEF IInv
  <2>1. CASE ConvertLeaf \/ Schedule \/ Finish
    BY <2>1 DEF ConvertLeaf, Schedule, Finish
  <2>2. CASE Reject
    BY <2>0, <2>2, RejectDrains
  <2>3. CASE Deliver
    <3>1. values = <<Image(tree)[1]>> /\ verdict' = IF Len(values) = 1 THEN "accepted" ELSE "stack"
      BY <2>0, <2>3 DEF Deliver, Shape
    <3>2. verdict' = "accepted"
      BY <3>1
    <3>3. QED
      BY <3>2
  <2>4. QED
    BY <2>1, <2>2, <2>3 DEF Next
<1>2. QED
  BY <1>1, Invariant, PTL DEF Spec, RejectDrainsContainers

\* Every step answers, if it does, as a look at the whole graph would: the safety
\* part of the promise that the conversions keep.
THEOREM AdmissionTheorem == Spec => Admission!Init /\ [][Admission!Next]_Admission!vars
<1>1. Init => Admission!Init
  BY DEF Init, Admission!Init
<1>2. IInv /\ [Next]_vars => [Admission!Next]_Admission!vars
  <2> SUFFICES ASSUME IInv, [Next]_vars PROVE [Admission!Next]_Admission!vars
    OBVIOUS
  <2>1. CASE ConvertLeaf \/ Schedule \/ Finish \/ UNCHANGED vars
    BY <2>1 DEF ConvertLeaf, Schedule, Finish, vars, Admission!vars
  <2>2. CASE Reject
    BY <2>2, RejectRight DEF Reject, OnValue, Admission!Next, Admission!Reject
  <2>3. CASE Deliver
    <3>1. /\ verdict = "running" /\ pending = <<>> /\ UNCHANGED <<tree, limits>>
          /\ verdict' = IF Len(values) = 1 THEN "accepted" ELSE "stack"
      BY <2>3 DEF Deliver
    <3>2. values = <<Image(tree)[1]>> /\ IsTree(tree) /\ HasFields(tree) /\ Metered
      BY <3>1, Assumed DEF IInv, Shape
    <3>3. verdict' = "accepted"
      BY <3>1, <3>2
    <3>4. PICK V \in SUBSET NodesOf(tree) : Walked(V)
      BY <3>1, <3>2 DEF Metered
    <3>5. Named(pending) = {}
      <4>1. Len(pending) = 0
        BY <3>1
      <4>2. QED
        BY <4>1 DEF Named, Waiting
    <3>6. V = NodesOf(tree)
      BY <3>2, <3>4, <3>5, FrontierEnd DEF Walked
    <3>7. metrics = Measure(tree) /\ \A i \in NodesOf(tree) : tree.kind[i] # "bad"
      BY <3>4, <3>6 DEF Walked, Measure
    <3> DEFINE all == Measure(tree)
    <3>8. /\ all \in Counters /\ DepthLimit(limits) \in Nat
          /\ limits \in [depth : Nat, nodes : Nat, items : Nat, bytes : Nat, string : Nat]
      BY <3>2, WeightType, Limited DEF Measure, Counters
    <3>9. /\ all.depth <= DepthLimit(limits) /\ all.nodes <= limits.nodes
          /\ all.items <= limits.items /\ all.bytes <= limits.bytes
      BY <3>1, <3>2, <3>7 DEF Metered, WithinLimits
    <3>10. ~(all.depth > DepthLimit(limits)) /\ ~(all.nodes > limits.nodes)
           /\ ~(all.items > limits.items) /\ ~(all.bytes > limits.bytes)
      BY <3>8, <3>9 DEF Counters
    <3>11. Refusals(tree, limits) = {}
      BY <3>7, <3>10, OverrunsAre DEF Refusals
    <3>12. QED
      BY <3>1, <3>3, <3>11 DEF Admission!Next, Admission!Accept
  <2>4. QED
    BY <2>1, <2>2, <2>3 DEF Next
<1>3. QED
  BY <1>1, <1>2, Invariant, PTL DEF Spec
=============================================================================
