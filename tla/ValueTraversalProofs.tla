------------------------ MODULE ValueTraversalProofs ------------------------
(***************************************************************************)
(* For every tree and every limit: the walk of ValueTraversal never holds  *)
(* more nodes, visited and scheduled together, than max_value_nodes; the   *)
(* weight it returns is that of the whole graph; and what it answers is    *)
(* what a look at the whole graph would answer.                            *)
(***************************************************************************)
EXTENDS ValueTraversal, ValueTreeLemmas

\* The nodes on a stack of nodes and depths.
Names(s) == {s[k][1] : k \in 1 .. Len(s)}

\* A stack of different nodes, each with its own level.
Stacked(t, s) ==
  /\ s \in Seq(NodesOf(t) \X Nat)
  /\ \A k \in 1 .. Len(s) : s[k][2] = t.level[s[k][1]]
  /\ \A k, l \in 1 .. Len(s) : s[k][1] = s[l][1] => k = l

\* What the walk has counted is what the visited nodes weigh, and nothing that
\* can never be admitted is among them.
Walked(V) ==
  /\ Frontier(tree, V, Names(pending))
  /\ metrics = Weight(tree, V)
  /\ \A i \in V : /\ tree.kind[i] # "bad"
                  /\ tree.kind[i] = "string" => tree.text[i] <= limits.string

\* No counter is over its limit.
WithinLimits ==
  /\ metrics.depth <= DepthLimit(limits)
  /\ metrics.nodes <= limits.nodes
  /\ metrics.items <= limits.items
  /\ metrics.bytes <= limits.bytes

IInv ==
  /\ tree \in Trees /\ limits \in LimitSets
  /\ Stacked(tree, pending)
  /\ WorklistBounded
  /\ \E V \in SUBSET NodesOf(tree) : Walked(V)
  /\ WithinLimits
  /\ verdict = "accepted" => pending = <<>>

-----------------------------------------------------------------------------
(* Numbers *)

\* A sum that is over a limit takes what it bounds below over the limit.
LEMMA Exceeded ==
  ASSUME NEW a \in Nat, NEW b \in Nat, NEW c \in Nat, NEW l \in Nat, a + b <= c, ~(a + b <= l)
  PROVE  c > l
OBVIOUS

\* One more of the one and one less of the other.
LEMMA Traded ==
  ASSUME NEW a \in Nat, NEW b \in Nat, NEW c, NEW d, c = a + 1, d = b - 1
  PROVE  c + d = a + b
OBVIOUS

-----------------------------------------------------------------------------
(* Stacks of nodes and depths *)

\* Popping a stack leaves a stack of one node less.
LEMMA PopStack ==
  ASSUME NEW t, NEW s, Stacked(t, s), s # <<>>
  PROVE  LET n == Len(s)
             i == s[n][1]
             r == SubSeq(s, 1, n - 1)
         IN  /\ n \in Nat \ {0} /\ i \in NodesOf(t) /\ s[n][2] = t.level[i]
             /\ Stacked(t, r) /\ Len(r) = n - 1
             /\ i \in Names(s) /\ Names(r) = Names(s) \ {i}
             /\ IsFiniteSet(Names(r)) /\ Cardinality(Names(r)) = n - 1
<1> DEFINE S == NodesOf(t) \X Nat
           n == Len(s)
           r == SubSeq(s, 1, n - 1)
<1>1. s \in Seq(S)
  BY DEF Stacked
<1>2. n \in Nat \ {0} /\ \A k \in 1 .. n : s[k] \in S
  <2> HIDE DEF S
  <2>1. n \in Nat \ {0}
    BY <1>1, EmptySeq, LenProperties
  <2>2. QED
    BY <1>1, <2>1, ElementOfSeq
<1>3. r \in Seq(S) /\ Len(r) = n - 1 /\ \A k \in 1 .. n - 1 : r[k] = s[k]
  <2> DEFINE m == n - 1
  <2>1. m \in Nat /\ m = n - 1 /\ \A k \in 1 .. m : s[k] \in S
    BY <1>2
  <2> HIDE DEF m, S
  <2>2. /\ SubSeq(s, 1, m) \in Seq(S)
        /\ Len(SubSeq(s, 1, m)) = IF 1 <= m THEN m - 1 + 1 ELSE 0
        /\ \A k \in 1 .. m - 1 + 1 : SubSeq(s, 1, m)[k] = s[1 + k - 1]
    BY <2>1, SubSeqProperties
  <2>3. /\ SubSeq(s, 1, m) \in Seq(S) /\ Len(SubSeq(s, 1, m)) = m
        /\ \A k \in 1 .. m : SubSeq(s, 1, m)[k] = s[k]
    BY <2>1, <2>2
  <2>4. QED
    BY <2>3 DEF m
<1>4. s[n][1] \in NodesOf(t) /\ s[n][2] = t.level[s[n][1]]
  BY <1>2 DEF Stacked
<1> HIDE DEF r
<1>5. Stacked(t, r)
  <2>1. \A k \in 1 .. n - 1 : k \in 1 .. n /\ r[k] = s[k]
    BY <1>2, <1>3
  <2>2. QED
    BY <1>3, <2>1 DEF Stacked
<1>6. Names(r) = Names(s) \ {s[n][1]}
  <2>1. ASSUME NEW k \in 1 .. n - 1 PROVE r[k][1] \in Names(s) \ {s[n][1]}
    <3>1. k \in 1 .. n /\ n \in 1 .. n /\ k # n /\ r[k] = s[k]
      BY <1>2, <1>3
    <3>2. s[k][1] # s[n][1]
      BY <3>1 DEF Stacked
    <3>3. QED
      BY <3>1, <3>2 DEF Names
  <2>2. ASSUME NEW k \in 1 .. n, s[k][1] # s[n][1] PROVE s[k][1] \in Names(r)
    <3>1. k \in 1 .. n - 1
      BY <1>2, <2>2
    <3>2. QED
      BY <1>3, <3>1 DEF Names
  <2>3. Names(r) \subseteq Names(s) \ {s[n][1]}
    BY <1>3, <2>1 DEF Names
  <2>4. Names(s) \ {s[n][1]} \subseteq Names(r)
    <3>1. ASSUME NEW x \in Names(s) \ {s[n][1]} PROVE x \in Names(r)
      <4>1. PICK k \in 1 .. n : x = s[k][1]
        BY DEF Names
      <4>2. QED
        BY <2>2, <3>1, <4>1
    <3>2. QED
      BY <3>1
  <2>5. QED
    BY <2>3, <2>4
<1>7. s[n][1] \in Names(s)
  BY <1>2 DEF Names
<1>8. IsFiniteSet(Names(r)) /\ Cardinality(Names(r)) = n - 1
  <2> DEFINE m == n - 1
             f == [k \in 1 .. m |-> r[k][1]]
  <2>1. \A k, l \in 1 .. m : f[k] = f[l] => k = l
    BY <1>3, <1>5 DEF Stacked
  <2>2. Names(r) = {f[k] : k \in 1 .. m}
    BY <1>3 DEF Names
  <2>3. m \in Nat
    BY <1>2
  <2> HIDE DEF f, m
  <2>4. IsFiniteSet(Names(r)) /\ Cardinality(Names(r)) = m
    <3> DEFINE T == Names(r)
    <3>1. /\ \A k \in 1 .. m : f[k] \in T
          /\ \A x \in T : \E k \in 1 .. m : x = f[k]
      BY <2>2
    <3> HIDE DEF T
    <3>2. IsFiniteSet(T) /\ Cardinality(T) = m
      BY <2>1, <2>3, <3>1, DistinctValues, Zenon
    <3>3. QED
      BY <3>2 DEF T
  <2>5. QED
    BY <2>4 DEF m
<1>9. QED
  BY <1>2, <1>3, <1>4, <1>5, <1>6, <1>7, <1>8 DEF r

\* Pushing what a node holds, last first, one level below it.
LEMMA PushStack ==
  ASSUME NEW t, IsTree(t), NEW r, Stacked(t, r), NEW i \in NodesOf(t),
         Held(t, i) \cap Names(r) = {}
  PROVE  LET children == Reverse(t.kids[i])
             s == r \o [k \in DOMAIN children |-> <<children[k], t.level[i] + 1>>]
         IN  /\ Stacked(t, s)
             /\ Names(s) = Names(r) \cup Held(t, i)
             /\ Len(s) = Len(r) + Len(t.kids[i])
             /\ Len(children) = Len(t.kids[i])
<1> DEFINE S == NodesOf(t) \X Nat
           children == Reverse(t.kids[i])
           above == [k \in DOMAIN children |-> <<children[k], t.level[i] + 1>>]
           s == r \o above
           n == Len(t.kids[i])
           m == Len(r)
<1>0. HasFields(t)
  BY DEF IsTree
<1>1. /\ t.kids[i] \in Seq(NodesOf(t)) /\ n \in Nat
      /\ \A k \in 1 .. n : t.kids[i][k] \in NodesOf(t)
  BY <1>0, KidsType
<1>2. /\ children \in Seq(NodesOf(t)) /\ Len(children) = n
      /\ \A k \in 1 .. n : /\ children[k] = t.kids[i][n - k + 1]
                           /\ n - k + 1 \in 1 .. n
  BY <1>1, Reversed
<1>3. DOMAIN children = 1 .. n
  BY <1>2, LenProperties
<1>4. t.level[i] + 1 \in Nat
  BY <1>0 DEF HasFields
<1>5. /\ above \in Seq(S) /\ Len(above) = n
      /\ \A k \in 1 .. n : above[k] = <<t.kids[i][n - k + 1], t.level[i] + 1>>
  <2>1. \A k \in 1 .. n : <<children[k], t.level[i] + 1>> \in S
    BY <1>1, <1>2, <1>4
  <2> HIDE DEF S, children, n
  <2>2. [k \in 1 .. n |-> <<children[k], t.level[i] + 1>>] \in Seq(S)
    BY <1>1, <2>1, IsASeq DEF n
  <2>3. Len([k \in 1 .. n |-> <<children[k], t.level[i] + 1>>]) = n
    BY <1>1, <2>2, LenProperties DEF n
  <2>4. QED
    BY <1>2, <1>3, <2>2, <2>3
<1>6. r \in Seq(S) /\ m \in Nat
  BY LenProperties DEF Stacked
<1> HIDE DEF S, above, children
<1>7. /\ s \in Seq(S) /\ Len(s) = m + n
      /\ \A k \in 1 .. m : s[k] = r[k]
      /\ \A k \in m + 1 .. m + n : s[k] = above[k - m]
  <2> DEFINE q == Len(above)
  <2>0. above \in Seq(S) /\ q = n
    BY <1>5
  <2>1. /\ s \in Seq(S) /\ Len(s) = m + q
        /\ \A k \in 1 .. m + q : s[k] = IF k <= m THEN r[k] ELSE above[k - m]
    <3>1. /\ r \o above \in Seq(S) /\ Len(r \o above) = Len(r) + Len(above)
          /\ \A k \in 1 .. Len(r) + Len(above) :
               (r \o above)[k] = IF k <= Len(r) THEN r[k] ELSE above[k - Len(r)]
      <4>1. r \in Seq(S) /\ above \in Seq(S)
        BY <2>0, <1>6
      <4>2. QED
        BY <4>1, ConcatProperties
    <3>2. QED
      BY <3>1, Zenon
  <2> HIDE DEF q
  <2> HIDE DEF s, m, n
  <2>2. q \in Nat /\ m \in Nat
    BY <1>1, <1>6, <2>0
  <2>3. /\ \A k \in 1 .. m : s[k] = r[k]
        /\ \A k \in m + 1 .. m + q : s[k] = above[k - m]
    BY <2>1, <2>2
  <2>4. QED
    BY <2>0, <2>1, <2>3
<1> HIDE DEF s
<1>8. ASSUME NEW k \in 1 .. m + n
      PROVE  \/ k \in 1 .. m /\ s[k] = r[k]
             \/ /\ m + n - k + 1 \in 1 .. n
                /\ s[k] = <<t.kids[i][m + n - k + 1], t.level[i] + 1>>
                /\ s[k][1] = t.kids[i][m + n - k + 1]
                /\ s[k][2] = t.level[i] + 1
  <2>1. CASE k <= m
    BY <1>6, <1>7, <2>1
  <2>2. CASE ~(k <= m)
    <3>1. k - m \in 1 .. n /\ n - (k - m) + 1 = m + n - k + 1 /\ k \in m + 1 .. m + n
      BY <1>1, <1>6, <2>2
    <3>2. m + n - k + 1 \in 1 .. n
      BY <1>1, <1>6, <3>1
    <3>3. s[k] = <<t.kids[i][m + n - k + 1], t.level[i] + 1>>
      BY <1>5, <1>7, <3>1
    <3>4. QED
      BY <3>2, <3>3
  <2>3. QED
    BY <2>1, <2>2
<1>9. Names(s) = Names(r) \cup Held(t, i)
  <2>1. ASSUME NEW k \in 1 .. m + n
        PROVE  s[k][1] \in Names(r) \cup {t.kids[i][l] : l \in 1 .. n}
    BY <1>8 DEF Names
  <2>2. ASSUME NEW k \in 1 .. m PROVE r[k][1] \in Names(s)
    <3>1. k \in 1 .. m + n
      BY <1>1, <1>6
    <3>2. QED
      BY <1>7, <3>1 DEF Names
  <2>3. ASSUME NEW k \in 1 .. n PROVE t.kids[i][k] \in Names(s)
    <3>1. /\ m + n - k + 1 \in m + 1 .. m + n
          /\ (m + n - k + 1) - m = n - k + 1
          /\ n - k + 1 \in 1 .. n /\ n - (n - k + 1) + 1 = k
          /\ m + n - k + 1 \in 1 .. m + n
      BY <1>1, <1>6
    <3>2. s[m + n - k + 1] = <<t.kids[i][k], t.level[i] + 1>>
      BY <1>5, <1>7, <3>1
    <3>3. s[m + n - k + 1][1] = t.kids[i][k]
      BY <3>2
    <3>4. QED
      BY <1>7, <3>1, <3>3 DEF Names
  <2>4. Len(s) = m + n
    BY <1>7
  <2>5. Names(s) \subseteq Names(r) \cup {t.kids[i][k] : k \in 1 .. n}
    <3>1. ASSUME NEW x \in Names(s) PROVE x \in Names(r) \cup {t.kids[i][k] : k \in 1 .. n}
      <4>1. PICK k \in 1 .. m + n : x = s[k][1]
        BY <2>4 DEF Names
      <4>2. QED
        BY <2>1, <4>1
    <3>2. QED
      BY <3>1
  <2>6. Names(r) \subseteq Names(s)
    <3>1. ASSUME NEW x \in Names(r) PROVE x \in Names(s)
      <4>1. PICK k \in 1 .. m : x = r[k][1]
        BY DEF Names
      <4>2. QED
        BY <2>2, <4>1
    <3>2. QED
      BY <3>1
  <2>7. Names(s) = Names(r) \cup {t.kids[i][k] : k \in 1 .. n}
    BY <2>3, <2>5, <2>6
  <2>8. QED
    BY <2>7 DEF Held
<1>10. Stacked(t, s)
  <2>1. ASSUME NEW k \in 1 .. m + n PROVE s[k][2] = t.level[s[k][1]]
    <3>1. CASE k \in 1 .. m /\ s[k] = r[k]
      BY <3>1 DEF Stacked
    <3>2. CASE /\ m + n - k + 1 \in 1 .. n
               /\ s[k][1] = t.kids[i][m + n - k + 1] /\ s[k][2] = t.level[i] + 1
      BY <3>2, KidsDistinct
    <3>3. QED
      BY <1>8, <3>1, <3>2
  <2>2. ASSUME NEW k \in 1 .. m + n, NEW l \in 1 .. m + n, s[k][1] = s[l][1]
        PROVE  k = l
    <3>1. CASE k \in 1 .. m /\ s[k] = r[k]
      <4>1. s[k][1] \in Names(r)
        BY <3>1 DEF Names
      <4>2. l \in 1 .. m /\ s[l] = r[l]
        <5>1. ASSUME m + n - l + 1 \in 1 .. n,
                     s[l][1] = t.kids[i][m + n - l + 1]
              PROVE  FALSE
          <6>1. s[l][1] \in Held(t, i)
            BY <5>1 DEF Held
          <6>2. QED
            BY <2>2, <4>1, <6>1
        <5>2. QED
          BY <1>8, <5>1
      <4>3. QED
        BY <2>2, <3>1, <4>2 DEF Stacked
    <3>2. CASE m + n - k + 1 \in 1 .. n /\ s[k][1] = t.kids[i][m + n - k + 1]
      <4>1. ~(l \in 1 .. m /\ s[l] = r[l])
        BY <2>2, <3>2 DEF Names, Held
      <4>2. m + n - l + 1 \in 1 .. n /\ s[l][1] = t.kids[i][m + n - l + 1]
        BY <1>8, <4>1
      <4> DEFINE a == m + n - k + 1
                 b == m + n - l + 1
      <4>3. a \in 1 .. n /\ b \in 1 .. n /\ t.kids[i][a] = t.kids[i][b]
        BY <2>2, <3>2, <4>2
      <4> HIDE DEF a, b
      <4>4. a = b
        BY <4>3, KidsDistinct
      <4>5. m + n - k + 1 = m + n - l + 1
        BY <4>4 DEF a, b
      <4>6. QED
        BY <1>1, <1>6, <4>5
    <3>3. QED
      BY <1>8, <3>1, <3>2
  <2>3. QED
    BY <1>7, <2>1, <2>2 DEF Stacked, S
<1>11. QED
  BY <1>2, <1>7, <1>9, <1>10 DEF s, above, children

-----------------------------------------------------------------------------
(* The node on top of the stack *)

Counters == [depth : Nat, nodes : Nat, items : Nat, bytes : Nat]

\* What the constants give.
LEMMA Assumed ==
  ASSUME IInv
  PROVE  /\ IsTree(tree) /\ HasFields(tree)
         /\ limits \in [depth : Nat, nodes : Nat, items : Nat, bytes : Nat, string : Nat]
         /\ DepthLimit(limits) \in Nat
<1>1. IsTree(tree) /\ limits \in [depth : Nat, nodes : Nat, items : Nat,
                                  bytes : Nat, string : Nat]
  BY TreeAssumption, LimitAssumption DEF IInv
<1>2. HasFields(tree)
  BY <1>1 DEF IsTree
<1>3. QED
  BY <1>1, <1>2, DepthCeilingAssumption DEF DepthLimit

\* The node on top is one the walk has not visited, and weighing it gives what
\* it weighs together with those it has.
LEMMA Visiting ==
  ASSUME IInv, pending # <<>>, NEW V \in SUBSET NodesOf(tree), Walked(V)
  PROVE  /\ Node \in NodesOf(tree) /\ Node \notin V /\ Node \in Names(pending)
         /\ Depth = tree.level[Node]
         /\ Stacked(tree, Rest) /\ Len(Rest) = Len(pending) - 1
         /\ Len(pending) \in Nat /\ Len(Rest) \in Nat
         /\ Names(Rest) = Names(pending) \ {Node}
         /\ IsFiniteSet(Names(Rest)) /\ Cardinality(Names(Rest)) = Len(Rest)
         /\ tree.text[Node] \in Nat /\ Len(tree.kids[Node]) \in Nat
         /\ metrics \in Counters /\ Charged \in Counters
         /\ Charged.nodes = metrics.nodes + 1 /\ Charged.bytes = metrics.bytes + 1
         /\ Charged.items = metrics.items
         /\ Weight(tree, V \cup {Node}) = Weighed(Len(tree.kids[Node]), tree.text[Node])
<1>0. IsTree(tree) /\ HasFields(tree)
  BY Assumed
<1>1. /\ Len(pending) \in Nat \ {0}
      /\ Node \in NodesOf(tree) /\ Depth = tree.level[Node]
      /\ Stacked(tree, Rest) /\ Len(Rest) = Len(pending) - 1
      /\ Node \in Names(pending) /\ Names(Rest) = Names(pending) \ {Node}
      /\ IsFiniteSet(Names(Rest)) /\ Cardinality(Names(Rest)) = Len(pending) - 1
  BY PopStack DEF IInv, Node, Depth, Rest
<1>2. Node \notin V
  BY <1>1 DEF Walked, Frontier
<1>3. /\ tree.text[Node] \in Nat /\ Len(tree.kids[Node]) \in Nat
      /\ tree.level[Node] \in Nat
  BY <1>0, <1>1, KidsType DEF HasFields
<1>4. metrics \in Counters /\ metrics = Weight(tree, V)
  BY <1>0, WeightType DEF Walked, Counters
<1>5. Charged = [depth |-> IF Depth > metrics.depth THEN Depth ELSE metrics.depth,
                 nodes |-> metrics.nodes + 1, items |-> metrics.items,
                 bytes |-> metrics.bytes + 1]
  BY DEF Charged
<1>6. Charged \in Counters
  BY <1>1, <1>3, <1>4, <1>5 DEF Counters
<1>7. Weight(tree, V \cup {Node}) =
        [depth |-> IF tree.level[Node] > metrics.depth
                   THEN tree.level[Node] ELSE metrics.depth,
         nodes |-> metrics.nodes + 1,
         items |-> metrics.items + Len(tree.kids[Node]),
         bytes |-> metrics.bytes + 1 + tree.text[Node]]
  BY <1>0, <1>1, <1>2, <1>4, WeightAdd
<1>8. Weighed(Len(tree.kids[Node]), tree.text[Node]) =
        [depth |-> IF Depth > metrics.depth THEN Depth ELSE metrics.depth,
         nodes |-> metrics.nodes + 1,
         items |-> metrics.items + Len(tree.kids[Node]),
         bytes |-> metrics.bytes + 1 + tree.text[Node]]
  BY <1>5 DEF Weighed
<1>9. QED
  BY <1>1, <1>2, <1>3, <1>4, <1>5, <1>6, <1>7, <1>8

\* A node that passes the checks can be admitted, and with it the walk is still
\* within its limits.
LEMMA Passing ==
  ASSUME IInv, pending # <<>>, NEW V \in SUBSET NodesOf(tree), Walked(V),
         AllHold(HeaderChecks), AllHold(KindChecks)
  PROVE  /\ LET m == Weight(tree, V \cup {Node})
            IN  /\ m.depth <= DepthLimit(limits) /\ m.nodes <= limits.nodes
                /\ m.items <= limits.items /\ m.bytes <= limits.bytes
         /\ tree.kind[Node] # "bad"
         /\ tree.kind[Node] = "string" => tree.text[Node] <= limits.string
         /\ ~IsContainer(tree, Node) => Len(tree.kids[Node]) = 0
         /\ Len(tree.kids[Node]) # 0 =>
              Charged.nodes + (Len(Rest) + Len(tree.kids[Node])) <= limits.nodes
<1>0. IsTree(tree) /\ HasFields(tree)
  BY Assumed
<1>1. /\ Node \in NodesOf(tree)
      /\ tree.text[Node] \in Nat /\ Len(tree.kids[Node]) \in Nat
      /\ metrics \in Counters /\ Charged \in Counters
      /\ Charged.items = metrics.items /\ Charged.bytes = metrics.bytes + 1
      /\ Weight(tree, V \cup {Node}) = Weighed(Len(tree.kids[Node]), tree.text[Node])
  BY Visiting
<1>2. /\ Charged.nodes <= limits.nodes /\ Charged.bytes <= limits.bytes
      /\ Charged.depth <= DepthLimit(limits)
  <2>1. 1 \in DOMAIN HeaderChecks /\ 2 \in DOMAIN HeaderChecks /\ 3 \in DOMAIN HeaderChecks
    BY DEF HeaderChecks
  <2>2. HeaderChecks[1][1] /\ HeaderChecks[2][1] /\ HeaderChecks[3][1]
    BY <2>1 DEF AllHold
  <2>3. QED
    BY <2>2 DEF HeaderChecks
<1>3. ASSUME ~IsContainer(tree, Node) PROVE Len(tree.kids[Node]) = 0
  <2>1. tree.kids[Node] = <<>>
    BY <1>0, <1>1, <1>3 DEF IsTree
  <2>2. QED
    BY <2>1
<1>4. ASSUME ~IsContainer(tree, Node), tree.kind[Node] # "string"
      PROVE  tree.text[Node] = 0 /\ tree.kind[Node] # "bad"
  <2>1. tree.kind[Node] # "object"
    BY <1>4 DEF IsContainer, Containers
  <2>2. tree.text[Node] = 0
    BY <1>0, <1>1, <1>4, <2>1 DEF IsTree
  <2>3. KindChecks = LeafChecks /\ 1 \in DOMAIN LeafChecks
    BY <1>4 DEF KindChecks, LeafChecks
  <2>4. LeafChecks[1][1]
    BY <2>3 DEF AllHold
  <2>5. QED
    BY <2>2, <2>4 DEF LeafChecks
<1>5. ASSUME ~IsContainer(tree, Node), tree.kind[Node] = "string"
      PROVE  /\ tree.text[Node] <= limits.string
             /\ Charged.bytes + tree.text[Node] <= limits.bytes
  <2>1. KindChecks = StringChecks /\ 1 \in DOMAIN StringChecks /\ 2 \in DOMAIN StringChecks
    BY <1>5 DEF KindChecks, StringChecks
  <2>2. StringChecks[1][1] /\ StringChecks[2][1]
    BY <2>1 DEF AllHold
  <2>3. QED
    BY <2>2 DEF StringChecks
<1>6. ASSUME IsContainer(tree, Node)
      PROVE  /\ tree.kind[Node] # "bad" /\ tree.kind[Node] # "string"
             /\ Charged.items + Len(tree.kids[Node]) <= limits.items
             /\ Charged.bytes + tree.text[Node] <= limits.bytes
             /\ Len(tree.kids[Node]) # 0 =>
                  Charged.nodes + (Len(Rest) + Len(tree.kids[Node])) <= limits.nodes
  <2>1. /\ KindChecks = ReserveChecks /\ 1 \in DOMAIN ReserveChecks
        /\ 3 \in DOMAIN ReserveChecks /\ 5 \in DOMAIN ReserveChecks
    BY <1>6 DEF KindChecks, ReserveChecks
  <2>2. ReserveChecks[1][1] /\ ReserveChecks[3][1] /\ ReserveChecks[5][1]
    BY <2>1 DEF AllHold
  <2>3. tree.kind[Node] # "bad" /\ tree.kind[Node] # "string"
    BY <1>6 DEF IsContainer, Containers
  <2>4. QED
    BY <2>2, <2>3 DEF ReserveChecks
<1>7. /\ Weighed(Len(tree.kids[Node]), tree.text[Node]).depth = Charged.depth
      /\ Weighed(Len(tree.kids[Node]), tree.text[Node]).nodes = Charged.nodes
      /\ Weighed(Len(tree.kids[Node]), tree.text[Node]).items =
           Charged.items + Len(tree.kids[Node])
      /\ Weighed(Len(tree.kids[Node]), tree.text[Node]).bytes =
           Charged.bytes + tree.text[Node]
  BY DEF Weighed
<1>8. metrics.items <= limits.items /\ limits.items \in Nat
  BY Assumed DEF IInv, WithinLimits
<1>9. /\ Charged.items + Len(tree.kids[Node]) <= limits.items
      /\ Charged.bytes + tree.text[Node] <= limits.bytes
  <2>1. Charged.bytes \in Nat /\ Charged.items \in Nat
    BY <1>1 DEF Counters
  <2>2. CASE IsContainer(tree, Node)
    BY <1>6, <2>2
  <2>3. CASE ~IsContainer(tree, Node) /\ tree.kind[Node] = "string"
    BY <1>1, <1>3, <1>5, <1>8, <2>1, <2>3
  <2>4. CASE ~IsContainer(tree, Node) /\ tree.kind[Node] # "string"
    BY <1>1, <1>2, <1>3, <1>4, <1>8, <2>1, <2>4
  <2>5. QED
    BY <2>2, <2>3, <2>4
<1>10. QED
  BY <1>1, <1>2, <1>3, <1>4, <1>5, <1>6, <1>7, <1>9

-----------------------------------------------------------------------------
(* The inductive invariant *)

\* The walk starts with the root scheduled and nothing counted.
LEMMA InitIInv == Init => IInv
<1> SUFFICES ASSUME Init PROVE IInv
  OBVIOUS
<1>1. IsTree(tree) /\ HasFields(tree) /\ 1 \in NodesOf(tree) /\ tree.level[1] = 1
  BY TreeAssumption DEF Init, IsTree, HasFields
<1>2. /\ limits \in [depth : Nat, nodes : Nat, items : Nat, bytes : Nat, string : Nat]
      /\ DepthLimit(limits) \in Nat
  BY LimitAssumption, DepthCeilingAssumption DEF Init, DepthLimit
<1>3. /\ pending = <<<<1, 1>>>> /\ Len(pending) = 1
      /\ pending[1] = <<1, 1>> /\ pending[1][1] = 1 /\ pending[1][2] = 1
  BY DEF Init, RootEntry
<1>4. Stacked(tree, pending)
  BY <1>1, <1>3 DEF Stacked
<1>5. Names(pending) = {1}
  BY <1>3 DEF Names
<1>6. Walked({})
  BY <1>1, <1>5, FrontierStart, WeightNone DEF Walked, Init
<1>7. WorklistBounded /\ WithinLimits
  BY <1>2, <1>3 DEF Init, WorklistBounded, WithinLimits
<1>8. QED
  BY <1>4, <1>6, <1>7 DEF Init, IInv

\* After a step that visits the node on top and schedules what it holds.
LEMMA VisitIInv ==
  ASSUME IInv, pending # <<>>, AllHold(HeaderChecks), AllHold(KindChecks),
         UNCHANGED <<tree, limits, verdict>>, verdict = "running",
         metrics' = Weighed(Len(tree.kids[Node]), tree.text[Node]),
         Stacked(tree, pending'),
         Len(pending') = Len(Rest) + Len(tree.kids[Node]),
         Names(pending') = Names(Rest) \cup Held(tree, Node)
  PROVE  IInv'
<1>1. PICK V \in SUBSET NodesOf(tree) : Walked(V)
  BY DEF IInv
<1>0. PICK i \in NodesOf(tree) : i = Node
  BY <1>1, Visiting
<1> DEFINE U == V \cup {i}
<1>2. /\ Node \in NodesOf(tree) /\ Node \in Names(pending)
      /\ Len(Rest) = Len(pending) - 1 /\ Len(pending) \in Nat
      /\ Names(Rest) = Names(pending) \ {Node}
      /\ Len(tree.kids[Node]) \in Nat /\ metrics \in Counters
      /\ Charged.nodes = metrics.nodes + 1
      /\ Weight(tree, U) = metrics'
  BY <1>0, <1>1, Visiting
<1>3. /\ metrics'.depth <= DepthLimit(limits) /\ metrics'.nodes <= limits.nodes
      /\ metrics'.items <= limits.items /\ metrics'.bytes <= limits.bytes
      /\ tree.kind[Node] # "bad"
      /\ tree.kind[Node] = "string" => tree.text[Node] <= limits.string
      /\ Len(tree.kids[Node]) # 0 =>
           Charged.nodes + (Len(Rest) + Len(tree.kids[Node])) <= limits.nodes
  BY <1>0, <1>1, <1>2, Passing
<1>4. IsTree(tree) /\ limits.nodes \in Nat
  BY Assumed
<1>5. Frontier(tree, U, (Names(pending) \ {i}) \cup Held(tree, i))
  <2>1. Frontier(tree, V, Names(pending)) /\ i \in Names(pending)
    BY <1>0, <1>1, <1>2 DEF Walked
  <2>2. QED
    BY <1>4, <2>1, FrontierStep
<1>6. U \in SUBSET NodesOf(tree)
  OBVIOUS
<1>7. Walked(U)'
  <2>1. /\ \A j \in U : /\ tree.kind[j] # "bad"
                        /\ tree.kind[j] = "string" => tree.text[j] <= limits.string
    BY <1>0, <1>1, <1>3 DEF Walked
  <2>2. Frontier(tree, U, Names(pending'))
    BY <1>0, <1>2, <1>5
  <2>3. metrics' = Weight(tree, U)
    BY <1>2
  <2> HIDE DEF U
  <2>4. QED
    BY <2>1, <2>2, <2>3 DEF Walked
<1>8. WithinLimits'
  BY <1>3 DEF WithinLimits
<1>9. WorklistBounded'
  <2>1. metrics'.nodes = metrics.nodes + 1
    BY <1>2 DEF Weighed
  <2>2. CASE Len(tree.kids[Node]) = 0
    <3>1. Len(pending') = Len(pending) - 1 /\ metrics.nodes \in Nat /\ Len(pending) \in Nat
      BY <1>2, <2>2 DEF Counters
    <3> DEFINE a == metrics.nodes
               b == Len(pending)
               c == metrics'.nodes
               d == Len(pending')
    <3>2. a \in Nat /\ b \in Nat /\ c = a + 1 /\ d = b - 1
      BY <2>1, <3>1
    <3> HIDE DEF a, b, c, d
    <3>3. c + d = a + b
      BY <3>2, Traded
    <3>4. metrics'.nodes + Len(pending') = metrics.nodes + Len(pending)
      BY <3>3 DEF a, b, c, d
    <3>5. WorklistBounded
      BY DEF IInv
    <3>6. QED
      BY <3>4, <3>5 DEF WorklistBounded
  <2>3. CASE Len(tree.kids[Node]) # 0
    <3>1. metrics'.nodes + Len(pending') <= limits.nodes
      BY <1>2, <1>3, <2>1, <2>3
    <3>2. metrics'.nodes \in Nat /\ Len(pending') \in Nat
      BY <1>2, <2>1 DEF Counters
    <3>3. QED
      BY <1>4, <3>1, <3>2 DEF WorklistBounded
  <2>4. QED
    BY <2>2, <2>3
<1> HIDE DEF U
<1>10. (\E W \in SUBSET NodesOf(tree) : Walked(W))'
  BY <1>6, <1>7
<1>11. QED
  BY <1>8, <1>9, <1>10 DEF IInv

\* A node refused before its kind is looked at is one too many, too deep, or
\* weighs too much with those before it.
LEMMA RejectHeader ==
  ASSUME IInv, pending # <<>>, ~AllHold(HeaderChecks)
  PROVE  FirstFailure(HeaderChecks) \in Overruns(tree, limits)
<1>1. PICK V \in SUBSET NodesOf(tree) : Walked(V)
  BY DEF IInv
<1>2. /\ HasFields(tree) /\ DepthLimit(limits) \in Nat
      /\ limits \in [depth : Nat, nodes : Nat, items : Nat, bytes : Nat, string : Nat]
  BY Assumed
<1> DEFINE m == Measure(tree)
<1>3. /\ m \in Counters /\ Charged \in Counters
      /\ Charged.nodes <= m.nodes /\ Charged.bytes <= m.bytes
      /\ Charged.depth <= m.depth
  <2>1. /\ Node \in NodesOf(tree) /\ Node \notin V /\ Charged \in Counters
        /\ Charged.nodes = metrics.nodes + 1 /\ Charged.bytes = metrics.bytes + 1
        /\ metrics = Weight(tree, V)
        /\ Weight(tree, V \cup {Node}) = Weighed(Len(tree.kids[Node]), tree.text[Node])
    BY <1>1, Visiting DEF Walked
  <2>2. {Node} \in SUBSET NodesOf(tree) /\ V \cap {Node} = {} /\ Cardinality({Node}) = 1
    BY <2>1, FS_Singleton
  <2>3. /\ m \in Counters /\ Weight(tree, V).nodes + 1 <= m.nodes
        /\ Weight(tree, V).bytes + 1 <= m.bytes
    BY <1>2, <2>2, WeightWithin DEF Counters
  <2>4. Weight(tree, V \cup {Node}).depth <= m.depth
    <3>1. V \cup {Node} \in SUBSET NodesOf(tree) /\ {} \in SUBSET NodesOf(tree)
      BY <2>1
    <3>2. (V \cup {Node}) \cap {} = {}
      OBVIOUS
    <3>3. QED
      BY <1>2, <3>1, <3>2, WeightWithin
  <2>5. Weight(tree, V \cup {Node}).depth = Charged.depth
    BY <2>1 DEF Weighed
  <2>6. QED
    BY <2>1, <2>3, <2>4, <2>5
<1> HIDE DEF m
<1>4. PICK k \in 1 .. 3 : ~HeaderChecks[k][1] /\ FirstFailure(HeaderChecks) = HeaderChecks[k][2]
  <2>1. DOMAIN HeaderChecks = 1 .. 3 /\ 3 \in Nat
    BY DEF HeaderChecks
  <2>2. QED
    BY <2>1, FailureFails
<1>5. \/ ~(Charged.nodes <= limits.nodes) /\ FirstFailure(HeaderChecks) = "nodes"
      \/ ~(Charged.bytes <= limits.bytes) /\ FirstFailure(HeaderChecks) = "bytes"
      \/ ~(Charged.depth <= DepthLimit(limits)) /\ FirstFailure(HeaderChecks) = "depth"
  <2>1. /\ HeaderChecks[1][1] <=> Charged.nodes <= limits.nodes
        /\ HeaderChecks[2][1] <=> Charged.bytes <= limits.bytes
        /\ HeaderChecks[3][1] <=> Charged.depth <= DepthLimit(limits)
    BY DEF HeaderChecks
  <2>2. /\ HeaderChecks[1][2] = "nodes" /\ HeaderChecks[2][2] = "bytes"
        /\ HeaderChecks[3][2] = "depth"
    BY DEF HeaderChecks
  <2>3. k = 1 \/ k = 2 \/ k = 3
    OBVIOUS
  <2>4. QED
    BY <1>4, <2>1, <2>2, <2>3
<1>6. /\ m.nodes > limits.nodes => "nodes" \in Overruns(tree, limits)
      /\ m.bytes > limits.bytes => "bytes" \in Overruns(tree, limits)
      /\ m.depth > DepthLimit(limits) => "depth" \in Overruns(tree, limits)
  BY OverrunsAre DEF m
<1>7. QED
  BY <1>2, <1>3, <1>5, <1>6 DEF Counters

\* A node refused for its kind can never be admitted, holds too much, or leaves
\* no room for what it holds and what is scheduled already.
LEMMA RejectKind ==
  ASSUME IInv, pending # <<>>, ~AllHold(KindChecks)
  PROVE  FirstFailure(KindChecks) \in Overruns(tree, limits)
<1>1. PICK V \in SUBSET NodesOf(tree) : Walked(V)
  BY DEF IInv
<1>2. /\ IsTree(tree) /\ HasFields(tree) /\ DepthLimit(limits) \in Nat
      /\ limits \in [depth : Nat, nodes : Nat, items : Nat, bytes : Nat, string : Nat]
  BY Assumed
<1> DEFINE m == Measure(tree)
           U == V \cup {Node}
           n == Len(tree.kids[Node])
           W == Names(Rest) \cup Held(tree, Node)
<1>3. /\ Node \in NodesOf(tree) /\ Node \notin V /\ Node \in Names(pending)
      /\ Depth = tree.level[Node] /\ Len(Rest) \in Nat
      /\ Names(Rest) = Names(pending) \ {Node}
      /\ IsFiniteSet(Names(Rest)) /\ Cardinality(Names(Rest)) = Len(Rest)
      /\ tree.text[Node] \in Nat /\ n \in Nat /\ Charged \in Counters
      /\ Weight(tree, U) = Weighed(n, tree.text[Node])
  BY <1>1, Visiting
<1>4. /\ m \in Counters /\ Charged.items + n <= m.items
      /\ Charged.bytes + tree.text[Node] <= m.bytes
  <2>1. U \in SUBSET NodesOf(tree) /\ {} \in SUBSET NodesOf(tree) /\ U \cap {} = {}
    BY <1>3
  <2>2. Cardinality({}) = 0
    BY FS_EmptySet
  <2>3. /\ m \in Counters /\ Weight(tree, U).items <= m.items
        /\ Weight(tree, U).bytes + 0 <= m.bytes
    BY <1>2, <2>1, <2>2, WeightWithin DEF Counters
  <2>4. /\ Weight(tree, U).items = Charged.items + n
        /\ Weight(tree, U).bytes = Charged.bytes + tree.text[Node]
    BY <1>3 DEF Weighed
  <2>5. Charged.bytes + tree.text[Node] \in Nat
    BY <1>3 DEF Counters
  <2>6. QED
    BY <2>3, <2>4, <2>5
<1>5. /\ Charged.nodes + (Len(Rest) + n) <= m.nodes
      /\ Charged.bytes + (Len(Rest) + n) <= m.bytes
  <2>1. /\ Held(tree, Node) \in SUBSET NodesOf(tree)
        /\ Held(tree, Node) \cap (V \cup Names(pending)) = {}
        /\ IsFiniteSet(Held(tree, Node)) /\ Cardinality(Held(tree, Node)) = n
    <3>1. Frontier(tree, V, Names(pending))
      BY <1>1 DEF Walked
    <3>2. IsTree(tree) /\ Node \in Names(pending)
      BY <1>2, <1>3
    <3> HIDE DEF n
    <3>3. /\ Held(tree, Node) \in SUBSET NodesOf(tree)
          /\ Held(tree, Node) \cap (V \cup Names(pending)) = {}
          /\ IsFiniteSet(Held(tree, Node))
          /\ Cardinality(Held(tree, Node)) = Len(tree.kids[Node])
      BY <3>1, <3>2, FrontierStep
    <3>4. QED
      BY <3>3 DEF n
  <2>2. /\ V \in SUBSET NodesOf(tree) /\ Names(pending) \in SUBSET NodesOf(tree)
        /\ V \cap Names(pending) = {}
    BY <1>1 DEF Walked, Frontier
  <2>3. /\ W \in SUBSET NodesOf(tree) /\ Node \notin W /\ V \cap W = {}
        /\ Names(Rest) \cap Held(tree, Node) = {}
    BY <1>3, <2>1, <2>2
  <2>4. Cardinality(W) = Len(Rest) + n /\ IsFiniteSet(W)
    BY <1>3, <2>1, <2>3, DisjointUnion
  <2>5. Cardinality(W \cup {Node}) = Len(Rest) + n + 1
    BY <2>3, <2>4, FS_AddElement
  <2>6. W \cup {Node} \in SUBSET NodesOf(tree) /\ V \cap (W \cup {Node}) = {}
    BY <1>3, <2>3
  <2>7. /\ Weight(tree, V).nodes + Cardinality(W \cup {Node}) <= m.nodes
        /\ Weight(tree, V).bytes + Cardinality(W \cup {Node}) <= m.bytes
    BY <1>2, <2>6, WeightWithin
  <2>8. /\ metrics = Weight(tree, V) /\ metrics \in Counters
        /\ Charged.nodes = metrics.nodes + 1 /\ Charged.bytes = metrics.bytes + 1
    BY <1>1, Visiting DEF Walked
  <2> DEFINE c == Cardinality(W \cup {Node})
  <2> HIDE DEF W, m, n, c
  <2>9. c = Len(Rest) + n + 1 /\ metrics.nodes + c <= m.nodes /\ metrics.bytes + c <= m.bytes
    BY <2>5, <2>7, <2>8 DEF c
  <2>10. Len(Rest) \in Nat /\ n \in Nat /\ metrics.nodes \in Nat /\ metrics.bytes \in Nat
    BY <1>3, <2>8 DEF Counters
  <2>11. /\ Charged.nodes + (Len(Rest) + n) = metrics.nodes + c
         /\ Charged.bytes + (Len(Rest) + n) = metrics.bytes + c
    BY <2>8, <2>9, <2>10
  <2>12. QED
    BY <2>9, <2>11
<1>6. n # 0 => Depth + 1 <= m.depth
  <2> SUFFICES ASSUME n # 0 PROVE Depth + 1 <= m.depth
    OBVIOUS
  <2>1. 1 \in 1 .. n
    BY <1>3
  <2>2. /\ tree.kids[Node][1] \in NodesOf(tree)
        /\ tree.level[tree.kids[Node][1]] = Depth + 1
    BY <1>2, <1>3, <2>1, KidsType, KidsDistinct
  <2>3. \A i \in NodesOf(tree) : tree.level[i] <= m.depth
    <3>1. NodesOf(tree) \in SUBSET NodesOf(tree)
      OBVIOUS
    <3>2. QED
      BY <1>2, <3>1, WeightType DEF Measure
  <2>4. QED
    BY <2>2, <2>3
<1>7. /\ m.depth > DepthLimit(limits) => "depth" \in Overruns(tree, limits)
      /\ m.nodes > limits.nodes => "nodes" \in Overruns(tree, limits)
      /\ m.items > limits.items => "items" \in Overruns(tree, limits)
      /\ m.bytes > limits.bytes => "bytes" \in Overruns(tree, limits)
      /\ (\E i \in NodesOf(tree) : tree.kind[i] = "string" /\ tree.text[i] > limits.string)
           => "string" \in Overruns(tree, limits)
      /\ (\E i \in NodesOf(tree) : tree.kind[i] = "bad") => "leaf" \in Overruns(tree, limits)
  BY OverrunsAre
<1> HIDE DEF m, U, n, W
<1>8. /\ ~(Charged.items + n <= limits.items) => m.items > limits.items
      /\ n # 0 /\ ~(Depth + 1 <= DepthLimit(limits)) => m.depth > DepthLimit(limits)
      /\ ~(Charged.nodes + (Len(Rest) + n) <= limits.nodes) => m.nodes > limits.nodes
      /\ ~(Charged.bytes + (Len(Rest) + n) <= limits.bytes) => m.bytes > limits.bytes
      /\ ~(Charged.bytes + tree.text[Node] <= limits.bytes) => m.bytes > limits.bytes
  <2>1. /\ limits.items \in Nat /\ limits.nodes \in Nat /\ limits.bytes \in Nat
        /\ m.items \in Nat /\ m.nodes \in Nat /\ m.bytes \in Nat /\ m.depth \in Nat
        /\ Charged.items \in Nat /\ Charged.nodes \in Nat /\ Charged.bytes \in Nat
        /\ Len(Rest) \in Nat /\ n \in Nat /\ tree.text[Node] \in Nat
    BY <1>2, <1>3, <1>4 DEF Counters
  <2>2. Depth \in Nat /\ DepthLimit(limits) \in Nat
    BY <1>2, <1>3 DEF HasFields
  <2>3. ~(Charged.items + n <= limits.items) => m.items > limits.items
    BY <1>4, <2>1, Exceeded, Zenon
  <2>4. n # 0 /\ ~(Depth + 1 <= DepthLimit(limits)) => m.depth > DepthLimit(limits)
    <3>1. 1 \in Nat
      OBVIOUS
    <3>2. QED
      BY <1>6, <2>1, <2>2, <3>1, Exceeded, Zenon
  <2>5. Len(Rest) + n \in Nat
    BY <2>1
  <2>6. ~(Charged.nodes + (Len(Rest) + n) <= limits.nodes) => m.nodes > limits.nodes
    BY <1>5, <2>1, <2>5, Exceeded, Zenon
  <2>7. ~(Charged.bytes + (Len(Rest) + n) <= limits.bytes) => m.bytes > limits.bytes
    BY <1>5, <2>1, <2>5, Exceeded, Zenon
  <2>8. ~(Charged.bytes + tree.text[Node] <= limits.bytes) => m.bytes > limits.bytes
    BY <1>4, <2>1, Exceeded, Zenon
  <2>9. QED
    BY <2>3, <2>4, <2>6, <2>7, <2>8, Zenon
<1>9. CASE IsContainer(tree, Node)
  <2>1. KindChecks = ReserveChecks
    BY <1>9 DEF KindChecks
  <2>2. PICK k \in 1 .. 5 :
          ~ReserveChecks[k][1] /\ FirstFailure(ReserveChecks) = ReserveChecks[k][2]
    <3>1. DOMAIN ReserveChecks = 1 .. 5 /\ 5 \in Nat
      BY DEF ReserveChecks
    <3>2. QED
      BY <2>1, <3>1, FailureFails
  <2>3. /\ ReserveChecks[1][1] <=> Charged.items + n <= limits.items
        /\ ReserveChecks[2][1] <=> (n = 0 \/ Depth + 1 <= DepthLimit(limits))
        /\ ReserveChecks[3][1] <=> (n = 0 \/ Charged.nodes + (Len(Rest) + n) <= limits.nodes)
        /\ ReserveChecks[4][1] <=> (n = 0 \/ Charged.bytes + (Len(Rest) + n) <= limits.bytes)
        /\ ReserveChecks[5][1] <=> Charged.bytes + tree.text[Node] <= limits.bytes
    BY DEF ReserveChecks, n
  <2>4. /\ ReserveChecks[1][2] = "items" /\ ReserveChecks[2][2] = "depth"
        /\ ReserveChecks[3][2] = "nodes" /\ ReserveChecks[4][2] = "bytes"
        /\ ReserveChecks[5][2] = "bytes"
    BY DEF ReserveChecks
  <2> DEFINE f == FirstFailure(ReserveChecks)
  <2> HIDE DEF f
  <2>5. f \in Overruns(tree, limits)
    <3>0. f = ReserveChecks[k][2] /\ ~ReserveChecks[k][1]
      BY <2>2 DEF f
    <3>1. CASE k = 1
      <4>1. f = "items" /\ ~(Charged.items + n <= limits.items)
        BY <3>0, <3>1, <2>3, <2>4
      <4>2. QED
        BY <1>7, <1>8, <4>1
    <3>2. CASE k = 2
      <4>1. f = "depth" /\ n # 0 /\ ~(Depth + 1 <= DepthLimit(limits))
        BY <3>0, <3>2, <2>3, <2>4
      <4>2. QED
        BY <1>7, <1>8, <4>1
    <3>3. CASE k = 3
      <4>1. f = "nodes" /\ ~(Charged.nodes + (Len(Rest) + n) <= limits.nodes)
        BY <3>0, <3>3, <2>3, <2>4
      <4>2. QED
        BY <1>7, <1>8, <4>1
    <3>4. CASE k = 4
      <4>1. f = "bytes" /\ ~(Charged.bytes + (Len(Rest) + n) <= limits.bytes)
        BY <3>0, <3>4, <2>3, <2>4
      <4>2. QED
        BY <1>7, <1>8, <4>1
    <3>5. CASE k = 5
      <4>1. f = "bytes" /\ ~(Charged.bytes + tree.text[Node] <= limits.bytes)
        BY <3>0, <3>5, <2>3, <2>4
      <4>2. QED
        BY <1>7, <1>8, <4>1
    <3>6. QED
      BY <3>1, <3>2, <3>3, <3>4, <3>5
  <2>6. QED
    BY <2>1, <2>5 DEF f
<1>10. CASE ~IsContainer(tree, Node) /\ tree.kind[Node] = "string"
  <2>1. KindChecks = StringChecks
    BY <1>10 DEF KindChecks
  <2>2. PICK k \in 1 .. 2 :
          ~StringChecks[k][1] /\ FirstFailure(StringChecks) = StringChecks[k][2]
    <3>1. DOMAIN StringChecks = 1 .. 2 /\ 2 \in Nat
      BY DEF StringChecks
    <3>2. QED
      BY <2>1, <3>1, FailureFails
  <2>3. /\ StringChecks[1][1] <=> tree.text[Node] <= limits.string
        /\ StringChecks[2][1] <=> Charged.bytes + tree.text[Node] <= limits.bytes
    BY DEF StringChecks
  <2>4. StringChecks[1][2] = "string" /\ StringChecks[2][2] = "bytes"
    BY DEF StringChecks
  <2> DEFINE f == FirstFailure(StringChecks)
  <2> HIDE DEF f
  <2>5. f \in Overruns(tree, limits)
    <3>0. f = StringChecks[k][2] /\ ~StringChecks[k][1]
      BY <2>2 DEF f
    <3>1. CASE k = 1
      <4>1. f = "string" /\ ~(tree.text[Node] <= limits.string)
        BY <3>0, <3>1, <2>3, <2>4
      <4>2. tree.text[Node] > limits.string
        BY <1>2, <1>3, <4>1
      <4>3. QED
        BY <1>3, <1>7, <1>10, <4>1, <4>2
    <3>2. CASE k = 2
      <4>1. f = "bytes" /\ ~(Charged.bytes + tree.text[Node] <= limits.bytes)
        BY <3>0, <3>2, <2>3, <2>4
      <4>2. QED
        BY <1>7, <1>8, <4>1
    <3>3. QED
      BY <3>1, <3>2
  <2>6. QED
    BY <2>1, <2>5 DEF f
<1>11. CASE ~IsContainer(tree, Node) /\ tree.kind[Node] # "string"
  <2>1. KindChecks = LeafChecks
    BY <1>11 DEF KindChecks
  <2>2. PICK k \in 1 .. 1 :
          ~LeafChecks[k][1] /\ FirstFailure(LeafChecks) = LeafChecks[k][2]
    <3>1. DOMAIN LeafChecks = 1 .. 1 /\ 1 \in Nat
      BY DEF LeafChecks
    <3>2. QED
      BY <2>1, <3>1, FailureFails
  <2>3. tree.kind[Node] = "bad" /\ FirstFailure(LeafChecks) = "leaf"
    <3>1. (LeafChecks[1][1] <=> tree.kind[Node] # "bad") /\ LeafChecks[1][2] = "leaf"
      BY DEF LeafChecks
    <3>2. k = 1
      OBVIOUS
    <3>3. QED
      BY <2>2, <3>1, <3>2
  <2>4. QED
    BY <1>3, <1>7, <2>1, <2>3
<1>12. QED
  BY <1>9, <1>10, <1>11

\* Every step keeps the invariant.
LEMMA NextIInv == IInv /\ [Next]_vars => IInv'
<1> SUFFICES ASSUME IInv, [Next]_vars PROVE IInv'
  OBVIOUS
<1>0. PICK V \in SUBSET NodesOf(tree) : Walked(V)
  BY DEF IInv
<1>1. CASE VisitLeaf
  <2>1. /\ pending # <<>> /\ ~IsContainer(tree, Node) /\ verdict = "running"
        /\ AllHold(HeaderChecks) /\ AllHold(KindChecks)
        /\ metrics' = Weighed(0, tree.text[Node]) /\ pending' = Rest
        /\ UNCHANGED <<tree, limits, verdict>>
    BY <1>1 DEF VisitLeaf, Running
  <2>2. Len(tree.kids[Node]) = 0
    BY <1>0, <2>1, Passing
  <2>3. Stacked(tree, Rest) /\ Len(Rest) \in Nat
    BY <1>0, <2>1, Visiting
  <2>4. Held(tree, Node) = {}
    BY <2>2 DEF Held
  <2>5. Names(pending') = Names(Rest) \cup Held(tree, Node)
    BY <2>1, <2>4
  <2>6. Len(pending') = Len(Rest) + Len(tree.kids[Node])
    BY <2>1, <2>2, <2>3
  <2>7. metrics' = Weighed(Len(tree.kids[Node]), tree.text[Node])
    BY <2>1, <2>2
  <2>8. Stacked(tree, pending')
    BY <2>1, <2>3
  <2>9. QED
    BY <2>1, <2>5, <2>6, <2>7, <2>8, VisitIInv
<1>2. CASE VisitContainer
  <2> DEFINE children == Reverse(tree.kids[Node])
  <2>1. /\ pending # <<>> /\ verdict = "running"
        /\ AllHold(HeaderChecks) /\ AllHold(KindChecks)
        /\ metrics' = Weighed(Len(children), tree.text[Node])
        /\ pending' = Rest \o [i \in DOMAIN children |-> <<children[i], Depth + 1>>]
        /\ UNCHANGED <<tree, limits, verdict>>
    BY <1>2 DEF VisitContainer, Running
  <2>2. /\ IsTree(tree) /\ Node \in NodesOf(tree) /\ Node \in Names(pending)
        /\ Depth = tree.level[Node] /\ Stacked(tree, Rest)
        /\ Names(Rest) \subseteq Names(pending)
    BY <1>0, <2>1, Visiting, Assumed
  <2>3. Held(tree, Node) \cap Names(Rest) = {}
    <3>1. Frontier(tree, V, Names(pending))
      BY <1>0 DEF Walked
    <3>2. Held(tree, Node) \cap (V \cup Names(pending)) = {}
      <4> DEFINE i == Node
                 P == Names(pending)
      <4>1. IsTree(tree) /\ Frontier(tree, V, P) /\ i \in P
        BY <2>2, <3>1
      <4> HIDE DEF i, P
      <4>2. Held(tree, i) \cap (V \cup P) = {}
        BY <4>1, FrontierStep, Zenon
      <4>3. QED
        BY <4>2 DEF i, P
    <3>3. QED
      BY <2>2, <3>2
  <2>4. pending' = Rest \o [i \in DOMAIN children |-> <<children[i], tree.level[Node] + 1>>]
    BY <2>1, <2>2
  <2>5. /\ Stacked(tree, pending')
        /\ Names(pending') = Names(Rest) \cup Held(tree, Node)
        /\ Len(pending') = Len(Rest) + Len(tree.kids[Node])
        /\ Len(children) = Len(tree.kids[Node])
    <3> DEFINE i == Node
               r == Rest
               s == r \o [k \in DOMAIN children |-> <<children[k], tree.level[i] + 1>>]
    <3>1. IsTree(tree) /\ i \in NodesOf(tree) /\ Stacked(tree, r) /\ Held(tree, i) \cap Names(r) = {}
      BY <2>2, <2>3
    <3>2. pending' = s
      BY <2>4
    <3> HIDE DEF i, r
    <3>3. /\ Stacked(tree, s) /\ Names(s) = Names(r) \cup Held(tree, i)
          /\ Len(s) = Len(r) + Len(tree.kids[i])
          /\ Len(Reverse(tree.kids[i])) = Len(tree.kids[i])
      BY <3>1, PushStack, Zenon DEF i
    <3> HIDE DEF s
    <3>4. QED
      BY <3>2, <3>3, Zenon DEF i, r
  <2> HIDE DEF children
  <2>6. metrics' = Weighed(Len(tree.kids[Node]), tree.text[Node])
    BY <2>1, <2>5
  <2>7. QED
    BY <2>1, <2>5, <2>6, VisitIInv
<1>3. CASE RejectNode \/ RejectPayload
  <2>1. /\ UNCHANGED <<tree, limits, pending, metrics>>
        /\ \/ ~AllHold(HeaderChecks) /\ verdict' = FirstFailure(HeaderChecks)
           \/ ~AllHold(KindChecks) /\ verdict' = FirstFailure(KindChecks)
        /\ pending # <<>>
    BY <1>3 DEF RejectNode, RejectPayload, Running
  <2>2. verdict' # "accepted"
    <3>1. verdict' \in Overruns(tree, limits)
      BY <1>3, RejectHeader, RejectKind DEF RejectNode, RejectPayload, Running
    <3>2. QED
      BY <3>1, OverrunsAre
  <2>3. QED
    BY <2>1, <2>2 DEF IInv, Walked, WithinLimits, WorklistBounded
<1>4. CASE Accept
  BY <1>4 DEF Accept, IInv, Walked, WithinLimits, WorklistBounded
<1>5. CASE UNCHANGED vars
  BY <1>5 DEF vars, IInv, Walked, WithinLimits, WorklistBounded
<1>6. QED
  BY <1>1, <1>2, <1>3, <1>4, <1>5 DEF Next

-----------------------------------------------------------------------------
(* Theorems *)

LEMMA Invariance == Spec => []IInv
BY InitIInv, NextIInv, PTL DEF Spec

\* A walk that has nothing left to visit has weighed the whole tree.
LEMMA FinishedWeight ==
  ASSUME IInv, pending = <<>>
  PROVE  /\ metrics = Measure(tree)
         /\ Overruns(tree, limits) = {}
<1>1. PICK V \in SUBSET NodesOf(tree) : Walked(V)
  BY DEF IInv
<1>2. Names(pending) = {}
  BY DEF Names
<1>3. V = NodesOf(tree)
  <2>1. Frontier(tree, V, {}) /\ IsTree(tree)
    BY <1>1, <1>2, Assumed DEF Walked
  <2>2. QED
    BY <2>1, FrontierEnd
<1>4. metrics = Measure(tree)
  BY <1>1, <1>3 DEF Walked, Measure
<1>5. /\ Measure(tree).depth <= DepthLimit(limits) /\ Measure(tree).nodes <= limits.nodes
      /\ Measure(tree).items <= limits.items /\ Measure(tree).bytes <= limits.bytes
  BY <1>4 DEF IInv, WithinLimits
<1>6. \A i \in NodesOf(tree) :
        /\ tree.kind[i] # "bad"
        /\ tree.kind[i] = "string" => tree.text[i] <= limits.string
  BY <1>1, <1>3 DEF Walked
<1>7. /\ HasFields(tree) /\ DepthLimit(limits) \in Nat
      /\ limits \in [depth : Nat, nodes : Nat, items : Nat, bytes : Nat, string : Nat]
  BY Assumed
<1>8. Measure(tree) \in Counters
  <2>1. NodesOf(tree) \in SUBSET NodesOf(tree)
    OBVIOUS
  <2>2. QED
    BY <1>7, <2>1, WeightType DEF Measure, Counters
<1>9. /\ ~(Measure(tree).depth > DepthLimit(limits))
      /\ ~(Measure(tree).nodes > limits.nodes)
      /\ ~(Measure(tree).items > limits.items)
      /\ ~(Measure(tree).bytes > limits.bytes)
  BY <1>5, <1>7, <1>8 DEF Counters
<1>10. \A i \in NodesOf(tree) :
         tree.kind[i] = "string" => ~(tree.text[i] > limits.string)
  BY <1>6, <1>7 DEF HasFields
<1>11. /\ "depth" \notin Overruns(tree, limits) /\ "nodes" \notin Overruns(tree, limits)
       /\ "items" \notin Overruns(tree, limits) /\ "bytes" \notin Overruns(tree, limits)
       /\ "string" \notin Overruns(tree, limits) /\ "leaf" \notin Overruns(tree, limits)
       /\ Overruns(tree, limits) \subseteq
            {"depth", "nodes", "items", "bytes", "string", "leaf"}
  BY <1>6, <1>9, <1>10, OverrunsAre
<1>12. QED
  BY <1>4, <1>11

\* The walk of validate_value needs memory for at most max_value_nodes nodes
\* (one, when the limit is zero), whatever graph it is given.
THEOREM WorklistTheorem == Spec => []WorklistBounded
<1>1. IInv => WorklistBounded
  BY DEF IInv
<1>2. QED
  BY <1>1, Invariance, PTL

\* The weight validate_value returns for a graph it accepts, which
\* EvalState.charge adds to the cumulative total, is the weight of the graph.
THEOREM MetricsTheorem == Spec => []MetricsExact
<1>1. IInv => MetricsExact
  BY FinishedWeight DEF IInv, MetricsExact
<1>2. QED
  BY <1>1, Invariance, PTL

\* Early rejection loses nothing: every answer of validate_value is one a look
\* at the whole graph could give.  A graph is accepted only when it overruns no
\* limit, refused only for a limit it overruns.
THEOREM AdmissionTheorem ==
  Spec => Admission!Init /\ [][Admission!Next]_(Admission!vars)
<1>1. Init => Admission!Init
  BY DEF Init, Admission!Init
<1>2. IInv /\ [Next]_vars => [Admission!Next]_(Admission!vars)
  <2> SUFFICES ASSUME IInv, [Next]_vars
               PROVE  Admission!Next \/ UNCHANGED Admission!vars
    OBVIOUS
  <2>1. CASE VisitLeaf \/ VisitContainer \/ UNCHANGED vars
    BY <2>1 DEF VisitLeaf, VisitContainer, vars, Admission!vars
  <2>2. CASE RejectNode \/ RejectPayload
    <3>1. /\ verdict = "running" /\ UNCHANGED <<tree, limits>>
          /\ verdict' \in Overruns(tree, limits)
      BY <2>2, RejectHeader, RejectKind DEF RejectNode, RejectPayload, Running
    <3>2. QED
      BY <3>1 DEF Admission!Next, Admission!Reject
  <2>3. CASE Accept
    <3>1. /\ verdict = "running" /\ pending = <<>> /\ verdict' = "accepted"
          /\ UNCHANGED <<tree, limits>>
      BY <2>3 DEF Accept
    <3>2. Overruns(tree, limits) = {}
      BY <3>1, FinishedWeight
    <3>3. QED
      BY <3>1, <3>2 DEF Admission!Next, Admission!Accept
  <2>4. QED
    BY <2>1, <2>2, <2>3 DEF Next
<1>3. QED
  BY <1>1, <1>2, Invariance, PTL DEF Spec
=============================================================================
