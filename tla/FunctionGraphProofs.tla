------------------------ MODULE FunctionGraphProofs ------------------------
(***************************************************************************)
(* For every schema and all limits: the search for recursion reports the   *)
(* functions that are recursive and no others, and the analysis goes on    *)
(* exactly when there is none and every call resolves.                     *)
(***************************************************************************)
EXTENDS FunctionGraph, SequenceTheorems, WellFoundedInduction, TLAPS

-----------------------------------------------------------------------------
(* Numbers and functions defined by recursion: induction is stated with a set, *)
(* the numbers that have the property.                                         *)

\* A set of numbers has a least one.
LEMMA LeastNatural ==
  ASSUME NEW S \in SUBSET Nat, S # {}
  PROVE  \E x \in S : \A y \in S : x <= y
<1>1. PICK x \in S : \A y \in S : ~(<<y, x>> \in OpToRel(<, Nat))
  BY NatLessThanWellFounded, WFMin
<1>2. \A y \in S : ~(y < x)
  BY <1>1 DEF OpToRel
<1>3. QED
  BY <1>2

\* A set that holds 0 and, up to n, with a number the next one holds all up to n.
LEMMA UpTo ==
  ASSUME NEW n \in Nat, NEW S, 0 \in S, \A i \in 1 .. n : i - 1 \in S => i \in S
  PROVE  \A i \in 0 .. n : i \in S
<1> SUFFICES ASSUME NEW j \in 0 .. n, j \notin S PROVE FALSE
  OBVIOUS
<1> DEFINE Missing == {i \in 0 .. n : i \notin S}
<1>1. PICK x \in Missing : \A y \in Missing : x <= y
  <2>1. Missing \in SUBSET Nat /\ j \in Missing
    OBVIOUS
  <2>2. QED
    BY <2>1, LeastNatural
<1>2. x \in 1 .. n /\ x - 1 \in S
  BY <1>1
<1>3. QED
  BY <1>1, <1>2

\* f takes the value first at 0, and each of the n next ones by the step.
Iterates(f, n, D, first, step) ==
  /\ f \in [0 .. n -> D]
  /\ f[0] = first
  /\ \A i \in 1 .. n : f[i] = step[<<i, f[i - 1]>>]

\* A value for 0 and a step from each number to the next define a function.
LEMMA RecursiveFunction ==
  ASSUME NEW n \in Nat, NEW D, NEW first \in D, NEW step \in [(1 .. n) \X D -> D]
  PROVE  \E f : Iterates(f, n, D, first, step)
<1> DEFINE Solves(f, m) ==
             f[0] = first /\ \A i \in 1 .. m : f[i] = step[<<i, f[i - 1]>>]
           Solved == {m \in 0 .. n : \E f \in [0 .. m -> D] : Solves(f, m)}
<1>1. 0 \in Solved
  <2> DEFINE g == [i \in 0 .. 0 |-> first]
  <2>1. g \in [0 .. 0 -> D] /\ g[0] = first
    OBVIOUS
  <2>2. QED
    <3> HIDE DEF g
    <3>1. QED
      BY <2>1
<1>2. ASSUME NEW m \in 1 .. n, m - 1 \in Solved PROVE m \in Solved
  <2>1. PICK f \in [0 .. m - 1 -> D] : Solves(f, m - 1)
    BY <1>2
  <2> DEFINE g == [i \in 0 .. m |-> IF i = m THEN step[<<m, f[m - 1]>>] ELSE f[i]]
  <2>2. f[m - 1] \in D
    BY <2>1
  <2>3. g \in [0 .. m -> D]
    BY <2>1, <2>2
  <2>4. g[0] = first
    BY <2>1
  <2>5. ASSUME NEW i \in 1 .. m PROVE g[i] = step[<<i, g[i - 1]>>]
    <3>1. CASE i = m
      <4>1. g[m] = step[<<m, f[m - 1]>>] /\ g[m - 1] = f[m - 1]
        OBVIOUS
      <4>2. QED
        <5> HIDE DEF g
        <5>1. QED
          BY <3>1, <4>1
    <3>2. CASE i # m
      <4>1. i \in 1 .. m - 1 /\ g[i] = f[i] /\ g[i - 1] = f[i - 1]
        BY <3>2
      <4>2. QED
        BY <2>1, <4>1
    <3>3. QED
      BY <3>1, <3>2
  <2>6. QED
    <3> HIDE DEF g
    <3>1. QED
      BY <2>3, <2>4, <2>5
<1>3. n \in Solved
  <2>1. \A i \in 0 .. n : i \in Solved
    <3> HIDE DEF Solved
    <3>1. QED
      BY <1>1, <1>2, UpTo
  <2>2. QED
    BY <2>1
<1>4. QED
  BY <1>3 DEF Iterates

-----------------------------------------------------------------------------
(* Sequences *)

\* The sequences Keep goes through.
Keeping(f, D, s, S) ==
  /\ f \in [0 .. Len(s) -> Seq(D)]
  /\ Keep(s, S) = f[Len(s)]
  /\ f[0] = <<>>
  /\ \A i \in 1 .. Len(s) :
       f[i] = IF s[i] \in S THEN Append(f[i - 1], s[i]) ELSE f[i - 1]

\* Keep is defined by recursion, and the recursion has a solution.
LEMMA KeepUnfolds ==
  ASSUME NEW D, NEW s \in Seq(D), NEW S
  PROVE  \E f : Keeping(f, D, s, S)
<1> DEFINE next(i, kept) == IF s[i] \in S THEN Append(kept, s[i]) ELSE kept
           Q == Seq(D)
           n == Len(s)
           step == [p \in (1 .. n) \X Q |-> next(p[1], p[2])]
           Solution(f) == [i \in 0 .. n |-> IF i = 0 THEN <<>> ELSE next(i, f[i - 1])]
<1>1. n \in Nat /\ <<>> \in Q
  BY EmptySeq, LenProperties
<1>2. \A i \in 1 .. n, kept \in Q : next(i, kept) \in Q
  BY ElementOfSeq, AppendProperties
<1>3. \E f : f = Solution(f)
  <2> HIDE DEF next, Q, n
  <2>1. step \in [(1 .. n) \X Q -> Q]
    BY <1>2
  <2>2. PICK f : Iterates(f, n, Q, <<>>, step)
    <3> HIDE DEF step
    <3>1. QED
      BY <1>1, <2>1, RecursiveFunction
  <2>3. \A i \in 1 .. n : f[i] = next(i, f[i - 1])
    <3>1. f \in [0 .. n -> Q]
      BY <2>2 DEF Iterates
    <3>2. \A i \in 1 .. n : f[i - 1] \in Q
      BY <1>1, <3>1
    <3>3. QED
      BY <2>2, <3>2 DEF Iterates
  <2>4. f \in [0 .. n -> Q] /\ f[0] = <<>>
    BY <2>2 DEF Iterates
  <2>5. \A i \in 0 .. n : f[i] = Solution(f)[i]
    BY <1>1, <2>3, <2>4
  <2>6. f = Solution(f)
    <3>1. f = [i \in 0 .. n |-> f[i]] /\ Solution(f) = [i \in 0 .. n |-> Solution(f)[i]]
      BY <2>4
    <3>2. QED
      <4> HIDE DEF Solution
      <4>1. QED
        BY <2>5, <3>1
  <2>7. QED
    BY <2>6
<1>4. PICK g : g = Solution(g) /\ Keep(s, S) = g[n]
  BY <1>3 DEF Keep
<1>5. DOMAIN g = 0 .. n /\ g = [i \in 0 .. n |-> g[i]]
  <2> HIDE DEF next, Q, n
  <2>1. QED
    BY <1>4
<1>6. g[0] = <<>> /\ \A i \in 1 .. n : g[i] = next(i, g[i - 1])
  <2> HIDE DEF next, Q, n
  <2>1. \A i \in 0 .. n : g[i] = IF i = 0 THEN <<>> ELSE next(i, g[i - 1])
    BY <1>4
  <2>2. 0 \in 0 .. n /\ \A i \in 1 .. n : i \in 0 .. n /\ i # 0
    BY <1>1
  <2>3. QED
    BY <2>1, <2>2
<1>7. \A i \in 0 .. n : g[i] \in Q
  <2> HIDE DEF next, Q, n
  <2> DEFINE Typed == {i \in 0 .. n : g[i] \in Q}
  <2>1. 0 \in Typed
    BY <1>1, <1>6
  <2>2. ASSUME NEW i \in 1 .. n, i - 1 \in Typed PROVE i \in Typed
    BY <1>1, <1>2, <1>6, <2>2
  <2>3. \A i \in 0 .. n : i \in Typed
    <3> HIDE DEF Typed
    <3>1. QED
      BY <1>1, <2>1, <2>2, UpTo
  <2>4. QED
    BY <2>3
<1>8. g \in [0 .. n -> Q]
  <2> HIDE DEF next, Q, n
  <2>1. QED
    BY <1>5, <1>7
<1>9. QED
  BY <1>4, <1>6, <1>8 DEF Keeping

\* Appending to a sequence adds one element.
LEMMA AppendMembers ==
  ASSUME NEW D, NEW s \in Seq(D), NEW e \in D
  PROVE  ToSet(Append(s, e)) = ToSet(s) \cup {e}
<1>1. /\ Len(s) \in Nat /\ DOMAIN s = 1 .. Len(s)
      /\ Append(s, e) \in Seq(D)
      /\ Len(Append(s, e)) = Len(s) + 1
      /\ \A i \in 1 .. Len(s) : Append(s, e)[i] = s[i]
      /\ Append(s, e)[Len(s) + 1] = e
  BY AppendProperties, LenProperties
<1>2. DOMAIN Append(s, e) = 1 .. Len(s) + 1
  BY <1>1, LenProperties
<1> DEFINE t == Append(s, e)
<1> HIDE DEF t
<1>3. {t[i] : i \in 1 .. Len(s) + 1} = {t[i] : i \in 1 .. Len(s)} \cup {t[Len(s) + 1]}
  BY <1>1
<1>4. QED
  BY <1>1, <1>2, <1>3 DEF ToSet, t

\* Keep keeps what is in the set and nothing else.
LEMMA KeepMembers ==
  ASSUME NEW D, NEW s \in Seq(D), NEW S
  PROVE  Keep(s, S) \in Seq(D) /\ ToSet(Keep(s, S)) = ToSet(s) \cap S
<1>1. PICK f : Keeping(f, D, s, S)
  BY KeepUnfolds
<1> DEFINE Exact == {i \in 0 .. Len(s) : ToSet(f[i]) = {s[j] : j \in 1 .. i} \cap S}
<1>2. Len(s) \in Nat /\ DOMAIN s = 1 .. Len(s)
  BY LenProperties
<1>3. 0 \in Exact
  <2>1. ToSet(<<>>) = {}
    BY DEF ToSet
  <2>2. QED
    BY <1>1, <1>2, <2>1 DEF Keeping
<1>4. ASSUME NEW i \in 1 .. Len(s), i - 1 \in Exact PROVE i \in Exact
  <2>1. f[i - 1] \in Seq(D) /\ s[i] \in D
    BY <1>1, <1>2, ElementOfSeq DEF Keeping
  <2>2. {s[j] : j \in 1 .. i} = {s[j] : j \in 1 .. i - 1} \cup {s[i]}
    OBVIOUS
  <2>3. ToSet(Append(f[i - 1], s[i])) = ToSet(f[i - 1]) \cup {s[i]}
    BY <2>1, AppendMembers
  <2>4. f[i] = IF s[i] \in S THEN Append(f[i - 1], s[i]) ELSE f[i - 1]
    BY <1>1 DEF Keeping
  <2>5. ToSet(f[i - 1]) = {s[j] : j \in 1 .. i - 1} \cap S
    BY <1>4
  <2>6. ToSet(f[i]) = {s[j] : j \in 1 .. i} \cap S
    <3>1. CASE s[i] \in S
      BY <2>2, <2>3, <2>4, <2>5, <3>1
    <3>2. CASE s[i] \notin S
      BY <2>2, <2>4, <2>5, <3>2
    <3>3. QED
      BY <3>1, <3>2
  <2>7. QED
    BY <1>2, <2>6
<1>5. Len(s) \in Exact
  <2>1. \A i \in 0 .. Len(s) : i \in Exact
    <3> HIDE DEF Exact
    <3>1. QED
      BY <1>2, <1>3, <1>4, UpTo
  <2>2. Len(s) \in 0 .. Len(s)
    BY <1>2
  <2>3. QED
    <3> HIDE DEF Exact
    <3>1. QED
      BY <2>1, <2>2
<1>6. ToSet(f[Len(s)]) = ToSet(s) \cap S
  BY <1>2, <1>5 DEF ToSet
<1>7. QED
  BY <1>1, <1>2, <1>6 DEF Keeping

\* A sequence has no elements exactly when it is empty.
LEMMA EmptyMembers ==
  ASSUME NEW D, NEW s \in Seq(D)
  PROVE  ToSet(s) = {} <=> s = <<>>
<1>1. Len(s) \in Nat /\ DOMAIN s = 1 .. Len(s)
  BY LenProperties
<1>2. ASSUME s # <<>> PROVE ToSet(s) # {}
  <2>1. Len(s) # 0
    BY <1>2, EmptySeq
  <2>2. s[1] \in ToSet(s)
    BY <1>1, <2>1 DEF ToSet
  <2>3. QED
    BY <2>2
<1>3. ToSet(<<>>) = {}
  BY DEF ToSet
<1>4. QED
  BY <1>2, <1>3

\* Turning a sequence around changes none of its elements.
LEMMA ReverseMembers ==
  ASSUME NEW D, NEW s \in Seq(D)
  PROVE  Reverse(s) \in Seq(D) /\ ToSet(Reverse(s)) = ToSet(s)
<1>1. /\ Len(s) \in Nat /\ DOMAIN s = 1 .. Len(s)
      /\ \A i \in 1 .. Len(s) : s[i] \in D
  BY LenProperties, ElementOfSeq
<1> DEFINE n == Len(s)
           r == Reverse(s)
<1>2. r = [i \in 1 .. n |-> s[n - i + 1]]
  BY DEF Reverse
<1>3. r \in Seq(D)
  <2>1. \A i \in 1 .. n : s[n - i + 1] \in D
    BY <1>1
  <2>2. QED
    <3> HIDE DEF r, n
    <3>1. QED
      BY <1>1, <1>2, <2>1, IsASeq DEF n
<1>4. \A i \in 1 .. n : n - i + 1 \in 1 .. n /\ r[i] = s[n - i + 1]
                        /\ r[n - i + 1] = s[i]
  <2> HIDE DEF r
  <2>1. QED
    BY <1>1, <1>2
<1>5. DOMAIN r = 1 .. n
  <2> HIDE DEF r
  <2>1. QED
    BY <1>2
<1>6. QED
  <2> HIDE DEF r, n
  <2>1. {r[i] : i \in 1 .. n} = {s[i] : i \in 1 .. n}
    BY <1>4
  <2>2. QED
    BY <1>1, <1>3, <1>5, <2>1 DEF ToSet, n, r

-----------------------------------------------------------------------------
(* Graphs *)

\* What a function calls is reached, and so is what is called from there.
LEMMA ReachesCalls ==
  ASSUME NEW K, NEW graph \in [K -> SUBSET K], NEW k \in K
  PROVE  /\ \A l \in graph[k] : Reaches(graph, k, l)
         /\ \A l \in K : Reaches(graph, k, l)
              => \A m \in graph[l] : Reaches(graph, k, m)
BY DEF Reaches, Closed

\* With a recursive function the graph has a cycle: the functions that reach
\* it all call one another.
LEMMA RecursionIsCyclic ==
  ASSUME NEW K, NEW graph \in [K -> SUBSET K], NEW k \in K, Recursive(graph, k)
  PROVE  ~Acyclic(graph, K)
<1> DEFINE T == {j \in K : Reaches(graph, j, k)}
           Away == {S \in SUBSET K : Closed(graph, S) /\ k \notin S}
           U == UNION Away
<1>1. k \in T /\ T \in SUBSET K
  BY DEF Recursive
<1>2. U \in SUBSET K /\ Closed(graph, U) /\ k \notin U
  BY DEF Closed
<1>3. ASSUME NEW j \in T PROVE graph[j] \cap T # {}
  <2>1. SUFFICES ASSUME graph[j] \cap T = {} PROVE FALSE
    OBVIOUS
  <2>2. ASSUME NEW m \in graph[j] PROVE m \in U
    <3>1. m \in K /\ m \notin T /\ m # k
      BY <1>1, <2>1
    <3>2. PICK S \in SUBSET K : graph[m] \subseteq S /\ Closed(graph, S) /\ k \notin S
      BY <3>1 DEF Reaches
    <3>3. S \cup {m} \in Away
      BY <3>1, <3>2 DEF Closed
    <3>4. QED
      BY <3>3
  <2>3. Reaches(graph, j, k) /\ graph[j] \subseteq U
    BY <2>2
  <2>4. QED
    BY <1>2, <2>3 DEF Reaches
<1>4. QED
  <2> HIDE DEF T
  <2>1. T \in (SUBSET K) \ {{}}
    BY <1>1
  <2>2. QED
    BY <1>3, <2>1 DEF Acyclic

\* Fewer functions have no more cycles.
LEMMA AcyclicSubset ==
  ASSUME NEW graph, NEW S, NEW T, T \subseteq S, Acyclic(graph, S)
  PROVE  Acyclic(graph, T)
BY DEF Acyclic

\* A function that none of the others calls, nor calls itself, adds no cycle.
LEMMA AcyclicExtends ==
  ASSUME NEW graph, NEW S, NEW k, Acyclic(graph, S),
         \A l \in S \cup {k} : k \notin graph[l]
  PROVE  Acyclic(graph, S \cup {k})
<1> SUFFICES ASSUME NEW T \in (SUBSET (S \cup {k})) \ {{}}
             PROVE  \E l \in T : graph[l] \cap T = {}
  BY DEF Acyclic
<1>1. CASE T \ {k} = {}
  <2>1. T = {k}
    BY <1>1
  <2>2. QED
    BY <2>1
<1>2. CASE T \ {k} # {}
  <2>1. PICK l \in T \ {k} : graph[l] \cap (T \ {k}) = {}
    BY <1>2 DEF Acyclic
  <2>2. k \notin graph[l]
    OBVIOUS
  <2>3. QED
    BY <2>1, <2>2
<1>3. QED
  BY <1>1, <1>2

-----------------------------------------------------------------------------
(* Operators of the model *)

\* The first of some keys is one of them.
LEMMA FirstMember ==
  ASSUME NEW S \in SUBSET FunctionKeys, S # {}
  PROVE  First(S) \in S
<1> DEFINE Names(scope) == {n \in Nat : <<scope, n>> \in S}
<1>1. ASSUME NEW scope \in {"Global", "Local"}, Names(scope) # {}
      PROVE  \E n \in Names(scope) : \A m \in Names(scope) : n <= m
  <2>1. Names(scope) \in SUBSET Nat
    OBVIOUS
  <2> HIDE DEF Names
  <2>2. QED
    BY <1>1, <2>1, LeastNatural
<1>2. \E k \in S : \A l \in S \ {k} : Before(k, l)
  <2>1. CASE Names("Global") # {}
    <3>1. PICK n \in Names("Global") : \A m \in Names("Global") : n <= m
      BY <1>1, <2>1
    <3>2. <<"Global", n>> \in S
      OBVIOUS
    <3>3. ASSUME NEW l \in S \ {<<"Global", n>>} PROVE Before(<<"Global", n>>, l)
      <4>1. PICK scope \in {"Global", "Local"}, m \in Nat : l = <<scope, m>>
        BY DEF FunctionKeys
      <4>2. CASE scope = "Global"
        <5>1. n <= m /\ n # m
          BY <3>1, <4>1, <4>2
        <5>2. QED
          BY <4>1, <4>2, <5>1 DEF Before, Rank
      <4>3. CASE scope = "Local"
        BY <4>1, <4>3 DEF Before, Rank
      <4>4. QED
        BY <4>2, <4>3
    <3>4. QED
      BY <3>2, <3>3
  <2>2. CASE Names("Global") = {}
    <3>1. \A l \in S : \E m \in Nat : l = <<"Local", m>>
      BY <2>2 DEF FunctionKeys
    <3>2. Names("Local") # {}
      BY <3>1
    <3>3. PICK n \in Names("Local") : \A m \in Names("Local") : n <= m
      BY <1>1, <3>2
    <3>4. <<"Local", n>> \in S
      OBVIOUS
    <3>5. ASSUME NEW l \in S \ {<<"Local", n>>} PROVE Before(<<"Local", n>>, l)
      <4>1. PICK m \in Nat : l = <<"Local", m>>
        BY <3>1
      <4>2. n <= m /\ n # m
        BY <3>3, <4>1
      <4>3. QED
        BY <4>1, <4>2 DEF Before, Rank
    <3>6. QED
      BY <3>4, <3>5
  <2>3. QED
    BY <2>1, <2>2
<1>3. QED
  <2>1. First(S) = CHOOSE k \in S : \A l \in S \ {k} : Before(k, l)
    BY DEF First
  <2>2. QED
    BY <1>2, <2>1

\* Whatever the limits, the first message is not lost.
LEMMA PushKeeps ==
  ASSUME NEW kept \in Seq(Kinds), NEW kind \in Kinds
  PROVE  PushMessage(kept, kind) \in Seq(Kinds) /\ PushMessage(kept, kind) # <<>>
<1>1. Append(kept, kind) \in Seq(Kinds) /\ Append(kept, kind) # <<>>
  BY AppendProperties
<1>2. <<"budget">> \in Seq(Kinds) /\ <<"budget">> # <<>>
  <2>1. "budget" \in Kinds
    BY DEF Kinds
  <2>2. QED
    BY <2>1
<1>3. QED
  BY <1>1, <1>2 DEF PushMessage

\* The lists of messages PushAll goes through.
Pushing(f, kinds) ==
  /\ f \in [0 .. Len(kinds) -> Seq(Kinds)]
  /\ PushAll(kinds) = f[Len(kinds)]
  /\ f[0] = diagnostics
  /\ \A i \in 1 .. Len(kinds) : f[i] = PushMessage(f[i - 1], kinds[i])

\* PushAll is defined by recursion, and the recursion has a solution.
LEMMA PushAllUnfolds ==
  ASSUME NEW kinds \in Seq(Kinds), diagnostics \in Seq(Kinds)
  PROVE  \E f : Pushing(f, kinds)
<1> DEFINE Q == Seq(Kinds)
           n == Len(kinds)
           step == [p \in (1 .. n) \X Q |-> PushMessage(p[2], kinds[p[1]])]
           Solution(f) == [i \in 0 .. n |-> IF i = 0 THEN diagnostics
                                            ELSE PushMessage(f[i - 1], kinds[i])]
<1>1. n \in Nat /\ diagnostics \in Q
  BY LenProperties
<1>2. \A i \in 1 .. n, kept \in Q : PushMessage(kept, kinds[i]) \in Q
  BY ElementOfSeq, PushKeeps
<1>3. \E f : f = Solution(f)
  <2> HIDE DEF Q, n
  <2>1. step \in [(1 .. n) \X Q -> Q]
    BY <1>2
  <2>2. PICK f : Iterates(f, n, Q, diagnostics, step)
    <3> HIDE DEF step
    <3>1. QED
      BY <1>1, <2>1, RecursiveFunction
  <2>3. \A i \in 1 .. n : f[i] = PushMessage(f[i - 1], kinds[i])
    <3>1. f \in [0 .. n -> Q]
      BY <2>2 DEF Iterates
    <3>2. \A i \in 1 .. n : f[i - 1] \in Q
      BY <1>1, <3>1
    <3>3. QED
      BY <2>2, <3>2 DEF Iterates
  <2>4. f \in [0 .. n -> Q] /\ f[0] = diagnostics
    BY <2>2 DEF Iterates
  <2>5. \A i \in 0 .. n : f[i] = Solution(f)[i]
    BY <1>1, <2>3, <2>4
  <2>6. f = Solution(f)
    <3>1. f = [i \in 0 .. n |-> f[i]] /\ Solution(f) = [i \in 0 .. n |-> Solution(f)[i]]
      BY <2>4
    <3>2. QED
      <4> HIDE DEF Solution
      <4>1. QED
        BY <2>5, <3>1
  <2>7. QED
    BY <2>6
<1>4. PICK g : g = Solution(g) /\ PushAll(kinds) = g[n]
  BY <1>3 DEF PushAll
<1>5. DOMAIN g = 0 .. n /\ g = [i \in 0 .. n |-> g[i]]
  <2> HIDE DEF Q, n
  <2>1. QED
    BY <1>4
<1>6. g[0] = diagnostics /\ \A i \in 1 .. n : g[i] = PushMessage(g[i - 1], kinds[i])
  <2> HIDE DEF Q, n
  <2>1. \A i \in 0 .. n :
          g[i] = IF i = 0 THEN diagnostics ELSE PushMessage(g[i - 1], kinds[i])
    BY <1>4
  <2>2. 0 \in 0 .. n /\ \A i \in 1 .. n : i \in 0 .. n /\ i # 0
    BY <1>1
  <2>3. QED
    BY <2>1, <2>2
<1>7. \A i \in 0 .. n : g[i] \in Q
  <2> HIDE DEF Q, n
  <2> DEFINE Typed == {i \in 0 .. n : g[i] \in Q}
  <2>1. 0 \in Typed
    BY <1>1, <1>6
  <2>2. ASSUME NEW i \in 1 .. n, i - 1 \in Typed PROVE i \in Typed
    BY <1>1, <1>2, <1>6, <2>2
  <2>3. \A i \in 0 .. n : i \in Typed
    <3> HIDE DEF Typed
    <3>1. QED
      BY <1>1, <2>1, <2>2, UpTo
  <2>4. QED
    BY <2>3
<1>8. g \in [0 .. n -> Q]
  <2> HIDE DEF Q, n
  <2>1. QED
    BY <1>5, <1>7
<1>9. QED
  BY <1>4, <1>6, <1>8 DEF Pushing

\* After some messages there is one, and after none there are those before.
LEMMA PushAllKeeps ==
  ASSUME NEW kinds \in Seq(Kinds), diagnostics \in Seq(Kinds)
  PROVE  /\ PushAll(kinds) \in Seq(Kinds)
         /\ PushAll(kinds) = <<>> <=> diagnostics = <<>> /\ kinds = <<>>
<1>1. PICK f : Pushing(f, kinds)
  BY PushAllUnfolds
<1>2. /\ Len(kinds) \in Nat
      /\ kinds = <<>> <=> Len(kinds) = 0
      /\ \A i \in 1 .. Len(kinds) : kinds[i] \in Kinds
  BY LenProperties, ElementOfSeq, EmptySeq
<1>3. CASE Len(kinds) = 0
  BY <1>1, <1>2, <1>3 DEF Pushing
<1>4. CASE Len(kinds) # 0
  <2> DEFINE n == Len(kinds)
  <2>1. n \in 1 .. n /\ n - 1 \in 0 .. n
    BY <1>2, <1>4
  <2>2. PushAll(kinds) = PushMessage(f[n - 1], kinds[n]) /\ f[n - 1] \in Seq(Kinds)
    BY <1>1, <2>1 DEF Pushing
  <2>3. QED
    BY <1>2, <1>4, <2>1, <2>2, PushKeeps
<1>5. QED
  BY <1>3, <1>4

\* The elements of a sequence tell what it is a sequence of.
LEMMA SequenceOfMembers ==
  ASSUME NEW D, NEW E, NEW s \in Seq(D), ToSet(s) \subseteq E
  PROVE  s \in Seq(E)
<1>1. Len(s) \in Nat /\ DOMAIN s = 1 .. Len(s) /\ s \in [1 .. Len(s) -> D]
  BY LenProperties
<1>2. \A i \in 1 .. Len(s) : s[i] \in E
  BY <1>1 DEF ToSet
<1>3. s = [i \in 1 .. Len(s) |-> s[i]]
  BY <1>1
<1>4. QED
  BY <1>1, <1>2, <1>3, IsASeq

\* What the assumption on the schemas says of the one analyzed.
LEMMA SchemaTypes ==
  ASSUME schema \in Schemas
  PROVE  /\ Keys \in SUBSET FunctionKeys
         /\ \A k \in Keys : schema[k].calls \in Seq([name : Nat, arity : Nat])
         /\ CallGraph \in [Keys -> SUBSET Keys]
<1>1. Keys \in SUBSET FunctionKeys /\ schema \in [Keys -> FunctionType]
  BY SchemaAssumption DEF Keys
<1>2. \A k \in Keys : schema[k].calls \in Seq([name : Nat, arity : Nat])
  BY <1>1 DEF FunctionType
<1>3. CallGraph \in [Keys -> SUBSET Keys]
  BY DEF CallGraph
<1>4. QED
  BY <1>1, <1>2, <1>3

\* The edges of a function are the functions it calls.
LEMMA EdgesAreCalls ==
  ASSUME schema \in Schemas, NEW key \in Keys
  PROVE  EdgesOf(key) \in Seq(Keys) /\ ToSet(EdgesOf(key)) = CallGraph[key]
<1> DEFINE calls == schema[key].calls
           callees == [i \in DOMAIN calls |-> Callee(calls[i].name, key[1])]
<1>1. /\ calls \in Seq([name : Nat, arity : Nat])
      /\ Len(calls) \in Nat /\ DOMAIN calls = 1 .. Len(calls)
      /\ \A i \in 1 .. Len(calls) : calls[i] \in [name : Nat, arity : Nat]
  BY SchemaTypes, LenProperties, ElementOfSeq
<1>2. \A i \in 1 .. Len(calls) : Callee(calls[i].name, key[1]) \in FunctionKeys
  BY <1>1 DEF Callee, FunctionKeys
<1>3. callees \in Seq(FunctionKeys)
  <2> HIDE DEF calls
  <2>1. QED
    BY <1>1, <1>2, IsASeq
<1>4. ToSet(callees) = {Callee(c.name, key[1]) : c \in ToSet(calls)}
  <2> HIDE DEF calls
  <2>1. QED
    BY DEF ToSet
<1>5. EdgesOf(key) = Keep(callees, Keys)
  BY DEF EdgesOf
<1>6. EdgesOf(key) \in Seq(FunctionKeys) /\ ToSet(EdgesOf(key)) = ToSet(callees) \cap Keys
  <2> HIDE DEF callees
  <2>1. QED
    BY <1>3, <1>5, KeepMembers
<1>7. CallGraph[key] = {Callee(c.name, key[1]) : c \in ToSet(calls)} \cap Keys
  BY DEF CallGraph
<1>8. ToSet(EdgesOf(key)) \subseteq Keys
  BY <1>6
<1>9. EdgesOf(key) \in Seq(Keys)
  BY <1>6, <1>8, SequenceOfMembers
<1>10. QED
  <2> HIDE DEF callees, calls
  <2>1. QED
    BY <1>4, <1>6, <1>7, <1>9

\* Every call of the function resolves, with the arity of what it calls.
CallsResolve(key) ==
  \A c \in ToSet(schema[key].calls) : CallFault(c, key[1]) = "none"

\* The faults of a function are none exactly when all its calls resolve.
LEMMA FaultsAreFaults ==
  ASSUME schema \in Schemas, NEW key \in Keys
  PROVE  /\ FaultsOf(key) \in Seq(Kinds)
         /\ FaultsOf(key) = <<>> <=> CallsResolve(key)
<1> DEFINE calls == schema[key].calls
           D == Kinds \cup {"none"}
           faults == [i \in DOMAIN calls |-> CallFault(calls[i], key[1])]
<1>1. /\ calls \in Seq([name : Nat, arity : Nat])
      /\ Len(calls) \in Nat /\ DOMAIN calls = 1 .. Len(calls)
  BY SchemaTypes, LenProperties
<1>2. \A c, scope : CallFault(c, scope) \in D
  BY DEF CallFault, HostFault, Kinds
<1>3. "none" \notin Kinds
  BY DEF Kinds
<1>4. faults \in Seq(D)
  <2> HIDE DEF calls, D
  <2>1. QED
    BY <1>1, <1>2, IsASeq
<1>5. FaultsOf(key) = Keep(faults, Kinds)
  BY DEF FaultsOf
<1>6. FaultsOf(key) \in Seq(D) /\ ToSet(FaultsOf(key)) = ToSet(faults) \cap Kinds
  <2> HIDE DEF faults, D
  <2>1. QED
    BY <1>4, <1>5, KeepMembers
<1>7. FaultsOf(key) \in Seq(Kinds)
  <2> HIDE DEF faults, D
  <2>1. ToSet(FaultsOf(key)) \subseteq Kinds
    BY <1>6
  <2>2. QED
    BY <1>6, <2>1, SequenceOfMembers
<1>8. FaultsOf(key) = <<>> <=> ToSet(faults) \cap Kinds = {}
  <2> HIDE DEF faults
  <2>1. QED
    BY <1>6, <1>7, EmptyMembers
<1>9. ToSet(faults) = {CallFault(c, key[1]) : c \in ToSet(calls)}
  <2> HIDE DEF calls
  <2>1. QED
    BY DEF ToSet
<1>10. ToSet(faults) \cap Kinds = {} <=> CallsResolve(key)
  <2> HIDE DEF faults
  <2>1. ToSet(faults) \subseteq Kinds \cup {"none"}
    BY <1>2, <1>9
  <2>2. QED
    BY <1>3, <1>9, <2>1 DEF CallsResolve
<1>11. QED
  BY <1>7, <1>8, <1>10

-----------------------------------------------------------------------------
(* The inductive invariant *)

SearchTypes ==
  /\ schema \in Schemas
  /\ DOMAIN edges \subseteq Keys
  /\ stack \in Seq(Keys \X BOOLEAN)
  /\ stack # <<>> => Searching
  /\ active \subseteq Keys /\ permanent \subseteq Keys /\ reported \subseteq Keys
  /\ diagnostics \in Seq(Kinds)

\* The edges found so far are the calls of the schema.
EdgesRight ==
  \A k \in DOMAIN edges : edges[k] \in Seq(Keys) /\ ToSet(edges[k]) = CallGraph[k]

\* An active function is one that was entered and not left.
ExitsAreActive ==
  /\ active = {stack[i][1] : i \in Exits}
  /\ \A i, j \in Exits : stack[i][1] = stack[j][1] => i = j
  /\ active \cap permanent = {}

\* Between one exit entry and the next, inclusive, are functions the first calls.
ChainOfCalls ==
  \A i \in Exits, j \in DOMAIN stack :
    i < j /\ (\A l \in Exits : l <= i \/ j <= l)
      => stack[j][1] \in CallGraph[stack[i][1]]

\* ... so that calls lead from an active function to all that is above it.
ReachedFromActive ==
  \A i \in Exits, j \in DOMAIN stack :
    i < j => Reaches(CallGraph, stack[i][1], stack[j][1])

\* Entries of a function that are still to come off the stack when it is active
\* come off when it no longer is.
EntriesBelow ==
  \A i \in Exits, j \in DOMAIN stack :
    ~stack[j][2] /\ stack[i][1] = stack[j][1] => j < i

\* The calls of an active function are searched, reported or still to come.
CallsPending ==
  \A i \in Exits :
    CallGraph[stack[i][1]]
      \subseteq permanent \cup reported \cup {stack[j][1] : j \in i + 1 .. Len(stack)}

\* Those of a function that was left are searched or reported.
CallsSearched ==
  \A k \in permanent : CallGraph[k] \subseteq permanent \cup reported

\* Something is said when a call does not resolve or recursion was found.
MessagesRight ==
  diagnostics = <<>>
    <=> reported = {} /\ \A k \in DOMAIN edges : CallsResolve(k)

SearchInv ==
  /\ SearchTypes /\ EdgesRight
  /\ ExitsAreActive /\ ChainOfCalls /\ ReachedFromActive /\ EntriesBelow
  /\ CallsPending /\ CallsSearched
  /\ ReportsExact /\ MessagesRight

\* An empty stack has no exit entries.
LEMMA EmptyStack ==
  stack = <<>> => Len(stack) = 0 /\ DOMAIN stack = {} /\ Exits = {}
BY EmptySeq DEF Exits

\* Before the search there is nothing on the stack and nothing to report.
LEMMA InitSearch == Init => SearchInv
<1> SUFFICES ASSUME Init PROVE SearchInv
  OBVIOUS
<1>1. /\ schema \in Schemas /\ edges = <<>> /\ stack = <<>> /\ active = {}
      /\ permanent = {} /\ diagnostics = <<>> /\ reported = {}
  BY DEF Init
<1>2. DOMAIN edges = {} /\ DOMAIN stack = {} /\ Exits = {}
  BY <1>1, EmptyStack
<1>3. SearchTypes
  BY <1>1, <1>2, EmptySeq DEF SearchTypes
<1>4. Acyclic(CallGraph, {})
  BY DEF Acyclic
<1>5. permanent \ reported = {}
  BY <1>1
<1>6. EdgesRight /\ ExitsAreActive /\ ChainOfCalls /\ ReachedFromActive
      /\ EntriesBelow /\ CallsPending /\ CallsSearched
  BY <1>1, <1>2 DEF EdgesRight, ExitsAreActive, ChainOfCalls, ReachedFromActive,
       EntriesBelow, CallsPending, CallsSearched
<1>7. ReportsExact /\ MessagesRight
  BY <1>1, <1>2, <1>4, <1>5 DEF ReportsExact, MessagesRight
<1>8. QED
  BY <1>3, <1>6, <1>7 DEF SearchInv

\* What the operators read of the schema stays the same.
LEMMA SameGraph ==
  ASSUME schema' = schema
  PROVE  /\ Keys' = Keys /\ CallGraph' = CallGraph
         /\ \A k : CallsResolve(k)' = CallsResolve(k)
<1>1. Keys' = Keys
  BY DEF Keys
<1>2. CallGraph' = CallGraph
  BY <1>1 DEF CallGraph, Callee
<1>3. \A k : CallsResolve(k)' = CallsResolve(k)
  BY <1>1 DEF CallsResolve, CallFault, Resolved, Callee, HostFault
<1>4. QED
  BY <1>1, <1>2, <1>3

\* Resolving the calls of one more function.
LEMMA ResolveStep == SearchInv /\ Resolve => SearchInv'
<1> SUFFICES ASSUME SearchInv, Resolve PROVE SearchInv'
  OBVIOUS
<1> DEFINE key == First(Keys \ DOMAIN edges)
<1>1. /\ DOMAIN edges # Keys
      /\ edges' = [k \in DOMAIN edges \cup {key} |->
                     IF k = key THEN EdgesOf(key) ELSE edges[k]]
      /\ diagnostics' = PushAll(FaultsOf(key))
      /\ schema' = schema /\ stack' = stack /\ active' = active
      /\ permanent' = permanent /\ reported' = reported
  BY DEF Resolve
<1>2. SearchTypes
  BY DEF SearchInv
<1>3. Keys \in SUBSET FunctionKeys
  BY <1>2, SchemaTypes DEF SearchTypes
<1>4. key \in Keys \ DOMAIN edges
  <2>1. Keys \ DOMAIN edges \in SUBSET FunctionKeys /\ Keys \ DOMAIN edges # {}
    BY <1>1, <1>2, <1>3 DEF SearchTypes
  <2>2. QED
    BY <2>1, FirstMember
<1>5. stack = <<>>
  BY <1>1, <1>2 DEF SearchTypes, Searching
<1>6. Keys' = Keys /\ CallGraph' = CallGraph /\ \A k : CallsResolve(k)' = CallsResolve(k)
  BY <1>1, SameGraph
<1>7. EdgesOf(key) \in Seq(Keys) /\ ToSet(EdgesOf(key)) = CallGraph[key]
  BY <1>2, <1>4, EdgesAreCalls DEF SearchTypes
<1>8. /\ FaultsOf(key) \in Seq(Kinds)
      /\ FaultsOf(key) = <<>> <=> CallsResolve(key)
  BY <1>2, <1>4, FaultsAreFaults DEF SearchTypes
<1>9. /\ diagnostics' \in Seq(Kinds)
      /\ diagnostics' = <<>> <=> diagnostics = <<>> /\ CallsResolve(key)
  BY <1>1, <1>2, <1>8, PushAllKeeps DEF SearchTypes
<1> HIDE DEF key
<1>10. SearchTypes'
  BY <1>1, <1>2, <1>4, <1>5, <1>6, <1>9 DEF SearchTypes
<1>11. EdgesRight'
  BY <1>1, <1>4, <1>6, <1>7 DEF SearchInv, EdgesRight
<1>12. /\ ExitsAreActive' /\ ChainOfCalls' /\ ReachedFromActive'
       /\ EntriesBelow' /\ CallsPending' /\ CallsSearched' /\ ReportsExact'
  <2>1. Exits' = Exits
    BY <1>1 DEF Exits
  <2>2. QED
    BY <1>1, <1>6, <2>1 DEF SearchInv, ExitsAreActive, ChainOfCalls,
         ReachedFromActive, EntriesBelow, CallsPending, CallsSearched, ReportsExact
<1>13. MessagesRight'
  <2>1. DOMAIN edges' = DOMAIN edges \cup {key}
    BY <1>1
  <2>2. QED
    BY <1>1, <1>6, <1>9, <2>1 DEF SearchInv, MessagesRight
<1>14. QED
  BY <1>10, <1>11, <1>12, <1>13 DEF SearchInv

\* A step of the search keeps what does not depend on the stack.
LEMMA SearchKeepsGraph ==
  ASSUME SearchInv, UNCHANGED <<schema, edges>>
  PROVE  Keys' = Keys /\ CallGraph' = CallGraph /\ EdgesRight'
<1>1. Keys' = Keys /\ CallGraph' = CallGraph
  BY SameGraph
<1>2. QED
  BY <1>1 DEF SearchInv, EdgesRight

\* Starting at the first function that was not searched.
LEMMA StartStep == SearchInv /\ Start => SearchInv'
<1> SUFFICES ASSUME SearchInv, Start PROVE SearchInv'
  OBVIOUS
<1> DEFINE key == First(Keys \ permanent)
<1>1. /\ Searching /\ stack = <<>> /\ Keys # permanent
      /\ stack' = <<<<key, FALSE>>>> /\ active' = {}
      /\ UNCHANGED <<schema, edges, permanent, diagnostics, reported>>
  BY DEF Start
<1>2. SearchTypes
  BY DEF SearchInv
<1>3. key \in Keys
  <2>1. Keys \ permanent \in SUBSET FunctionKeys /\ Keys \ permanent # {}
    BY <1>1, <1>2, SchemaTypes DEF SearchTypes
  <2>2. QED
    BY <2>1, FirstMember
<1>4. Keys' = Keys /\ CallGraph' = CallGraph /\ EdgesRight'
  BY <1>1, SearchKeepsGraph
<1> HIDE DEF key
<1>5. SearchTypes'
  <2>1. stack' \in Seq(Keys \X BOOLEAN)
    <3> DEFINE entry == <<key, FALSE>>
               Entry == Keys \X BOOLEAN
    <3>1. entry \in Entry
      BY <1>3
    <3>2. stack' = <<entry>>
      BY <1>1
    <3>3. QED
      <4> HIDE DEF entry, Entry
      <4>1. <<entry>> \in Seq(Entry)
        BY <3>1
      <4>2. QED
        BY <3>2, <4>1 DEF Entry
  <2>2. Searching'
    BY <1>1, <1>4 DEF Searching
  <2>3. QED
    BY <1>1, <1>2, <1>4, <2>1, <2>2 DEF SearchTypes
<1>6. Exits' = {}
  <2>1. DOMAIN stack' = {1} /\ ~stack'[1][2]
    BY <1>1
  <2>2. QED
    BY <2>1 DEF Exits
<1>7. ExitsAreActive' /\ ChainOfCalls' /\ ReachedFromActive' /\ EntriesBelow'
      /\ CallsPending'
  BY <1>1, <1>6 DEF ExitsAreActive, ChainOfCalls, ReachedFromActive,
       EntriesBelow, CallsPending
<1>8. CallsSearched' /\ ReportsExact' /\ MessagesRight'
  <2>1. \A k : CallsResolve(k)' = CallsResolve(k)
    BY <1>1, SameGraph
  <2>2. QED
    BY <1>1, <1>4, <2>1 DEF SearchInv, CallsSearched, ReportsExact, MessagesRight
<1>9. QED
  BY <1>4, <1>5, <1>7, <1>8 DEF SearchInv

\* Taking the top entry off leaves the others where they are.
LEMMA Popped ==
  ASSUME SearchTypes, stack # <<>>, stack' = Front(stack)
  PROVE  /\ Len(stack) \in Nat \ {0} /\ DOMAIN stack = 1 .. Len(stack)
         /\ Top = stack[Len(stack)] /\ Key \in Keys
         /\ stack' \in Seq(Keys \X BOOLEAN)
         /\ Len(stack') = Len(stack) - 1 /\ DOMAIN stack' = 1 .. Len(stack) - 1
         /\ \A i \in 1 .. Len(stack) - 1 : stack'[i] = stack[i]
         /\ Exits' = Exits \ {Len(stack)}
<1>1. /\ stack \in Seq(Keys \X BOOLEAN)
      /\ Len(stack) \in Nat \ {0} /\ DOMAIN stack = 1 .. Len(stack)
      /\ Top = stack[Len(stack)]
  BY LenProperties, EmptySeq DEF SearchTypes, Top, Last
<1>2. Key \in Keys
  BY <1>1, ElementOfSeq DEF Key
<1>3. /\ stack' = SubSeq(stack, 1, Len(stack) - 1)
      /\ stack' \in Seq(Keys \X BOOLEAN)
      /\ Len(stack') = Len(stack) - 1 /\ DOMAIN stack' = 1 .. Len(stack) - 1
      /\ \A i \in 1 .. Len(stack) - 1 : stack'[i] = stack[i]
  <2>1. stack' = SubSeq(stack, 1, Len(stack) - 1)
    BY DEF Front
  <2>2. QED
    BY <1>1, <2>1, SubSeqProperties, LenProperties
<1>4. Exits' = Exits \ {Len(stack)}
  BY <1>1, <1>3 DEF Exits
<1>5. QED
  BY <1>1, <1>2, <1>3, <1>4

\* Leaving a function.
LEMMA ExitStep == SearchInv /\ Exit => SearchInv'
<1> SUFFICES ASSUME SearchInv, Exit PROVE SearchInv'
  OBVIOUS
<1> DEFINE n == Len(stack)
<1>1. /\ stack # <<>> /\ Top[2] /\ stack' = Front(stack)
      /\ active' = active \ {Key} /\ permanent' = permanent \cup {Key}
      /\ UNCHANGED <<schema, edges, diagnostics, reported>>
  BY DEF Exit, Left
<1>2. SearchTypes
  BY DEF SearchInv
<1>3. /\ n \in Nat \ {0} /\ DOMAIN stack = 1 .. n
      /\ Top = stack[n] /\ Key \in Keys
      /\ stack' \in Seq(Keys \X BOOLEAN)
      /\ Len(stack') = n - 1 /\ DOMAIN stack' = 1 .. n - 1
      /\ \A i \in 1 .. n - 1 : stack'[i] = stack[i]
      /\ Exits' = Exits \ {n}
  BY <1>1, <1>2, Popped
<1> HIDE DEF n
<1>4. n \in Exits /\ Key = stack[n][1] /\ Exits \subseteq 1 .. n
  BY <1>1, <1>3 DEF Exits, Key
<1>5. Keys' = Keys /\ CallGraph' = CallGraph /\ EdgesRight'
  BY <1>1, SearchKeepsGraph
<1>6. SearchTypes'
  BY <1>1, <1>2, <1>3, <1>5 DEF SearchTypes, Searching
<1>7. Key \in active /\ Key \notin permanent
  BY <1>4 DEF SearchInv, ExitsAreActive
<1>8. ExitsAreActive'
  <2>1. ASSUME NEW i \in Exits'
        PROVE  i \in 1 .. n - 1 /\ stack'[i] = stack[i] /\ stack[i][1] # Key
    <3>1. i \in Exits /\ i # n
      BY <1>3
    <3>2. i \in 1 .. n - 1
      BY <1>3, <1>4, <3>1
    <3>3. stack[i][1] # Key
      BY <1>4, <3>1 DEF SearchInv, ExitsAreActive
    <3>4. QED
      BY <1>3, <3>2, <3>3
  <2>2. active' = {stack'[i][1] : i \in Exits'}
    <3>1. \A k \in active' : \E i \in Exits' : k = stack'[i][1]
      BY <1>1, <1>3, <1>4, <2>1 DEF SearchInv, ExitsAreActive
    <3>2. \A i \in Exits' : stack'[i][1] \in active'
      BY <1>1, <1>3, <2>1 DEF SearchInv, ExitsAreActive
    <3>3. QED
      BY <3>1, <3>2
  <2>3. \A i, j \in Exits' : stack'[i][1] = stack'[j][1] => i = j
    BY <1>3, <2>1 DEF SearchInv, ExitsAreActive
  <2>4. active' \cap permanent' = {}
    BY <1>1 DEF SearchInv, ExitsAreActive
  <2>5. QED
    BY <2>2, <2>3, <2>4 DEF ExitsAreActive
<1>9. ChainOfCalls'
  <2>1. ASSUME NEW i \in Exits', NEW j \in DOMAIN stack',
               i < j, \A l \in Exits' : l <= i \/ j <= l
        PROVE  stack[j][1] \in CallGraph[stack[i][1]]
    <3>1. i \in Exits /\ j \in DOMAIN stack /\ j <= n
      BY <1>3
    <3>2. \A l \in Exits : l <= i \/ j <= l
      BY <1>3, <2>1, <3>1
    <3>3. QED
      BY <2>1, <3>1, <3>2 DEF SearchInv, ChainOfCalls
  <2>2. \A i \in Exits' : i \in DOMAIN stack'
    BY <1>3, <1>4
  <2>3. QED
    BY <1>3, <1>5, <2>1, <2>2 DEF ChainOfCalls
<1>10. ReachedFromActive'
  BY <1>3, <1>4, <1>5 DEF SearchInv, ReachedFromActive
<1>11. EntriesBelow'
  <2>1. ASSUME NEW i \in Exits', NEW j \in DOMAIN stack',
               ~stack'[j][2], stack'[i][1] = stack'[j][1]
        PROVE  j < i
    <3>1. /\ i \in Exits /\ j \in DOMAIN stack
          /\ stack'[i] = stack[i] /\ stack'[j] = stack[j]
      BY <1>3, <1>4
    <3>2. QED
      BY <2>1, <3>1 DEF SearchInv, EntriesBelow
  <2>2. QED
    BY <2>1 DEF EntriesBelow
<1>12. CallsPending'
  <2>1. ASSUME NEW i \in Exits', NEW k \in CallGraph[stack[i][1]]
        PROVE  k \in permanent' \cup reported'
                       \cup {stack'[j][1] : j \in i + 1 .. n - 1}
    <3>1. i \in Exits /\ i \in 1 .. n - 1
      BY <1>3, <1>4
    <3>2. k \in permanent \cup reported \/ \E j \in i + 1 .. n : k = stack[j][1]
      BY <1>3, <3>1 DEF SearchInv, CallsPending, n
    <3>3. CASE k \in permanent \cup reported
      BY <1>1, <3>3
    <3>4. ASSUME NEW j \in i + 1 .. n, k = stack[j][1]
          PROVE  k \in permanent' \cup {stack'[l][1] : l \in i + 1 .. n - 1}
      <4>1. CASE j = n
        BY <1>1, <1>4, <3>4, <4>1
      <4>2. CASE j # n
        <5>1. j \in i + 1 .. n - 1 /\ stack'[j] = stack[j]
          BY <1>3, <3>1, <4>2
        <5>2. QED
          BY <3>4, <5>1
      <4>3. QED
        BY <4>1, <4>2
    <3>5. QED
      BY <3>2, <3>3, <3>4
  <2>2. \A i \in Exits' : stack'[i] = stack[i]
    BY <1>3, <1>4
  <2>3. QED
    BY <1>3, <1>5, <2>1, <2>2 DEF CallsPending
<1>13. CallGraph[Key] \subseteq permanent \cup reported
  <2>1. n + 1 .. Len(stack) = {}
    BY <1>3 DEF n
  <2>2. QED
    BY <1>4, <2>1 DEF SearchInv, CallsPending
<1>14. CallsSearched'
  BY <1>1, <1>5, <1>13 DEF SearchInv, CallsSearched
<1>15. ReportsExact'
  <2>1. Acyclic(CallGraph, permanent' \ reported)
    <3>1. CASE Key \in reported
      <4>1. permanent' \ reported = permanent \ reported
        BY <1>1, <3>1
      <4>2. QED
        BY <4>1 DEF SearchInv, ReportsExact
    <3>2. CASE Key \notin reported
      <4> DEFINE searched == permanent \ reported
      <4>1. permanent' \ reported = searched \cup {Key}
        BY <1>1, <3>2
      <4>2. \A l \in searched \cup {Key} : Key \notin CallGraph[l]
        BY <1>7, <1>13, <3>2 DEF SearchInv, CallsSearched
      <4>3. Acyclic(CallGraph, searched)
        BY DEF SearchInv, ReportsExact
      <4>4. QED
        <5> HIDE DEF searched
        <5>1. Acyclic(CallGraph, searched \cup {Key})
          BY <4>2, <4>3, AcyclicExtends
        <5>2. QED
          BY <4>1, <5>1
    <3>3. QED
      BY <3>1, <3>2
  <2>2. QED
    BY <1>1, <1>5, <2>1 DEF SearchInv, ReportsExact
<1>16. MessagesRight'
  <2>1. \A k : CallsResolve(k)' = CallsResolve(k)
    BY <1>1, SameGraph
  <2>2. QED
    BY <1>1, <2>1 DEF SearchInv, MessagesRight
<1>17. QED
  BY <1>5, <1>6, <1>8, <1>9, <1>10, <1>11, <1>12, <1>14, <1>15, <1>16 DEF SearchInv

\* Passing over an entry of a function that was searched since.
LEMMA SkipStep == SearchInv /\ Skip => SearchInv'
<1> SUFFICES ASSUME SearchInv, Skip PROVE SearchInv'
  OBVIOUS
<1> DEFINE n == Len(stack)
<1>1. /\ stack # <<>> /\ ~Top[2] /\ Key \in permanent /\ stack' = Front(stack)
      /\ UNCHANGED <<schema, edges, active, permanent, diagnostics, reported>>
  BY DEF Skip
<1>2. SearchTypes
  BY DEF SearchInv
<1>3. /\ n \in Nat \ {0} /\ DOMAIN stack = 1 .. n
      /\ Top = stack[n] /\ Key \in Keys
      /\ stack' \in Seq(Keys \X BOOLEAN)
      /\ Len(stack') = n - 1 /\ DOMAIN stack' = 1 .. n - 1
      /\ \A i \in 1 .. n - 1 : stack'[i] = stack[i]
      /\ Exits' = Exits \ {n}
  BY <1>1, <1>2, Popped
<1> HIDE DEF n
<1>4. Exits' = Exits /\ Key = stack[n][1] /\ Exits \subseteq 1 .. n - 1
  BY <1>1, <1>3 DEF Exits, Key
<1>5. Keys' = Keys /\ CallGraph' = CallGraph /\ EdgesRight'
  BY <1>1, SearchKeepsGraph
<1>6. SearchTypes'
  BY <1>1, <1>2, <1>3, <1>5 DEF SearchTypes, Searching
<1>7. \A i \in Exits : stack'[i] = stack[i]
  BY <1>3, <1>4
<1>8. ExitsAreActive'
  <2>1. active' = {stack'[i][1] : i \in Exits'}
    <3>1. active = {stack[i][1] : i \in Exits}
      BY DEF SearchInv, ExitsAreActive
    <3>2. QED
      BY <1>1, <1>4, <1>7, <3>1
  <2>2. \A i, j \in Exits' : stack'[i][1] = stack'[j][1] => i = j
    BY <1>4, <1>7 DEF SearchInv, ExitsAreActive
  <2>3. active' \cap permanent' = {}
    BY <1>1 DEF SearchInv, ExitsAreActive
  <2>4. QED
    BY <2>1, <2>2, <2>3 DEF ExitsAreActive
<1>9. ChainOfCalls'
  <2>1. ASSUME NEW i \in Exits, NEW j \in DOMAIN stack',
               i < j, \A l \in Exits : l <= i \/ j <= l
        PROVE  stack'[j][1] \in CallGraph[stack'[i][1]]
    <3>1. j \in DOMAIN stack /\ stack'[j] = stack[j]
      BY <1>3
    <3>2. QED
      BY <1>7, <2>1, <3>1 DEF SearchInv, ChainOfCalls
  <2>2. QED
    BY <1>4, <1>5, <2>1 DEF ChainOfCalls
<1>10. ReachedFromActive'
  BY <1>3, <1>4, <1>5, <1>7 DEF SearchInv, ReachedFromActive
<1>11. EntriesBelow'
  <2>1. ASSUME NEW i \in Exits, NEW j \in DOMAIN stack',
               ~stack'[j][2], stack'[i][1] = stack'[j][1]
        PROVE  j < i
    <3>1. j \in DOMAIN stack /\ stack'[j] = stack[j]
      BY <1>3
    <3>2. QED
      BY <1>7, <2>1, <3>1 DEF SearchInv, EntriesBelow
  <2>2. QED
    BY <1>4, <2>1 DEF EntriesBelow
<1>12. CallsPending'
  <2>1. ASSUME NEW i \in Exits, NEW k \in CallGraph[stack[i][1]]
        PROVE  k \in permanent \cup reported
                       \cup {stack'[j][1] : j \in i + 1 .. n - 1}
    <3>1. k \in permanent \cup reported \/ \E j \in i + 1 .. n : k = stack[j][1]
      BY DEF SearchInv, CallsPending, n
    <3>2. CASE k \in permanent \cup reported
      BY <3>2
    <3>3. ASSUME NEW j \in i + 1 .. n, k = stack[j][1]
          PROVE  k \in permanent \cup {stack'[l][1] : l \in i + 1 .. n - 1}
      <4>1. CASE j = n
        BY <1>1, <1>4, <3>3, <4>1
      <4>2. CASE j # n
        <5>1. j \in i + 1 .. n - 1 /\ stack'[j] = stack[j]
          BY <1>3, <1>4, <4>2
        <5>2. QED
          BY <3>3, <5>1
      <4>3. QED
        BY <4>1, <4>2
    <3>4. QED
      BY <3>1, <3>2, <3>3
  <2>2. QED
    BY <1>1, <1>3, <1>4, <1>5, <1>7, <2>1 DEF CallsPending
<1>13. CallsSearched' /\ ReportsExact' /\ MessagesRight'
  <2>1. \A k : CallsResolve(k)' = CallsResolve(k)
    BY <1>1, SameGraph
  <2>2. QED
    BY <1>1, <1>5, <2>1 DEF SearchInv, CallsSearched, ReportsExact, MessagesRight
<1>14. QED
  BY <1>5, <1>6, <1>8, <1>9, <1>10, <1>11, <1>12, <1>13 DEF SearchInv

\* The stack after a function is entered: its exit entry in the place of the
\* entry that was on top, the calls that are to be searched above it.
LEMMA Entered ==
  ASSUME SearchTypes, stack # <<>>, NEW deeper \in Seq(Keys),
         stack' = Front(stack) \o Entries(Key, deeper)
  PROVE  /\ Len(stack) \in Nat \ {0} /\ DOMAIN stack = 1 .. Len(stack)
         /\ Top = stack[Len(stack)] /\ Key \in Keys /\ Len(deeper) \in Nat
         /\ stack' \in Seq(Keys \X BOOLEAN)
         /\ Len(stack') = Len(stack) + Len(deeper)
         /\ DOMAIN stack' = 1 .. Len(stack) + Len(deeper)
         /\ \A i \in 1 .. Len(stack) - 1 : stack'[i] = stack[i]
         /\ stack'[Len(stack)] = <<Key, TRUE>>
         /\ \A i \in Len(stack) + 1 .. Len(stack) + Len(deeper) :
              stack'[i] = <<deeper[i - Len(stack)], FALSE>>
<1> DEFINE Entry == Keys \X BOOLEAN
           n == Len(stack)
           m == Len(deeper)
           front == Front(stack)
           above == Entries(Key, deeper)
           top == <<Key, TRUE>>
           rest == [i \in DOMAIN deeper |-> <<deeper[i], FALSE>>]
<1>1. /\ stack \in Seq(Entry)
      /\ n \in Nat \ {0} /\ DOMAIN stack = 1 .. n
      /\ Top = stack[n]
  BY LenProperties, EmptySeq DEF SearchTypes, Top, Last
<1>2. Key \in Keys /\ top \in Entry
  <2>1. stack[n] \in Entry
    <3> HIDE DEF Entry
    <3>1. QED
      BY <1>1, ElementOfSeq
  <2>2. Key \in Keys
    BY <1>1, <2>1 DEF Key
  <2>3. QED
    BY <2>2
<1>3. front \in Seq(Entry) /\ Len(front) = n - 1 /\ \A i \in 1 .. n - 1 : front[i] = stack[i]
  <2>1. front = SubSeq(stack, 1, n - 1)
    BY DEF Front
  <2> HIDE DEF front, Entry
  <2>2. QED
    BY <1>1, <2>1, SubSeqProperties, LenProperties
<1>4. m \in Nat /\ DOMAIN deeper = 1 .. m /\ \A i \in 1 .. m : deeper[i] \in Keys
  BY LenProperties, ElementOfSeq
<1>5. rest \in Seq(Entry) /\ Len(rest) = m /\ \A i \in 1 .. m : rest[i] = <<deeper[i], FALSE>>
  <2>1. \A i \in 1 .. m : <<deeper[i], FALSE>> \in Entry
    BY <1>4
  <2>2. rest = [i \in 1 .. m |-> <<deeper[i], FALSE>>]
    BY <1>4
  <2> HIDE DEF rest, Entry
  <2>3. rest \in Seq(Entry)
    <3>1. rest \in [1 .. m -> Entry]
      BY <2>1, <2>2
    <3>2. QED
      BY <1>4, <3>1
  <2>4. Len(rest) = m
    BY <1>4, <2>2, <2>3, LenProperties
  <2>5. QED
    BY <2>2, <2>3, <2>4
<1>6. above = <<top>> \o rest
  BY DEF Entries
<1>7. <<top>> \in Seq(Entry) /\ Len(<<top>>) = 1 /\ <<top>>[1] = top
  <2> HIDE DEF top, Entry
  <2>1. QED
    BY <1>2
<1> HIDE DEF Entry, front, rest, top
<1>8. /\ above \in Seq(Entry) /\ Len(above) = m + 1 /\ above[1] = top
      /\ \A i \in 2 .. m + 1 : above[i] = rest[i - 1]
  <2> HIDE DEF above, m, n
  <2>1. QED
    BY <1>4, <1>5, <1>6, <1>7, ConcatProperties
<1>9. stack' = front \o above
  BY DEF front
<1> HIDE DEF above, m, n
<1>10. /\ stack' \in Seq(Entry) /\ Len(stack') = n + m
       /\ \A i \in 1 .. n - 1 : stack'[i] = front[i]
       /\ \A i \in n .. n + m : stack'[i] = above[i - n + 1]
  <2>1. /\ stack' \in Seq(Entry)
        /\ Len(stack') = Len(front) + Len(above)
        /\ \A i \in 1 .. Len(front) + Len(above) :
             stack'[i] = IF i <= Len(front) THEN front[i] ELSE above[i - Len(front)]
    <3>1. front \in Seq(Entry) /\ above \in Seq(Entry)
      BY <1>3, <1>8
    <3>2. /\ front \o above \in Seq(Entry)
          /\ Len(front \o above) = Len(front) + Len(above)
          /\ \A i \in 1 .. Len(front) + Len(above) :
               (front \o above)[i]
                 = IF i <= Len(front) THEN front[i] ELSE above[i - Len(front)]
      BY <3>1, ConcatProperties
    <3>3. QED
      BY <1>9, <3>2
  <2>2. Len(front) + Len(above) = n + m
    BY <1>1, <1>3, <1>4, <1>8
  <2>3. ASSUME NEW i \in 1 .. n - 1 PROVE stack'[i] = front[i]
    <3>1. i \in 1 .. n + m /\ i <= n - 1
      BY <1>1, <1>4
    <3>2. QED
      BY <1>3, <2>1, <2>2, <3>1
  <2>4. ASSUME NEW i \in n .. n + m PROVE stack'[i] = above[i - n + 1]
    <3>1. i \in 1 .. n + m /\ ~(i <= n - 1) /\ i - (n - 1) = i - n + 1
      BY <1>1, <1>4
    <3>2. QED
      BY <1>3, <2>1, <2>2, <3>1
  <2>5. QED
    BY <2>1, <2>2, <2>3, <2>4
<1>11. Len(stack') = n + m /\ DOMAIN stack' = 1 .. n + m
  <2>1. DOMAIN stack' = 1 .. Len(stack')
    BY <1>10, LenProperties
  <2>2. QED
    BY <1>10, <2>1
<1>12. stack'[n] = top
  BY <1>1, <1>4, <1>8, <1>10
<1>13. \A i \in n + 1 .. n + m : stack'[i] = <<deeper[i - n], FALSE>>
  <2>1. ASSUME NEW i \in n + 1 .. n + m PROVE stack'[i] = rest[i - n]
    <3>1. stack'[i] = above[i - n + 1]
      <4>1. i \in n .. n + m
        BY <1>1, <1>4
      <4>2. QED
        BY <1>10, <4>1
    <3>2. i - n + 1 \in 2 .. m + 1 /\ (i - n + 1) - 1 = i - n
      BY <1>1, <1>4
    <3>3. QED
      BY <1>8, <3>1, <3>2
  <2>2. \A i \in n + 1 .. n + m : i - n \in 1 .. m
    BY <1>1, <1>4
  <2>3. \A i \in n + 1 .. n + m : rest[i - n] = <<deeper[i - n], FALSE>>
    BY <1>5, <2>2
  <2>4. QED
    BY <2>1, <2>3
<1>14. QED
  BY <1>1, <1>2, <1>3, <1>4, <1>10, <1>11, <1>12, <1>13 DEF n, m, top, Entry

\* Entering a function.
LEMMA VisitStep == SearchInv /\ Visit => SearchInv'
<1> SUFFICES ASSUME SearchInv, Visit PROVE SearchInv'
  OBVIOUS
<1> DEFINE n == Len(stack)
           last == Reverse(edges[Key])
           back == Keep(last, Path(Key))
           deeper == Keep(last, Keys \ (Path(Key) \cup permanent))
           m == Len(deeper)
           kinds == [i \in DOMAIN back |-> "recursive"]
<1>1. /\ stack # <<>> /\ ~Top[2] /\ Key \notin permanent /\ Key \notin active
      /\ stack' = Front(stack) \o Entries(Key, deeper)
      /\ diagnostics' = PushAll(kinds)
      /\ reported' = reported \cup ToSet(back)
      /\ active' = active \cup {Key}
      /\ UNCHANGED <<schema, edges, permanent>>
  BY DEF Visit
<1>2. SearchTypes
  BY DEF SearchInv
<1>3. Key \in Keys /\ DOMAIN edges = Keys
  <2>1. stack[Len(stack)] \in Keys \X BOOLEAN /\ Top = stack[Len(stack)]
    BY <1>1, <1>2, LenProperties, EmptySeq, ElementOfSeq DEF SearchTypes, Top, Last
  <2>2. QED
    BY <1>1, <1>2, <2>1 DEF Key, SearchTypes, Searching
<1>4. last \in Seq(Keys) /\ ToSet(last) = CallGraph[Key]
  BY <1>3, ReverseMembers DEF SearchInv, EdgesRight
<1> HIDE DEF last
<1>5. /\ back \in Seq(Keys) /\ ToSet(back) = CallGraph[Key] \cap (active \cup {Key})
      /\ deeper \in Seq(Keys)
      /\ ToSet(deeper) = CallGraph[Key] \ (active \cup {Key} \cup permanent)
  <2>1. back \in Seq(Keys) /\ ToSet(back) = CallGraph[Key] \cap (active \cup {Key})
    BY <1>4, KeepMembers DEF Path
  <2>2. /\ deeper \in Seq(Keys)
        /\ ToSet(deeper) = ToSet(last) \cap (Keys \ (Path(Key) \cup permanent))
    BY <1>4, KeepMembers
  <2>3. ToSet(last) \subseteq Keys
    BY <1>2, <1>3, <1>4, SchemaTypes DEF SearchTypes
  <2>4. ToSet(deeper) = CallGraph[Key] \ (active \cup {Key} \cup permanent)
    <3> HIDE DEF deeper
    <3>1. QED
      BY <1>4, <2>2, <2>3 DEF Path
  <2>5. QED
    BY <2>1, <2>2, <2>4
<1> HIDE DEF back, deeper
<1>6. /\ n \in Nat \ {0} /\ DOMAIN stack = 1 .. n
      /\ Top = stack[n] /\ Key = stack[n][1] /\ m \in Nat
      /\ stack' \in Seq(Keys \X BOOLEAN)
      /\ Len(stack') = n + m /\ DOMAIN stack' = 1 .. n + m
      /\ \A i \in 1 .. n - 1 : stack'[i] = stack[i]
      /\ stack'[n][1] = Key /\ stack'[n][2] = TRUE
      /\ \A i \in n + 1 .. n + m :
           stack'[i][1] = deeper[i - n] /\ stack'[i][2] = FALSE
  <2>1. /\ n \in Nat \ {0} /\ DOMAIN stack = 1 .. n
        /\ Top = stack[n] /\ Key = stack[n][1] /\ m \in Nat
        /\ stack' \in Seq(Keys \X BOOLEAN)
        /\ Len(stack') = n + m /\ DOMAIN stack' = 1 .. n + m
        /\ \A i \in 1 .. n - 1 : stack'[i] = stack[i]
        /\ stack'[n] = <<Key, TRUE>>
        /\ \A i \in n + 1 .. n + m : stack'[i] = <<deeper[i - n], FALSE>>
    BY <1>1, <1>2, <1>5, Entered DEF Key
  <2>2. \A e, k, b : e = <<k, b>> => e[1] = k /\ e[2] = b
    OBVIOUS
  <2> HIDE DEF n, m
  <2>3. stack'[n][1] = Key /\ stack'[n][2] = TRUE
    BY <2>1, <2>2
  <2>4. ASSUME NEW i \in n + 1 .. n + m
        PROVE  stack'[i][1] = deeper[i - n] /\ stack'[i][2] = FALSE
    <3>1. stack'[i] = <<deeper[i - n], FALSE>>
      BY <2>1
    <3>2. QED
      BY <2>2, <3>1
  <2>5. QED
    BY <2>1, <2>3, <2>4
<1>7. /\ \A i \in n + 1 .. n + m : /\ stack'[i][1] \in ToSet(deeper)
                                    /\ stack'[i][2] = FALSE
      /\ \A k \in ToSet(deeper) : \E i \in n + 1 .. n + m : stack'[i][1] = k
  <2>1. DOMAIN deeper = 1 .. m
    BY <1>5, LenProperties
  <2> HIDE DEF m, n
  <2>2. \A i \in n + 1 .. n + m : i - n \in 1 .. m
    BY <1>6
  <2>3. \A j \in 1 .. m : j + n \in n + 1 .. n + m /\ (j + n) - n = j
    BY <1>6
  <2>4. \A i \in n + 1 .. n + m : /\ stack'[i][1] \in ToSet(deeper)
                                   /\ stack'[i][2] = FALSE
    BY <1>6, <2>1, <2>2 DEF ToSet
  <2>5. ASSUME NEW k \in ToSet(deeper)
        PROVE  \E i \in n + 1 .. n + m : stack'[i][1] = k
    <3>1. PICK j \in 1 .. m : k = deeper[j]
      BY <2>1 DEF ToSet
    <3>2. j + n \in n + 1 .. n + m /\ stack'[j + n][1] = deeper[(j + n) - n]
      BY <1>6, <2>3
    <3>3. QED
      BY <2>3, <3>1, <3>2
  <2>6. QED
    BY <2>4, <2>5
<1> HIDE DEF n, m
<1>8. Exits \subseteq 1 .. n - 1 /\ Exits' = Exits \cup {n}
  <2>1. Exits \subseteq 1 .. n - 1
    BY <1>1, <1>6 DEF Exits
  <2>2. \A i \in 1 .. n + m : i \in Exits' <=> i \in Exits \/ i = n
    <3>1. ASSUME NEW i \in 1 .. n - 1 PROVE i \in Exits' <=> i \in Exits
      BY <1>6 DEF Exits
    <3>2. n \in Exits'
      BY <1>6 DEF Exits
    <3>3. ASSUME NEW i \in n + 1 .. n + m PROVE i \notin Exits'
      BY <1>7 DEF Exits
    <3>4. QED
      BY <1>6, <2>1, <3>1, <3>2, <3>3
  <2>3. Exits' \subseteq 1 .. n + m
    BY <1>6 DEF Exits
  <2>4. Exits \subseteq 1 .. n + m /\ n \in 1 .. n + m
    BY <1>6, <2>1
  <2>5. QED
    BY <2>1, <2>2, <2>3, <2>4
<1>9. Keys' = Keys /\ CallGraph' = CallGraph /\ EdgesRight'
  BY <1>1, SearchKeepsGraph
<1>10. kinds \in Seq(Kinds) /\ (kinds = <<>> <=> ToSet(back) = {})
  <2>1. Len(back) \in Nat /\ DOMAIN back = 1 .. Len(back)
    BY <1>5, LenProperties
  <2>2. "recursive" \in Kinds
    BY DEF Kinds
  <2>3. kinds \in Seq(Kinds) /\ Len(kinds) = Len(back)
    BY <2>1, <2>2
  <2>4. kinds = <<>> <=> Len(back) = 0
    BY <2>3, EmptySeq
  <2>5. ToSet(back) = {} <=> Len(back) = 0
    BY <1>5, EmptyMembers, EmptySeq
  <2>6. QED
    BY <2>3, <2>4, <2>5
<1> HIDE DEF kinds
<1>11. /\ diagnostics' \in Seq(Kinds)
       /\ diagnostics' = <<>> <=> diagnostics = <<>> /\ ToSet(back) = {}
  BY <1>1, <1>2, <1>10, PushAllKeeps DEF SearchTypes
<1>12. SearchTypes'
  BY <1>1, <1>2, <1>3, <1>5, <1>6, <1>9, <1>11 DEF SearchTypes, Searching
<1>13. \A i \in Exits : stack'[i] = stack[i]
  BY <1>6, <1>8
<1>14. ExitsAreActive'
  <2>1. active' = {stack'[i][1] : i \in Exits'}
    <3>1. active = {stack[i][1] : i \in Exits}
      BY DEF SearchInv, ExitsAreActive
    <3>2. ASSUME NEW k \in active' PROVE \E i \in Exits' : k = stack'[i][1]
      <4>1. CASE k = Key
        BY <1>6, <1>8, <4>1
      <4>2. CASE k \in active
        <5>1. PICK i \in Exits : k = stack[i][1]
          BY <3>1, <4>2
        <5>2. i \in Exits' /\ stack'[i] = stack[i]
          BY <1>8, <1>13
        <5>3. QED
          BY <5>1, <5>2
      <4>3. QED
        BY <1>1, <4>1, <4>2
    <3>3. \A i \in Exits' : stack'[i][1] \in active'
      BY <1>1, <1>6, <1>8, <1>13, <3>1
    <3>4. QED
      BY <3>2, <3>3
  <2>2. \A i, j \in Exits' : stack'[i][1] = stack'[j][1] => i = j
    <3>1. \A i \in Exits : stack'[i][1] \in active
      BY <1>13 DEF SearchInv, ExitsAreActive
    <3>2. \A i \in Exits : stack'[i][1] # stack'[n][1]
      BY <1>1, <1>6, <3>1
    <3>3. \A i, j \in Exits : stack'[i][1] = stack'[j][1] => i = j
      BY <1>13 DEF SearchInv, ExitsAreActive
    <3>4. QED
      BY <1>8, <3>2, <3>3
  <2>3. active' \cap permanent' = {}
    BY <1>1 DEF SearchInv, ExitsAreActive
  <2>4. QED
    BY <2>1, <2>2, <2>3 DEF ExitsAreActive
<1>15. ChainOfCalls'
  <2>1. ASSUME NEW i \in Exits', NEW j \in DOMAIN stack',
               i < j, \A l \in Exits' : l <= i \/ j <= l
        PROVE  stack'[j][1] \in CallGraph[stack'[i][1]]
    <3>1. CASE j \in 1 .. n
      <4>1. i \in Exits /\ \A l \in Exits : l <= i \/ j <= l
        BY <1>6, <1>8, <2>1, <3>1
      <4>2. stack[j][1] \in CallGraph[stack[i][1]]
        BY <1>6, <2>1, <3>1, <4>1 DEF SearchInv, ChainOfCalls
      <4>3. stack'[j][1] = stack[j][1]
        BY <1>6, <3>1
      <4>4. QED
        BY <1>13, <4>1, <4>2, <4>3
    <3>2. CASE j \in n + 1 .. n + m
      <4>1. i = n
        <5>1. n \in Exits' /\ i \in Exits \cup {n} /\ n < j
          BY <1>6, <1>8, <3>2
        <5>2. n <= i
          BY <1>6, <2>1, <5>1
        <5>3. i \notin Exits
          BY <1>6, <1>8, <5>2
        <5>4. QED
          BY <5>1, <5>3
      <4>2. QED
        BY <1>5, <1>6, <1>7, <3>2, <4>1
    <3>3. QED
      BY <1>6, <3>1, <3>2
  <2>2. QED
    BY <1>9, <2>1 DEF ChainOfCalls
<1>16. CallGraph \in [Keys -> SUBSET Keys] /\ \A i \in Exits : stack[i][1] \in Keys
  <2>1. \A i \in 1 .. n : stack[i][1] \in Keys
    BY <1>2, <1>6, ElementOfSeq DEF SearchTypes, n
  <2>2. QED
    BY <1>2, <1>6, <1>8, <2>1, SchemaTypes DEF SearchTypes
<1>17. \A i \in Exits : Reaches(CallGraph, stack[i][1], Key)
  BY <1>6, <1>8 DEF SearchInv, ReachedFromActive
<1>18. ReachedFromActive'
  <2>1. ASSUME NEW i \in Exits', NEW j \in DOMAIN stack', i < j
        PROVE  Reaches(CallGraph, stack'[i][1], stack'[j][1])
    <3>1. CASE j \in 1 .. n
      <4>1. i \in Exits /\ stack'[j][1] = stack[j][1]
        BY <1>6, <1>8, <2>1, <3>1
      <4>2. QED
        BY <1>6, <1>13, <2>1, <3>1, <4>1 DEF SearchInv, ReachedFromActive
    <3>2. CASE j \in n + 1 .. n + m
      <4>1. stack'[j][1] \in CallGraph[Key]
        BY <1>5, <1>7, <3>2
      <4>2. CASE i = n
        BY <1>3, <1>6, <1>16, <4>1, <4>2, ReachesCalls
      <4>3. CASE i \in Exits
        BY <1>3, <1>13, <1>16, <1>17, <4>1, <4>3, ReachesCalls
      <4>4. QED
        BY <1>8, <4>2, <4>3
    <3>3. QED
      BY <1>6, <3>1, <3>2
  <2>2. QED
    BY <1>9, <2>1 DEF ReachedFromActive
<1>19. EntriesBelow'
  <2>1. ASSUME NEW i \in Exits', NEW j \in DOMAIN stack',
               ~stack'[j][2], stack'[i][1] = stack'[j][1]
        PROVE  j < i
    <3>1. stack'[i][1] \in active \cup {Key}
      <4>1. \A l \in Exits : stack'[l][1] \in active
        BY <1>13 DEF SearchInv, ExitsAreActive
      <4>2. QED
        BY <1>6, <1>8, <4>1
    <3>2. CASE j \in 1 .. n - 1
      <4>1. CASE i = n
        BY <1>6, <3>2, <4>1
      <4>2. CASE i \in Exits
        BY <1>6, <1>13, <2>1, <3>2, <4>2 DEF SearchInv, EntriesBelow
      <4>3. QED
        BY <1>8, <4>1, <4>2
    <3>3. CASE j = n
      BY <1>6, <2>1, <3>3
    <3>4. CASE j \in n + 1 .. n + m
      BY <1>5, <1>7, <2>1, <3>1, <3>4
    <3>5. QED
      BY <1>6, <3>2, <3>3, <3>4
  <2>2. QED
    BY <2>1 DEF EntriesBelow
<1>20. CallsPending'
  <2>1. ASSUME NEW i \in Exits, NEW k \in CallGraph[stack[i][1]]
        PROVE  k \in permanent \cup reported
                       \cup {stack'[j][1] : j \in i + 1 .. n + m}
    <3>1. k \in permanent \cup reported \/ \E j \in i + 1 .. n : k = stack[j][1]
      BY DEF SearchInv, CallsPending, n
    <3>2. \A j \in i + 1 .. n : j \in i + 1 .. n + m /\ stack'[j][1] = stack[j][1]
      BY <1>6, <1>8
    <3>3. QED
      BY <3>1, <3>2
  <2>2. ASSUME NEW k \in CallGraph[Key]
        PROVE  k \in permanent \cup reported'
                       \cup {stack'[j][1] : j \in n + 1 .. n + m}
    <3>1. k \in ToSet(back) \/ k \in ToSet(deeper) \/ k \in permanent
      BY <1>5
    <3>2. QED
      BY <1>1, <1>7, <3>1
  <2>3. QED
    BY <1>1, <1>6, <1>8, <1>9, <1>13, <2>1, <2>2 DEF CallsPending
<1>21. CallsSearched'
  BY <1>1, <1>9 DEF SearchInv, CallsSearched
<1>22. ReportsExact'
  <2>1. ASSUME NEW k \in ToSet(back) PROVE Recursive(CallGraph, k)
    <3>1. k \in CallGraph[Key] /\ k \in active \cup {Key}
      BY <1>5
    <3>2. CASE k = Key
      BY <1>3, <1>16, <3>1, <3>2, ReachesCalls DEF Recursive
    <3>3. CASE k \in active
      <4>1. PICK i \in Exits : k = stack[i][1]
        BY <3>3 DEF SearchInv, ExitsAreActive
      <4>2. QED
        BY <1>3, <1>16, <1>17, <3>1, <4>1, ReachesCalls DEF Recursive
    <3>4. QED
      BY <3>1, <3>2, <3>3
  <2>2. Acyclic(CallGraph, permanent \ reported')
    <3>1. permanent \ reported' \subseteq permanent \ reported
      BY <1>1
    <3>2. QED
      BY <3>1, AcyclicSubset DEF SearchInv, ReportsExact
  <2>3. \A k \in reported' : Recursive(CallGraph, k)
    BY <1>1, <2>1 DEF SearchInv, ReportsExact
  <2>4. QED
    BY <1>1, <1>9, <2>2, <2>3 DEF ReportsExact
<1>23. MessagesRight'
  <2>1. \A k : CallsResolve(k)' = CallsResolve(k)
    BY <1>1, SameGraph
  <2>2. reported' = {} <=> reported = {} /\ ToSet(back) = {}
    BY <1>1
  <2>3. QED
    BY <1>1, <1>11, <2>1, <2>2 DEF SearchInv, MessagesRight
<1>24. QED
  BY <1>9, <1>12, <1>14, <1>15, <1>18, <1>19, <1>20, <1>21, <1>22, <1>23 DEF SearchInv

\* The invariant holds throughout.
LEMMA SearchInvariance == Spec => []SearchInv
<1>1. SearchInv /\ [Next]_vars => SearchInv'
  <2> SUFFICES ASSUME SearchInv, [Next]_vars PROVE SearchInv'
    OBVIOUS
  <2>1. CASE Resolve
    BY <2>1, ResolveStep
  <2>2. CASE Start
    BY <2>2, StartStep
  <2>3. CASE Exit
    BY <2>3, ExitStep
  <2>4. CASE Skip
    BY <2>4, SkipStep
  <2>5. CASE Visit
    BY <2>5, VisitStep
  <2>6. CASE UNCHANGED vars
    <3>1. /\ schema' = schema /\ edges' = edges /\ stack' = stack
          /\ active' = active /\ permanent' = permanent
          /\ diagnostics' = diagnostics /\ reported' = reported
      BY <2>6 DEF vars
    <3>2. /\ Keys' = Keys /\ CallGraph' = CallGraph
          /\ \A k : CallsResolve(k)' = CallsResolve(k)
      BY <3>1, SameGraph
    <3>3. Exits' = Exits
      BY <3>1 DEF Exits
    <3>4. SearchTypes' /\ EdgesRight' /\ CallsSearched' /\ ReportsExact'
          /\ MessagesRight'
      BY <3>1, <3>2 DEF SearchInv, SearchTypes, Searching, EdgesRight,
           CallsSearched, ReportsExact, MessagesRight
    <3>5. /\ ExitsAreActive' /\ ChainOfCalls' /\ ReachedFromActive'
          /\ EntriesBelow' /\ CallsPending'
      BY <3>1, <3>2, <3>3 DEF SearchInv, ExitsAreActive, ChainOfCalls,
           ReachedFromActive, EntriesBelow, CallsPending
    <3>6. QED
      BY <3>4, <3>5 DEF SearchInv
  <2>7. QED
    BY <2>1, <2>2, <2>3, <2>4, <2>5, <2>6 DEF Next, Finished
<1>2. QED
  BY <1>1, InitSearch, PTL DEF Spec

-----------------------------------------------------------------------------
(* Theorems *)

\* The active functions are at all times a chain of calls, each with one exit
\* entry on the stack.
THEOREM ActiveTheorem == Spec => []ActiveIsPath
<1>1. SearchInv => ActiveIsPath
  <2> SUFFICES ASSUME SearchInv PROVE ActiveIsPath
    OBVIOUS
  <2>1. \A j \in Exits : j \in DOMAIN stack
    BY DEF Exits
  <2>2. QED
    BY <2>1 DEF SearchInv, ExitsAreActive, ChainOfCalls, ActiveIsPath
<1>2. QED
  BY <1>1, SearchInvariance, PTL

\* A function is reported only when its calls lead back to it, and the functions
\* searched without a report call one another in no circle.
THEOREM ReportsTheorem == Spec => []ReportsExact
<1>1. SearchInv => ReportsExact
  BY DEF SearchInv
<1>2. QED
  BY <1>1, SearchInvariance, PTL

\* When the search is over the analysis goes on exactly when no function is
\* recursive and every call resolves, whatever the limits on messages.
THEOREM VerdictTheorem == Spec => []VerdictExact
<1>1. SearchInv => VerdictExact
  <2> SUFFICES ASSUME SearchInv, Done
               PROVE  diagnostics = <<>>
                        <=> Acyclic(CallGraph, Keys) /\ \A k \in Keys : CallsResolve(k)
    BY DEF VerdictExact, CallsResolve
  <2>1. DOMAIN edges = Keys /\ permanent = Keys
    BY DEF Done, Searching
  <2>2. CallGraph \in [Keys -> SUBSET Keys] /\ reported \subseteq Keys
    BY SchemaTypes DEF SearchInv, SearchTypes
  <2>3. ASSUME reported = {} PROVE Acyclic(CallGraph, Keys)
    <3>1. Keys \ {} = Keys
      OBVIOUS
    <3>2. QED
      BY <2>1, <2>3, <3>1 DEF SearchInv, ReportsExact
  <2>4. ASSUME NEW k \in reported PROVE ~Acyclic(CallGraph, Keys)
    <3>1. Recursive(CallGraph, k) /\ k \in Keys
      BY <2>2 DEF SearchInv, ReportsExact
    <3>2. QED
      BY <2>2, <3>1, RecursionIsCyclic
  <2>5. reported = {} <=> Acyclic(CallGraph, Keys)
    BY <2>3, <2>4
  <2>6. QED
    BY <2>1, <2>5 DEF SearchInv, MessagesRight
<1>2. QED
  BY <1>1, SearchInvariance, PTL

\* The entry of an active function never comes to the top of the stack: the
\* branch of the code that would report it there is dead, and the report comes
\* from the edge.
THEOREM NoActiveEntryTheorem ==
  Spec => [](stack # <<>> /\ ~Top[2] => Key \notin active)
<1>1. SearchInv => (stack # <<>> /\ ~Top[2] => Key \notin active)
  <2> SUFFICES ASSUME SearchInv, stack # <<>>, ~Top[2], Key \in active PROVE FALSE
    OBVIOUS
  <2>1. Len(stack) \in Nat \ {0} /\ DOMAIN stack = 1 .. Len(stack)
        /\ Top = stack[Len(stack)]
    BY LenProperties, EmptySeq DEF SearchInv, SearchTypes, Top, Last
  <2>2. PICK i \in Exits : Key = stack[i][1]
    BY DEF SearchInv, ExitsAreActive
  <2>3. i \in 1 .. Len(stack)
    BY <2>1 DEF Exits
  <2>4. Len(stack) < i
    BY <2>1, <2>2 DEF SearchInv, EntriesBelow, Key
  <2>5. QED
    BY <2>1, <2>3, <2>4
<1>2. QED
  BY <1>1, SearchInvariance, PTL
=============================================================================
